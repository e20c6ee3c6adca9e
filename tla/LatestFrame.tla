---------------------------- MODULE LatestFrame ----------------------------
(* What a libuvc stream promises to its one listener: a mailbox that keeps *)
(* the latest frame.  Frames are numbered as they are published; the       *)
(* listener takes the newest one, never the same one twice and never an    *)
(* older one than before, and may miss frames in between.  Opening the     *)
(* mailbox starts the numbering again.                                     *)
EXTENDS Naturals

VARIABLES
    open,        \* whether there is a stream
    published,   \* number of the newest frame, 0 before the first
    taken        \* number of the frame the listener took last, 0 at first

vars == <<open, published, taken>>

Init == ~open /\ published = 0 /\ taken = 0

Open == ~open /\ open' = TRUE /\ published' = 0 /\ taken' = 0

Publish == /\ open /\ published' = published + 1
           /\ UNCHANGED <<open, taken>>

Take == /\ open /\ taken < published /\ taken' = published
        /\ UNCHANGED <<open, published>>

Close == open /\ open' = FALSE /\ UNCHANGED <<published, taken>>

Next == Open \/ Publish \/ Take \/ Close

Spec == Init /\ [][Next]_vars
=============================================================================
