--------------------------- MODULE ScsiBlockDevice ---------------------------
(***************************************************************************)
(* One SCSI command over the bulk-only transport (libaums,                 *)
(* driver/scsi/ScsiBlockDevice.transferCommand): the command goes out, the *)
(* data goes out or comes in in one transfer or several, and the status    *)
(* comes in.                                                               *)
(*                                                                         *)
(* The device is external.  It takes a command when it has nothing left to *)
(* send or to take, and may answer with a failed status.  Any transfer may *)
(* fail, or time out: what the device had to send stays where it is, and a *)
(* device that waits for data goes on waiting and takes whatever is sent   *)
(* next for it, a command as well.  The host logs a command that did not   *)
(* go out, a missing status and a failed one, and goes on.  Tags tell      *)
(* nothing: every command has tag 0, setdCbwTag is never called.           *)
(*                                                                         *)
(* A byte is known by the place it is meant for and by the call that wrote *)
(* it, so that a byte that ends up elsewhere can be told.                  *)
(***************************************************************************)
EXTENDS Naturals, Sequences

CONSTANTS
    BlockSize,
    LastBlock,          \* the blocks of the device are 0..LastBlock
    Versions,           \* who wrote a byte
    OldVersion,
    Padding, Junk,      \* a byte of an unwritten buffer, of a failed command
    StatusByte,         \* a status read as data; it is shorter than a block
    CommandByte,        \* a command taken for data; it is shorter, too
    MaxLate             \* bound: transfers that fail or time out

ASSUME SizeAssumption ==
    BlockSize \in Nat \ {0, 1} /\ LastBlock \in Nat /\ MaxLate \in Nat
ASSUME VersionAssumption == OldVersion \notin Versions

Positions == 0..(LastBlock + 1) * BlockSize - 1
Byte == (Positions \X (Versions \cup {OldVersion}))
          \cup {Padding, Junk, StatusByte, CommandByte}

VARIABLES
    device,     \* the bytes stored
    taking,     \* the write whose data the device expects (its first block,
                \* its size and what has come), or <<>>
    answers,    \* what the device still has to send: data and statuses
    command,    \* the command in progress: direction, first block, buffer
    moved,      \* the local read or written: bytes of the buffer moved
    step,       \* "none", "command", "data", "status", "done", "threw"
    csw,        \* cswBuffer: whether the last status received is passed
    late        \* transfers that have failed or timed out

scsiVars == <<device, taking, answers, command, moved, step, csw, late>>

NoCommand == [dir |-> "in", block |-> 0, buffer |-> <<>>]

Start(b) == b * BlockSize
Size == Len(command.buffer)

(* The bytes of the device that a command is about.                        *)
Stored(c) == [i \in 1..Len(c.buffer) |-> device[Start(c.block) + i - 1]]

ScsiInit ==
    /\ device = [p \in Positions |-> <<p, OldVersion>>]
    /\ taking = <<>> /\ answers = <<>>
    /\ command = NoCommand /\ moved = 0 /\ step = "none"
    /\ csw = TRUE /\ late = 0

(* read and write make a command of one direction for whole blocks.        *)
Issue(dir, block, buffer) ==
    /\ command' = [dir |-> dir, block |-> block, buffer |-> buffer]
    /\ moved' = 0 /\ step' = "command"
    /\ UNCHANGED <<device, taking, answers, csw, late>>

-----------------------------------------------------------------------------
(* The device's answer to a command it takes.                              *)

DataAnswer(bytes) == [kind |-> "data", bytes |-> bytes]
StatusAnswer(ok) == [kind |-> "status", ok |-> ok]

Ready == taking = <<>> /\ answers = <<>>

Accept ==
    IF command.dir = "out"
      THEN /\ taking' = <<[block |-> command.block, size |-> Size,
                           bytes |-> <<>>]>>
           /\ UNCHANGED answers
      ELSE /\ \E ok \in BOOLEAN :
                answers' =
                  <<DataAnswer(IF ok THEN Stored(command)
                               ELSE [i \in 1..Size |-> Junk]), StatusAnswer(ok)>>
           /\ UNCHANGED taking

(* How many bytes a waiting device still expects.                          *)
Expected == Head(taking).size - Len(Head(taking).bytes)

(* What the device stores when it carries out a write of these bytes.      *)
StoredWith(block, bytes) ==
    [p \in Positions |->
       IF p \in Start(block)..Start(block) + Len(bytes) - 1
         THEN bytes[p - Start(block) + 1] ELSE device[p]]

(* A waiting device takes bytes.  With the last one it carries the write   *)
(* out or refuses it, and has a status to send.                            *)
Take(bytes) ==
    LET all == Head(taking).bytes \o bytes
    IN  IF Len(bytes) < Expected
          THEN /\ taking' = <<[Head(taking) EXCEPT !.bytes = all]>>
               /\ UNCHANGED <<device, answers>>
          ELSE /\ taking' = <<>>
               /\ \E ok \in BOOLEAN :
                    /\ answers' = <<StatusAnswer(ok)>>
                    /\ device' = IF ok THEN StoredWith(Head(taking).block, all)
                                 ELSE device

(* A transfer that fails, or times out.                                    *)
Late == late < MaxLate /\ late' = late + 1

(* The command goes out.  One that fails or is not taken is only logged.   *)
SendCommand ==
    /\ step = "command"
    /\ \/ Ready /\ Accept /\ UNCHANGED <<device, late>>
       \/ taking # <<>> /\ Take(<<CommandByte>>) /\ UNCHANGED late
       \/ answers # <<>> /\ UNCHANGED <<device, taking, answers, late>>
       \/ Late /\ UNCHANGED <<device, taking, answers>>
    /\ step' = "data"
    /\ UNCHANGED <<command, moved, csw>>

-----------------------------------------------------------------------------
(* The transfers of the data                                               *)

Throw == step' = "threw"

Moved(n) == /\ moved' = moved + n
            /\ step' = IF moved + n < Size THEN "data" ELSE "status"

(* Mistake: each transfer is stored at the start of the buffer.            *)
FilledFromStart(bytes) ==
    [i \in 1..Size |-> IF i <= Len(bytes) THEN bytes[i] ELSE command.buffer[i]]

(* The buffer with bytes stored behind those that have been read.          *)
Filled(bytes) ==
    [i \in 1..Size |-> IF i \in moved + 1..moved + Len(bytes)
                         THEN bytes[i - moved] ELSE command.buffer[i]]

(* Data that comes in one transfer or several; a status, left over from an *)
(* earlier command, is taken for data.                                     *)
DataIn ==
    /\ step = "data" /\ command.dir = "in"
    /\ IF answers = <<>> THEN Throw /\ UNCHANGED <<answers, command, moved>>
       ELSE LET a == Head(answers)
                bytes == IF a.kind = "data" THEN a.bytes ELSE <<StatusByte>>
            IN \E n \in 1..Len(bytes) :
                 /\ n <= Size - moved
                 /\ command' = [command EXCEPT !.buffer =
                                  Filled(SubSeq(bytes, 1, n))]
                 /\ answers' =
                      IF n = Len(bytes) THEN Tail(answers)
                      ELSE <<DataAnswer(SubSeq(bytes, n + 1, Len(bytes)))>>
                             \o Tail(answers)
                 /\ Moved(n)
    /\ UNCHANGED <<device, taking, csw, late>>

(* The next n bytes of the buffer.                                         *)
NextBytes(n) == SubSeq(command.buffer, moved + 1, moved + n)

(* How many of them the device may take.                                   *)
Taken == {n \in 0..Size - moved : n <= Expected}

(* The device takes n more bytes, if it waits for some.                    *)
DataOut ==
    /\ step = "data" /\ command.dir = "out"
    /\ IF taking = <<>> THEN Throw /\ UNCHANGED <<device, taking, answers, moved>>
       ELSE \E n \in Taken \ {0} : Take(NextBytes(n)) /\ Moved(n)
    /\ UNCHANGED <<command, csw, late>>

(* The transfer fails; the device may have taken some of it.               *)
DataOutFails ==
    /\ step = "data" /\ command.dir = "out" /\ taking # <<>>
    /\ Late /\ Throw
    /\ \E n \in Taken : Take(NextBytes(n))
    /\ UNCHANGED <<command, moved, csw>>

(* The transfer fails although the device has something.                   *)
DataLate ==
    /\ step = "data" /\ command.dir = "in" /\ answers # <<>>
    /\ Late /\ Throw
    /\ UNCHANGED <<device, taking, answers, command, moved, csw>>

-----------------------------------------------------------------------------
(* The status                                                              *)

(* Whether there is a status to be read; data does not fit.                *)
StatusComes == answers # <<>> /\ Head(answers).kind = "status"

ReadStatus ==
    /\ step = "status"
    /\ step' = "done"
    /\ \/ /\ StatusComes
          /\ csw' = Head(answers).ok
          /\ answers' = Tail(answers)
          /\ UNCHANGED late
       \/ /\ IF StatusComes THEN Late ELSE UNCHANGED late
          /\ UNCHANGED <<csw, answers>>
    /\ UNCHANGED <<device, taking, command, moved>>

(* transferCommand's result: the status in the buffer, old or new.         *)
Passed == csw

Transfer == SendCommand \/ DataIn \/ DataOut \/ DataOutFails \/ DataLate \/ ReadStatus

ScsiTypeOK ==
    /\ device \in [Positions -> Byte]
    /\ Len(taking) <= 1
    /\ \A k \in DOMAIN taking :
         /\ taking[k].block \in 0..LastBlock /\ taking[k].size \in Nat
         /\ taking[k].bytes \in Seq(Byte) /\ Len(taking[k].bytes) < taking[k].size
    /\ Len(answers) <= 2
    /\ command.dir \in {"in", "out"} /\ command.block \in 0..LastBlock
    /\ command.buffer \in Seq(Byte) /\ Size % BlockSize = 0
    /\ moved <= Size
    /\ step \in {"none", "command", "data", "status", "done", "threw"}
    /\ csw \in BOOLEAN /\ late \in 0..MaxLate
=============================================================================
