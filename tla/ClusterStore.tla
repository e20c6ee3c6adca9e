---------------------------- MODULE ClusterStore ----------------------------
(***************************************************************************)
(* What the FAT owes the files of a volume: each file has a chain of       *)
(* clusters, no cluster belongs to two of them or twice to one, a growing  *)
(* file keeps what it has, a shrinking one keeps a prefix, and whoever     *)
(* opens a file sees its chain.  A call that fails costs its own file at   *)
(* most: nothing is promised for the files in "failed".                    *)
(***************************************************************************)
EXTENDS Naturals, Sequences, Functions

CONSTANTS Files, Clusters, Closed

VARIABLES
    chains,     \* the chain of each file, <<>> if it has none
    view,       \* the chain the handle of a file goes by, or Closed
    failed      \* the files a call has failed on

vars == <<chains, view, failed>>

Used == UNION {Range(chains[f]) : f \in Files \ failed}

Init == /\ chains = [f \in Files |-> <<>>]
        /\ view = [f \in Files |-> Closed]
        /\ failed = {}

IsStartOf(s, t) == Len(s) <= Len(t) /\ \A i \in 1..Len(s) : t[i] = s[i]

Shrinks(f, new) == IsStartOf(new, chains[f])

Grows(f, new) ==
    /\ IsStartOf(chains[f], new)
    /\ \A i \in Len(chains[f]) + 1..Len(new) :
         /\ new[i] \in Clusters \ Used
         /\ \A j \in 1..Len(new) : new[i] = new[j] => i = j

Only(f) == /\ chains' = [chains EXCEPT ![f] = chains'[f]]
           /\ view' = [view EXCEPT ![f] = view'[f]]

Step(f) == /\ f \notin failed /\ UNCHANGED failed /\ Only(f)
           /\ Shrinks(f, chains'[f]) \/ Grows(f, chains'[f])
           /\ view'[f] \in {Closed, chains'[f]}

Fail(f) == failed' = failed \cup {f} /\ Only(f)

Next == \E f \in Files : Step(f) \/ Fail(f)

Spec == Init /\ [][Next]_vars
=============================================================================
