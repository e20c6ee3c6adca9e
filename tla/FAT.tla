-------------------------------- MODULE FAT --------------------------------
(***************************************************************************)
(* The FAT of a FAT32 volume (libaums, fs/fat32/FAT.java) with its users:  *)
(* ClusterChain.setClusters, the info structure, and the calls of FatFile  *)
(* and FatDirectory that create, open, resize and delete a file.           *)
(*                                                                         *)
(* Nothing is concurrent here, but one call is many transfers: getChain,   *)
(* alloc and free read and write the table through a buffer of two blocks  *)
(* (the window), and every transfer may throw.  An action is one transfer  *)
(* with the code up to the next one.  An exception ends the call and       *)
(* leaves the table and the cached chains as they are.                     *)
(***************************************************************************)
EXTENDS Integers, Sequences, FiniteSets, Functions

CONSTANTS
    Files,
    LastCluster,      \* the clusters of the volume are 2..LastCluster
    LastEntry,        \* the last entry that can be read: the table is
                      \* followed by other entries, free ones or not
    PaddingMayBeFree,
    WindowSize,       \* the entries in two blocks of the device
    Skew,             \* entries of the first window before the table
    MaxLength,        \* bound: clusters of one file
    MayEmpty,         \* whether the client empties files and fills empty ones
    TransferMayFail,  \* whether a transfer may throw
    Closed, NoFile

Clusters == 2..LastCluster
Entries == 0..LastEntry
FAT32_EOF_CLUSTER == LastEntry + 1
Values == 0..FAT32_EOF_CLUSTER
INVALID_VALUE == -1
NoEntry == -1
NoWindow == -1

ASSUME TableAssumption ==
    /\ LastCluster \in Nat \ {0, 1} /\ LastEntry \in Nat
    /\ LastCluster <= LastEntry
    /\ WindowSize \in Nat \ {0} /\ Skew \in Nat
ASSUME BoundAssumption == MaxLength \in Nat
ASSUME SwitchAssumption ==
    /\ MayEmpty \in BOOLEAN /\ TransferMayFail \in BOOLEAN
    /\ PaddingMayBeFree \in BOOLEAN
ASSUME NameAssumption == NoFile \notin Files /\ Closed \notin Seq(Nat)

VARIABLES
    table,            \* the FAT on the device
    hint, freeCount,  \* the info structure
    start,            \* start cluster in each file's directory entry
    chain,            \* ClusterChain.chain of each file's handle
    pc, file, length, \* the call in progress, its file and the new length
    cursor, found,    \* currentCluster, result
    todo,             \* the entries the call still has to change
    window, buffer,   \* lastOffset, and the entries of that window
    kept,             \* history: each file's chain after its last call
    failed            \* history: the files a writing call has failed on

deviceVars == <<table, hint, freeCount>>
fileVars == <<start, chain, kept>>
callVars == <<pc, file, length>>
windowVars == <<window, buffer>>
vars ==
    <<deviceVars, fileVars, callVars, cursor, found, todo, windowVars, failed>>

FreeClusters == {c \in Clusters : table[c] = 0}

-----------------------------------------------------------------------------
(* The window                                                              *)

WindowOf(c) == (c + Skew) \div WindowSize

NewBuffer == window' = NoWindow /\ buffer' = [c \in Entries |-> 0]

ReadWindow(c) ==
    [e \in Entries |-> IF WindowOf(e) = WindowOf(c) THEN table[e] ELSE 0]

(* Mistake: the window is read for the first entry only.                   *)
LoadedOnce(c) == IF window # NoWindow THEN buffer ELSE ReadWindow(c)

(* Read the window of entry c unless it is the one in the buffer.          *)
Loaded(c) == IF window = WindowOf(c) THEN buffer ELSE ReadWindow(c)

(* The table with the buffer written back.                                 *)
Stored ==
    [c \in Entries |-> IF WindowOf(c) = window THEN buffer[c] ELSE table[c]]

(* Whether the buffer must be written before it is read again.  Where the  *)
(* code writes an unchanged buffer the table stays as it is.               *)
Unsaved == window # NoWindow /\ Stored # table

(* The end of a call, with a result or with an exception.                  *)
Return == /\ pc' = "idle" /\ file' = NoFile /\ length' = 0
          /\ cursor' = 0 /\ found' = <<>> /\ todo' = <<>> /\ NewBuffer

-----------------------------------------------------------------------------
(* Other files occupy some clusters, at least the root directory's, and    *)
(* another host may have left an empty file, with the start cluster 0.     *)
Init ==
    /\ \E other \in SUBSET Clusters,
          padding \in SUBSET (LastCluster + 1..LastEntry) :
         /\ 2 \in other
         /\ PaddingMayBeFree \/ padding = {}
         /\ table = [c \in Entries |->
                       IF c \in padding \cup (Clusters \ other) THEN 0
                       ELSE FAT32_EOF_CLUSTER]
    /\ hint \in Clusters \cup {INVALID_VALUE}
    /\ freeCount \in {Cardinality(FreeClusters), INVALID_VALUE}
    /\ start \in [Files -> {NoEntry, 0}]
    /\ chain = [f \in Files |-> Closed]
    /\ kept = [f \in Files |-> <<>>]
    /\ pc = "idle" /\ file = NoFile /\ length = 0
    /\ cursor = 0 /\ found = <<>> /\ todo = <<>>
    /\ window = NoWindow /\ buffer = [c \in Entries |-> 0]
    /\ failed = {}

-----------------------------------------------------------------------------
(* The calls                                                               *)

(* Mistake: an unknown hint is taken for a cluster.                        *)
HintUnchecked == hint

(* alloc searches from the entry after the last allocated cluster.         *)
LastAllocated == IF hint = INVALID_VALUE THEN 2 ELSE hint

BeginAlloc(f, n) ==
    /\ pc' = "search" /\ file' = f /\ length' = n
    /\ cursor' = LastAllocated
    /\ UNCHANGED <<deviceVars, fileVars, found, todo, windowVars, failed>>

(* Mistake: the new end gets no mark.                                      *)
CutsUnmarked(s, n) == [i \in 1..Len(s) - n |-> <<s[n + i], 0>>]

(* free writes a zero for each cluster behind the new end, then the mark.  *)
Cuts(s, n) ==
    [i \in 1..Len(s) - n |-> <<s[n + i], 0>>]
      \o (IF n > 0 THEN <<<<s[n], FAT32_EOF_CLUSTER>>>> ELSE <<>>)

BeginFree(f, n) ==
    /\ pc' = "write" /\ file' = f /\ length' = n
    /\ todo' = Cuts(chain[f], n)
    /\ UNCHANGED <<deviceVars, chain, kept, cursor, found, windowVars, failed>>

(* One call at a time.  The client leaves a file alone once a call on it   *)
(* has thrown after the search.                                            *)
Idle(f) == pc = "idle" /\ f \notin failed

(* createFile: a new file has one cluster.                                 *)
CreateFile(f) ==
    /\ Idle(f) /\ start[f] = NoEntry /\ chain[f] = Closed
    /\ BeginAlloc(f, 1)

(* initChain of a new handle; an empty file has no chain to follow.        *)
OpenFile(f) ==
    /\ Idle(f) /\ start[f] # NoEntry /\ chain[f] = Closed
    /\ IF start[f] = 0
         THEN /\ chain' = [chain EXCEPT ![f] = <<>>]
              /\ UNCHANGED <<callVars, cursor>>
         ELSE /\ pc' = "follow" /\ file' = f /\ cursor' = start[f]
              /\ UNCHANGED <<length, chain>>
    /\ UNCHANGED <<deviceVars, start, kept, found, todo, windowVars, failed>>

(* The handle is dropped.  Its directory entry was written by flush.       *)
CloseFile(f) ==
    /\ pc = "idle" /\ chain[f] # Closed
    /\ chain' = [chain EXCEPT ![f] = Closed]
    /\ UNCHANGED <<deviceVars, start, kept, callVars, cursor, found, todo,
                   windowVars, failed>>

(* Between two sessions another host may use the volume: it leaves its own *)
(* hint, and may not know the number of free clusters.  After a failure it *)
(* would repair the volume, which the model leaves out.                    *)
OtherHost ==
    /\ pc = "idle" /\ failed = {} /\ \A f \in Files : chain[f] = Closed
    /\ hint' \in Clusters \cup {INVALID_VALUE}
    /\ freeCount' \in {freeCount, INVALID_VALUE}
    /\ UNCHANGED <<table, fileVars, callVars, cursor, found, todo, windowVars,
                   failed>>

(* setLength of an open file, also on behalf of a write behind its end.    *)
IsOpen(f) == Idle(f) /\ start[f] # NoEntry /\ chain[f] # Closed

Grow(f) ==
    /\ IsOpen(f) /\ (MayEmpty \/ chain[f] # <<>>)
    /\ \E n \in Len(chain[f]) + 1..MaxLength : BeginAlloc(f, n)

Shrink(f) ==
    /\ IsOpen(f)
    /\ \E n \in 0..Len(chain[f]) - 1 : (MayEmpty \/ n > 0) /\ BeginFree(f, n)
    /\ UNCHANGED start

(* delete takes the entry out of the directory and then frees the chain.   *)
Delete(f) ==
    /\ IsOpen(f)
    /\ start' = [start EXCEPT ![f] = NoEntry]
    /\ IF chain[f] = <<>>
         THEN /\ chain' = [chain EXCEPT ![f] = Closed]
              /\ UNCHANGED <<deviceVars, kept, callVars, cursor, found, todo,
                             windowVars, failed>>
         ELSE BeginFree(f, 0)

-----------------------------------------------------------------------------
(* The transfers                                                           *)

(* One turn of getChain's loop.                                             *)
Follow ==
    /\ pc = "follow"
    /\ LET next == Loaded(cursor)[cursor] IN
         IF next < FAT32_EOF_CLUSTER
           THEN /\ cursor' = next /\ found' = Append(found, cursor)
                /\ window' = WindowOf(cursor) /\ buffer' = Loaded(cursor)
                /\ UNCHANGED <<callVars, chain, todo>>
           ELSE /\ chain' = [chain EXCEPT ![file] = Append(found, cursor)]
                /\ Return
    /\ UNCHANGED <<deviceVars, start, kept, failed>>

(* The chain alloc extends: the new file of createFile has none.           *)
Old == IF chain[file] = Closed THEN <<>> ELSE chain[file]

(* The last cluster of the chain and each new one get their successor.     *)
Links(old, new) ==
    LET s == IF old = <<>> THEN new ELSE <<old[Len(old)]>> \o new
    IN  [i \in 1..Len(s) |->
           <<s[i], IF i < Len(s) THEN s[i + 1] ELSE FAT32_EOF_CLUSTER>>]

(* One turn of alloc's search: it goes on to the end of what can be read,  *)
(* knows no last cluster and does not return to the first.                 *)
Search ==
    /\ pc = "search" /\ cursor + 1 \in Entries
    /\ cursor' = cursor + 1
    /\ window' = WindowOf(cursor') /\ buffer' = Loaded(cursor')
    /\ found' = IF buffer'[cursor'] = 0 THEN Append(found, cursor') ELSE found
    /\ IF Len(Old) + Len(found') = length
         THEN pc' = "write" /\ todo' = Links(Old, found')
         ELSE UNCHANGED <<pc, todo>>
    /\ UNCHANGED <<deviceVars, fileVars, file, length, failed>>

(* The window changes: write the buffer ...                                *)
WriteBack ==
    /\ pc = "write" /\ todo # <<>>
    /\ window # WindowOf(Head(todo)[1]) /\ Unsaved
    /\ table' = Stored /\ NewBuffer
    /\ UNCHANGED <<hint, freeCount, fileVars, callVars, cursor, found, todo,
                   failed>>

(* ... read the next one, and change the entry.                            *)
Put ==
    /\ pc = "write" /\ todo # <<>>
    /\ LET c == Head(todo)[1] IN
         /\ window = WindowOf(c) \/ ~Unsaved
         /\ window' = WindowOf(c)
         /\ buffer' = [Loaded(c) EXCEPT ![c] = Head(todo)[2]]
    /\ todo' = Tail(todo)
    /\ UNCHANGED <<deviceVars, fileVars, callVars, cursor, found, failed>>

(* Mistake: alloc counts the clusters of the whole new chain.              *)
WholeChainCounted ==
    IF freeCount = INVALID_VALUE THEN freeCount
    ELSE IF found # <<>> THEN freeCount - length
    ELSE freeCount + Len(Old) - length

(* The count of free clusters after the call, if it is known.              *)
CountAfter ==
    IF freeCount = INVALID_VALUE THEN freeCount
    ELSE IF found # <<>> THEN freeCount - Len(found)
    ELSE freeCount + Len(Old) - length

(* The last window is written and the info structure brought up to date,   *)
(* the hint by alloc only.                                                 *)
Flush ==
    /\ pc = "write" /\ todo = <<>>
    /\ table' = Stored
    /\ pc' = "info"
    /\ hint' = IF found # <<>> THEN found[Len(found)] ELSE hint
    /\ freeCount' = CountAfter
    /\ UNCHANGED <<fileVars, file, length, cursor, found, todo, windowVars, failed>>

(* The info structure is written and the call returns the new chain.       *)
Finish ==
    /\ pc = "info"
    /\ LET new == SubSeq(Old \o found, 1, length) IN
         /\ kept' = [kept EXCEPT ![file] = new]
         /\ chain' = IF chain[file] = Closed THEN chain
                     ELSE [chain EXCEPT ![file] =
                             IF start[file] = NoEntry THEN Closed ELSE new]
         /\ start' = IF chain[file] # Closed THEN start
                     ELSE [start EXCEPT ![file] = new[1]]
    /\ Return
    /\ UNCHANGED <<deviceVars, failed>>

(* An exception ends the call; one before the first write has no effect.   *)
Throw ==
    /\ failed' = IF pc \in {"write", "info"} THEN failed \cup {file} ELSE failed
    /\ Return
    /\ UNCHANGED <<deviceVars, fileVars>>

(* The search has come to the end of the device: reading on throws.        *)
EndOfDevice ==
    /\ pc = "search" /\ cursor + 1 \notin Entries
    /\ Throw

TransferFails == TransferMayFail /\ pc # "idle" /\ Throw

Next == \/ \E f \in Files : \/ CreateFile(f) \/ OpenFile(f) \/ CloseFile(f)
                            \/ Grow(f) \/ Shrink(f) \/ Delete(f)
        \/ Follow \/ Search \/ WriteBack \/ Put \/ Flush \/ Finish
        \/ EndOfDevice \/ TransferFails \/ OtherHost

Spec == Init /\ [][Next]_vars

-----------------------------------------------------------------------------
(* Types                                                                   *)

Chains == Seq(Entries)

(* Type correctness; among others a call never has more clusters than it   *)
(* was asked for, and only a call that writes has entries to change.       *)
TypeOK ==
    /\ table \in [Entries -> Values] /\ buffer \in [Entries -> Values]
    /\ hint \in Entries \cup {INVALID_VALUE} /\ freeCount \in Int
    /\ start \in [Files -> Entries \cup {NoEntry}]
    /\ chain \in [Files -> Chains \cup {Closed}] /\ kept \in [Files -> Chains]
    /\ pc \in {"idle", "follow", "search", "write", "info"}
    /\ IF pc = "idle" THEN file = NoFile ELSE file \in Files
    /\ length \in Nat /\ cursor \in Values /\ found \in Chains
    /\ found = <<>> \/ pc = "follow" \/ Len(Old) + Len(found) <= length
    /\ todo \in Seq(Entries \X Values) /\ (todo # <<>> => pc = "write")
    /\ window \in Nat \cup {NoWindow} /\ failed \subseteq Files

-----------------------------------------------------------------------------
(* Properties                                                              *)

(* alloc, free and getChain work on whole chains although they see the     *)
(* table through a window: files share no cluster, a call changes the      *)
(* chain of its own file only, and a new handle finds the chain that was   *)
(* written (FAT.alloc "The new chain including the old and the newly       *)
(* allocated clusters", FAT.free "The new chain without the unneeded       *)
(* clusters"); an exception in the middle costs no other file anything.    *)
Store == INSTANCE ClusterStore WITH chains <- kept, view <- chain
StoreSpec == Store!Spec

(* Between two calls the table and the directory entries hold exactly the  *)
(* chains of the files no call has failed on: each cluster is followed by  *)
(* the next, the last by the end mark.  Pulling the plug then loses none.  *)
OnDisk ==
    pc = "idle" =>
        \A f \in Files \ failed : kept[f] # <<>> =>
            /\ start[f] = kept[f][1]
            /\ \A i \in 1..Len(kept[f]) :
                 table[kept[f][i]] = IF i < Len(kept[f]) THEN kept[f][i + 1]
                                     ELSE FAT32_EOF_CLUSTER

(* decreaseClusterCount keeps the number of free clusters exact over every *)
(* sequence of calls if it was exact when the volume was mounted and no    *)
(* call has failed.                                                        *)
FreeCountExact ==
    pc = "idle" /\ failed = {} =>
        freeCount \in {Cardinality(FreeClusters), INVALID_VALUE}

(* "Every change to the file is then committed to the disk" (UsbFile.java, *)
(* line 171): the chain a handle works on is the one the file was given.   *)
ChainsKept == \A f \in Files \ failed : chain[f] \in {Closed, kept[f]}
=============================================================================
