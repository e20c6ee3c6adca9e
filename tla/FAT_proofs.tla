----------------------------- MODULE FAT_proofs -----------------------------
(***************************************************************************)
(* Proofs about FAT.  Type correctness holds of every volume.  That the    *)
(* table, the directory entries, the count and the handles stay together,  *)
(* and that FAT implements ClusterStore, is proved under the two           *)
(* conditions the code needs and does not establish itself: the client     *)
(* empties no file (emptying loses the file, see the run FAT_emptied), and *)
(* the entries behind the last cluster are not zero (alloc searches them). *)
(*                                                                         *)
(* The argument looks at the table three times: as it is on the device     *)
(* (table), as it will be when the window is written back (Stored), and as *)
(* it will be when the call has changed all its entries (Final).  A        *)
(* transfer moves one of them towards the next and never changes Final.    *)
(***************************************************************************)
EXTENDS FAT, TLAPS, FiniteSetTheorems, SequenceTheorems

-----------------------------------------------------------------------------
(* The invariant                                                           *)

InWrite == pc \in {"write", "info"}

InCall == pc \in {"search", "write", "info"}

(* What the types rest on: the length of the new chain, and the cluster    *)
(* getChain reads next.                                                    *)
TypeInv ==
    /\ TypeOK
    /\ pc = "idle" => window = NoWindow /\ found = <<>>
    /\ pc = "follow" => cursor \in Entries
    /\ InCall /\ chain[file] = Closed => length = 1
    /\ pc = "search" => Len(Old) + Len(found) < length
    /\ InWrite => IF found = <<>> THEN length < Len(Old)
                                  ELSE length = Len(Old) + Len(found)

(* The table with every change the call in progress still has to make:     *)
(* the changes td made to the table t.                                     *)
Applied(td, t) ==
    [c \in Entries |->
       IF \E k \in 1..Len(td) : td[k][1] = c
         THEN td[CHOOSE k \in 1..Len(td) : td[k][1] = c][2]
         ELSE t[c]]

Final == Applied(todo, Stored)

FreeIn(t) == {c \in Clusters : t[c] = 0}

(* The chain the call in progress will leave.                              *)
New == SubSeq(Old \o found, 1, length)

(* s is a chain of the table t: each cluster leads to the next one.        *)
ChainIn(s, t) ==
    \A i \in 1..Len(s) :
       t[s[i]] = IF i < Len(s) THEN s[i + 1] ELSE FAT32_EOF_CLUSTER

Distinct(s) == \A i, j \in 1..Len(s) : s[i] = s[j] => i = j

Within(s, S) == \A i \in 1..Len(s) : s[i] \in S

Disjoint(s, t) == \A i \in 1..Len(s), j \in 1..Len(t) : s[i] # t[j]

Good == Files \ failed

(* The files whose chain and directory entry no call is changing.          *)
Steady == {f \in Good : InWrite => f # file}

PaddingInv ==
    \A e \in Entries \ Clusters :
       table[e] = FAT32_EOF_CLUSTER /\ Stored[e] = FAT32_EOF_CLUSTER

KeptInv ==
    /\ \A f \in Good : Distinct(kept[f]) /\ Within(kept[f], Clusters)
    /\ \A f, g \in Good : f # g => Disjoint(kept[f], kept[g])
    /\ \A f \in Good : chain[f] \in {Closed, kept[f]}

TableInv ==
    \A f \in Steady : ChainIn(kept[f], table) /\ ChainIn(kept[f], Stored)

EntryInv ==
    \A f \in Steady :
       IF kept[f] = <<>> THEN start[f] \in {NoEntry, 0}
                         ELSE start[f] = kept[f][1]

CallInv ==
    /\ pc # "idle" => file \notin failed
    /\ pc \in {"follow", "search", "info"} => Stored = table
    /\ hint \in Clusters \cup {INVALID_VALUE}
    /\ InCall /\ chain[file] = Closed => kept[file] = <<>>

(* getChain has collected a proper prefix of the chain.                    *)
FollowInv ==
    pc = "follow" =>
       /\ chain[file] = Closed
       /\ Len(found) < Len(kept[file])
       /\ \A i \in 1..Len(found) : found[i] = kept[file][i]
       /\ cursor = kept[file][Len(found) + 1]

(* What alloc has found belongs to nobody.                                 *)
FoundInv ==
    InCall => /\ Distinct(found) /\ Within(found, Clusters)
              /\ \A g \in Good : Disjoint(found, kept[g])

SearchInv ==
    pc = "search" =>
       /\ cursor >= 2
       /\ \A i \in 1..Len(found) : found[i] <= cursor /\ table[found[i]] = 0
       /\ IF chain[file] = Closed THEN start[file] = NoEntry
                                  ELSE kept[file] # <<>>

(* The entries td changes are distinct.                                    *)
Once(td) == \A j, k \in 1..Len(td) : td[j][1] = td[k][1] => j = k

(* The entries that are still to be changed belong to no other file, and   *)
(* with them the file has its new chain.                                   *)
WriteInv ==
    InWrite =>
       /\ Once(todo)
       /\ \A k \in 1..Len(todo) :
            /\ todo[k][1] \in Clusters
            /\ \A g \in Good \ {file} :
                 \A i \in 1..Len(kept[g]) : kept[g][i] # todo[k][1]
       /\ ChainIn(New, Final)

(* The directory entry while the file's chain changes: none for a new file *)
(* and one that is deleted.                                                *)
WriteEntryInv ==
    InWrite =>
       IF chain[file] = Closed \/ length = 0 THEN start[file] = NoEntry
       ELSE start[file] = kept[file][1] /\ kept[file] # <<>>

(* The count is exact of the table the call will leave.                    *)
CountInv ==
    failed = {} =>
       IF pc = "write"
         THEN CountAfter \in {Cardinality(FreeIn(Final)), INVALID_VALUE}
         ELSE freeCount \in {Cardinality(FreeIn(table)), INVALID_VALUE}

(* What relates the files to the volume ...                                *)
FilesInv == PaddingInv /\ KeptInv /\ TableInv /\ EntryInv

(* ... and what holds of the call in progress.                             *)
ProgressInv ==
    /\ CallInv /\ FollowInv /\ FoundInv /\ SearchInv /\ WriteInv
    /\ WriteEntryInv /\ CountInv

IInv == TypeInv /\ FilesInv /\ ProgressInv

(* The conditions under which the code keeps its promises.                 *)
Supported == ~MayEmpty /\ ~PaddingMayBeFree

-----------------------------------------------------------------------------
(* The window                                                              *)

(* The numbers of the windows.                                             *)
LEMMA WindowNumber == \A c \in Entries : WindowOf(c) \in Nat
BY TableAssumption DEF TableAssumption, WindowOf, Entries

(* What the clusters and the entries are.                                  *)
LEMMA Numbers ==
    /\ Clusters \subseteq Entries /\ Entries \subseteq Values
    /\ Entries \subseteq Nat /\ Values \subseteq Nat
    /\ FAT32_EOF_CLUSTER \in Values \ Entries /\ 0 \in Entries \ Clusters
    /\ 2 \in Clusters /\ INVALID_VALUE \notin Entries /\ NoEntry \notin Entries
    /\ NoWindow \notin Nat /\ \A v \in Values : v < FAT32_EOF_CLUSTER => v \in Entries
BY TableAssumption DEF TableAssumption, Clusters, Entries, Values,
   FAT32_EOF_CLUSTER, INVALID_VALUE, NoEntry, NoWindow

(* A chain is a sequence of numbers, and never the mark of a closed handle. *)
LEMMA ChainsNotClosed ==
    /\ Closed \notin Chains /\ <<>> \in Chains /\ <<>> # Closed
    /\ \A s \in Chains : /\ Len(s) \in Nat /\ s \in [1..Len(s) -> Entries]
                         /\ s = <<>> <=> Len(s) = 0
<1>1. ASSUME NEW s \in Seq(Entries)
      PROVE  s \in Seq(Nat)
  BY Numbers, SeqMonotonic
<1>2. <<>> \in Chains
  BY DEF Chains
<1>3. ASSUME NEW s \in Chains
      PROVE  /\ Len(s) \in Nat /\ s \in [1..Len(s) -> Entries]
             /\ s = <<>> <=> Len(s) = 0
  BY <1>3 DEF Chains
<1>. QED BY <1>1, <1>2, <1>3, NameAssumption DEF NameAssumption, Chains

(* A window and what becomes of the table with it have the table's type.   *)
LEMMA WindowType ==
    ASSUME TypeOK
    PROVE  /\ Stored \in [Entries -> Values]
           /\ \A c \in Entries : /\ Loaded(c) \in [Entries -> Values]
                                 /\ ReadWindow(c) \in [Entries -> Values]
BY Numbers DEF TypeOK, Stored, Loaded, ReadWindow

(* Without a window there is nothing to be written back.                   *)
LEMMA NoWindowStored ==
    ASSUME TypeOK, window = NoWindow
    PROVE  Stored = table
BY WindowNumber, Numbers DEF TypeOK, Stored

(* The entry read through the window is the one that Stored has.           *)
LEMMA LoadedEntry ==
    ASSUME TypeOK, NEW c \in Entries, window = WindowOf(c) \/ Stored = table
    PROVE  Loaded(c)[c] = Stored[c]
<1>1. CASE window = WindowOf(c)
  BY <1>1 DEF TypeOK, Stored, Loaded
<1>2. CASE window # WindowOf(c)
  BY <1>2 DEF TypeOK, Loaded, ReadWindow
<1>. QED BY <1>1, <1>2

(* Reading a window changes neither the table nor Stored.                  *)
LEMMA StoredAfterRead ==
    ASSUME TypeOK, NEW c \in Entries, Stored = table, table' = table,
           window' = WindowOf(c), buffer' = Loaded(c)
    PROVE  Stored' = Stored
<1>1. ASSUME NEW e \in Entries
      PROVE  Stored'[e] = table[e]
  <2>1. CASE WindowOf(e) # WindowOf(c)
    BY <2>1, <1>1 DEF Stored, TypeOK
  <2>2. CASE WindowOf(e) = WindowOf(c)
    <3>1. Stored'[e] = Loaded(c)[e]
      BY <2>2 DEF Stored
    <3>2. CASE window = WindowOf(c)
      <4>1. Loaded(c)[e] = Stored[e]
        BY <3>2, <2>2 DEF Loaded, Stored
      <4>. QED BY <4>1, <3>1
    <3>3. CASE window # WindowOf(c)
      BY <3>3, <3>1, <2>2 DEF Loaded, ReadWindow
    <3>. QED BY <3>2, <3>3
  <2>. QED BY <2>1, <2>2
<1>2. Stored' = [e \in Entries |-> Stored'[e]]
  BY DEF Stored
<1>3. Stored = [e \in Entries |-> table[e]]
  BY DEF TypeOK
<1>. QED BY <1>1, <1>2, <1>3

(* Changing an entry in the buffer changes it in Stored.                   *)
LEMMA StoredAfterPut ==
    ASSUME TypeOK, NEW c \in Entries, NEW v, table' = table,
           window = WindowOf(c) \/ ~Unsaved,
           window' = WindowOf(c), buffer' = [Loaded(c) EXCEPT ![c] = v]
    PROVE  /\ Stored' = [Stored EXCEPT ![c] = v]
           /\ window = WindowOf(c) \/ Stored = table
<1>1. window = WindowOf(c) \/ Stored = table
  BY NoWindowStored DEF Unsaved
<1>2. Loaded(c) \in [Entries -> Values] /\ Stored \in [Entries -> Values]
  BY WindowType
<1>3. ASSUME NEW e \in Entries
      PROVE  Stored'[e] = IF e = c THEN v ELSE Stored[e]
  <2>1. CASE WindowOf(e) # WindowOf(c)
    <3>1. Stored'[e] = table[e] /\ e # c
      BY <2>1 DEF Stored
    <3>2. Stored[e] = table[e]
      BY <1>1, <2>1 DEF Stored
    <3>. QED BY <3>1, <3>2
  <2>2. CASE WindowOf(e) = WindowOf(c)
    <3>1. Stored'[e] = IF e = c THEN v ELSE Loaded(c)[e]
      BY <2>2, <1>2 DEF Stored
    <3>2. CASE window = WindowOf(c)
      <4>1. Loaded(c)[e] = Stored[e]
        BY <3>2, <2>2 DEF Loaded, Stored
      <4>. QED BY <4>1, <3>1
    <3>3. CASE window # WindowOf(c)
      BY <1>1, <3>3, <3>1, <2>2 DEF Loaded, ReadWindow
    <3>. QED BY <3>2, <3>3
  <2>. QED BY <2>1, <2>2
<1>4. Stored' = [e \in Entries |-> Stored'[e]]
  BY DEF Stored
<1>5. [Stored EXCEPT ![c] = v] =
        [e \in Entries |-> IF e = c THEN v ELSE Stored[e]]
  BY <1>2
<1>. QED BY <1>1, <1>3, <1>4, <1>5

(* Writing the buffer back makes the table what Stored was.                *)
LEMMA StoredAfterWrite ==
    ASSUME TypeOK, table' = Stored,
           window' = NoWindow \/ (window' = window /\ buffer' = buffer)
    PROVE  Stored' = Stored
<1>1. CASE window' = NoWindow
  <2>1. \A e \in Entries : WindowOf(e) # NoWindow
    BY WindowNumber, Numbers
  <2>2. Stored' = [e \in Entries |-> table'[e]]
    BY <2>1, <1>1 DEF Stored
  <2>. QED BY <2>2, WindowType
<1>2. CASE window' = window /\ buffer' = buffer
  <2>1. \A e \in Entries : Stored'[e] = Stored[e]
    BY <1>2 DEF Stored
  <2>. QED BY <2>1 DEF Stored
<1>. QED BY <1>1, <1>2

-----------------------------------------------------------------------------
(* Types                                                                   *)

(* The chain a call extends or cuts is a chain.                            *)
LEMMA OldType ==
    ASSUME TypeOK, file \in Files
    PROVE  /\ Old \in Chains /\ Len(Old) \in Nat
           /\ chain[file] = Closed => Old = <<>> /\ Len(Old) = 0
           /\ chain[file] # Closed => Old = chain[file]
BY ChainsNotClosed DEF TypeOK, Old

(* The volume is finite.                                                   *)
LEMMA FreeCounted ==
    ASSUME NEW t
    PROVE  IsFiniteSet(FreeIn(t)) /\ Cardinality(FreeIn(t)) \in Nat
<1>1. IsFiniteSet(Clusters)
  BY TableAssumption, FS_Interval DEF TableAssumption, Clusters
<1>. QED BY <1>1, FS_Subset, FS_CardinalityType DEF FreeIn

(* The types hold initially.                                               *)
LEMMA InitTypes == Init => TypeInv
<1> SUFFICES ASSUME Init PROVE TypeInv
  OBVIOUS
<1>1. table \in [Entries -> Values]
  BY Numbers DEF Init
<1>2. freeCount \in Int
  <2>1. Cardinality(FreeClusters) \in Nat
    BY FreeCounted DEF FreeIn, FreeClusters
  <2>. QED BY <2>1 DEF Init, INVALID_VALUE
<1>3. start \in [Files -> Entries \cup {NoEntry}]
  BY Numbers DEF Init
<1>4. chain \in [Files -> Chains \cup {Closed}] /\ kept \in [Files -> Chains]
  BY ChainsNotClosed DEF Init
<1>5. TypeOK
  BY <1>1, <1>2, <1>3, <1>4, ChainsNotClosed, Numbers DEF Init, TypeOK
<1>. QED BY <1>5 DEF Init, TypeInv, InCall, InWrite

(* The end of a call leaves nothing behind.                                *)
LEMMA ReturnTypes ==
    ASSUME TypeInv, Return, UNCHANGED <<table, hint, freeCount>>,
           start' \in [Files -> Entries \cup {NoEntry}],
           chain' \in [Files -> Chains \cup {Closed}],
           kept' \in [Files -> Chains], failed' \subseteq Files
    PROVE  TypeInv'
BY ChainsNotClosed, Numbers
   DEF Return, NewBuffer, TypeInv, TypeOK, InCall, InWrite

(* The beginning of a search for clusters.                                 *)
LEMMA BeginAllocTypes ==
    ASSUME TypeInv, NEW f \in Files, NEW n \in Nat, BeginAlloc(f, n),
           pc = "idle", chain[f] = Closed => n = 1,
           chain[f] # Closed => Len(chain[f]) < n
    PROVE  TypeInv'
<1>1. LastAllocated \in Entries
  BY Numbers DEF TypeInv, TypeOK, LastAllocated
<1>2. found = <<>> /\ todo = <<>>
  BY DEF TypeInv, TypeOK
<1>. QED BY <1>1, <1>2, ChainsNotClosed, Numbers
DEF BeginAlloc, TypeInv, TypeOK, InCall, InWrite,
            Old, deviceVars, fileVars, windowVars

(* The beginning of a cut, also of the whole chain.                        *)
LEMMA CutsType ==
    ASSUME NEW s \in Chains, NEW n \in 0..Len(s) - 1
    PROVE  /\ Cuts(s, n) \in Seq(Entries \X Values)
           /\ Len(Cuts(s, n)) = Len(s) - n + (IF n > 0 THEN 1 ELSE 0)
           /\ \A i \in 1..Len(s) - n : Cuts(s, n)[i] = <<s[n + i], 0>>
           /\ n > 0 => Cuts(s, n)[Len(s) - n + 1] = <<s[n], FAT32_EOF_CLUSTER>>
<1> DEFINE m == Len(s) - n
           a == [i \in 1..m |-> <<s[n + i], 0>>]
           b == IF n > 0 THEN <<<<s[n], FAT32_EOF_CLUSTER>>>> ELSE <<>>
           P == Entries \X Values
<1>1. /\ Len(s) \in Nat /\ n \in Nat /\ m \in Nat
      /\ \A i \in 1..Len(s) : s[i] \in Entries
  BY ChainsNotClosed
<1>2. a \in Seq(P) /\ Len(a) = m
  <2>1. \A i \in 1..m : <<s[n + i], 0>> \in P
    BY <1>1, Numbers
  <2>. HIDE DEF m, P
  <2>2. a \in [1..m -> P]
    BY <2>1
  <2>3. m \in Nat
    BY <1>1
  <2>. HIDE DEF a
  <2>. QED BY <2>2, <2>3
<1>3. b \in Seq(P) /\ Len(b) = IF n > 0 THEN 1 ELSE 0
  <2>1. n > 0 => <<s[n], FAT32_EOF_CLUSTER>> \in P
    BY <1>1, Numbers
  <2>. HIDE DEF P
  <2>. QED BY <2>1
<1>4. Cuts(s, n) = a \o b
  BY DEF Cuts
<1>5. \A i \in 1..m : a[i] = <<s[n + i], 0>>
  OBVIOUS
<1>6. n > 0 => b[1] = <<s[n], FAT32_EOF_CLUSTER>>
  OBVIOUS
<1> HIDE DEF a, b, P
<1>7. /\ a \o b \in Seq(P) /\ Len(a \o b) = Len(a) + Len(b)
      /\ \A i \in 1..Len(a) + Len(b) :
           (a \o b)[i] = IF i <= Len(a) THEN a[i] ELSE b[i - Len(a)]
  BY <1>2, <1>3, ConcatProperties
<1>8. a \o b \in Seq(P) /\ Len(a \o b) = m + (IF n > 0 THEN 1 ELSE 0)
  BY <1>1, <1>2, <1>3, <1>7
<1>9. \A i \in 1..m : (a \o b)[i] = <<s[n + i], 0>>
  BY <1>1, <1>2, <1>3, <1>5, <1>7
<1>10. n > 0 => (a \o b)[m + 1] = <<s[n], FAT32_EOF_CLUSTER>>
  <2>1. ASSUME n > 0 PROVE (a \o b)[m + 1] = b[(m + 1) - Len(a)]
    <3> HIDE DEF m
    <3>. QED BY <2>1, <1>1, <1>2, <1>3, <1>7
  <2>2. (m + 1) - Len(a) = 1
    BY <1>1, <1>2
  <2>. QED BY <2>1, <2>2, <1>6
<1>. QED BY <1>4, <1>8, <1>9, <1>10 DEF P

(* The beginning of a call that frees clusters.                            *)
LEMMA BeginFreeTypes ==
    ASSUME TypeInv, NEW f \in Files, chain[f] # Closed,
           NEW n \in 0..Len(chain[f]) - 1, BeginFree(f, n), pc = "idle",
           start' \in [Files -> Entries \cup {NoEntry}]
    PROVE  TypeInv'
<1>1. chain[f] \in Chains /\ Len(chain[f]) \in Nat
  BY ChainsNotClosed DEF TypeInv, TypeOK
<1>2. Cuts(chain[f], n) \in Seq(Entries \X Values)
  BY <1>1, CutsType
<1>3. chain'[f] = chain[f] /\ Old' = chain[f] /\ found' = <<>>
  BY DEF BeginFree, Old, TypeInv, TypeOK
<1>. QED BY <1>1, <1>2, <1>3, ChainsNotClosed, Numbers
   DEF BeginFree, TypeInv, TypeOK, InCall, InWrite, deviceVars, windowVars

(* The entries alloc changes lead along the old chain's end and the new    *)
(* clusters.                                                               *)
LEMMA LinksType ==
    ASSUME NEW old \in Chains, NEW new \in Chains, new # <<>>
    PROVE  LET m == IF old = <<>> THEN 0 ELSE 1
               whole == old \o new
               first == Len(old) - m
           IN /\ Links(old, new) \in Seq(Entries \X Values)
              /\ Len(Links(old, new)) = m + Len(new)
              /\ \A i \in 1..m + Len(new) :
                   /\ Links(old, new)[i][1] = whole[first + i]
                   /\ Links(old, new)[i][2] =
                        IF i < m + Len(new) THEN whole[first + i + 1]
                        ELSE FAT32_EOF_CLUSTER
<1> DEFINE m == IF old = <<>> THEN 0 ELSE 1
           whole == old \o new
           first == Len(old) - m
           s == IF old = <<>> THEN new ELSE <<old[Len(old)]>> \o new
           link(i) == <<s[i], IF i < Len(s) THEN s[i + 1] ELSE FAT32_EOF_CLUSTER>>
<1>1. /\ Len(old) \in Nat /\ Len(new) \in Nat /\ m \in {0, 1} /\ first \in Nat
      /\ m = 0 <=> old = <<>>
      /\ \A i \in 1..Len(old) : old[i] \in Entries
      /\ \A i \in 1..Len(new) : new[i] \in Entries
  BY ChainsNotClosed
<1>2. /\ whole \in Seq(Entries) /\ Len(whole) = Len(old) + Len(new)
      /\ \A i \in 1..Len(old) + Len(new) :
           whole[i] = IF i <= Len(old) THEN old[i] ELSE new[i - Len(old)]
  BY ConcatProperties DEF Chains
<1>3. /\ s \in Seq(Entries) /\ Len(s) = m + Len(new)
      /\ \A i \in 1..m + Len(new) : s[i] = whole[first + i]
  <2>1. CASE old = <<>>
    <3>1. /\ s \in Seq(Entries) /\ Len(s) = m + Len(new)
          /\ \A i \in 1..Len(new) : s[i] = new[i]
      BY <2>1, <1>1 DEF Chains
    <3>2. \A i \in 1..Len(new) : whole[i] = new[i]
      BY <2>1, ConcatEmptySeq DEF Chains
    <3>3. first = 0 /\ m = 0
      BY <2>1
    <3> HIDE DEF s, whole, first, m
    <3>. QED BY <3>1, <3>2, <3>3, <1>1
  <2>2. CASE old # <<>>
    <3> DEFINE one == <<old[Len(old)]>>
    <3>1. one \in Seq(Entries) /\ Len(one) = 1 /\ one[1] = old[Len(old)]
      BY <2>2, <1>1
    <3>2. s = one \o new /\ m = 1 /\ first = Len(old) - 1
      BY <2>2
    <3> HIDE DEF one, s, whole, m, first
    <3>3. /\ s \in Seq(Entries) /\ Len(s) = 1 + Len(new)
          /\ \A i \in 1..1 + Len(new) :
               s[i] = IF i <= 1 THEN one[i] ELSE new[i - 1]
      <4>1. /\ one \o new \in Seq(Entries)
            /\ Len(one \o new) = Len(one) + Len(new)
            /\ \A i \in 1..Len(one) + Len(new) : (one \o new)[i] =
                 IF i <= Len(one) THEN one[i] ELSE new[i - Len(one)]
        BY <3>1, ConcatProperties DEF Chains
      <4>. QED BY <4>1, <3>1, <3>2
    <3>4. ASSUME NEW i \in 1..m + Len(new) PROVE s[i] = whole[first + i]
      <4>1. CASE i = 1
        <5>1. whole[first + 1] = old[Len(old)]
          BY <1>1, <1>2, <3>2
        <5>. QED BY <4>1, <5>1, <3>1, <3>2, <3>3, <1>1
      <4>2. CASE i > 1
        <5>1. s[i] = new[i - 1]
          BY <4>2, <3>2, <3>3, <1>1
        <5>2. /\ first + i \in 1..Len(old) + Len(new)
              /\ ~(first + i <= Len(old)) /\ (first + i) - Len(old) = i - 1
          BY <4>2, <3>2, <1>1
        <5>3. whole[first + i] = new[(first + i) - Len(old)]
          BY <5>2, <1>2
        <5>. QED BY <5>1, <5>2, <5>3
      <4>3. i = 1 \/ i > 1
        BY <3>2, <1>1
      <4>. QED BY <4>1, <4>2, <4>3
    <3>. QED BY <3>2, <3>3, <3>4
  <2>. QED BY <2>1, <2>2
<1>4. \A i \in 1..Len(s) : link(i) \in Entries \X Values
  <2>1. Len(s) \in Nat /\ \A i \in 1..Len(s) : s[i] \in Entries
    BY <1>1, <1>3
  <2> HIDE DEF s
  <2>2. ASSUME NEW i \in 1..Len(s) PROVE s[i] \in Entries /\ link(i)[2] \in Values
    <3>1. CASE i < Len(s)
      <4>1. i + 1 \in 1..Len(s)
        BY <3>1, <2>1
      <4>. QED BY <4>1, <3>1, <2>1, Numbers
    <3>. QED BY <3>1, <2>1, Numbers
  <2>. QED BY <2>2
<1>5. Links(old, new) = [i \in 1..Len(s) |-> link(i)]
  BY DEF Links
<1> HIDE DEF s
<1>6. Len(s) \in Nat
  BY <1>1, <1>3
<1>7. /\ [i \in 1..Len(s) |-> link(i)] \in Seq(Entries \X Values)
      /\ Len([i \in 1..Len(s) |-> link(i)]) = Len(s)
      /\ \A i \in 1..Len(s) : [j \in 1..Len(s) |-> link(j)][i] = link(i)
  <2> DEFINE a == [i \in 1..Len(s) |-> link(i)]
             P == Entries \X Values
  <2>1. a \in [1..Len(s) -> P]
    BY <1>4
  <2>2. \A i \in 1..Len(s) : a[i] = link(i)
    OBVIOUS
  <2> HIDE DEF a, P, link
  <2>3. a \in Seq(P) /\ Len(a) = Len(s)
    BY <2>1, <1>6
  <2>. QED BY <2>2, <2>3 DEF a, P
<1>8. ASSUME NEW i \in 1..m + Len(new)
      PROVE  /\ Links(old, new)[i][1] = whole[first + i]
             /\ Links(old, new)[i][2] = IF i < m + Len(new)
                  THEN whole[first + i + 1] ELSE FAT32_EOF_CLUSTER
  <2>1. Links(old, new)[i] = link(i)
    BY <1>3, <1>5, <1>7
  <2>2. s[i] = whole[first + i]
    BY <1>3
  <2>3. ASSUME i < m + Len(new) PROVE s[i + 1] = whole[first + i + 1]
    <3>1. i + 1 \in 1..m + Len(new) /\ first + (i + 1) = first + i + 1
      BY <2>3, <1>1
    <3>2. s[i + 1] = whole[first + (i + 1)]
      <4> HIDE DEF m, first, whole
      <4>. QED BY <3>1, <1>3
    <3>. QED BY <3>1, <3>2
  <2> HIDE DEF m, first, whole
  <2>. QED BY <2>1, <2>2, <2>3, <1>3
<1>. QED BY <1>3, <1>5, <1>7, <1>8

-----------------------------------------------------------------------------
(* Types over the steps                                                    *)

(* Creating, opening, closing, growing, shrinking and deleting a file.     *)
LEMMA ClientTypes ==
    ASSUME TypeInv, NEW f \in Files,
           \/ CreateFile(f) \/ OpenFile(f) \/ CloseFile(f)
           \/ Grow(f) \/ Shrink(f) \/ Delete(f)
    PROVE  TypeInv'
<1>0. /\ TypeOK /\ \A g \in Files : chain[g] # Closed => chain[g] \in Chains
      /\ \A g \in Files : chain[g] # Closed => Len(chain[g]) \in Nat
  BY ChainsNotClosed DEF TypeInv, TypeOK
<1>1. CASE CreateFile(f)
  BY <1>0, <1>1, BeginAllocTypes DEF CreateFile, Idle
<1>2. CASE OpenFile(f)
  <2>1. found = <<>> /\ pc = "idle"
    BY <1>2 DEF OpenFile, Idle, TypeInv
  <2>2. chain' \in [Files -> Chains \cup {Closed}]
    BY <1>2, <1>0, ChainsNotClosed DEF OpenFile, TypeOK
  <2>3. CASE start[f] = 0
    BY <1>2, <2>1, <2>2, <2>3, ChainsNotClosed DEF OpenFile, Idle, TypeInv,
       TypeOK, InCall, InWrite, deviceVars, callVars, windowVars
  <2>4. CASE start[f] # 0
    <3>1. start[f] \in Entries
      BY <1>0, <1>2 DEF OpenFile, TypeOK
    <3>. QED BY <1>2, <2>1, <2>4, <3>1, Numbers DEF OpenFile, Idle, TypeInv,
           TypeOK, InCall, InWrite, deviceVars, callVars, windowVars
  <2>. QED BY <2>3, <2>4
<1>3. CASE CloseFile(f)
  BY <1>3 DEF CloseFile, TypeInv, TypeOK, InCall, InWrite, deviceVars,
     callVars, windowVars
<1>4. CASE Grow(f)
  <2>1. PICK n \in Len(chain[f]) + 1..MaxLength : BeginAlloc(f, n)
    BY <1>4 DEF Grow
  <2>2. chain[f] # Closed /\ pc = "idle" /\ n \in Nat /\ Len(chain[f]) < n
    BY <1>0, <1>4, BoundAssumption
    DEF Grow, IsOpen, Idle, BoundAssumption
  <2>. QED BY <2>1, <2>2, BeginAllocTypes
<1>5. CASE Shrink(f)
  <2>1. PICK n \in 0..Len(chain[f]) - 1 : BeginFree(f, n)
    BY <1>5 DEF Shrink
  <2>2. /\ chain[f] # Closed /\ pc = "idle"
        /\ start' \in [Files -> Entries \cup {NoEntry}]
    BY <1>0, <1>5 DEF Shrink, IsOpen, Idle, TypeOK
  <2>. QED BY <2>1, <2>2, BeginFreeTypes
<1>6. CASE Delete(f)
  <2>1. /\ chain[f] # Closed /\ pc = "idle" /\ found = <<>>
        /\ start' \in [Files -> Entries \cup {NoEntry}]
    BY <1>0, <1>6 DEF Delete, IsOpen, Idle, TypeOK, TypeInv
  <2>2. CASE chain[f] = <<>>
    BY <1>0, <1>6, <2>1, <2>2 DEF Delete, TypeInv, TypeOK, InCall, InWrite,
       deviceVars, callVars, windowVars
  <2>3. CASE chain[f] # <<>>
    <3>1. BeginFree(f, 0) /\ 0 \in 0..Len(chain[f]) - 1
      BY <1>0, <1>6, <2>1, <2>3, ChainsNotClosed DEF Delete
    <3>. QED BY <2>1, <3>1, BeginFreeTypes
  <2>. QED BY <2>2, <2>3
<1>. QED BY <1>1, <1>2, <1>3, <1>4, <1>5, <1>6

(* getChain reads the next entry.                                          *)
LEMMA FollowTypes == TypeInv /\ Follow => TypeInv'
<1> SUFFICES ASSUME TypeInv, Follow PROVE TypeInv'
  OBVIOUS
<1> DEFINE next == Loaded(cursor)[cursor]
<1>1. /\ cursor \in Entries /\ next \in Values
      /\ Loaded(cursor) \in [Entries -> Values] /\ WindowOf(cursor) \in Nat
  BY WindowType, WindowNumber DEF TypeInv, Follow
<1>2. Append(found, cursor) \in Chains
  BY <1>1 DEF TypeInv, TypeOK, Chains
<1>3. CASE next < FAT32_EOF_CLUSTER
  <2>1. next \in Entries
    BY <1>1, <1>3, Numbers
  <2>2. /\ cursor' = next /\ found' = Append(found, cursor)
        /\ window' = WindowOf(cursor) /\ buffer' = Loaded(cursor)
        /\ UNCHANGED <<table, hint, freeCount, start, kept, failed, pc, file,
                       length, chain, todo>>
    BY <1>3 DEF Follow, deviceVars, callVars
  <2> HIDE DEF next
  <2>. QED BY <1>1, <1>2, <2>1, <2>2, Numbers
           DEF Follow, TypeInv, TypeOK, InCall, InWrite
<1>4. CASE ~(next < FAT32_EOF_CLUSTER)
  <2>1. /\ chain' = [chain EXCEPT ![file] = Append(found, cursor)] /\ Return
        /\ UNCHANGED <<table, hint, freeCount, start, kept, failed>>
    BY <1>4 DEF Follow, deviceVars
  <2>. QED BY <1>2, <2>1, ReturnTypes DEF TypeInv, TypeOK
<1>. QED BY <1>3, <1>4

(* alloc reads the next entry.                                             *)
LEMMA SearchTypes == TypeInv /\ Search => TypeInv'
<1> SUFFICES ASSUME TypeInv, Search PROVE TypeInv'
  OBVIOUS
<1>1. /\ cursor' \in Entries /\ window' \in Nat
      /\ buffer' \in [Entries -> Values]
  BY WindowType, WindowNumber DEF TypeInv, Search
<1>2. /\ found \in Chains /\ found' \in Chains /\ Len(found') \in Nat
      /\ Len(found') <= Len(found) + 1 /\ Len(found) <= Len(found')
      /\ Len(found') > Len(found) => found' # <<>>
      /\ Len(found') = Len(found) => found' = found
  <2>1. CASE found' = found
    BY <2>1, ChainsNotClosed DEF TypeInv, TypeOK
  <2>2. CASE found' = Append(found, cursor')
    BY <2>2, <1>1, AppendProperties, ChainsNotClosed
    DEF TypeInv, TypeOK, Chains
  <2>. QED BY <2>1, <2>2 DEF Search
<1>3. /\ Old \in Chains /\ Len(Old) \in Nat /\ Old' = Old /\ file \in Files
      /\ Len(Old) + Len(found) < length /\ length \in Nat
  BY OldType DEF Search, Old, TypeInv, TypeOK, fileVars
<1>4. /\ UNCHANGED <<table, hint, freeCount, start, chain, kept, file, length,
                     failed>>
      /\ pc = "search"
  BY DEF Search, deviceVars, fileVars
<1>7. cursor' \in Values /\ found' \in Chains /\ Len(found) \in Nat
  BY <1>1, <1>2, Numbers, ChainsNotClosed
<1>5. CASE Len(Old) + Len(found') = length
  <2>1. found' # <<>> /\ Len(found') > Len(found)
    BY <1>2, <1>3, <1>5
  <2>2. todo' \in Seq(Entries \X Values)
    <3>1. Links(Old, found') \in Seq(Entries \X Values)
      <4>1. Old \in Chains /\ found' \in Chains /\ found' # <<>>
        BY <1>2, <1>3, <2>1
      <4>. QED BY <4>1, LinksType
    <3>. QED BY <3>1, <1>5 DEF Search
  <2>3. pc' = "write"
    BY <1>5 DEF Search
  <2>4. TypeOK'
    BY <1>1, <1>2, <1>3, <1>4, <1>5, <1>7, <2>2, <2>3 DEF TypeInv, TypeOK
  <2>. QED BY <1>3, <1>4, <1>5, <2>1, <2>3, <2>4 DEF TypeInv, InCall, InWrite
<1>6. CASE Len(Old) + Len(found') # length
  <2>1. Len(Old) + Len(found') < length
    BY <1>2, <1>3, <1>6, <1>7
  <2>2. pc' = "search" /\ todo' = todo
    BY <1>6 DEF Search
  <2>4. TypeOK'
    <3>1. Len(Old') + Len(found') <= length'
      BY <1>2, <1>3, <1>4, <2>1
    <3>. QED BY <1>1, <1>3, <1>4, <1>7, <2>2, <3>1
         DEF TypeInv, TypeOK
  <2>. QED BY <1>3, <1>4, <2>1, <2>2, <2>4 DEF TypeInv, InCall, InWrite
<1>. QED BY <1>5, <1>6

(* The window is written back.                                             *)
LEMMA WriteBackTypes == TypeInv /\ WriteBack => TypeInv'
BY WindowType, Numbers DEF WriteBack, NewBuffer, TypeInv, TypeOK, InCall,
   InWrite, Old, fileVars, callVars

(* An entry is changed.                                                    *)
LEMMA PutTypes == TypeInv /\ Put => TypeInv'
<1> SUFFICES ASSUME TypeInv, Put PROVE TypeInv'
  OBVIOUS
<1> DEFINE c == Head(todo)[1]
           P == Entries \X Values
<1>1. /\ Head(todo) \in P /\ Tail(todo) \in Seq(P) /\ todo' = Tail(todo)
      /\ pc' = "write" /\ pc = "write"
  <2>1. todo \in Seq(P) /\ todo # <<>> /\ todo' = Tail(todo) /\ pc = "write"
    BY DEF TypeInv, TypeOK, Put
  <2> HIDE DEF P
  <2>. QED BY <2>1 DEF Put, callVars
<1>2. buffer' \in [Entries -> Values] /\ window' \in Nat
  <2>1. c \in Entries /\ Head(todo)[2] \in Values
    BY <1>1
  <2>2. Loaded(c) \in [Entries -> Values] /\ WindowOf(c) \in Nat
    BY <2>1, WindowType, WindowNumber DEF TypeInv
  <2>. QED BY <2>1, <2>2 DEF Put
<1>3. UNCHANGED <<table, hint, freeCount, start, chain, kept, file, length,
                  cursor, found, failed>> /\ Old' = Old
  BY DEF Put, deviceVars, fileVars, callVars, Old
<1>. QED BY <1>1, <1>2, <1>3 DEF TypeInv, TypeOK, InCall, InWrite

(* The call's last window and the info structure are written.              *)
LEMMA FlushTypes == TypeInv /\ Flush => TypeInv'
<1> SUFFICES ASSUME TypeInv, Flush PROVE TypeInv'
  OBVIOUS
<1>1. /\ Old \in Chains /\ Len(Old) \in Nat /\ found \in Chains
      /\ Len(found) \in Nat
      /\ found # <<>> => Len(found) # 0
  BY OldType, ChainsNotClosed DEF Flush, TypeInv, TypeOK
<1>2. hint' \in Entries \cup {INVALID_VALUE}
  <2>1. found # <<>> => found[Len(found)] \in Entries
    BY <1>1, ChainsNotClosed
  <2>. QED BY <2>1 DEF Flush, TypeInv, TypeOK
<1>3. freeCount' \in Int
  BY <1>1 DEF Flush, CountAfter, TypeInv, TypeOK
<1>4. table' \in [Entries -> Values]
  BY WindowType DEF Flush, TypeInv
<1>5. UNCHANGED <<start, chain, kept, file, length, cursor, found, todo,
                  window, buffer, failed>> /\ Old' = Old
  BY DEF Flush, fileVars, windowVars, Old
<1>6. pc' = "info" /\ pc = "write" /\ todo = <<>>
  BY DEF Flush
<1>. QED BY <1>1, <1>2, <1>3, <1>4, <1>5, <1>6
         DEF TypeInv, TypeOK, InCall, InWrite

(* The first n clusters of two chains.                                     *)
LEMMA PrefixType ==
    ASSUME NEW a \in Chains, NEW b \in Chains, NEW n \in Nat,
           n <= Len(a) + Len(b)
    PROVE  /\ SubSeq(a \o b, 1, n) \in Chains
           /\ Len(SubSeq(a \o b, 1, n)) = n
           /\ a \o b \in Chains /\ Len(a \o b) = Len(a) + Len(b)
           /\ \A i \in 1..Len(a) + Len(b) :
                (a \o b)[i] = IF i <= Len(a) THEN a[i] ELSE b[i - Len(a)]
           /\ \A i \in 1..n : SubSeq(a \o b, 1, n)[i] = (a \o b)[i]
<1> DEFINE whole == a \o b
<1>1. Len(a) \in Nat /\ Len(b) \in Nat
  BY ChainsNotClosed
<1>2. /\ a \o b \in Seq(Entries) /\ Len(a \o b) = Len(a) + Len(b)
      /\ \A i \in 1..Len(a) + Len(b) :
           (a \o b)[i] = IF i <= Len(a) THEN a[i] ELSE b[i - Len(a)]
  BY ConcatProperties DEF Chains
<1>3. whole \in Seq(Entries) /\ n \in 0..Len(whole)
  BY <1>1, <1>2
<1> HIDE DEF whole
<1>4. SubSeq(whole, 1, n) \in Seq(Entries)
  BY <1>3
<1>5. \A i \in 1..n : SubSeq(whole, 1, n)[i] = whole[i]
  BY <1>3
<1>6. Len(SubSeq(whole, 1, n)) = n
  BY <1>3
<1>. QED BY <1>2, <1>4, <1>5, <1>6 DEF whole, Chains

(* What the call leaves is a chain.                                        *)
LEMMA NewType ==
    ASSUME TypeInv, InWrite
    PROVE  /\ Old \in Chains /\ found \in Chains /\ length \in Nat
           /\ length <= Len(Old) + Len(found)
           /\ New \in Chains /\ Len(New) = length
<1>1. /\ Old \in Chains /\ Len(Old) \in Nat /\ found \in Chains
      /\ Len(found) \in Nat /\ length \in Nat
      /\ found = <<>> => Len(found) = 0
  BY OldType, ChainsNotClosed DEF InWrite, TypeInv, TypeOK
<1>2. length <= Len(Old) + Len(found)
  BY <1>1 DEF TypeInv, InWrite
<1>. QED BY <1>1, <1>2, PrefixType DEF New

(* The call returns its chain.                                             *)
LEMMA FinishTypes == TypeInv /\ Finish => TypeInv'
<1> SUFFICES ASSUME TypeInv, Finish PROVE TypeInv'
  OBVIOUS
<1>1. New \in Chains /\ Len(New) = length /\ file \in Files
  BY NewType DEF Finish, InWrite, TypeInv, TypeOK
<1>2. /\ kept' = [kept EXCEPT ![file] = New]
      /\ chain' = IF chain[file] = Closed THEN chain
                  ELSE [chain EXCEPT ![file] =
                          IF start[file] = NoEntry THEN Closed ELSE New]
      /\ start' = IF chain[file] # Closed THEN start
                  ELSE [start EXCEPT ![file] = New[1]]
      /\ Return /\ UNCHANGED <<table, hint, freeCount, failed>>
  BY DEF Finish, New, deviceVars
<1>3. chain[file] = Closed => New[1] \in Entries
  BY <1>1, ChainsNotClosed DEF Finish, TypeInv, InCall
<1>4. start' \in [Files -> Entries \cup {NoEntry}]
  BY <1>1, <1>2, <1>3 DEF TypeInv, TypeOK
<1>5. chain' \in [Files -> Chains \cup {Closed}] /\ kept' \in [Files -> Chains]
  BY <1>1, <1>2 DEF TypeInv, TypeOK
<1>. QED BY <1>2, <1>4, <1>5, ReturnTypes DEF TypeInv, TypeOK

(* An exception ends the call.                                             *)
LEMMA ThrowTypes ==
    ASSUME TypeInv, pc # "idle", Throw
    PROVE  TypeInv'
BY ReturnTypes DEF Throw, TypeInv, TypeOK, deviceVars, fileVars

(* Another host has used the volume.                                       *)
LEMMA OtherHostTypes == TypeInv /\ OtherHost => TypeInv'
BY Numbers DEF OtherHost, TypeInv, TypeOK, InCall, InWrite, fileVars,
   callVars, windowVars, INVALID_VALUE

(* Every step keeps the types.                                             *)
LEMMA NextTypes == TypeInv /\ [Next]_vars => TypeInv'
<1> SUFFICES ASSUME TypeInv, [Next]_vars PROVE TypeInv'
  OBVIOUS
<1>1. CASE UNCHANGED vars
  BY <1>1 DEF vars, deviceVars, fileVars, callVars, windowVars, TypeInv,
     TypeOK, InCall, InWrite, Old
<1>2. CASE EndOfDevice \/ TransferFails
  BY <1>2, ThrowTypes DEF EndOfDevice, TransferFails
<1>. QED BY <1>1, <1>2, ClientTypes, FollowTypes, SearchTypes, WriteBackTypes,
         PutTypes, FlushTypes, FinishTypes, OtherHostTypes DEF Next

(* Type correctness: on every volume and whatever fails, entries, chains   *)
(* and the call in progress keep their types; a call never collects more   *)
(* clusters than it was asked for.                                         *)
THEOREM TypeCorrect == Spec => []TypeOK
<1>1. TypeInv => TypeOK
  BY DEF TypeInv
<1>. QED BY <1>1, InitTypes, NextTypes, PTL DEF Spec

-----------------------------------------------------------------------------
(* Tables, chains and counts                                               *)

(* A table with changes has the type of a table, the changed entries where *)
(* it is changed and the old ones elsewhere.                               *)
LEMMA AppliedIs ==
    ASSUME NEW td \in Seq(Entries \X Values), NEW t \in [Entries -> Values],
           Once(td)
    PROVE  /\ Applied(td, t) \in [Entries -> Values]
           /\ \A k \in 1..Len(td) : /\ td[k][1] \in Entries
                                    /\ Applied(td, t)[td[k][1]] = td[k][2]
           /\ \A c \in Entries : (\A k \in 1..Len(td) : td[k][1] # c)
                => Applied(td, t)[c] = t[c]
<1>1. \A k \in 1..Len(td) : td[k][1] \in Entries /\ td[k][2] \in Values
  <2>1. \A k \in 1..Len(td) : td[k] \in Entries \X Values
    OBVIOUS
  <2>. QED BY <2>1
<1>2. ASSUME NEW c \in Entries
      PROVE  /\ Applied(td, t)[c] \in Values
             /\ (\A k \in 1..Len(td) : td[k][1] # c) => Applied(td, t)[c] = t[c]
             /\ \A k \in 1..Len(td) : td[k][1] = c => Applied(td, t)[c] = td[k][2]
  <2> DEFINE j == CHOOSE k \in 1..Len(td) : td[k][1] = c
  <2>1. Applied(td, t)[c] = IF \E k \in 1..Len(td) : td[k][1] = c THEN td[j][2]
                            ELSE t[c]
    BY DEF Applied
  <2>2. (\E k \in 1..Len(td) : td[k][1] = c)
          => j \in 1..Len(td) /\ td[j][1] = c
    OBVIOUS
  <2> HIDE DEF j
  <2>. QED BY <1>1, <2>1, <2>2 DEF Once
<1>3. Applied(td, t) = [c \in Entries |-> Applied(td, t)[c]]
  BY DEF Applied
<1> DEFINE a == Applied(td, t)
<1> HIDE DEF a
<1>4. a \in [Entries -> Values]
  BY <1>2, <1>3 DEF a
<1>. QED BY <1>1, <1>2, <1>4 DEF a

(* Nothing to be changed.                                                  *)
LEMMA AppliedNone ==
    ASSUME NEW t \in [Entries -> Values]
    PROVE  Applied(<<>>, t) = t
BY DEF Applied

(* Making the first change first makes no difference.                      *)
LEMMA AppliedTail ==
    ASSUME NEW td \in Seq(Entries \X Values), td # <<>>, Once(td),
           NEW t \in [Entries -> Values]
    PROVE  LET c == Head(td)[1]
               u == [t EXCEPT ![c] = Head(td)[2]]
           IN /\ u \in [Entries -> Values] /\ Once(Tail(td))
              /\ Applied(Tail(td), u) = Applied(td, t)
<1> DEFINE P == Entries \X Values
           c == Head(td)[1]
           u == [t EXCEPT ![c] = Head(td)[2]]
           tl == Tail(td)
<1>1. /\ Head(td) = td[1] /\ td[1] \in P /\ tl \in Seq(P)
      /\ Len(td) \in Nat /\ Len(td) >= 1 /\ Len(tl) = Len(td) - 1
      /\ \A k \in 1..Len(tl) : tl[k] = td[k + 1]
  <2>1. td \in Seq(P)
    OBVIOUS
  <2> HIDE DEF P
  <2>. QED BY <2>1, HeadTailProperties
<1>2. c \in Entries /\ Head(td)[2] \in Values
  BY <1>1
<1>3. u \in [Entries -> Values]
  BY <1>2
<1>4. Once(tl)
  <2> SUFFICES ASSUME NEW j \in 1..Len(tl), NEW k \in 1..Len(tl),
                      tl[j][1] = tl[k][1]
               PROVE  j = k
    BY DEF Once
  <2>1. td[j + 1][1] = td[k + 1][1] /\ j + 1 \in 1..Len(td) /\ k + 1 \in 1..Len(td)
    BY <1>1
  <2>2. j + 1 = k + 1
    BY <2>1 DEF Once
  <2>. QED BY <2>2
<1> HIDE DEF P, c, u, tl
<1>5. ASSUME NEW e \in Entries
      PROVE  Applied(tl, u)[e] = Applied(td, t)[e]
  <2>1. CASE \E k \in 1..Len(tl) : tl[k][1] = e
    <3>1. PICK k \in 1..Len(tl) : tl[k][1] = e
      BY <2>1
    <3>2. td[k + 1][1] = e /\ k + 1 \in 1..Len(td) /\ td[k + 1] = tl[k]
      BY <1>1, <3>1
    <3>3. Applied(tl, u)[e] = tl[k][2]
      BY <3>1, <1>1, <1>3, <1>4, AppliedIs DEF P
    <3>4. Applied(td, t)[e] = td[k + 1][2]
      BY <3>2, AppliedIs
    <3>. QED BY <3>2, <3>3, <3>4
  <2>2. CASE ~\E k \in 1..Len(tl) : tl[k][1] = e
    <3>1. Applied(tl, u)[e] = u[e]
      BY <2>2, <1>1, <1>3, <1>4, AppliedIs DEF P
    <3>2. CASE e = c
      <4>1. 1 \in 1..Len(td) /\ td[1][1] = e
        BY <3>2, <1>1 DEF c
      <4>2. Applied(td, t)[e] = td[1][2]
        BY <4>1, AppliedIs
      <4>. QED BY <3>1, <3>2, <4>2, <1>1, <1>2 DEF u
    <3>3. CASE e # c
      <4>1. ASSUME NEW k \in 1..Len(td) PROVE td[k][1] # e
        <5>1. CASE k = 1
          BY <5>1, <1>1, <3>3 DEF c
        <5>2. CASE k # 1
          <6>1. k - 1 \in 1..Len(tl) /\ (k - 1) + 1 = k
            BY <5>2, <1>1
          <6>2. tl[k - 1] = td[k]
            BY <6>1, <1>1
          <6>. QED BY <6>1, <6>2, <2>2
        <5>. QED BY <5>1, <5>2
      <4>2. Applied(td, t)[e] = t[e]
        BY <4>1, AppliedIs
      <4>. QED BY <3>1, <3>3, <4>2 DEF u
    <3>. QED BY <3>2, <3>3
  <2>. QED BY <2>1, <2>2
<1>6. Applied(tl, u) = Applied(td, t)
  <2>1. Applied(tl, u) \in [Entries -> Values]
    BY <1>1, <1>3, <1>4, AppliedIs DEF P
  <2>2. Applied(td, t) \in [Entries -> Values]
    BY AppliedIs
  <2>. QED BY <1>5, <2>1, <2>2
<1>. QED BY <1>3, <1>4, <1>6 DEF c, u, tl

(* n distinct elements more.                                               *)
LEMMA CountMore ==
    ASSUME NEW S, IsFiniteSet(S), NEW n \in Nat, NEW e,
           \A i, j \in 1..n : e[i] = e[j] => i = j,
           \A i \in 1..n : e[i] \notin S
    PROVE  Cardinality(S \cup {e[i] : i \in 1..n}) = Cardinality(S) + n
<1> DEFINE T == {e[i] : i \in 1..n}
           b == [i \in 1..n |-> e[i]]
<1>1. IsFiniteSet(1..n) /\ Cardinality(1..n) = n
  BY FS_Interval
<1>2. b \in Bijection(1..n, T)
  BY DEF Bijection, Injection, Surjection, IsInjective
<1>3. ExistsBijection(1..n, T)
  BY <1>2 DEF ExistsBijection
<1>4. IsFiniteSet(T) /\ Cardinality(T) = n
  BY <1>1, <1>3, FS_Bijection
<1>5. S \cap T = {}
  OBVIOUS
<1> HIDE DEF T
<1>6. Cardinality(S \cap T) = 0
  BY <1>5, FS_EmptySet
<1>7. Cardinality(S) \in Nat
  BY FS_CardinalityType
<1>8. Cardinality(S \cup T) = Cardinality(S) + Cardinality(T) - Cardinality(S \cap T)
  BY <1>4, FS_Union
<1>. QED BY <1>4, <1>6, <1>7, <1>8 DEF T

-----------------------------------------------------------------------------
(* Steps that leave the volume and the chains alone                        *)

(* What an element of a good file's chain is.                              *)
LEMMA KeptTypes ==
    ASSUME TypeInv, FilesInv, NEW f \in Good
    PROVE  /\ f \in Files /\ kept[f] \in Chains /\ Len(kept[f]) \in Nat
           /\ kept[f] = <<>> <=> Len(kept[f]) = 0
           /\ \A i \in 1..Len(kept[f]) : kept[f][i] \in Clusters
           /\ Distinct(kept[f]) /\ chain[f] \in {Closed, kept[f]}
BY ChainsNotClosed DEF TypeInv, TypeOK, FilesInv, KeptInv, Good, Within

(* If neither the table nor the chains change, nor the directory entry of  *)
(* a file no call is writing, then only the new handles are to be seen to. *)
LEMMA Unmoved ==
    ASSUME FilesInv, UNCHANGED <<table, kept, failed>>, Stored' = Stored,
           Steady' \subseteq Steady,
           \A f \in Good : chain'[f] \in {Closed, kept[f]},
           \A f \in Steady' : start'[f] = start[f]
    PROVE  FilesInv'
<1>1. Good' = Good
  BY DEF Good
<1>2. PaddingInv'
  BY DEF FilesInv, PaddingInv
<1>3. KeptInv'
  BY <1>1 DEF FilesInv, KeptInv
<1>4. TableInv'
  <2> SUFFICES ASSUME NEW f \in Steady'
               PROVE  (ChainIn(kept[f], table) /\ ChainIn(kept[f], Stored))'
    BY DEF TableInv
  <2>1. f \in Steady
    OBVIOUS
  <2>2. ChainIn(kept[f], table) /\ ChainIn(kept[f], Stored)
    BY <2>1 DEF FilesInv, TableInv
  <2>. QED BY <2>2 DEF ChainIn
<1>5. EntryInv'
  <2>1. EntryInv
    BY DEF FilesInv
  <2>. QED BY <2>1 DEF EntryInv
<1>. QED BY <1>2, <1>3, <1>4, <1>5 DEF FilesInv

(* Between two calls there is no window and every good file is steady.     *)
LEMMA IdleFacts ==
    ASSUME IInv, pc = "idle"
    PROVE  /\ Stored = table /\ window = NoWindow /\ found = <<>>
           /\ todo = <<>> /\ Steady = Good
BY NoWindowStored DEF IInv, TypeInv, TypeOK, Steady, InWrite

(* Stored is what it was while the table and the window are.               *)
LEMMA SameStored ==
    UNCHANGED <<table, windowVars>> => Stored' = Stored
BY DEF windowVars, Stored

(* A search begins.                                                        *)
LEMMA BeginAllocInv ==
    ASSUME IInv, TypeInv', NEW f \in Good, NEW n \in Nat, pc = "idle",
           BeginAlloc(f, n),
           IF chain[f] = Closed THEN start[f] = NoEntry ELSE kept[f] # <<>>
    PROVE  IInv'
<1>1. /\ UNCHANGED <<table, kept, failed, chain, start, hint, freeCount, window,
                     buffer, found>>
      /\ pc' = "search" /\ file' = f /\ cursor' = LastAllocated
  BY DEF BeginAlloc, deviceVars, fileVars, windowVars
<1>2. Stored' = Stored /\ Stored = table /\ found = <<>> /\ Steady = Good
  BY <1>1, SameStored, IdleFacts DEF windowVars
<1>3. Steady' = Good /\ Good' = Good
  BY <1>1 DEF Steady, Good, InWrite
<1>4. FilesInv'
  BY <1>1, <1>2, <1>3, Unmoved DEF IInv, FilesInv, KeptInv
<1>5. chain[f] = Closed => kept[f] = <<>>
  <2>1. ASSUME kept[f] # <<>> PROVE start[f] # NoEntry
    <3>1. start[f] = kept[f][1]
      BY <1>2, <2>1 DEF IInv, FilesInv, EntryInv
    <3>2. kept[f][1] \in Clusters
      BY <2>1, KeptTypes DEF IInv
    <3>. QED BY <3>1, <3>2, Numbers
  <2>. QED BY <2>1
<1>6. CallInv'
  BY <1>1, <1>2, <1>5 DEF CallInv, IInv, ProgressInv, Good
<1>7. FollowInv' /\ WriteInv' /\ WriteEntryInv'
  BY <1>1 DEF FollowInv, WriteInv, WriteEntryInv, InWrite
<1>8. FoundInv'
  BY <1>1, <1>2 DEF FoundInv, Distinct, Within, Disjoint
<1>9. SearchInv'
  <2>1. cursor' >= 2
    <3>1. hint \in Clusters \cup {INVALID_VALUE}
      BY DEF IInv, ProgressInv, CallInv
    <3>. QED BY <1>1, <3>1, TableAssumption
         DEF LastAllocated, Clusters, TableAssumption
  <2>. QED BY <1>1, <1>2, <2>1 DEF SearchInv
<1>10. CountInv'
  BY <1>1 DEF CountInv, IInv, ProgressInv
<1>. QED BY <1>4, <1>6, <1>7, <1>8, <1>9, <1>10 DEF IInv, ProgressInv

(* createFile and setLength of a file that grows.                          *)
LEMMA AllocInv ==
    ASSUME Supported, IInv, TypeInv', NEW f \in Files, CreateFile(f) \/ Grow(f)
    PROVE  IInv'
<1>1. pc = "idle" /\ f \in Good
  BY DEF CreateFile, Grow, IsOpen, Idle, Good
<1>2. CASE CreateFile(f)
  BY <1>1, <1>2, BeginAllocInv DEF CreateFile
<1>3. CASE Grow(f)
  <2>1. PICK n \in Len(chain[f]) + 1..MaxLength : BeginAlloc(f, n)
    BY <1>3 DEF Grow
  <2>2. chain[f] # Closed /\ chain[f] # <<>>
    BY <1>3 DEF Grow, IsOpen, Supported
  <2>3. chain[f] = kept[f] /\ Len(kept[f]) \in Nat
    BY <1>1, <2>2, KeptTypes DEF IInv
  <2>4. n \in Nat
    BY <2>3, BoundAssumption DEF BoundAssumption
  <2>. QED BY <1>1, <2>1, <2>2, <2>3, <2>4, BeginAllocInv
<1>. QED BY <1>2, <1>3

(* A step between two calls: only handles, directory entries of files      *)
(* without a chain, and the other host's hint and count change.            *)
LEMMA IdleStep ==
    ASSUME IInv, pc = "idle", pc' = "idle",
           UNCHANGED <<table, kept, failed, windowVars>>,
           \A f \in Good : chain'[f] \in {Closed, kept[f]},
           \A f \in Good : \/ start'[f] = start[f]
                           \/ kept[f] = <<>> /\ start'[f] = NoEntry,
           hint' \in Clusters \cup {INVALID_VALUE},
           freeCount' \in {freeCount, INVALID_VALUE}
    PROVE  FilesInv' /\ ProgressInv'
<1>1. Stored' = Stored /\ Stored = table /\ found = <<>> /\ Steady = Good
  BY SameStored, IdleFacts
<1>2. Steady' = Good /\ Good' = Good
  BY DEF Steady, Good, InWrite
<1>3. PaddingInv'
  BY <1>1 DEF IInv, FilesInv, PaddingInv
<1>4. KeptInv'
  BY <1>2 DEF IInv, FilesInv, KeptInv
<1>5. TableInv'
  <2> SUFFICES ASSUME NEW f \in Steady'
               PROVE  (ChainIn(kept[f], table) /\ ChainIn(kept[f], Stored))'
    BY DEF TableInv
  <2>1. ChainIn(kept[f], table) /\ ChainIn(kept[f], Stored)
    BY <1>1, <1>2 DEF IInv, FilesInv, TableInv
  <2>. QED BY <2>1, <1>1 DEF ChainIn
<1>6. EntryInv'
  <2>1. EntryInv
    BY DEF IInv, FilesInv
  <2>. QED BY <2>1, <1>1, <1>2 DEF EntryInv
<1>7. CallInv' /\ FollowInv' /\ FoundInv' /\ SearchInv'
  BY DEF CallInv, FollowInv, FoundInv, SearchInv, InCall
<1>8. WriteInv' /\ WriteEntryInv'
  BY DEF WriteInv, WriteEntryInv, InWrite
<1>9. CountInv'
  BY DEF CountInv, IInv, ProgressInv
<1>. QED BY <1>3, <1>4, <1>5, <1>6, <1>7, <1>8, <1>9 DEF FilesInv, ProgressInv

(* Dropping a handle, and the other host.                                  *)
LEMMA CloseInv ==
    ASSUME IInv, TypeInv', (\E f \in Files : CloseFile(f)) \/ OtherHost
    PROVE  IInv'
<1>1. \A f \in Good : chain[f] \in {Closed, kept[f]} /\ f \in Files
  BY KeptTypes DEF IInv
<1>2. chain \in [Files -> Chains \cup {Closed}]
  BY DEF IInv, TypeInv, TypeOK
<1>3. hint \in Clusters \cup {INVALID_VALUE}
  BY DEF IInv, ProgressInv, CallInv
<1>4. CASE \E f \in Files : CloseFile(f)
  BY <1>1, <1>2, <1>3, <1>4, IdleStep
  DEF CloseFile, deviceVars, callVars, windowVars, IInv
<1>5. CASE OtherHost
  BY <1>1, <1>5, IdleStep DEF OtherHost, fileVars, callVars, windowVars, IInv
<1>. QED BY <1>4, <1>5

(* A new handle.                                                           *)
LEMMA OpenInv ==
    ASSUME IInv, TypeInv', NEW f \in Files, OpenFile(f)
    PROVE  IInv'
<1>1. pc = "idle" /\ f \in Good /\ start[f] # NoEntry /\ chain[f] = Closed
  BY DEF OpenFile, Idle, Good
<1>2. Stored = table /\ found = <<>> /\ Steady = Good
  BY <1>1, IdleFacts
<1>3. IF kept[f] = <<>> THEN start[f] = 0
      ELSE start[f] = kept[f][1] /\ start[f] # 0
  <2>1. IF kept[f] = <<>> THEN start[f] \in {NoEntry, 0}
                          ELSE start[f] = kept[f][1]
    BY <1>1, <1>2 DEF IInv, FilesInv, EntryInv
  <2>2. kept[f] # <<>> => kept[f][1] \in Clusters
    BY <1>1, KeptTypes DEF IInv
  <2>. QED BY <1>1, <2>1, <2>2, Numbers
<1>4. \A g \in Good : chain[g] \in {Closed, kept[g]} /\ g \in Files
  BY KeptTypes DEF IInv
<1>5. chain \in [Files -> Chains \cup {Closed}]
  BY DEF IInv, TypeInv, TypeOK
<1>6. hint \in Clusters \cup {INVALID_VALUE}
  BY DEF IInv, ProgressInv, CallInv
<1>7. CASE start[f] = 0
  <2>1. chain' = [chain EXCEPT ![f] = <<>>] /\ kept[f] = <<>>
    BY <1>3, <1>7 DEF OpenFile
  <2>. QED BY <1>1, <1>4, <1>5, <1>6, <1>7, <2>1, IdleStep
           DEF OpenFile, deviceVars, callVars, windowVars, IInv
<1>8. CASE start[f] # 0
  <2>1. /\ UNCHANGED <<table, kept, failed, chain, start, hint, freeCount,
                       window, buffer, found>>
        /\ pc' = "follow" /\ file' = f /\ cursor' = start[f]
    BY <1>8 DEF OpenFile, deviceVars, windowVars
  <2>2. Stored' = Stored
    BY <2>1, SameStored DEF windowVars
  <2>3. Steady' = Good /\ Good' = Good
    BY <2>1 DEF Steady, Good, InWrite
  <2>4. FilesInv'
    BY <1>2, <2>1, <2>2, <2>3, Unmoved DEF IInv, FilesInv, KeptInv
  <2>5. kept[f] # <<>> /\ Len(kept[f]) \in Nat /\ Len(kept[f]) # 0
    BY <1>1, <1>3, <1>8, KeptTypes DEF IInv
  <2>6. CallInv'
    BY <1>1, <1>2, <2>1, <2>2 DEF CallInv, InCall, IInv, ProgressInv, Good
  <2>7. FollowInv'
    BY <1>1, <1>2, <1>3, <2>1, <2>5 DEF FollowInv
  <2>8. FoundInv' /\ SearchInv' /\ WriteInv' /\ WriteEntryInv'
    BY <2>1 DEF FoundInv, SearchInv, WriteInv, WriteEntryInv, InCall, InWrite
  <2>9. CountInv'
    BY <1>1, <2>1 DEF CountInv, IInv, ProgressInv
  <2>. QED BY <2>4, <2>6, <2>7, <2>8, <2>9 DEF IInv, ProgressInv
<1>. QED BY <1>7, <1>8

-----------------------------------------------------------------------------
(* Cutting a chain                                                         *)

(* The changes free makes to a chain s of the table t: they are distinct,  *)
(* leave a chain of n clusters, and free all the others.                   *)
LEMMA CutsDo ==
    ASSUME NEW s \in Chains, NEW n \in 0..Len(s) - 1,
           Distinct(s), Within(s, Clusters),
           NEW t \in [Entries -> Values], ChainIn(s, t)
    PROVE  /\ Once(Cuts(s, n))
           /\ \A k \in 1..Len(Cuts(s, n)) :
                \E i \in 1..Len(s) : Cuts(s, n)[k][1] = s[i]
           /\ \A i \in 1..n : Applied(Cuts(s, n), t)[s[i]] =
                IF i < n THEN s[i + 1] ELSE FAT32_EOF_CLUSTER
           /\ FreeIn(Applied(Cuts(s, n), t)) =
                FreeIn(t) \cup {s[n + i] : i \in 1..Len(s) - n}
           /\ \A i \in 1..Len(s) - n : s[n + i] \notin FreeIn(t)
<1> DEFINE td == Cuts(s, n)
           m == Len(s) - n
           at(k) == IF k <= m THEN n + k ELSE n
<1>1. /\ Len(s) \in Nat /\ n \in Nat /\ n < Len(s) /\ m \in Nat
      /\ \A i \in 1..Len(s) : s[i] \in Clusters /\ s[i] \in Entries
  BY ChainsNotClosed, Numbers DEF Within
<1>2. /\ td \in Seq(Entries \X Values)
      /\ Len(td) = m + (IF n > 0 THEN 1 ELSE 0)
      /\ \A i \in 1..m : td[i] = <<s[n + i], 0>>
      /\ n > 0 => td[m + 1] = <<s[n], FAT32_EOF_CLUSTER>>
  BY CutsType
<1> HIDE DEF td
<1>3. ASSUME NEW k \in 1..Len(td)
      PROVE  /\ at(k) \in 1..Len(s) /\ td[k][1] = s[at(k)]
             /\ k <= m => td[k][2] = 0
             /\ k > m => k = m + 1 /\ n > 0 /\ td[k][2] = FAT32_EOF_CLUSTER
  <2>1. CASE k <= m
    <3>1. k \in 1..m
      BY <1>1, <1>2, <2>1
    <3>2. td[k] = <<s[n + k], 0>> /\ at(k) = n + k /\ n + k \in 1..Len(s)
      BY <1>1, <1>2, <3>1
    <3>. QED BY <1>1, <3>1, <3>2
  <2>2. CASE k > m
    <3>1. k = m + 1 /\ n > 0
      BY <1>1, <1>2, <2>2
    <3>2. td[k] = <<s[n], FAT32_EOF_CLUSTER>> /\ at(k) = n /\ n \in 1..Len(s)
      BY <1>1, <1>2, <2>2, <3>1
    <3>. QED BY <1>1, <2>2, <3>1, <3>2
  <2>. QED BY <1>1, <2>1, <2>2
<1>4. \A j, k \in 1..Len(td) : at(j) = at(k) => j = k
  BY <1>1, <1>2
<1>5. Once(td)
  <2> SUFFICES ASSUME NEW j \in 1..Len(td), NEW k \in 1..Len(td),
                      td[j][1] = td[k][1]
               PROVE  j = k
    BY DEF Once
  <2>1. at(j) \in 1..Len(s) /\ at(k) \in 1..Len(s) /\ s[at(j)] = s[at(k)]
    BY <1>3
  <2> HIDE DEF at
  <2>2. at(j) = at(k)
    BY <2>1 DEF Distinct
  <2>. QED BY <2>2, <1>4
<1> DEFINE u == Applied(td, t)
<1>6. /\ u \in [Entries -> Values]
      /\ \A k \in 1..Len(td) : u[td[k][1]] = td[k][2]
      /\ \A c \in Entries : (\A k \in 1..Len(td) : td[k][1] # c) => u[c] = t[c]
  BY <1>2, <1>5, AppliedIs
<1> HIDE DEF u
(* Behind the new end every entry becomes zero.                            *)
<1>7. ASSUME NEW i \in 1..Len(s), i > n PROVE u[s[i]] = 0 /\ t[s[i]] # 0
  <2>1. i - n \in 1..m /\ i - n \in 1..Len(td) /\ n + (i - n) = i
    BY <1>1, <1>2, <1>7
  <2>2. td[i - n] = <<s[i], 0>>
    BY <1>2, <2>1
  <2>3. t[s[i]] = IF i < Len(s) THEN s[i + 1] ELSE FAT32_EOF_CLUSTER
    BY DEF ChainIn
  <2>4. i < Len(s) => s[i + 1] \in Clusters
    BY <1>1
  <2>. QED BY <1>6, <2>1, <2>2, <2>3, <2>4, Numbers
(* In front of it nothing changes.                                         *)
<1>8. ASSUME NEW i \in 1..n
      PROVE  u[s[i]] = IF i < n THEN s[i + 1] ELSE FAT32_EOF_CLUSTER
  <2>1. CASE i = n
    <3>1. n > 0 /\ m + 1 \in 1..Len(td)
      BY <1>1, <1>2, <2>1
    <3>2. td[m + 1][1] = s[n] /\ td[m + 1][2] = FAT32_EOF_CLUSTER
      BY <1>2, <3>1
    <3>. QED BY <1>6, <2>1, <3>1, <3>2
  <2>2. CASE i < n
    <3>1. i \in 1..Len(s) /\ i < Len(s)
      BY <1>1
    <3>2. ASSUME NEW k \in 1..Len(td) PROVE td[k][1] # s[i]
      <4>1. at(k) \in 1..Len(s) /\ at(k) # i /\ td[k][1] = s[at(k)]
        BY <1>1, <1>3, <2>2
      <4> HIDE DEF at
      <4>. QED BY <3>1, <4>1 DEF Distinct
    <3>3. u[s[i]] = t[s[i]]
      BY <1>1, <1>6, <3>1, <3>2
    <3>4. t[s[i]] = s[i + 1]
      BY <3>1 DEF ChainIn
    <3>. QED BY <2>2, <3>3, <3>4
  <2>. QED BY <1>1, <2>1, <2>2
<1>9. ASSUME NEW c \in Clusters
      PROVE  u[c] = 0 <=> t[c] = 0 \/ \E i \in 1..m : c = s[n + i]
  <2>0. c \in Entries
    BY Numbers
  <2>1. CASE \E i \in 1..Len(s) : i > n /\ c = s[i]
    <3>1. PICK i \in 1..Len(s) : i > n /\ c = s[i]
      BY <2>1
    <3>2. i - n \in 1..m /\ n + (i - n) = i
      BY <1>1, <3>1
    <3>. QED BY <1>7, <3>1, <3>2
  <2>2. CASE ~\E i \in 1..Len(s) : i > n /\ c = s[i]
    <3>1. ~\E i \in 1..m : c = s[n + i]
      <4>1. \A i \in 1..m : n + i \in 1..Len(s) /\ n + i > n
        BY <1>1
      <4>. QED BY <4>1, <2>2
    <3>2. CASE \E i \in 1..n : c = s[i]
      <4>1. PICK i \in 1..n : c = s[i]
        BY <3>2
      <4>2. i \in 1..Len(s) /\ (i < n => i + 1 \in 1..Len(s)) /\ i < Len(s)
        BY <1>1
      <4>3. u[c] # 0
        BY <1>1, <1>8, <4>1, <4>2, Numbers
      <4>4. t[c] = s[i + 1] /\ s[i + 1] \in Clusters
        BY <1>1, <4>1, <4>2 DEF ChainIn
      <4>. QED BY <3>1, <4>3, <4>4, Numbers
    <3>3. CASE ~\E i \in 1..n : c = s[i]
      <4>1. ASSUME NEW k \in 1..Len(td) PROVE td[k][1] # c
        <5>1. at(k) \in 1..Len(s) /\ td[k][1] = s[at(k)]
          BY <1>3
        <5> HIDE DEF at
        <5>2. at(k) \in 1..n \/ at(k) > n
          BY <1>1, <5>1
        <5>. QED BY <5>1, <5>2, <2>2, <3>3
      <4>. QED BY <1>6, <2>0, <3>1, <4>1
    <3>. QED BY <3>2, <3>3
  <2>. QED BY <2>1, <2>2
<1>10. FreeIn(u) = FreeIn(t) \cup {s[n + i] : i \in 1..m}
  <2>1. \A i \in 1..m : s[n + i] \in Clusters
    BY <1>1
  <2> HIDE DEF m
  <2>. QED BY <1>9, <2>1 DEF FreeIn
<1>11. \A i \in 1..m : s[n + i] \notin FreeIn(t)
  <2>1. \A i \in 1..m : n + i \in 1..Len(s) /\ n + i > n
    BY <1>1
  <2>. QED BY <2>1, <1>7 DEF FreeIn
<1>12. \A k \in 1..Len(td) : \E i \in 1..Len(s) : td[k][1] = s[i]
  BY <1>3
<1>. QED BY <1>5, <1>8, <1>10, <1>11, <1>12 DEF u, td

(* free begins: the chain will be cut, and the count will be right.        *)
LEMMA BeginFreeInv ==
    ASSUME IInv, TypeInv', NEW f \in Good, pc = "idle", chain[f] # Closed,
           NEW n \in 0..Len(chain[f]) - 1, BeginFree(f, n),
           \A g \in Good : g # f => start'[g] = start[g],
           IF n = 0 THEN start'[f] = NoEntry
           ELSE start'[f] = start[f] /\ start[f] # NoEntry
    PROVE  IInv'
<1> DEFINE s == kept[f]
<1>1. /\ UNCHANGED <<table, kept, failed, chain, hint, freeCount, window,
                     buffer, found>>
      /\ pc' = "write" /\ file' = f /\ length' = n /\ todo' = Cuts(chain[f], n)
  BY DEF BeginFree, deviceVars, windowVars
<1>2. Stored' = Stored /\ Stored = table /\ found = <<>> /\ Steady = Good
  BY <1>1, SameStored, IdleFacts DEF windowVars
<1>3. Steady' = Good \ {f} /\ Good' = Good
  BY <1>1 DEF Steady, Good, InWrite
<1>4. \A g \in Good : chain[g] \in {Closed, kept[g]}
  BY KeptTypes DEF IInv
<1>5. /\ chain[f] = s /\ s \in Chains /\ Len(s) \in Nat /\ n \in 0..Len(s) - 1
      /\ Distinct(s) /\ Within(s, Clusters) /\ s # <<>>
  BY KeptTypes DEF IInv, Within
<1>6. ChainIn(s, table)
  BY <1>2 DEF IInv, FilesInv, TableInv
<1>7. table \in [Entries -> Values]
  BY DEF IInv, TypeInv, TypeOK
<1>8. FilesInv'
  BY <1>1, <1>2, <1>3, <1>4, Unmoved DEF IInv
<1>9. Old' = s /\ Final' = Applied(Cuts(s, n), table)
  BY <1>1, <1>2, <1>5 DEF Old, Final
<1>10. /\ Once(Cuts(s, n))
       /\ \A k \in 1..Len(Cuts(s, n)) :
            \E i \in 1..Len(s) : Cuts(s, n)[k][1] = s[i]
       /\ \A i \in 1..n : Final'[s[i]] =
            IF i < n THEN s[i + 1] ELSE FAT32_EOF_CLUSTER
       /\ FreeIn(Final') = FreeIn(table) \cup {s[n + i] : i \in 1..Len(s) - n}
       /\ \A i \in 1..Len(s) - n : s[n + i] \notin FreeIn(table)
  <2> DEFINE u == Applied(Cuts(s, n), table)
  <2>1. /\ Once(Cuts(s, n))
        /\ \A k \in 1..Len(Cuts(s, n)) :
             \E i \in 1..Len(s) : Cuts(s, n)[k][1] = s[i]
        /\ \A i \in 1..n : u[s[i]] =
             IF i < n THEN s[i + 1] ELSE FAT32_EOF_CLUSTER
        /\ FreeIn(u) = FreeIn(table) \cup {s[n + i] : i \in 1..Len(s) - n}
        /\ \A i \in 1..Len(s) - n : s[n + i] \notin FreeIn(table)
    <3> HIDE DEF s
    <3>. QED BY <1>5, <1>6, <1>7, CutsDo
  <2> HIDE DEF u, s
  <2>2. Final' = u
    BY <1>9 DEF u
  <2>. QED BY <2>1, <2>2
<1>11. /\ New' \in Chains /\ Len(New') = n
       /\ \A i \in 1..n : New'[i] = s[i]
  <2>1. s \o <<>> = s /\ <<>> \in Chains
    BY <1>5, ConcatEmptySeq DEF Chains
  <2>2. New' = SubSeq(s \o <<>>, 1, n)
    BY <1>1, <1>2, <1>9 DEF New
  <2>3. n \in Nat /\ n <= Len(s) + Len(<<>>)
    BY <1>5
  <2> HIDE DEF s
  <2>4. /\ SubSeq(s \o <<>>, 1, n) \in Chains
        /\ Len(SubSeq(s \o <<>>, 1, n)) = n
        /\ \A i \in 1..n : SubSeq(s \o <<>>, 1, n)[i] = (s \o <<>>)[i]
    <3> DEFINE z == <<>>
    <3>1. z \in Chains /\ n \in Nat /\ n <= Len(s) + Len(z)
      BY <2>1, <2>3
    <3> HIDE DEF z
    <3>2. /\ SubSeq(s \o z, 1, n) \in Chains
          /\ Len(SubSeq(s \o z, 1, n)) = n
          /\ \A i \in 1..n : SubSeq(s \o z, 1, n)[i] = (s \o z)[i]
      BY <1>5, <3>1, PrefixType
    <3>. QED BY <3>2 DEF z
  <2>. QED BY <2>1, <2>2, <2>4
<1>12. WriteInv'
  <2>1. ChainIn(New, Final)'
    <3>1. n \in Nat
      BY <1>5
    <3> SUFFICES ASSUME NEW i \in 1..n
                 PROVE  Final'[New'[i]] = IF i < n THEN New'[i + 1]
                                          ELSE FAT32_EOF_CLUSTER
      BY <1>11 DEF ChainIn
    <3>2. i < n => i + 1 \in 1..n
      BY <3>1
    <3>. QED BY <3>2, <1>10, <1>11
  <2>2. ASSUME NEW k \in 1..Len(todo')
        PROVE  /\ todo'[k][1] \in Clusters
               /\ \A g \in Good \ {f} :
                    \A i \in 1..Len(kept[g]) : kept[g][i] # todo'[k][1]
    <3>1. PICK i \in 1..Len(s) : todo'[k][1] = s[i]
      BY <1>1, <1>5, <1>10
    <3>2. \A g \in Good \ {f} : Disjoint(kept[f], kept[g])
      BY DEF IInv, FilesInv, KeptInv
    <3>. QED BY <1>5, <3>1, <3>2 DEF Within, Disjoint
  <2>3. Once(todo')
    BY <1>1, <1>5, <1>10
  <2>. QED BY <1>1, <1>3, <2>1, <2>2, <2>3 DEF WriteInv
<1>13. CountInv'
  <2> SUFFICES ASSUME failed = {}
               PROVE  CountAfter' \in {Cardinality(FreeIn(Final')), INVALID_VALUE}
    BY <1>1 DEF CountInv
  <2>1. freeCount \in {Cardinality(FreeIn(table)), INVALID_VALUE}
    BY DEF IInv, ProgressInv, CountInv
  <2>2. CountAfter' = IF freeCount = INVALID_VALUE THEN freeCount
                      ELSE freeCount + Len(s) - n
    BY <1>1, <1>2, <1>9 DEF CountAfter
  <2>3. IsFiniteSet(FreeIn(table)) /\ Cardinality(FreeIn(table)) \in Nat
    BY FreeCounted
  <2>4. Cardinality(FreeIn(Final')) = Cardinality(FreeIn(table)) + (Len(s) - n)
    <3> DEFINE e == [i \in 1..Len(s) - n |-> s[n + i]]
               m == Len(s) - n
    <3>1. m \in Nat /\ \A i \in 1..m : n + i \in 1..Len(s)
      BY <1>5
    <3>2. ASSUME NEW i \in 1..m, NEW j \in 1..m, e[i] = e[j]
          PROVE  i = j
      <4>1. s[n + i] = s[n + j] /\ n + i \in 1..Len(s) /\ n + j \in 1..Len(s)
        BY <3>1, <3>2
      <4>2. n + i = n + j
        BY <4>1, <1>5 DEF Distinct
      <4>. QED BY <4>2, <1>5
    <3>3. \A i \in 1..m : e[i] = s[n + i]
      OBVIOUS
    <3>4. \A i \in 1..m : e[i] \notin FreeIn(table)
      BY <1>10, <3>3
    <3>5. FreeIn(Final') = FreeIn(table) \cup {e[i] : i \in 1..m}
      BY <1>10, <3>3
    <3> HIDE DEF e, m
    <3>7. m \in Nat /\ \A i, j \in 1..m : e[i] = e[j] => i = j
      BY <3>1, <3>2
    <3> DEFINE S == FreeIn(table)
    <3> HIDE DEF S
    <3>8. IsFiniteSet(S) /\ \A i \in 1..m : e[i] \notin S
      BY <2>3, <3>4 DEF S
    <3>6. Cardinality(FreeIn(table) \cup {e[i] : i \in 1..m})
            = Cardinality(FreeIn(table)) + m
      <4>1. Cardinality(S \cup {e[i] : i \in 1..m}) = Cardinality(S) + m
        BY <3>7, <3>8, CountMore
      <4>. QED BY <4>1 DEF S
    <3>. QED BY <3>5, <3>6 DEF m
  <2>. QED BY <1>5, <2>1, <2>2, <2>3, <2>4
<1>14. CallInv'
  BY <1>1, <1>5, Numbers DEF CallInv, IInv, ProgressInv, Good
<1>15. FoundInv'
  BY <1>1, <1>2 DEF FoundInv, Distinct, Within, Disjoint
<1>16. FollowInv' /\ SearchInv'
  BY <1>1 DEF FollowInv, SearchInv
<1>17. WriteEntryInv'
  <2>1. n # 0 => start[f] = kept[f][1]
    BY <1>2, <1>5 DEF IInv, FilesInv, EntryInv
  <2>. QED BY <1>1, <1>5, <2>1 DEF WriteEntryInv
<1>. QED BY <1>8, <1>12, <1>13, <1>14, <1>15, <1>16, <1>17
         DEF IInv, ProgressInv

(* setLength of a file that shrinks, and delete.                           *)
LEMMA FreeInv ==
    ASSUME Supported, IInv, TypeInv', NEW f \in Files, Shrink(f) \/ Delete(f)
    PROVE  IInv'
<1>1. pc = "idle" /\ f \in Good /\ start[f] # NoEntry /\ chain[f] # Closed
  BY DEF Shrink, Delete, IsOpen, Idle, Good
<1>2. chain[f] = kept[f] /\ Len(kept[f]) \in Nat
      /\ (kept[f] = <<>> <=> Len(kept[f]) = 0)
  BY <1>1, KeptTypes DEF IInv
<1>3. start \in [Files -> Entries \cup {NoEntry}]
  BY DEF IInv, TypeInv, TypeOK
<1>4. Good \subseteq Files
  BY DEF Good
<1>5. CASE Shrink(f)
  <2>1. PICK n \in 0..Len(chain[f]) - 1 : n > 0 /\ BeginFree(f, n)
    BY <1>5 DEF Shrink, Supported
  <2>2. start' = start /\ n # 0
    BY <1>5, <2>1 DEF Shrink
  <2>. QED BY <1>1, <2>1, <2>2, BeginFreeInv
<1>6. CASE Delete(f)
  <2>1. start' = [start EXCEPT ![f] = NoEntry]
    BY <1>6 DEF Delete
  <2>2. CASE chain[f] = <<>>
    <3>1. \A g \in Good : chain[g] \in {Closed, kept[g]}
      BY KeptTypes DEF IInv
    <3>2. hint \in Clusters \cup {INVALID_VALUE}
      BY DEF IInv, ProgressInv, CallInv
    <3>3. chain' = [chain EXCEPT ![f] = Closed]
      BY <1>6, <2>2 DEF Delete
    <3>4. chain \in [Files -> Chains \cup {Closed}]
      BY DEF IInv, TypeInv, TypeOK
    <3>5. /\ pc' = "idle" /\ hint' = hint /\ freeCount' = freeCount
          /\ UNCHANGED <<table, kept, failed, windowVars>>
      BY <1>1, <1>6, <2>2 DEF Delete, deviceVars, callVars
    <3>6. \A g \in Good : chain'[g] \in {Closed, kept[g]}
      BY <1>4, <3>1, <3>3, <3>4
    <3>7. \A g \in Good : \/ start'[g] = start[g]
                          \/ kept[g] = <<>> /\ start'[g] = NoEntry
      BY <1>2, <1>3, <1>4, <2>1, <2>2
    <3>. QED BY <1>1, <3>2, <3>5, <3>6, <3>7, IdleStep DEF IInv
  <2>3. CASE chain[f] # <<>>
    <3>1. BeginFree(f, 0) /\ 0 \in 0..Len(chain[f]) - 1
      BY <1>2, <1>6, <2>3 DEF Delete
    <3>2. /\ \A g \in Good : g # f => start'[g] = start[g]
          /\ start'[f] = NoEntry
      BY <1>1, <1>3, <1>4, <2>1
    <3>. QED BY <1>1, <3>1, <3>2, BeginFreeInv
  <2>. QED BY <2>2, <2>3
<1>. QED BY <1>5, <1>6

-----------------------------------------------------------------------------
(* Extending a chain                                                       *)

(* Two chains without a common cluster, one behind the other.              *)
LEMMA WholeIs ==
    ASSUME NEW old \in Chains, NEW new \in Chains, Distinct(old), Distinct(new),
           Disjoint(new, old), Within(old, Clusters), Within(new, Clusters)
    PROVE  LET whole == old \o new
           IN /\ whole \in Chains /\ Len(whole) = Len(old) + Len(new)
              /\ \A i \in 1..Len(old) : whole[i] = old[i]
              /\ \A i \in 1..Len(new) : whole[Len(old) + i] = new[i]
              /\ \A i \in 1..Len(whole) :
                   \/ \E j \in 1..Len(old) : whole[i] = old[j]
                   \/ \E j \in 1..Len(new) : whole[i] = new[j]
              /\ Distinct(whole) /\ Within(whole, Clusters)
<1> DEFINE whole == old \o new
<1>1. Len(old) \in Nat /\ Len(new) \in Nat
  BY ChainsNotClosed
<1>2. /\ whole \in Chains /\ Len(whole) = Len(old) + Len(new)
      /\ \A i \in 1..Len(old) + Len(new) :
           whole[i] = IF i <= Len(old) THEN old[i] ELSE new[i - Len(old)]
  BY ConcatProperties DEF Chains
<1> HIDE DEF whole
<1>3. \A i \in 1..Len(old) : whole[i] = old[i]
  BY <1>1, <1>2
<1>4. \A i \in 1..Len(new) : whole[Len(old) + i] = new[i]
  <2> SUFFICES ASSUME NEW i \in 1..Len(new) PROVE whole[Len(old) + i] = new[i]
    OBVIOUS
  <2>1. /\ Len(old) + i \in 1..Len(old) + Len(new) /\ ~(Len(old) + i <= Len(old))
        /\ (Len(old) + i) - Len(old) = i
    BY <1>1
  <2>2. whole[Len(old) + i] = new[(Len(old) + i) - Len(old)]
    BY <1>2, <2>1
  <2>. QED BY <2>1, <2>2
<1>5. ASSUME NEW i \in 1..Len(whole)
      PROVE  \/ i \in 1..Len(old) /\ whole[i] = old[i]
             \/ i > Len(old) /\ i - Len(old) \in 1..Len(new)
                  /\ whole[i] = new[i - Len(old)]
  BY <1>1, <1>2
<1>6. Distinct(whole)
  <2> SUFFICES ASSUME NEW i \in 1..Len(whole), NEW j \in 1..Len(whole),
                      whole[i] = whole[j]
               PROVE  i = j
    BY DEF Distinct
  <2>1. CASE i \in 1..Len(old) /\ j \in 1..Len(old)
    BY <2>1, <1>3 DEF Distinct
  <2>2. CASE ~(i \in 1..Len(old)) /\ ~(j \in 1..Len(old))
    <3>1. /\ i - Len(old) \in 1..Len(new) /\ j - Len(old) \in 1..Len(new)
          /\ new[i - Len(old)] = new[j - Len(old)]
      BY <1>5, <2>2
    <3>2. i - Len(old) = j - Len(old)
      BY <3>1 DEF Distinct
    <3>. QED BY <3>2, <1>1, <1>2
  <2>3. CASE i \in 1..Len(old) /\ ~(j \in 1..Len(old))
    <3>1. j - Len(old) \in 1..Len(new) /\ new[j - Len(old)] = old[i]
      BY <1>3, <1>5, <2>3
    <3>. QED BY <2>3, <3>1 DEF Disjoint
  <2>4. CASE ~(i \in 1..Len(old)) /\ j \in 1..Len(old)
    <3>1. i - Len(old) \in 1..Len(new) /\ new[i - Len(old)] = old[j]
      BY <1>3, <1>5, <2>4
    <3>. QED BY <2>4, <3>1 DEF Disjoint
  <2>. QED BY <2>1, <2>2, <2>3, <2>4
<1>7. Within(whole, Clusters)
  BY <1>5 DEF Within
<1>8. \A i \in 1..Len(whole) : \/ \E j \in 1..Len(old) : whole[i] = old[j]
                               \/ \E j \in 1..Len(new) : whole[i] = new[j]
  BY <1>5
<1>. QED BY <1>2, <1>3, <1>4, <1>6, <1>7, <1>8 DEF whole

(* The changes alloc makes to a chain old of the table t for the free      *)
(* clusters new: they are distinct, leave the longer chain, and nothing    *)
(* else is taken.                                                          *)
LEMMA LinksDo ==
    ASSUME NEW old \in Chains, NEW new \in Chains, new # <<>>,
           Distinct(old), Distinct(new), Disjoint(new, old),
           Within(old, Clusters), Within(new, Clusters),
           NEW t \in [Entries -> Values], ChainIn(old, t),
           \A i \in 1..Len(new) : t[new[i]] = 0
    PROVE  LET whole == old \o new
               u == Applied(Links(old, new), t)
           IN /\ Once(Links(old, new))
              /\ \A k \in 1..Len(Links(old, new)) :
                   \E i \in 1..Len(whole) : Links(old, new)[k][1] = whole[i]
              /\ ChainIn(whole, u)
              /\ FreeIn(t) = FreeIn(u) \cup {new[i] : i \in 1..Len(new)}
              /\ \A i \in 1..Len(new) : new[i] \notin FreeIn(u)
<1> DEFINE td == Links(old, new)
           whole == old \o new
           m == IF old = <<>> THEN 0 ELSE 1
           first == Len(old) - m
           u == Applied(td, t)
<1>1. /\ Len(old) \in Nat /\ Len(new) \in Nat /\ Len(new) >= 1
      /\ m \in {0, 1} /\ first \in Nat /\ first <= Len(old)
      /\ first + (m + Len(new)) = Len(old) + Len(new)
  <2>1. /\ Len(old) \in Nat /\ Len(new) \in Nat /\ Len(new) # 0
        /\ old # <<>> => Len(old) # 0
    BY ChainsNotClosed
  <2>2. m \in {0, 1} /\ m <= Len(old)
    BY <2>1
  <2>3. first = Len(old) - m
    OBVIOUS
  <2> HIDE DEF m, first
  <2>. QED BY <2>1, <2>2, <2>3
<1>2. /\ td \in Seq(Entries \X Values) /\ Len(td) = m + Len(new)
      /\ \A k \in 1..m + Len(new) :
           /\ td[k][1] = whole[first + k]
           /\ td[k][2] = IF k < m + Len(new) THEN whole[first + k + 1]
                         ELSE FAT32_EOF_CLUSTER
  BY LinksType
<1>3. /\ whole \in Chains /\ Len(whole) = Len(old) + Len(new)
      /\ \A i \in 1..Len(old) : whole[i] = old[i]
      /\ \A i \in 1..Len(new) : whole[Len(old) + i] = new[i]
      /\ Distinct(whole)
      /\ \A i \in 1..Len(whole) : whole[i] \in Clusters /\ whole[i] \in Entries
  BY WholeIs, Numbers DEF Within
<1> HIDE DEF td, whole, m, first
<1>4. \A k \in 1..Len(td) : first + k \in 1..Len(whole)
  BY <1>1, <1>2, <1>3
<1>5. Once(td)
  <2> SUFFICES ASSUME NEW j \in 1..Len(td), NEW k \in 1..Len(td),
                      td[j][1] = td[k][1]
               PROVE  j = k
    BY DEF Once
  <2>1. first + j = first + k
    BY <1>2, <1>3, <1>4 DEF Distinct
  <2>. QED BY <2>1, <1>1, <1>2
<1>6. /\ u \in [Entries -> Values]
      /\ \A k \in 1..Len(td) : u[td[k][1]] = td[k][2]
      /\ \A c \in Entries : (\A k \in 1..Len(td) : td[k][1] # c) => u[c] = t[c]
  BY <1>2, <1>5, AppliedIs
<1> HIDE DEF u
<1>7. ASSUME NEW i \in 1..Len(whole)
      PROVE  u[whole[i]] = IF i < Len(whole) THEN whole[i + 1]
                           ELSE FAT32_EOF_CLUSTER
  <2>1. CASE i > first
    <3>1. /\ i - first \in 1..Len(td) /\ first + (i - first) = i
          /\ i - first < m + Len(new) <=> i < Len(whole)
          /\ first + (i - first) + 1 = i + 1
      BY <1>1, <1>2, <1>3, <2>1
    <3>2. /\ td[i - first][1] = whole[first + (i - first)]
          /\ td[i - first][2] = IF i - first < m + Len(new)
               THEN whole[first + (i - first) + 1] ELSE FAT32_EOF_CLUSTER
      BY <1>2, <3>1
    <3>3. u[td[i - first][1]] = td[i - first][2]
      BY <1>6, <3>1
    <3>. QED BY <3>1, <3>2, <3>3
  <2>2. CASE ~(i > first)
    <3>1. i \in 1..Len(old) /\ i < Len(old) /\ i < Len(whole)
      <4>1. i <= first /\ i >= 1
        BY <1>1, <1>3, <2>2
      <4>2. m = 1 /\ first = Len(old) - 1
        <5>1. m = 0 => first = 0
          BY DEF m, first
        <5>. QED BY <4>1, <5>1, <1>1 DEF first
      <4>. QED BY <4>1, <4>2, <1>1, <1>3
    <3>2. ASSUME NEW k \in 1..Len(td) PROVE td[k][1] # whole[i]
      <4>1. first + k \in 1..Len(whole) /\ first + k # i
        BY <1>1, <1>2, <1>4, <2>2
      <4>2. whole[first + k] # whole[i]
        BY <4>1, <1>3 DEF Distinct
      <4>. QED BY <4>2, <1>2
    <3>3. u[whole[i]] = t[whole[i]]
      BY <1>3, <1>6, <3>2
    <3>4. t[old[i]] = old[i + 1] /\ i + 1 \in 1..Len(old)
      BY <1>1, <3>1 DEF ChainIn
    <3>. QED BY <1>3, <3>1, <3>3, <3>4
  <2>. QED BY <2>1, <2>2
<1>8. \A i \in 1..Len(whole) : u[whole[i]] # 0
  <2>1. \A i \in 1..Len(whole) : i < Len(whole) => i + 1 \in 1..Len(whole)
    BY <1>1, <1>3
  <2>. QED BY <1>3, <1>7, <2>1, Numbers
<1>9. \A i \in 1..Len(old) : t[old[i]] # 0
  <2> SUFFICES ASSUME NEW i \in 1..Len(old) PROVE t[old[i]] # 0
    OBVIOUS
  <2>1. t[old[i]] = IF i < Len(old) THEN old[i + 1] ELSE FAT32_EOF_CLUSTER
    BY DEF ChainIn
  <2>2. i < Len(old) => i + 1 \in 1..Len(old)
    BY <1>1
  <2>3. i < Len(old) => old[i + 1] \in Clusters
    BY <2>2 DEF Within
  <2>. QED BY <2>1, <2>3, Numbers
<1>10. ASSUME NEW i \in 1..Len(new) PROVE new[i] \in Clusters /\ u[new[i]] # 0
  <2>1. Len(old) + i \in 1..Len(whole)
    BY <1>1, <1>3
  <2>2. whole[Len(old) + i] = new[i]
    BY <1>3
  <2>3. u[whole[Len(old) + i]] # 0 /\ whole[Len(old) + i] \in Clusters
    BY <1>3, <1>8, <2>1
  <2>. QED BY <2>2, <2>3
<1>11. ASSUME NEW c \in Clusters
       PROVE  t[c] = 0 <=> u[c] = 0 \/ \E i \in 1..Len(new) : c = new[i]
  <2>0. c \in Entries
    BY Numbers
  <2>1. CASE \E i \in 1..Len(new) : c = new[i]
    BY <2>1
  <2>2. CASE \E i \in 1..Len(old) : c = old[i]
    <3>1. PICK i \in 1..Len(old) : c = old[i]
      BY <2>2
    <3>2. i \in 1..Len(whole) /\ whole[i] = c
      BY <1>1, <1>3, <3>1
    <3>3. t[c] # 0 /\ u[c] # 0
      BY <1>8, <1>9, <3>1, <3>2
    <3>4. ~\E j \in 1..Len(new) : c = new[j]
      BY <3>1 DEF Disjoint
    <3>. QED BY <3>3, <3>4
  <2>3. CASE /\ ~\E i \in 1..Len(new) : c = new[i]
             /\ ~\E i \in 1..Len(old) : c = old[i]
    <3>1. \A i \in 1..Len(whole) : \/ \E j \in 1..Len(old) : whole[i] = old[j]
                                   \/ \E j \in 1..Len(new) : whole[i] = new[j]
      BY WholeIs DEF whole
    <3>2. \A k \in 1..Len(td) : td[k][1] # c
      <4> SUFFICES ASSUME NEW k \in 1..Len(td) PROVE td[k][1] # c
        OBVIOUS
      <4>1. td[k][1] = whole[first + k] /\ first + k \in 1..Len(whole)
        BY <1>2, <1>4
      <4>. QED BY <4>1, <2>3, <3>1
    <3>3. u[c] = t[c]
      BY <1>6, <2>0, <3>2
    <3>. QED BY <2>3, <3>3
  <2>. QED BY <2>1, <2>2, <2>3
<1>12. FreeIn(t) = FreeIn(u) \cup {new[i] : i \in 1..Len(new)}
  BY <1>10, <1>11 DEF FreeIn
<1>13. \A i \in 1..Len(new) : new[i] \notin FreeIn(u)
  BY <1>10 DEF FreeIn
<1>14. \A k \in 1..Len(td) : \E i \in 1..Len(whole) : td[k][1] = whole[i]
  BY <1>2, <1>4
<1>15. ChainIn(whole, u)
  BY <1>7 DEF ChainIn
<1>. QED BY <1>5, <1>12, <1>13, <1>14, <1>15 DEF u, td, whole

-----------------------------------------------------------------------------
(* The invariant over the transfers                                        *)

(* Reading the next entry of the table.                                    *)
LEMMA ReadFacts ==
    ASSUME IInv, NEW c \in Entries, pc \in {"follow", "search"},
           table' = table, window' = WindowOf(c), buffer' = Loaded(c)
    PROVE  /\ Stored = table /\ Stored' = Stored /\ Loaded(c)[c] = table[c]
           /\ Steady = Good /\ file \in Good
<1>1. Stored = table /\ file \in Good
  BY DEF IInv, ProgressInv, CallInv, TypeInv, TypeOK, Good
<1>2. Stored' = Stored
  BY <1>1, StoredAfterRead DEF IInv, TypeInv
<1>3. Loaded(c)[c] = Stored[c]
  BY <1>1, LoadedEntry DEF IInv, TypeInv
<1>. QED BY <1>1, <1>2, <1>3 DEF Steady, Good, InWrite

(* getChain: the handle gets the chain the file has.                       *)
LEMMA FollowInvStep ==
    ASSUME IInv, TypeInv', Follow
    PROVE  IInv' /\ (chain' # chain => chain' = [chain EXCEPT ![file] = kept[file]])
<1> DEFINE next == Loaded(cursor)[cursor]
           s == kept[file]
<1>1. /\ pc = "follow" /\ cursor \in Entries /\ file \in Good /\ Stored = table
      /\ UNCHANGED <<table, hint, freeCount, start, kept, failed>>
  BY DEF Follow, IInv, TypeInv, TypeOK, ProgressInv, CallInv, Good, deviceVars
<1>2. next = table[cursor] /\ Steady = Good
  <2>1. Loaded(cursor)[cursor] = Stored[cursor]
    BY <1>1, LoadedEntry DEF IInv, TypeInv
  <2>. QED BY <1>1, <2>1 DEF Steady, Good, InWrite
<1>3. /\ s \in Chains /\ Len(s) \in Nat
      /\ \A i \in 1..Len(s) : s[i] \in Clusters /\ s[i] \in Entries
  BY <1>1, KeptTypes, Numbers DEF IInv
<1>4. /\ found \in Chains /\ Len(found) \in Nat /\ Len(found) < Len(s)
      /\ \A i \in 1..Len(found) : found[i] = s[i]
      /\ cursor = s[Len(found) + 1] /\ chain[file] = Closed
  BY <1>1, ChainsNotClosed DEF IInv, ProgressInv, FollowInv, TypeInv, TypeOK
<1>5. next = IF Len(found) + 1 < Len(s) THEN s[Len(found) + 2]
             ELSE FAT32_EOF_CLUSTER
  <2>1. ChainIn(s, table)
    BY <1>1, <1>2 DEF IInv, FilesInv, TableInv
  <2>2. Len(found) + 1 \in 1..Len(s) /\ (Len(found) + 1) + 1 = Len(found) + 2
    BY <1>3, <1>4
  <2>. QED BY <1>2, <1>4, <2>1, <2>2 DEF ChainIn
<1>6. /\ Append(found, cursor) \in Chains
      /\ Len(Append(found, cursor)) = Len(found) + 1
      /\ \A i \in 1..Len(found) + 1 : Append(found, cursor)[i] = s[i]
  <2>1. /\ Append(found, cursor) \in Chains
        /\ Len(Append(found, cursor)) = Len(found) + 1
        /\ \A i \in 1..Len(found) : Append(found, cursor)[i] = found[i]
        /\ Append(found, cursor)[Len(found) + 1] = cursor
    BY <1>1, <1>4, AppendProperties DEF Chains
  <2> HIDE DEF s
  <2>. QED BY <1>4, <2>1
<1>7. CASE next < FAT32_EOF_CLUSTER
  <2>1. Len(found) + 1 < Len(s) /\ next = s[Len(found) + 2]
    BY <1>5, <1>7, Numbers
  <2>2. /\ cursor' = next /\ found' = Append(found, cursor)
        /\ window' = WindowOf(cursor) /\ buffer' = Loaded(cursor)
        /\ UNCHANGED <<pc, file, length, chain, todo>>
    BY <1>7 DEF Follow, callVars
  <2>3. Stored' = Stored
    BY <1>1, <2>2, ReadFacts
  <2>4. Steady' = Good /\ Good' = Good
    BY <1>1, <2>2 DEF Steady, Good, InWrite
  <2>5. FilesInv'
    BY <1>1, <1>2, <2>2, <2>3, <2>4, Unmoved DEF IInv, FilesInv, KeptInv
  <2>6. FollowInv'
    <3>1. Len(found') + 1 = Len(found) + 2
      BY <1>4, <1>6, <2>2
    <3>2. cursor' = s[Len(found') + 1] /\ Len(found') < Len(s)
      BY <1>4, <1>6, <2>1, <2>2, <3>1
    <3>3. \A i \in 1..Len(found') : found'[i] = s[i]
      BY <1>6, <2>2
    <3>4. kept'[file'] = s /\ chain'[file'] = Closed
      BY <1>1, <1>4, <2>2
    <3> HIDE DEF s
    <3>. QED BY <3>2, <3>3, <3>4 DEF FollowInv
  <2>7. CallInv'
    BY <1>1, <2>2, <2>3 DEF CallInv, InCall, IInv, ProgressInv
  <2>8. FoundInv' /\ SearchInv' /\ WriteInv' /\ WriteEntryInv'
    BY <1>1, <2>2 DEF FoundInv, SearchInv, WriteInv, WriteEntryInv, InCall, InWrite
  <2>9. CountInv'
    BY <1>1, <2>2 DEF CountInv, IInv, ProgressInv
  <2>10. IInv'
    BY <2>5, <2>6, <2>7, <2>8, <2>9 DEF IInv, ProgressInv
  <2>. QED BY <2>2, <2>10
<1>8. CASE ~(next < FAT32_EOF_CLUSTER)
  <2>1. ~(Len(found) + 1 < Len(s))
    <3>1. ASSUME Len(found) + 1 < Len(s) PROVE s[Len(found) + 2] \in Entries
      <4>1. Len(found) + 2 \in 1..Len(s)
        BY <1>3, <1>4, <3>1
      <4>. QED BY <4>1, <1>3
    <3>2. \A e \in Entries : e < FAT32_EOF_CLUSTER
      BY TableAssumption DEF TableAssumption, Entries, FAT32_EOF_CLUSTER
    <3>. QED BY <1>5, <1>8, <3>1, <3>2
  <2>2. Len(found) + 1 = Len(s)
    BY <1>3, <1>4, <2>1
  <2>3. Append(found, cursor) = s
    <3> HIDE DEF s
    <3>. QED BY <1>3, <1>6, <2>2, SeqEqual DEF Chains
  <2>4. chain' = [chain EXCEPT ![file] = s] /\ Return
    BY <1>8, <2>3 DEF Follow
  <2>5. pc' = "idle" /\ window' = NoWindow /\ Stored' = table
    <3>1. pc' = "idle" /\ window' = NoWindow
      BY <2>4 DEF Return, NewBuffer
    <3>2. \A e \in Entries : WindowOf(e) # NoWindow
      BY WindowNumber, Numbers
    <3>3. Stored' = [e \in Entries |-> table[e]]
      BY <1>1, <3>1, <3>2 DEF Stored
    <3>. QED BY <3>1, <3>3 DEF IInv, TypeInv, TypeOK
  <2>6. Steady' = Good /\ Good' = Good
    BY <1>1, <2>5 DEF Steady, Good, InWrite
  <2>7. \A f \in Good : chain'[f] \in {Closed, kept[f]}
    <3>1. \A f \in Good : chain[f] \in {Closed, kept[f]}
      BY DEF IInv, FilesInv, KeptInv
    <3>2. chain \in [Files -> Chains \cup {Closed}] /\ Good \subseteq Files
      BY DEF IInv, TypeInv, TypeOK, Good
    <3>. QED BY <2>4, <3>1, <3>2
  <2>8. FilesInv'
    BY <1>1, <1>2, <2>5, <2>6, <2>7, Unmoved DEF IInv
  <2>9. CallInv'
    BY <1>1, <2>5 DEF CallInv, InCall, IInv, ProgressInv
  <2>10. /\ FollowInv' /\ FoundInv' /\ SearchInv' /\ WriteInv'
         /\ WriteEntryInv'
    BY <2>5 DEF FollowInv, FoundInv, SearchInv, WriteInv, WriteEntryInv, InCall,
       InWrite
  <2>11. CountInv'
    BY <1>1, <2>5 DEF CountInv, IInv, ProgressInv
  <2>12. IInv'
    BY <2>8, <2>9, <2>10, <2>11 DEF IInv, ProgressInv
  <2>. QED BY <2>4, <2>12
<1>. QED BY <1>7, <1>8

(* A call that ends without a change of the chains leaves a good volume;   *)
(* a file it has begun to write is given up.                               *)
LEMMA ThrowInv ==
    ASSUME IInv, TypeInv', pc # "idle", Throw
    PROVE  IInv'
<1>1. /\ pc' = "idle" /\ window' = NoWindow
      /\ UNCHANGED <<table, hint, freeCount, start, chain, kept>>
      /\ failed' = IF InWrite THEN failed \cup {file} ELSE failed
  BY DEF Throw, Return, NewBuffer, InWrite, deviceVars, fileVars
<1>2. Stored' = table
  <2>1. \A e \in Entries : WindowOf(e) # NoWindow
    BY WindowNumber, Numbers
  <2>2. Stored' = [e \in Entries |-> table[e]]
    BY <1>1, <2>1 DEF Stored
  <2>. QED BY <2>2 DEF IInv, TypeInv, TypeOK
<1>3. Good' = Steady /\ Steady' = Good' /\ Steady \subseteq Good
  BY <1>1 DEF Good, Steady, InWrite
<1>4. PaddingInv'
  BY <1>1, <1>2 DEF IInv, FilesInv, PaddingInv
<1>5. KeptInv'
  BY <1>1, <1>3 DEF IInv, FilesInv, KeptInv
<1>6. TableInv'
  <2> SUFFICES ASSUME NEW f \in Steady'
               PROVE  (ChainIn(kept[f], table) /\ ChainIn(kept[f], Stored))'
    BY DEF TableInv
  <2>1. ChainIn(kept[f], table)
    BY <1>3 DEF IInv, FilesInv, TableInv
  <2>. QED BY <1>1, <1>2, <2>1 DEF ChainIn
<1>7. EntryInv'
  <2>1. EntryInv
    BY DEF IInv, FilesInv
  <2>. QED BY <2>1, <1>1, <1>3 DEF EntryInv
<1>8. CallInv'
  BY <1>1 DEF CallInv, InCall, IInv, ProgressInv
<1>9. FollowInv' /\ FoundInv' /\ SearchInv' /\ WriteInv' /\ WriteEntryInv'
  BY <1>1 DEF FollowInv, FoundInv, SearchInv, WriteInv, WriteEntryInv, InCall,
     InWrite
<1>10. CountInv'
  <2> SUFFICES ASSUME failed' = {}
               PROVE  freeCount \in {Cardinality(FreeIn(table)), INVALID_VALUE}
    BY <1>1 DEF CountInv
  <2>1. failed = {} /\ ~InWrite
    BY <1>1
  <2>. QED BY <2>1 DEF IInv, ProgressInv, CountInv, InWrite
<1>. QED BY <1>4, <1>5, <1>6, <1>7, <1>8, <1>9, <1>10
         DEF IInv, FilesInv, ProgressInv

(* A cluster of a steady file is not free.                                 *)
LEMMA KeptNotFree ==
    ASSUME TypeInv, FilesInv, NEW g \in Steady, NEW i \in 1..Len(kept[g])
    PROVE  table[kept[g][i]] # 0
<1>1. g \in Good
  BY DEF Steady
<1>2. Len(kept[g]) \in Nat /\ \A j \in 1..Len(kept[g]) : kept[g][j] \in Clusters
  BY <1>1, KeptTypes
<1>3. ChainIn(kept[g], table)
  BY DEF FilesInv, TableInv
<1>4. table[kept[g][i]] = IF i < Len(kept[g]) THEN kept[g][i + 1]
                          ELSE FAT32_EOF_CLUSTER
  BY <1>3 DEF ChainIn
<1>5. i < Len(kept[g]) => kept[g][i + 1] \in Clusters
  <2>1. i < Len(kept[g]) => i + 1 \in 1..Len(kept[g])
    BY <1>2
  <2>. QED BY <1>2, <2>1
<1>. QED BY <1>4, <1>5, Numbers

(* What alloc collects are distinct free clusters.                         *)
LEMMA SearchFinds ==
    ASSUME IInv, Search
    PROVE  /\ cursor' \in Entries /\ cursor' = cursor + 1 /\ cursor' >= 2
           /\ Stored = table /\ Stored' = Stored
           /\ found' \in Chains /\ Len(found') \in Nat
           /\ Distinct(found') /\ Within(found', Clusters)
           /\ \A g \in Good : Disjoint(found', kept[g])
           /\ \A i \in 1..Len(found') :
                found'[i] <= cursor' /\ table[found'[i]] = 0
           /\ found' # found => Len(found') = Len(found) + 1
<1>1. /\ pc = "search" /\ cursor' = cursor + 1 /\ cursor' \in Entries
      /\ window' = WindowOf(cursor') /\ buffer' = Loaded(cursor')
      /\ UNCHANGED <<table, kept, failed>> /\ cursor \in Nat
  BY Numbers DEF Search, deviceVars, fileVars, IInv, TypeInv, TypeOK
<1>2. /\ Stored = table /\ Stored' = Stored /\ Steady = Good
      /\ buffer'[cursor'] = table[cursor']
  BY <1>1, ReadFacts
<1>3. /\ found \in Chains /\ Len(found) \in Nat
      /\ \A i \in 1..Len(found) : found[i] \in Entries
  BY ChainsNotClosed DEF IInv, TypeInv, TypeOK
<1>4. /\ Distinct(found) /\ Within(found, Clusters) /\ cursor >= 2
      /\ \A g \in Good : Disjoint(found, kept[g])
      /\ \A i \in 1..Len(found) : found[i] <= cursor /\ table[found[i]] = 0
  BY <1>1 DEF IInv, ProgressInv, FoundInv, SearchInv, InCall
<1>5. cursor' >= 2
  BY <1>1, <1>4
<1>8. ASSUME NEW i \in 1..Len(found)
      PROVE  found[i] <= cursor' /\ found[i] # cursor'
  <2>1. found[i] \in Nat /\ found[i] <= cursor /\ cursor \in Nat
    BY <1>1, <1>3, <1>4, Numbers
  <2>. QED BY <2>1, <1>1
<1>6. CASE table[cursor'] # 0
  <2>1. found' = found
    BY <1>2, <1>6 DEF Search
  <2>2. \A i \in 1..Len(found) : found[i] <= cursor'
    BY <1>8
  <2>. QED BY <1>1, <1>2, <1>3, <1>4, <1>5, <2>1, <2>2
<1>7. CASE table[cursor'] = 0
  <2> DEFINE c == cursor'
             s == Append(found, c)
  <2>1. found' = s
    BY <1>2, <1>7 DEF Search
  <2>2. /\ s \in Chains /\ Len(s) = Len(found) + 1
        /\ \A i \in 1..Len(found) : s[i] = found[i]
        /\ s[Len(found) + 1] = c
    BY <1>1, <1>3, AppendProperties DEF Chains
  <2>3. c \in Clusters
    BY <1>1, <1>7, Numbers DEF IInv, FilesInv, PaddingInv
  <2>4. \A i \in 1..Len(found) : found[i] # c /\ found[i] <= c
    BY <1>8
  <2>5. \A g \in Good : \A j \in 1..Len(kept[g]) : kept[g][j] # c
    BY <1>2, <1>7, KeptNotFree DEF IInv
  <2>6. c <= c
    BY <1>1, Numbers
  <2> HIDE DEF c, s
  <2>7. \A i \in 1..Len(s) : i \in 1..Len(found) \/ i = Len(found) + 1
    BY <1>3, <2>2
  <2>8. Distinct(s)
    BY <1>4, <2>2, <2>4, <2>7 DEF Distinct
  <2>9. Within(s, Clusters)
    BY <1>4, <2>2, <2>3, <2>7 DEF Within
  <2>10. \A g \in Good : Disjoint(s, kept[g])
    BY <1>4, <2>2, <2>5, <2>7 DEF Disjoint
  <2>11. \A i \in 1..Len(s) : s[i] <= c /\ table[s[i]] = 0
    BY <1>4, <1>7, <2>2, <2>4, <2>6, <2>7 DEF c
  <2>12. Len(s) \in Nat
    BY <1>3, <2>2
  <2>. QED BY <1>1, <1>2, <1>5, <2>1, <2>2, <2>8, <2>9, <2>10, <2>11, <2>12
       DEF c
<1>. QED BY <1>6, <1>7

(* The chain a call works on is the one the file has.                      *)
LEMMA OldIsKept ==
    ASSUME IInv, InCall
    PROVE  /\ file \in Good /\ Old = kept[file]
           /\ Old \in Chains /\ Len(Old) \in Nat
           /\ Distinct(Old) /\ Within(Old, Clusters)
           /\ chain[file] = Closed => Old = <<>>
<1>1. file \in Good /\ (chain[file] = Closed => kept[file] = <<>>)
  BY DEF IInv, TypeInv, TypeOK, ProgressInv, CallInv, InCall, Good
<1>2. chain[file] \in {Closed, kept[file]} /\ kept[file] \in Chains
  BY <1>1, KeptTypes DEF IInv
<1>3. Old = kept[file]
  BY <1>1, <1>2 DEF Old
<1>. QED BY <1>1, <1>3, KeptTypes DEF IInv, Within

(* alloc's search: it goes on, or has found enough and begins to write.    *)
LEMMA SearchInvStep ==
    ASSUME IInv, TypeInv', Search
    PROVE  IInv'
<1>1. /\ pc = "search" /\ InCall
      /\ UNCHANGED <<table, kept, failed, chain, start, hint, freeCount, file,
                     length>>
  BY DEF Search, deviceVars, fileVars, InCall
<1>2. /\ cursor' >= 2 /\ Stored = table /\ Stored' = Stored
      /\ found' \in Chains /\ Len(found') \in Nat
      /\ Distinct(found') /\ Within(found', Clusters)
      /\ \A g \in Good : Disjoint(found', kept[g])
      /\ \A i \in 1..Len(found') :
           found'[i] <= cursor' /\ table[found'[i]] = 0
      /\ found' # found => Len(found') = Len(found) + 1
  BY SearchFinds
<1>3. Good' = Good /\ Steady = Good
  BY <1>1 DEF Good, Steady, InWrite
<1>4. /\ file \in Good /\ Old = kept[file] /\ Old' = Old /\ Old \in Chains
      /\ Len(Old) \in Nat /\ Distinct(Old) /\ Within(Old, Clusters)
      /\ chain[file] = Closed => Old = <<>>
  <2>1. Old' = Old
    BY <1>1 DEF Old
  <2>. QED BY <1>1, <2>1, OldIsKept
<1>5. FoundInv'
  BY <1>1, <1>2, <1>3 DEF FoundInv
<1>6. FilesInv'
  <2>1. Steady' \subseteq Steady
    BY <1>3 DEF Steady
  <2>. QED BY <1>1, <1>2, <2>1, Unmoved DEF IInv, FilesInv, KeptInv
<1>7. /\ hint \in Clusters \cup {INVALID_VALUE} /\ file \notin failed
      /\ chain[file] = Closed => kept[file] = <<>>
  BY <1>1 DEF IInv, ProgressInv, CallInv
<1>8. IF chain[file] = Closed THEN start[file] = NoEntry ELSE kept[file] # <<>>
  BY <1>1 DEF IInv, ProgressInv, SearchInv
<1>9. CASE Len(Old) + Len(found') # length
  <2>1. pc' = "search" /\ todo' = todo
    BY <1>1, <1>9 DEF Search
  <2>2. SearchInv'
    BY <1>1, <1>2, <1>8 DEF SearchInv
  <2>3. CallInv'
    BY <1>1, <1>2, <1>7, <2>1 DEF CallInv, InCall
  <2>4. FollowInv' /\ WriteInv' /\ WriteEntryInv'
    BY <2>1 DEF FollowInv, WriteInv, WriteEntryInv, InWrite
  <2>5. CountInv'
    BY <1>1, <2>1 DEF CountInv, IInv, ProgressInv
  <2>. QED BY <1>5, <1>6, <2>2, <2>3, <2>4, <2>5 DEF IInv, ProgressInv
<1>10. CASE Len(Old) + Len(found') = length
  <2> DEFINE whole == Old \o found'
             td == Links(Old, found')
             u == Applied(td, table)
  <2>1. pc' = "write" /\ todo' = td
    BY <1>10 DEF Search
  <2>2. found' # <<>>
    <3>1. Len(Old) + Len(found) < length
      BY <1>1 DEF IInv, TypeInv
    <3>2. Len(found) \in Nat
      BY ChainsNotClosed DEF IInv, TypeInv, TypeOK
    <3>3. Len(found') # Len(found)
      BY <1>2, <1>4, <1>10, <3>1, <3>2
    <3>4. Len(found') = Len(found) + 1
      BY <1>2, <3>3
    <3>. QED BY <3>2, <3>4
  <2>3. Disjoint(found', Old)
    BY <1>2, <1>4
  <2>4. ChainIn(Old, table) /\ table \in [Entries -> Values]
    BY <1>3, <1>4 DEF IInv, FilesInv, TableInv, TypeInv, TypeOK
  <2>5. /\ Once(td)
        /\ \A k \in 1..Len(td) : \E i \in 1..Len(whole) : td[k][1] = whole[i]
        /\ ChainIn(whole, u)
        /\ FreeIn(table) = FreeIn(u) \cup {found'[i] : i \in 1..Len(found')}
        /\ \A i \in 1..Len(found') : found'[i] \notin FreeIn(u)
    BY <1>2, <1>4, <2>2, <2>3, <2>4, LinksDo
  <2>6. /\ whole \in Chains /\ Len(whole) = length /\ Within(whole, Clusters)
        /\ \A i \in 1..Len(whole) : \/ \E j \in 1..Len(Old) : whole[i] = Old[j]
                                    \/ \E j \in 1..Len(found') : whole[i] = found'[j]
    <3>1. /\ whole \in Chains /\ Len(whole) = Len(Old) + Len(found')
          /\ Within(whole, Clusters)
          /\ \A i \in 1..Len(whole) :
               \/ \E j \in 1..Len(Old) : whole[i] = Old[j]
               \/ \E j \in 1..Len(found') : whole[i] = found'[j]
      BY <1>2, <1>4, <2>3, WholeIs
    <3>. QED BY <3>1, <1>10
  <2> HIDE DEF whole, td, u
  <2>7. Final' = u
    BY <1>2, <2>1 DEF Final, u
  <2>8. New' = whole
    <3>1. New' = SubSeq(whole, 1, length)
      BY <1>1, <1>4 DEF New, whole
    <3>. QED BY <3>1, <2>6, SubSeqFull DEF Chains
  <2>9. WriteInv'
    <3>1. ASSUME NEW k \in 1..Len(td)
          PROVE  /\ td[k][1] \in Clusters
                 /\ \A g \in Good \ {file} :
                      \A i \in 1..Len(kept[g]) : kept[g][i] # td[k][1]
      <4>1. PICK i \in 1..Len(whole) : td[k][1] = whole[i]
        BY <2>5
      <4>2. \A g \in Good \ {file} : Disjoint(kept[file], kept[g])
        BY <1>4 DEF IInv, FilesInv, KeptInv
      <4>3. td[k][1] \in Clusters
        BY <2>6, <4>1 DEF Within
      <4>4. ASSUME NEW g \in Good \ {file}, NEW j \in 1..Len(kept[g])
            PROVE  kept[g][j] # whole[i]
        <5>1. CASE \E l \in 1..Len(Old) : whole[i] = Old[l]
          BY <5>1, <4>2, <1>4 DEF Disjoint
        <5>2. CASE \E l \in 1..Len(found') : whole[i] = found'[l]
          BY <5>2, <1>2 DEF Disjoint
        <5>. QED BY <2>6, <5>1, <5>2
      <4>. QED BY <4>1, <4>3, <4>4
    <3>2. ChainIn(New, Final)'
      <4>1. ChainIn(New', Final')
        BY <2>5, <2>7, <2>8
      <4>. QED BY <4>1 DEF ChainIn
    <3>. QED BY <1>1, <1>3, <2>1, <2>5, <3>1, <3>2 DEF WriteInv
  <2>10. CountInv'
    <3> SUFFICES ASSUME failed = {}
                 PROVE  CountAfter' \in {Cardinality(FreeIn(Final')), INVALID_VALUE}
      BY <1>1, <2>1 DEF CountInv
    <3>1. freeCount \in {Cardinality(FreeIn(table)), INVALID_VALUE}
      BY <1>1 DEF IInv, ProgressInv, CountInv
    <3>2. CountAfter' = IF freeCount = INVALID_VALUE THEN freeCount
                        ELSE freeCount - Len(found')
      BY <1>1, <2>2 DEF CountAfter
    <3>3. IsFiniteSet(FreeIn(u)) /\ Cardinality(FreeIn(u)) \in Nat
      BY FreeCounted
    <3>4. Cardinality(FreeIn(table)) = Cardinality(FreeIn(u)) + Len(found')
      <4> DEFINE S == FreeIn(u)
                 e == found'
                 n == Len(e)
      <4>1. /\ IsFiniteSet(S) /\ \A i \in 1..n : e[i] \notin S
            /\ FreeIn(table) = S \cup {e[i] : i \in 1..n}
        BY <2>5, <3>3
      <4>2. n \in Nat /\ \A i, j \in 1..n : e[i] = e[j] => i = j
        BY <1>2 DEF Distinct
      <4> HIDE DEF S, e, n
      <4>3. Cardinality(S \cup {e[i] : i \in 1..n}) = Cardinality(S) + n
        BY <4>1, <4>2, CountMore
      <4>. QED BY <4>1, <4>3 DEF S, e, n
    <3>. QED BY <1>2, <2>7, <3>1, <3>2, <3>3, <3>4
  <2>11. CallInv'
    BY <1>1, <1>7, <2>1 DEF CallInv, InCall
  <2>12. FollowInv' /\ SearchInv'
    BY <2>1 DEF FollowInv, SearchInv
  <2>13. WriteEntryInv'
    <3>1. length # 0
      BY <1>2, <1>4, <1>10, <2>2, ChainsNotClosed
    <3>2. kept[file] # <<>> => start[file] = kept[file][1]
      BY <1>3, <1>4 DEF IInv, FilesInv, EntryInv
    <3>. QED BY <1>1, <1>8, <3>1, <3>2 DEF WriteEntryInv
  <2>. QED BY <1>5, <1>6, <2>9, <2>10, <2>11, <2>12, <2>13 DEF IInv, ProgressInv
<1>. QED BY <1>9, <1>10

(* The entries a writing call works on are not a steady file's.            *)
LEMMA SteadyInWrite ==
    ASSUME IInv, InWrite
    PROVE  Steady = Good \ {file} /\ file \in Good
BY DEF IInv, TypeInv, TypeOK, InWrite, Steady, Good, ProgressInv, CallInv

(* The buffer is written back: the table becomes what Stored was.          *)
LEMMA WrittenBack ==
    ASSUME FilesInv, TypeOK, table' = Stored, Stored' = Stored, Steady' = Steady,
           UNCHANGED <<start, chain, kept, failed>>
    PROVE  FilesInv'
<1>1. Good' = Good
  BY DEF Good
<1>2. PaddingInv'
  BY DEF FilesInv, PaddingInv
<1>3. KeptInv'
  BY <1>1 DEF FilesInv, KeptInv
<1>4. TableInv'
  <2> SUFFICES ASSUME NEW f \in Steady'
               PROVE  (ChainIn(kept[f], table) /\ ChainIn(kept[f], Stored))'
    BY DEF TableInv
  <2>1. ChainIn(kept[f], Stored)
    BY DEF FilesInv, TableInv
  <2>. QED BY <2>1 DEF ChainIn
<1>5. EntryInv'
  BY DEF FilesInv, EntryInv
<1>. QED BY <1>2, <1>3, <1>4, <1>5 DEF FilesInv

(* A window is written back in the middle of a call.                       *)
LEMMA WriteBackInv ==
    ASSUME IInv, TypeInv', WriteBack
    PROVE  IInv'
<1>1. /\ pc = "write" /\ table' = Stored /\ window' = NoWindow
      /\ UNCHANGED <<hint, freeCount, start, chain, kept, pc, file, length,
                     cursor, found, todo, failed>>
  BY DEF WriteBack, NewBuffer, fileVars, callVars
<1>2. Stored' = Stored
  BY <1>1, StoredAfterWrite DEF IInv, TypeInv
<1>3. /\ Steady' = Steady /\ Good' = Good /\ Old' = Old
      /\ Final' = Final /\ New' = New
  BY <1>1, <1>2 DEF Steady, Good, InWrite, Final, Old, New
<1>4. FilesInv'
  BY <1>1, <1>2, <1>3, WrittenBack DEF IInv, TypeInv
<1>5. CallInv'
  BY <1>1 DEF CallInv, InCall, IInv, ProgressInv
<1>6. FollowInv' /\ SearchInv'
  BY <1>1 DEF FollowInv, SearchInv
<1>7. FoundInv'
  BY <1>1, <1>3 DEF FoundInv, InCall, IInv, ProgressInv
<1>8. WriteInv'
  <2>1. ChainIn(New, Final)'
    <3>1. ChainIn(New, Final)
      BY <1>1 DEF IInv, ProgressInv, WriteInv, InWrite
    <3>. QED BY <1>3, <3>1 DEF ChainIn
  <2>. QED BY <1>1, <1>3, <2>1 DEF WriteInv, InWrite, IInv, ProgressInv
<1>9. WriteEntryInv'
  BY <1>1 DEF WriteEntryInv, InWrite, IInv, ProgressInv
<1>10. CountInv'
  <2>1. CountAfter' = CountAfter
    BY <1>1, <1>3 DEF CountAfter
  <2>. QED BY <1>1, <1>3, <2>1 DEF CountInv, IInv, ProgressInv
<1>. QED BY <1>4, <1>5, <1>6, <1>7, <1>8, <1>9, <1>10 DEF IInv, ProgressInv

(* An entry is changed: Stored moves one step towards Final.               *)
LEMMA PutInv ==
    ASSUME IInv, TypeInv', Put
    PROVE  IInv'
<1> DEFINE P == Entries \X Values
           c == Head(todo)[1]
           v == Head(todo)[2]
<1>1. /\ pc = "write" /\ InWrite /\ todo # <<>> /\ todo' = Tail(todo)
      /\ UNCHANGED <<table, hint, freeCount, start, chain, kept, pc, file,
                     length, cursor, found, failed>>
  BY DEF Put, deviceVars, fileVars, callVars, InWrite
<1>2. /\ todo \in Seq(P) /\ Once(todo) /\ Stored \in [Entries -> Values]
      /\ ChainIn(New, Final)
      /\ \A k \in 1..Len(todo) :
            /\ todo[k][1] \in Clusters
            /\ \A g \in Good \ {file} :
                 \A i \in 1..Len(kept[g]) : kept[g][i] # todo[k][1]
  BY <1>1, WindowType DEF IInv, TypeInv, TypeOK, ProgressInv, WriteInv
<1>3. /\ Head(todo) = todo[1] /\ todo[1] \in P /\ 1 \in 1..Len(todo)
      /\ Len(Tail(todo)) = Len(todo) - 1 /\ Len(todo) \in Nat
      /\ \A k \in 1..Len(Tail(todo)) : /\ Tail(todo)[k] = todo[k + 1]
                                       /\ k + 1 \in 1..Len(todo)
  <2> HIDE DEF P
  <2>1. todo \in Seq(P) /\ todo # <<>>
    BY <1>1, <1>2
  <2>2. Len(todo) \in Nat /\ Len(todo) # 0 /\ Head(todo) = todo[1]
    BY <2>1
  <2>3. Len(Tail(todo)) = Len(todo) - 1
        /\ \A k \in 1..Len(Tail(todo)) : Tail(todo)[k] = todo[k + 1]
    BY <2>1, HeadTailProperties
  <2>4. 1 \in 1..Len(todo) /\ todo[1] \in P
    BY <2>1, <2>2
  <2>. QED BY <2>2, <2>3, <2>4
<1>4. /\ c \in Clusters /\ c \in Entries
      /\ \A g \in Good \ {file} : \A i \in 1..Len(kept[g]) : kept[g][i] # c
  BY <1>2, <1>3, Numbers
<1>5. Stored' = [Stored EXCEPT ![c] = v]
  <2>1. /\ window = WindowOf(c) \/ ~Unsaved
        /\ window' = WindowOf(c) /\ buffer' = [Loaded(c) EXCEPT ![c] = v]
    BY DEF Put
  <2> HIDE DEF c, v
  <2>. QED BY <1>1, <1>4, <2>1, StoredAfterPut DEF IInv, TypeInv
<1>6. Once(todo') /\ Final' = Final
  <2>1. /\ Once(Tail(todo))
        /\ Applied(Tail(todo), [Stored EXCEPT ![c] = v]) = Applied(todo, Stored)
    BY <1>1, <1>2, AppliedTail
  <2>. QED BY <1>1, <1>5, <2>1 DEF Final
<1>7. /\ Steady' = Steady /\ Good' = Good /\ Old' = Old /\ New' = New
      /\ Steady = Good \ {file}
  BY <1>1, SteadyInWrite DEF Steady, Good, InWrite, Old, New
<1> HIDE DEF c, v, P
<1>8. FilesInv'
  <2>1. PaddingInv'
    BY <1>1, <1>2, <1>4, <1>5 DEF IInv, FilesInv, PaddingInv
  <2>2. KeptInv'
    BY <1>1, <1>7 DEF IInv, FilesInv, KeptInv
  <2>3. TableInv'
    <3> SUFFICES ASSUME NEW f \in Steady'
                 PROVE  (ChainIn(kept[f], table) /\ ChainIn(kept[f], Stored))'
      BY DEF TableInv
    <3>1. /\ ChainIn(kept[f], table) /\ ChainIn(kept[f], Stored)
          /\ \A i \in 1..Len(kept[f]) : kept[f][i] # c
      BY <1>4, <1>7 DEF IInv, FilesInv, TableInv
    <3>2. \A i \in 1..Len(kept[f]) : Stored'[kept[f][i]] = Stored[kept[f][i]]
      <4>1. \A i \in 1..Len(kept[f]) : kept[f][i] \in Entries
        BY <1>7, KeptTypes, Numbers DEF IInv
      <4>. QED BY <1>2, <1>5, <3>1, <4>1
    <3>. QED BY <1>1, <3>1, <3>2 DEF ChainIn
  <2>4. EntryInv'
    <3>1. EntryInv
      BY DEF IInv, FilesInv
    <3>. QED BY <1>1, <1>7, <3>1 DEF EntryInv
  <2>. QED BY <2>1, <2>2, <2>3, <2>4 DEF FilesInv
<1>9. CallInv'
  BY <1>1 DEF CallInv, InCall, IInv, ProgressInv
<1>10. FollowInv' /\ SearchInv'
  BY <1>1 DEF FollowInv, SearchInv
<1>11. FoundInv'
  BY <1>1, <1>7 DEF FoundInv, InCall, IInv, ProgressInv
<1>12. WriteInv'
  <2>1. ChainIn(New, Final)'
    BY <1>2, <1>6, <1>7 DEF ChainIn
  <2>2. \A k \in 1..Len(todo') :
          /\ todo'[k][1] \in Clusters
          /\ \A g \in Good \ {file} :
               \A i \in 1..Len(kept[g]) : kept[g][i] # todo'[k][1]
    BY <1>1, <1>2, <1>3
  <2>. QED BY <1>1, <1>6, <1>7, <2>1, <2>2 DEF WriteInv
<1>13. WriteEntryInv'
  BY <1>1 DEF WriteEntryInv, InWrite, IInv, ProgressInv
<1>14. CountInv'
  <2>1. CountAfter' = CountAfter
    BY <1>1, <1>7 DEF CountAfter
  <2>. QED BY <1>1, <1>6, <2>1 DEF CountInv, IInv, ProgressInv
<1>. QED BY <1>8, <1>9, <1>10, <1>11, <1>12, <1>13, <1>14 DEF IInv, ProgressInv

(* The last window is written: the table is Final and the count is its.    *)
LEMMA FlushInv ==
    ASSUME IInv, TypeInv', Flush
    PROVE  IInv'
<1>1. /\ pc = "write" /\ pc' = "info" /\ InWrite /\ InWrite' /\ todo = <<>>
      /\ table' = Stored /\ freeCount' = CountAfter
      /\ hint' = IF found # <<>> THEN found[Len(found)] ELSE hint
      /\ UNCHANGED <<start, chain, kept, file, length, cursor, found, todo,
                     window, buffer, failed>>
  BY DEF Flush, fileVars, windowVars, InWrite
<1>2. Stored' = Stored /\ Stored \in [Entries -> Values]
  BY <1>1, StoredAfterWrite, WindowType DEF IInv, TypeInv
<1>3. /\ Steady' = Steady /\ Good' = Good /\ Old' = Old /\ New' = New
      /\ Final' = Final /\ Final = Stored
  <2>1. Final = Stored
    BY <1>1, <1>2, AppliedNone DEF Final
  <2>. QED BY <1>1, <1>2, <2>1 DEF Steady, Good, Old, New, Final
<1>4. FilesInv'
  BY <1>1, <1>2, <1>3, WrittenBack DEF IInv, TypeInv
<1>5. Within(found, Clusters) /\ found \in Chains
  BY <1>1 DEF IInv, ProgressInv, FoundInv, InCall, TypeInv, TypeOK
<1>6. hint' \in Clusters \cup {INVALID_VALUE}
  <2>1. found # <<>> => Len(found) \in 1..Len(found)
    BY <1>5, ChainsNotClosed
  <2>2. found # <<>> => found[Len(found)] \in Clusters
    BY <1>5, <2>1 DEF Within
  <2>3. hint \in Clusters \cup {INVALID_VALUE}
    BY DEF IInv, ProgressInv, CallInv
  <2>. QED BY <1>1, <2>2, <2>3
<1>7. CallInv'
  <2>1. file \notin failed /\ (chain[file] = Closed => kept[file] = <<>>)
    BY <1>1 DEF CallInv, InCall, IInv, ProgressInv
  <2>. QED BY <1>1, <1>2, <1>6, <2>1 DEF CallInv
<1>8. FollowInv' /\ SearchInv'
  BY <1>1 DEF FollowInv, SearchInv
<1>9. FoundInv'
  BY <1>1, <1>3 DEF FoundInv, InCall, IInv, ProgressInv
<1>10. WriteInv'
  <2>1. ChainIn(New, Final)'
    <3>1. ChainIn(New, Final)
      BY <1>1 DEF IInv, ProgressInv, WriteInv
    <3>. QED BY <1>3, <3>1 DEF ChainIn
  <2>. QED BY <1>1, <1>3, <2>1 DEF WriteInv, IInv, ProgressInv
<1>11. WriteEntryInv'
  BY <1>1 DEF WriteEntryInv, IInv, ProgressInv
<1>12. CountInv'
  BY <1>1, <1>3 DEF CountInv, IInv, ProgressInv
<1>. QED BY <1>4, <1>7, <1>8, <1>9, <1>10, <1>11, <1>12 DEF IInv, ProgressInv

(* The chain a writing call leaves.                                        *)
LEMMA NewIs ==
    ASSUME IInv, InWrite
    PROVE  /\ New \in Chains /\ Len(New) = length /\ length \in Nat
           /\ Distinct(New) /\ Within(New, Clusters)
           /\ \A i \in 1..length : i <= Len(Old) => New[i] = Old[i]
           /\ \A i \in 1..length : i > Len(Old) =>
                 \E j \in 1..Len(found) : New[i] = found[j]
           /\ IF found = <<>> THEN length < Len(Old)
                              ELSE length = Len(Old) + Len(found)
<1> DEFINE whole == Old \o found
<1>1. /\ InCall /\ found \in Chains /\ length \in Nat /\ Len(found) \in Nat
      /\ length <= Len(Old) + Len(found)
      /\ New \in Chains /\ Len(New) = length
  BY NewType, ChainsNotClosed DEF IInv, InCall, InWrite
<1>2. /\ Distinct(found) /\ Within(found, Clusters) /\ Disjoint(found, Old)
      /\ Old \in Chains /\ Len(Old) \in Nat
      /\ Distinct(Old) /\ Within(Old, Clusters)
  BY <1>1, OldIsKept DEF IInv, ProgressInv, FoundInv
<1>3. /\ whole \in Chains /\ Len(whole) = Len(Old) + Len(found)
      /\ \A i \in 1..Len(Old) : whole[i] = Old[i]
      /\ \A i \in 1..Len(found) : whole[Len(Old) + i] = found[i]
      /\ Distinct(whole) /\ Within(whole, Clusters)
  BY <1>1, <1>2, WholeIs
<1>4. \A i \in 1..length : New[i] = whole[i]
  <2>1. \A i \in 1..length : SubSeq(whole, 1, length)[i] = whole[i]
    BY <1>1, <1>2, PrefixType
  <2>. QED BY <2>1 DEF New
<1> HIDE DEF whole
<1>5. \A i \in 1..length : i \in 1..Len(whole)
  BY <1>1, <1>2, <1>3
<1>6. Distinct(New)
  BY <1>1, <1>3, <1>4, <1>5 DEF Distinct
<1>7. Within(New, Clusters)
  BY <1>1, <1>3, <1>4, <1>5 DEF Within
<1>8. \A i \in 1..length : i <= Len(Old) => New[i] = Old[i]
  BY <1>1, <1>2, <1>3, <1>4
<1>9. ASSUME NEW i \in 1..length, i > Len(Old)
      PROVE  \E j \in 1..Len(found) : New[i] = found[j]
  <2>1. i - Len(Old) \in 1..Len(found) /\ Len(Old) + (i - Len(Old)) = i
    BY <1>1, <1>2, <1>9
  <2>2. whole[Len(Old) + (i - Len(Old))] = found[i - Len(Old)]
    BY <1>3, <2>1
  <2>. QED BY <1>4, <2>1, <2>2
<1>10. IF found = <<>> THEN length < Len(Old)
                       ELSE length = Len(Old) + Len(found)
  BY DEF IInv, TypeInv
<1>. QED BY <1>1, <1>6, <1>7, <1>8, <1>9, <1>10

(* The call returns: table, directory entry and handle have the new chain. *)
LEMMA FinishInv ==
    ASSUME IInv, TypeInv', Finish
    PROVE  IInv'
<1>1. /\ pc = "info" /\ pc' = "idle" /\ InWrite /\ window' = NoWindow
      /\ UNCHANGED <<table, hint, freeCount, failed>>
      /\ kept' = [kept EXCEPT ![file] = New]
      /\ chain' = IF chain[file] = Closed THEN chain
                  ELSE [chain EXCEPT ![file] =
                          IF start[file] = NoEntry THEN Closed ELSE New]
      /\ start' = IF chain[file] # Closed THEN start
                  ELSE [start EXCEPT ![file] = New[1]]
  BY DEF Finish, New, Return, NewBuffer, deviceVars, InWrite
<1>2. Stored' = table /\ Stored = table
  <2>1. \A e \in Entries : WindowOf(e) # NoWindow
    BY WindowNumber, Numbers
  <2>2. Stored' = [e \in Entries |-> table[e]]
    BY <1>1, <2>1 DEF Stored
  <2>. QED BY <1>1, <2>2 DEF IInv, TypeInv, TypeOK, ProgressInv, CallInv
<1>3. /\ Steady' = Good /\ Good' = Good /\ Steady = Good \ {file}
      /\ file \in Good /\ Good \subseteq Files
  BY <1>1, SteadyInWrite DEF Steady, Good, InWrite
<1>4. /\ chain \in [Files -> Chains \cup {Closed}] /\ kept \in [Files -> Chains]
      /\ start \in [Files -> Entries \cup {NoEntry}]
  BY DEF IInv, TypeInv, TypeOK
<1>5. /\ New \in Chains /\ Len(New) = length /\ length \in Nat
      /\ Distinct(New) /\ Within(New, Clusters)
      /\ \A i \in 1..length : i <= Len(Old) => New[i] = Old[i]
      /\ \A i \in 1..length : i > Len(Old) =>
            \E j \in 1..Len(found) : New[i] = found[j]
  BY <1>1, NewIs
<1>6. /\ Old = kept[file] /\ Len(Old) \in Nat
      /\ chain[file] = Closed => Old = <<>>
  BY <1>1, OldIsKept DEF InWrite, InCall
<1>7. /\ kept'[file] = New
      /\ \A g \in Good \ {file} : /\ kept'[g] = kept[g] /\ chain'[g] = chain[g]
                                  /\ start'[g] = start[g]
  BY <1>1, <1>3, <1>4
<1>8. \A g \in Good \ {file} : Disjoint(New, kept[g]) /\ Disjoint(kept[g], New)
  <2> SUFFICES ASSUME NEW g \in Good \ {file}, NEW i \in 1..Len(New),
                      NEW j \in 1..Len(kept[g])
               PROVE  New[i] # kept[g][j]
    BY DEF Disjoint
  <2>1. Disjoint(kept[file], kept[g]) /\ Disjoint(found, kept[g])
    BY <1>1, <1>3 DEF IInv, FilesInv, KeptInv, ProgressInv, FoundInv, InCall,
       InWrite
  <2>2. i \in 1..length
    BY <1>5
  <2>3. CASE i <= Len(Old)
    <3>1. New[i] = kept[file][i] /\ i \in 1..Len(kept[file])
      BY <1>5, <1>6, <2>2, <2>3
    <3>. QED BY <2>1, <3>1 DEF Disjoint
  <2>4. CASE i > Len(Old)
    <3>1. PICK l \in 1..Len(found) : New[i] = found[l]
      BY <1>5, <2>2, <2>4
    <3>. QED BY <2>1, <3>1 DEF Disjoint
  <2>. QED BY <1>5, <1>6, <2>2, <2>3, <2>4
(* The directory entry and the handle of the file itself.                  *)
<1>10. /\ chain'[file] \in {Closed, New}
       /\ IF New = <<>> THEN start'[file] \in {NoEntry, 0}
                        ELSE start'[file] = New[1]
  <2>1. New = <<>> <=> length = 0
    BY <1>5, ChainsNotClosed
  <2>2. CASE chain[file] = Closed
    <3>1. length = 1
      BY <1>1, <2>2 DEF IInv, TypeInv, InCall, InWrite
    <3>. QED BY <1>1, <1>3, <1>4, <2>1, <2>2, <3>1
  <2>3. CASE chain[file] # Closed
    <3>1. /\ chain'[file] = IF start[file] = NoEntry THEN Closed ELSE New
          /\ start'[file] = start[file]
      BY <1>1, <1>3, <1>4, <2>3
    <3>2. IF length = 0 THEN start[file] = NoEntry
          ELSE start[file] = kept[file][1] /\ kept[file] # <<>>
      BY <1>1, <2>3 DEF IInv, ProgressInv, WriteEntryInv
    <3>3. ASSUME length # 0 PROVE New[1] = kept[file][1]
      <4>1. Len(Old) # 0
        BY <1>3, <1>6, <3>2, <3>3, ChainsNotClosed, <1>4
      <4>2. 1 \in 1..length /\ 1 <= Len(Old)
        BY <1>5, <1>6, <3>3, <4>1
      <4>. QED BY <1>5, <1>6, <4>2
    <3>. QED BY <2>1, <3>1, <3>2, <3>3
  <2>. QED BY <2>2, <2>3
<1>11. ChainIn(New, table)
  <2>1. ChainIn(New, Final)
    BY <1>1 DEF IInv, ProgressInv, WriteInv
  <2>2. todo = <<>> /\ table \in [Entries -> Values]
    BY <1>1 DEF IInv, TypeInv, TypeOK
  <2>3. Final = table
    BY <1>2, <2>2, AppliedNone DEF Final
  <2>. QED BY <2>1, <2>3
<1>12. PaddingInv'
  BY <1>1, <1>2 DEF IInv, FilesInv, PaddingInv
<1>13. KeptInv'
  <2>1. \A f \in Good : /\ Distinct(kept'[f]) /\ Within(kept'[f], Clusters)
                        /\ chain'[f] \in {Closed, kept'[f]}
    BY <1>5, <1>7, <1>10 DEF IInv, FilesInv, KeptInv
  <2>2. \A f, g \in Good : f # g => Disjoint(kept'[f], kept'[g])
    BY <1>7, <1>8 DEF IInv, FilesInv, KeptInv
  <2>. QED BY <1>3, <2>1, <2>2 DEF KeptInv
<1>14. TableInv'
  <2> SUFFICES ASSUME NEW f \in Steady'
               PROVE  (ChainIn(kept[f], table) /\ ChainIn(kept[f], Stored))'
    BY DEF TableInv
  <2>1. ChainIn(kept'[f], table)
    BY <1>3, <1>7, <1>11 DEF IInv, FilesInv, TableInv
  <2>. QED BY <1>1, <1>2, <2>1 DEF ChainIn
<1>15. EntryInv'
  <2>1. EntryInv
    BY DEF IInv, FilesInv
  <2>. QED BY <1>3, <1>7, <1>10, <2>1 DEF EntryInv
<1>16. CallInv'
  BY <1>1 DEF CallInv, InCall, IInv, ProgressInv
<1>17. FollowInv' /\ FoundInv' /\ SearchInv' /\ WriteInv' /\ WriteEntryInv'
  BY <1>1 DEF FollowInv, FoundInv, SearchInv, WriteInv, WriteEntryInv, InCall,
     InWrite
<1>18. CountInv'
  BY <1>1 DEF CountInv, IInv, ProgressInv
<1>. QED BY <1>12, <1>13, <1>14, <1>15, <1>16, <1>17, <1>18
         DEF IInv, FilesInv, ProgressInv

-----------------------------------------------------------------------------
(* The invariant                                                           *)

(* The initial volume.                                                     *)
LEMMA InitInv == Supported /\ Init => IInv
<1> SUFFICES ASSUME Supported, Init PROVE IInv
  OBVIOUS
<1>1. TypeInv
  BY InitTypes
<1>2. Stored = table
  BY <1>1, NoWindowStored DEF TypeInv, Init
<1>3. /\ pc = "idle" /\ failed = {} /\ Good = Files
      /\ \A f \in Files : kept[f] = <<>> /\ chain[f] = Closed
      /\ \A f \in Files : start[f] \in {NoEntry, 0}
  BY DEF Init, Good
<1>4. PaddingInv
  <2>1. PICK other \in SUBSET Clusters,
             padding \in SUBSET (LastCluster + 1..LastEntry) :
          /\ PaddingMayBeFree \/ padding = {}
          /\ table = [c \in Entries |->
                        IF c \in padding \cup (Clusters \ other) THEN 0
                        ELSE FAT32_EOF_CLUSTER]
    BY DEF Init
  <2>2. padding = {}
    BY <2>1 DEF Supported
  <2>3. \A e \in Entries \ Clusters : table[e] = FAT32_EOF_CLUSTER
    BY <2>1, <2>2
  <2>. QED BY <1>2, <2>3 DEF PaddingInv
<1>5. KeptInv
  BY <1>3 DEF KeptInv, Distinct, Within, Disjoint
<1>6. TableInv
  BY <1>3 DEF TableInv, ChainIn, Steady
<1>7. EntryInv
  BY <1>3 DEF EntryInv, Steady
<1>8. CallInv
  BY <1>2, <1>3 DEF CallInv, InCall, Init
<1>9. FollowInv /\ FoundInv /\ SearchInv /\ WriteInv /\ WriteEntryInv
  BY <1>3 DEF FollowInv, FoundInv, SearchInv, WriteInv, WriteEntryInv, InCall,
     InWrite
<1>10. CountInv
  BY <1>3 DEF CountInv, Init, FreeClusters, FreeIn
<1>. QED BY <1>1, <1>4, <1>5, <1>6, <1>7, <1>8, <1>9, <1>10
         DEF IInv, FilesInv, ProgressInv

(* Nothing happens.                                                        *)
LEMMA StutterInv == IInv /\ UNCHANGED vars => IInv'
<1> SUFFICES ASSUME IInv, UNCHANGED vars PROVE IInv'
  OBVIOUS
<1> USE DEF vars, deviceVars, fileVars, callVars, windowVars
<1>1. TypeInv'
  BY NextTypes DEF IInv
<1>2. /\ Stored' = Stored /\ Good' = Good /\ Steady' = Steady /\ Old' = Old
      /\ Final' = Final /\ New' = New
  BY DEF Stored, Good, Steady, InWrite, Old, Final, New
<1>3. FilesInv'
  BY <1>2, Unmoved DEF IInv, FilesInv, KeptInv
<1>4. CallInv' /\ FollowInv' /\ FoundInv' /\ SearchInv' /\ WriteEntryInv'
  BY <1>2 DEF IInv, ProgressInv, CallInv, FollowInv, FoundInv, SearchInv,
     WriteEntryInv, InCall, InWrite
<1>5. WriteInv'
  <2>1. InWrite => ChainIn(New, Final)'
    BY <1>2 DEF IInv, ProgressInv, WriteInv, ChainIn
  <2>. QED BY <1>2, <2>1 DEF WriteInv, InWrite, IInv, ProgressInv
<1>6. CountInv'
  <2>1. CountAfter' = CountAfter
    BY <1>2 DEF CountAfter
  <2>. QED BY <1>2, <2>1 DEF CountInv, IInv, ProgressInv
<1>. QED BY <1>1, <1>3, <1>4, <1>5, <1>6 DEF IInv, ProgressInv

(* Every step keeps the invariant.                                         *)
LEMMA NextInv == Supported /\ IInv /\ [Next]_vars => IInv'
<1> SUFFICES ASSUME Supported, IInv, [Next]_vars PROVE IInv'
  OBVIOUS
<1>1. TypeInv'
  BY NextTypes DEF IInv
<1>2. CASE UNCHANGED vars
  BY <1>2, StutterInv
<1>3. CASE EndOfDevice \/ TransferFails
  BY <1>1, <1>3, ThrowInv DEF EndOfDevice, TransferFails
<1>. QED BY <1>1, <1>2, <1>3, AllocInv, CloseInv, OpenInv, FreeInv,
         FollowInvStep, SearchInvStep, WriteBackInv, PutInv, FlushInv,
         FinishInv DEF Next

(* The inductive invariant.                                                *)
LEMMA Invariance == Supported /\ Spec => []IInv
<1>1. Supported /\ Init => IInv
  BY InitInv
<1>2. Supported /\ IInv /\ [Next]_vars => IInv'
  BY NextInv
<1>3. SUFFICES ASSUME Supported PROVE Spec => []IInv
  OBVIOUS
<1>. QED BY <1>1, <1>2, <1>3, PTL DEF Spec

-----------------------------------------------------------------------------
(* What follows                                                            *)

(* Between two calls the table and the directory entries hold exactly the  *)
(* chains of the files no call has failed on: whatever other call throws   *)
(* in the middle, pulling the plug then loses none of them.                *)
THEOREM ChainsOnDisk == Supported /\ Spec => []OnDisk
<1>1. ASSUME IInv PROVE OnDisk
  <2> SUFFICES ASSUME pc = "idle", NEW f \in Files \ failed, kept[f] # <<>>
               PROVE  /\ start[f] = kept[f][1]
                      /\ \A i \in 1..Len(kept[f]) : table[kept[f][i]] =
                           IF i < Len(kept[f]) THEN kept[f][i + 1]
                           ELSE FAT32_EOF_CLUSTER
    BY DEF OnDisk
  <2>1. f \in Steady
    BY DEF Steady, Good, InWrite
  <2>. QED BY <1>1, <2>1 DEF IInv, FilesInv, EntryInv, TableInv, ChainIn
<1>. QED BY <1>1, Invariance, PTL

(* decreaseClusterCount keeps the number of free clusters exact over every *)
(* sequence of calls, for every size of volume and window.                 *)
THEOREM CountStaysExact == Supported /\ Spec => []FreeCountExact
<1>1. IInv => FreeCountExact
  BY DEF IInv, ProgressInv, CountInv, FreeCountExact, FreeClusters, FreeIn
<1>. QED BY <1>1, Invariance, PTL

(* The handle of every file no call has failed on goes by the chain the    *)
(* file was given, as long as no file is emptied; FAT_emptied shows that   *)
(* the condition is needed.                                                *)
THEOREM HandlesAgree == Supported /\ Spec => []ChainsKept
<1>1. IInv => ChainsKept
  BY DEF IInv, FilesInv, KeptInv, ChainsKept, Good
<1>. QED BY <1>1, Invariance, PTL

(* A step that changes neither chains nor handles nor the failed files.    *)
LEMMA StoreStutters ==
    UNCHANGED <<kept, chain, failed>> => [Store!Next]_(Store!vars)
BY DEF Store!vars

(* A handle is opened or dropped.                                          *)
LEMMA StoreHandle ==
    ASSUME IInv, NEW f \in Files, UNCHANGED <<kept, failed>>, NEW h,
           chain' = [chain EXCEPT ![f] = h],
           f \in failed \/ h \in {Closed, kept[f]}
    PROVE  Store!Next
<1>1. chain \in [Files -> Chains \cup {Closed}] /\ kept \in [Files -> Chains]
  BY DEF IInv, TypeInv, TypeOK
<1>2. Store!Only(f)
  BY <1>1 DEF Store!Only
<1>3. CASE f \in failed
  <2>1. Store!Fail(f)
    BY <1>2, <1>3 DEF Store!Fail
  <2>. QED BY <2>1 DEF Store!Next
<1>4. CASE f \notin failed
  <2>1. Store!Shrinks(f, kept'[f])
    <3>1. Len(kept[f]) \in Nat
      BY <1>1, ChainsNotClosed
    <3>. QED BY <3>1 DEF Store!Shrinks, Store!IsStartOf
  <2>2. chain'[f] \in {Closed, kept'[f]}
    BY <1>1, <1>4
  <2>3. Store!Step(f)
    BY <1>2, <1>4, <2>1, <2>2 DEF Store!Step
  <2>. QED BY <2>3 DEF Store!Next
<1>. QED BY <1>3, <1>4

(* A call returns: the chain has grown by clusters nobody used, or shrunk. *)
LEMMA StoreCall ==
    ASSUME IInv, IInv', Finish
    PROVE  Store!Next
<1>1. /\ InWrite /\ InCall /\ failed' = failed
      /\ kept' = [kept EXCEPT ![file] = New]
      /\ chain' = IF chain[file] = Closed THEN chain
                  ELSE [chain EXCEPT ![file] =
                          IF start[file] = NoEntry THEN Closed ELSE New]
  BY DEF Finish, New, InWrite, InCall
<1>2. /\ chain \in [Files -> Chains \cup {Closed}] /\ kept \in [Files -> Chains]
      /\ file \in Files /\ file \notin failed /\ file \in Good
  BY <1>1, OldIsKept DEF IInv, TypeInv, TypeOK, Good
<1>3. Store!Only(file)
  BY <1>1, <1>2 DEF Store!Only
<1>4. kept'[file] = New /\ chain'[file] \in {Closed, New}
  BY <1>1, <1>2
<1>5. /\ New \in Chains /\ Len(New) = length /\ length \in Nat
      /\ Distinct(New) /\ Within(New, Clusters)
      /\ \A i \in 1..length : i <= Len(Old) => New[i] = Old[i]
      /\ \A i \in 1..length : i > Len(Old) =>
            \E j \in 1..Len(found) : New[i] = found[j]
      /\ IF found = <<>> THEN length < Len(Old)
                         ELSE length = Len(Old) + Len(found)
  BY <1>1, NewIs
<1>6. Old = kept[file] /\ Len(Old) \in Nat /\ Len(found) \in Nat
  BY <1>1, OldIsKept, ChainsNotClosed DEF IInv, TypeInv, TypeOK
<1>7. ASSUME found = <<>> PROVE Store!Shrinks(file, kept'[file])
  <2>1. \A i \in 1..length : i <= Len(Old)
    BY <1>5, <1>6, <1>7
  <2>2. Store!IsStartOf(New, kept[file])
    <3>1. Len(New) <= Len(kept[file])
      BY <1>5, <1>6, <1>7
    <3>2. \A i \in 1..Len(New) : kept[file][i] = New[i]
      BY <1>5, <1>6, <2>1
    <3>. QED BY <3>1, <3>2 DEF Store!IsStartOf
  <2>. QED BY <1>4, <2>2 DEF Store!Shrinks
<1>8. ASSUME found # <<>> PROVE Store!Grows(file, kept'[file])
  <2>1. Store!IsStartOf(kept[file], New)
    <3>1. \A i \in 1..Len(Old) : i \in 1..length /\ i <= Len(Old)
      BY <1>5, <1>6, <1>8
    <3>. QED BY <1>5, <1>6, <1>8, <3>1 DEF Store!IsStartOf
  <2>2. ASSUME NEW i \in Len(kept[file]) + 1..Len(New)
        PROVE  /\ New[i] \in Clusters \ Store!Used
               /\ \A j \in 1..Len(New) : New[i] = New[j] => i = j
    <3>1. i \in 1..length /\ i > Len(Old)
      BY <1>5, <1>6
    <3>2. PICK l \in 1..Len(found) : New[i] = found[l]
      BY <1>5, <3>1
    <3>3. ASSUME NEW g \in Files \ failed PROVE New[i] \notin Store!Range(kept[g])
      <4>1. Disjoint(found, kept[g])
        BY <1>1 DEF IInv, ProgressInv, FoundInv, Good
      <4>2. DOMAIN kept[g] = 1..Len(kept[g])
        BY <1>2, ChainsNotClosed
      <4>. QED BY <3>2, <4>1, <4>2 DEF Disjoint, Store!Range
    <3>4. New[i] \notin Store!Used
      BY <3>3 DEF Store!Used
    <3>5. New[i] \in Clusters /\ \A j \in 1..Len(New) : New[i] = New[j] => i = j
      BY <1>5, <3>1 DEF Within, Distinct
    <3>. QED BY <3>4, <3>5
  <2>. QED BY <1>4, <2>1, <2>2 DEF Store!Grows
<1>9. Store!Shrinks(file, kept'[file]) \/ Store!Grows(file, kept'[file])
  BY <1>7, <1>8
<1>10. Store!Step(file)
  BY <1>1, <1>2, <1>3, <1>4, <1>9 DEF Store!Step
<1>. QED BY <1>2, <1>10 DEF Store!Next

(* A call fails at the cost of its own file.                               *)
LEMMA StoreThrow ==
    ASSUME IInv, pc # "idle", Throw
    PROVE  [Store!Next]_(Store!vars)
<1>1. /\ UNCHANGED <<kept, chain>>
      /\ failed' = IF InWrite THEN failed \cup {file} ELSE failed
  BY DEF Throw, fileVars, InWrite
<1>2. CASE ~InWrite
  BY <1>1, <1>2, StoreStutters
<1>3. CASE InWrite
  <2>1. /\ file \in Files /\ chain \in [Files -> Chains \cup {Closed}]
        /\ kept \in [Files -> Chains]
    BY DEF IInv, TypeInv, TypeOK
  <2>2. Store!Fail(file)
    BY <1>1, <1>3, <2>1 DEF Store!Fail, Store!Only
  <2>. QED BY <2>1, <2>2 DEF Store!Next
<1>. QED BY <1>2, <1>3

(* Every step is a step of ClusterStore or none.                           *)
LEMMA StoreStep ==
    Supported /\ IInv /\ IInv' /\ [Next]_vars => [Store!Next]_(Store!vars)
<1> SUFFICES ASSUME Supported, IInv, IInv', [Next]_vars
             PROVE  [Store!Next]_(Store!vars)
  OBVIOUS
<1>1. CASE UNCHANGED vars
  BY <1>1, StoreStutters DEF vars, fileVars
<1>2. ASSUME NEW f \in Files, CreateFile(f) \/ Grow(f) \/ Shrink(f)
      PROVE  [Store!Next]_(Store!vars)
  BY <1>2, StoreStutters
  DEF CreateFile, Grow, Shrink, BeginAlloc, BeginFree, fileVars
<1>3. ASSUME NEW f \in Files, OpenFile(f)
      PROVE  [Store!Next]_(Store!vars)
  <2>1. CASE start[f] # 0
    BY <1>3, <2>1, StoreStutters DEF OpenFile
  <2>2. CASE start[f] = 0
    <3>1. /\ chain' = [chain EXCEPT ![f] = <<>>] /\ UNCHANGED <<kept, failed>>
          /\ pc = "idle" /\ f \in Good
      BY <1>3, <2>2 DEF OpenFile, Idle, Good
    <3>2. kept[f] = <<>>
      <4>1. f \in Steady
        BY <3>1, IdleFacts
      <4>2. kept[f] # <<>> => start[f] = kept[f][1] /\ kept[f][1] \in Clusters
        BY <3>1, <4>1, KeptTypes DEF IInv, FilesInv, EntryInv
      <4>. QED BY <2>2, <4>2, Numbers
    <3>. QED BY <3>1, <3>2, StoreHandle
  <2>. QED BY <2>1, <2>2
<1>4. ASSUME NEW f \in Files, CloseFile(f)
      PROVE  [Store!Next]_(Store!vars)
  BY <1>4, StoreHandle DEF CloseFile
<1>5. ASSUME NEW f \in Files, Delete(f)
      PROVE  [Store!Next]_(Store!vars)
  <2>1. CASE chain[f] = <<>>
    BY <1>5, <2>1, StoreHandle DEF Delete
  <2>2. CASE chain[f] # <<>>
    BY <1>5, <2>2, StoreStutters DEF Delete, BeginFree
  <2>. QED BY <2>1, <2>2
<1>6. CASE Follow
  <2>1. UNCHANGED <<kept, failed>> /\ file \in Files
    BY <1>6 DEF Follow, IInv, TypeInv, TypeOK
  <2>2. CASE chain' = chain
    BY <2>1, <2>2, StoreStutters
  <2>3. CASE chain' # chain
    <3>1. chain' = [chain EXCEPT ![file] = kept[file]]
      BY <1>6, <2>3, FollowInvStep DEF IInv
    <3>. QED BY <2>1, <3>1, StoreHandle
  <2>. QED BY <2>2, <2>3
<1>7. CASE Search \/ WriteBack \/ Put \/ Flush
  BY <1>7, StoreStutters DEF Search, WriteBack, Put, Flush, fileVars
<1>8. CASE Finish
  BY <1>8, StoreCall
<1>9. CASE EndOfDevice \/ TransferFails
  BY <1>9, StoreThrow DEF EndOfDevice, TransferFails
<1>10. CASE OtherHost
  BY <1>10, StoreStutters DEF OtherHost, fileVars
<1>. QED BY <1>1, <1>2, <1>3, <1>4, <1>5, <1>6, <1>7, <1>8, <1>9, <1>10
         DEF Next

(* alloc, free and getChain implement ClusterStore: through the window and *)
(* over any number of transfers and failures, files share no cluster, a    *)
(* growing file keeps what it has, a shrinking one keeps a prefix, and a   *)
(* new handle finds the chain that was written.                            *)
THEOREM ImplementsStore == Supported /\ Spec => StoreSpec
<1>1. Init => Store!Init
  BY DEF Init, Store!Init
<1>2. Supported /\ IInv /\ IInv' /\ [Next]_vars => [Store!Next]_(Store!vars)
  BY StoreStep
<1>3. SUFFICES ASSUME Supported PROVE Spec => StoreSpec
  OBVIOUS
<1>. QED BY <1>1, <1>2, <1>3, Invariance, PTL DEF Spec, StoreSpec, Store!Spec
=============================================================================
