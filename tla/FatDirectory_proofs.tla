------------------------ MODULE FatDirectory_proofs ------------------------
(***************************************************************************)
(* Proofs about FatDirectory, for any number of files, folders, names and  *)
(* handles and whatever is spoiled.                                        *)
(*                                                                         *)
(* The invariant says of the items nothing has spoiled where the disk has  *)
(* them: the item of the call in progress where the writes that are still  *)
(* to come leave it, every other one where its last call did.  A handle    *)
(* may hold an old list as long as nothing is written from it; when a call *)
(* begins, the items on which it disagrees with the disk become spoiled.   *)
(***************************************************************************)
EXTENDS FatDirectory, TLAPS, FiniteSetTheorems, SequenceTheorems

-----------------------------------------------------------------------------
(* The invariant                                                           *)

Good == Items \ spoiled

(* The items of which the disk says what their last call has left.         *)
Settled == Good \ {call.item}

(* A call and the handles it works with.                                   *)
IsCall ==
    /\ call = [item |-> call.item, place |-> call.place,
               writes |-> call.writes, handle |-> call.handle]
    /\ call # NoCall => call.item \in Items
    /\ call # NoCall /\ call.writes = <<>> => Deletes
    /\ Len(call.writes) <= 2 /\ (Deletes => Len(call.writes) <= 1)
    /\ deleting # <<>> /\ call # NoCall => Deletes

HandlesInv ==
    /\ dir[RootHandle] = Root
    /\ \A h \in Handles :
         /\ ~inited[h] => entries[h] = {} /\ lfnMap[h] = {}
         /\ dir[h] = Closed => ~inited[h]
         /\ h # RootHandle /\ dir[h] # Closed => parent[h] \in Handles
    /\ \A k \in DOMAIN deleting :
         deleting[k] # RootHandle /\ inited[deleting[k]]
    /\ \A o \in strays : inited[o[1]] /\ place[o[2]] # Nowhere

TypeInv == TypeOK /\ IsCall /\ HandlesInv

(* Where the settled items are.                                            *)
SettledInv ==
    \A i \in Settled :
       /\ \A d \in Dirs, n \in Names :
            Ent(i, n) \in disk[d] <=> place[i] = <<d, n>>
       /\ place[i] # Nowhere =>
            /\ i \in used
            /\ place[i][1] # Root => place[place[i][1]] # Nowhere

(* The names no mistake has mixed up.                                      *)
Clear == Names \ clashed

(* No two entries of a list have one name of G, and each of these has its  *)
(* key in the map.                                                         *)
UniqueIn(es, G) == \A e, f \in es : e # f /\ e.name = f.name => e.name \notin G

Proper(es, ks, G) ==
    UniqueIn(es, G) /\ \A e \in es : e.name \in G => e.name \in ks

NamesInv ==
    /\ \A d \in Dirs : UniqueIn(disk[d], Clear)
    /\ \A h \in Handles : Proper(entries[h], lfnMap[h], Clear)

(* What is still to be written of the settled items is on the disk; what   *)
(* of a deleted one, was deleted before.                                   *)
WritesInv ==
    /\ \A k \in DOMAIN call.writes :
         LET h == call.writes[k]
         IN  /\ dir[h] \in Dirs
             /\ \A e \in Entry : e.item \in Settled =>
                   (e \in entries[h] <=> e \in disk[dir[h]])
    /\ Deletes => \A j \in Settled :
                     place[j] # Nowhere => place[j][1] # call.item

(* The item of the call: each list still to be written has it only in its *)
(* new place, and so has the rest of the disk.  The directory to be        *)
(* written first may have it in its old place.                             *)
MovingInv ==
    call.item \in Good =>
       LET c == call.item
           to(k) == dir[call.writes[k]]
           Pending(d) == \E k \in DOMAIN call.writes : d = to(k)
       IN  /\ c \in used
           /\ call.place # Nowhere /\ call.place[1] # Root
                => place[call.place[1]] # Nowhere
           /\ \A j, k \in DOMAIN call.writes : to(j) = to(k) => j = k
           /\ \A k \in DOMAIN call.writes, n \in Names :
                Ent(c, n) \in entries[call.writes[k]]
                  <=> call.place = <<to(k), n>>
           /\ \A d \in Dirs, n \in Names :
                ~Pending(d) => (Ent(c, n) \in disk[d] <=> call.place = <<d, n>>)
           /\ \A d \in Dirs, n \in Names :
                Pending(d) /\ Ent(c, n) \in disk[d] =>
                   /\ d = to(1) /\ place[c] = <<d, n>>
                   /\ call.place # Nowhere => Pending(call.place[1])

(* What a folder still holds that is being emptied, its list holds too.    *)
EmptyingInv ==
    \A k \in DOMAIN deleting :
       \A e \in disk[dir[deleting[k]]] :
          e.item \in Settled => e \in entries[deleting[k]]

IInv == /\ TypeInv /\ SettledInv /\ NamesInv /\ WritesInv /\ MovingInv
        /\ EmptyingInv

-----------------------------------------------------------------------------
(* Entries, lists and what is spoiled                                      *)

(* An entry is its item and its name.                                      *)
LEMMA Entries ==
    /\ \A e \in Entry : e = Ent(e.item, e.name) /\ e.item \in Items /\ e.name \in Names
    /\ \A i \in Items, n \in Names :
         Ent(i, n) \in Entry /\ Ent(i, n).item = i /\ Ent(i, n).name = n
BY DEF Entry, Ent

(* Items, directories and places are none of the markers.                  *)
LEMMA Markers ==
    /\ Folders \subseteq Dirs /\ Root \in Dirs /\ Closed \notin Dirs
    /\ Folders \subseteq Items /\ Files \subseteq Items /\ NoItem \notin Items
    /\ Root \notin Items /\ Nowhere \notin Places
    /\ \A d \in Dirs : d # Root => d \in Folders /\ d \in Items
    /\ \A d \in Dirs : d \notin Files
    /\ \A d \in Dirs, n \in Names : <<d, n>> \in Places /\ <<d, n>> # Nowhere
    /\ \A p \in Places : p[1] \in Dirs /\ p[2] \in Names /\ p = <<p[1], p[2]>>
<1>1. \A d \in Dirs, n \in Names : <<d, n>> \in Places
  BY DEF Places
<1>2. \A p \in Places : p[1] \in Dirs /\ p[2] \in Names /\ p = <<p[1], p[2]>>
  BY DEF Places
<1> QED BY <1>1, <1>2, ItemAssumption DEF ItemAssumption, Dirs, Items

(* An open handle has a directory.                                         *)
LEMMA OpenDirs ==
    ASSUME TypeOK
    PROVE  \A h \in Handles : dir[h] # Closed => dir[h] \in Dirs
BY DEF TypeOK

(* No call is one about no item.                                           *)
LEMMA CallItem ==
    ASSUME TypeInv
    PROVE  /\ call = NoCall <=> call.item = NoItem
           /\ call # NoCall => call.item \in Items
           /\ call = NoCall => call.writes = <<>> /\ call.place = Nowhere
BY Markers DEF TypeInv, IsCall, NoCall

(* What a list read by init() holds.                                       *)
LEMMA ListedTypes ==
    ASSUME TypeInv, NEW h \in Handles, dir[h] \in Dirs
    PROVE  /\ Listed(h) \subseteq Entry /\ KeysOf(h) \subseteq Names
           /\ KeysOf(h) \ clashed \subseteq Keys(Listed(h))
BY Entries DEF TypeInv, TypeOK, Listed, KeysOf, Keys

(* Stale lists are about items.                                            *)
LEMMA StaleItems ==
    ASSUME TypeInv, NEW h \in Handles, dir[h] \in Dirs
    PROVE  Stale(h) \subseteq Items
<1>1. entries[h] \subseteq Entry /\ disk[dir[h]] \subseteq Entry
  BY DEF TypeInv, TypeOK
<1> QED BY <1>1, Entries DEF Stale

(* What is spoiled stays so.                                               *)
LEMMA Spoils ==
    ASSUME TypeInv, NEW hs \in SUBSET Handles, \A h \in hs : dir[h] \in Dirs,
           NEW others \in SUBSET Items, Spoil(hs, others)
    PROVE  /\ spoiled' \subseteq Items /\ spoiled \subseteq spoiled'
           /\ others \subseteq spoiled'
           /\ \A h \in hs : Stale(h) \subseteq spoiled'
<1>1. \A i \in Items : i \in Under(i) /\ Under(i) \subseteq Items
  BY DEF Under
<1>2. \A h \in hs : Stale(h) \subseteq Items
  BY StaleItems
<1>3. spoiled \subseteq Items
  BY DEF TypeInv, TypeOK
<1> QED BY <1>1, <1>2, <1>3 DEF Spoil

(* A list that is not stale says what the disk says.                       *)
LEMMA Fresh ==
    ASSUME TypeInv, NEW h \in Handles, dir[h] \in Dirs, NEW S, Stale(h) \subseteq S
    PROVE  \A e : e.item \notin S => (e \in Listed(h) <=> e \in disk[dir[h]])
BY DEF Stale, Listed

(* What a list holds of an object's entry, and that it has been read.      *)
LEMMA HeldIs ==
    ASSUME TypeInv, NEW p \in Handles, NEW i \in Items, NEW n \in Names,
           NEW held \in Held(p, i, n)
    PROVE  /\ held = {} \/ (held = {Ent(i, n)} /\ Ent(i, n) \in entries[p])
           /\ held \subseteq entries[p]
           /\ inited[p] /\ inited = [inited EXCEPT ![p] = TRUE]
           /\ dir[p] \in Dirs /\ Listed(p) = entries[p] /\ KeysOf(p) = lfnMap[p]
<1>1. /\ held = {} \/ held = {Ent(i, n)}
      /\ held \subseteq entries[p] /\ (held = {} => <<p, i>> \in strays)
  BY DEF Held
<1>2. inited[p]
  BY <1>1 DEF TypeInv, HandlesInv
<1> QED BY <1>1, <1>2, OpenDirs DEF TypeInv, HandlesInv, TypeOK, Listed, KeysOf

(* What becomes spoiled and mixed up besides are items and names.          *)
LEMMA MissedAre ==
    ASSUME NEW i \in Items, NEW ns \in SUBSET Names, NEW held
    PROVE  /\ Missed(i, held) \in SUBSET Items
           /\ held = {} => i \in Missed(i, held) /\ ns = MissedNames(ns, held)
           /\ MissedNames(ns, held) \in SUBSET Names
BY DEF Missed, MissedNames

-----------------------------------------------------------------------------
(* Type correctness                                                        *)

(* What is between calls.                                                  *)
LEMMA NoCallTypes ==
    /\ NoCall.item = NoItem /\ NoCall.place = Nowhere /\ NoCall.writes = <<>>
    /\ NoCall.handle = NoHandle /\ NoCall.writes \in Seq(Handles)
    /\ NoCall = [item |-> NoCall.item, place |-> NoCall.place,
                 writes |-> NoCall.writes, handle |-> NoCall.handle]
    /\ Len(NoCall.writes) = 0 /\ DOMAIN NoCall.writes = {}
BY DEF NoCall

(* The handles as a whole.                                                 *)
HandleTypes ==
    /\ dir \in [Handles -> Dirs \cup {Closed}]
    /\ parent \in [Handles -> Handles \cup {NoHandle}]
    /\ inited \in [Handles -> BOOLEAN]
    /\ entries \in [Handles -> SUBSET Entry]
    /\ lfnMap \in [Handles -> SUBSET Names]
    /\ \A h \in Handles : lfnMap[h] \ clashed \subseteq Keys(entries[h])
    /\ dir[RootHandle] = Root
    /\ \A h \in Handles :
         /\ ~inited[h] => entries[h] = {} /\ lfnMap[h] = {}
         /\ dir[h] = Closed => ~inited[h]
         /\ h # RootHandle /\ dir[h] # Closed => parent[h] \in Handles

DeletingTypes ==
    /\ deleting \in Seq(Handles)
    /\ \A k \in DOMAIN deleting :
         deleting[k] # RootHandle /\ inited[deleting[k]]

CallTypes ==
    /\ call.item \in Items \cup {NoItem}
    /\ call.place \in Places \cup {Nowhere}
    /\ call.writes \in Seq(Handles) /\ call.handle \in Handles \cup {NoHandle}
    /\ IsCall

DiskTypes ==
    /\ disk \in [Dirs -> SUBSET Entry] /\ used \subseteq Items
    /\ place \in [Items -> Places \cup {Nowhere}] /\ spoiled \subseteq Items
    /\ clashed \subseteq Names

StrayTypes ==
    /\ strays \subseteq Handles \X Items
    /\ \A o \in strays : inited[o[1]] /\ place[o[2]] # Nowhere

(* TypeInv, sorted by what the actions change together.                    *)
LEMMA TypeParts ==
    TypeInv <=> HandleTypes /\ DeletingTypes /\ CallTypes /\ DiskTypes /\ StrayTypes
BY DEF TypeInv, TypeOK, HandlesInv, HandleTypes, DeletingTypes, CallTypes, DiskTypes, StrayTypes

(* The same of the next state.                                             *)
LEMMA TypePartsPrimed ==
    HandleTypes' /\ DeletingTypes' /\ CallTypes' /\ DiskTypes' /\ StrayTypes' => TypeInv'
BY TypeParts, PTL

(* The objects a client keeps are of open handles, which stay read.        *)
LEMMA StraysStay ==
    ASSUME TypeInv, strays' \subseteq strays, place' = place,
           \A h \in Handles : inited[h] => inited'[h]
    PROVE  StrayTypes'
<1>1. StrayTypes /\ \A o \in Handles \X Items : o[1] \in Handles
  BY TypeParts
<1> QED BY <1>1 DEF StrayTypes

(* The same when it keeps more of them, or handles are closed.             *)
LEMMA StraysMore ==
    ASSUME TypeInv, NEW more \in SUBSET (Handles \X Items),
           \A o \in more : inited[o[1]], StraysAnd(more),
           \A h \in Handles : inited[h] /\ dir'[h] # Closed => inited'[h]
    PROVE  StrayTypes'
<1>1. StrayTypes /\ \A o \in Handles \X Items : o[1] \in Handles
  BY TypeParts
<1>2. PICK new \in {{}, more} :
        strays' = {o \in strays \cup new :
                     dir'[o[1]] # Closed /\ place'[o[2]] # Nowhere}
  BY DEF StraysAnd
<1> QED BY <1>1, <1>2 DEF StrayTypes

(* A handle whose list changes.                                            *)
LEMMA ChangeTypes ==
    ASSUME TypeInv, NEW h \in Handles, dir[h] \in Dirs,
           NEW es \in SUBSET Entry, NEW ks \in SUBSET Names, ks \ clashed' \subseteq Keys(es),
           clashed \subseteq clashed',
           inited' = [inited EXCEPT ![h] = TRUE],
           entries' = [entries EXCEPT ![h] = es],
           lfnMap' = [lfnMap EXCEPT ![h] = ks],
           UNCHANGED <<dir, parent>>
    PROVE  HandleTypes'
<1>1. HandleTypes
  BY TypeParts
<1>2. /\ inited' \in [Handles -> BOOLEAN] /\ entries' \in [Handles -> SUBSET Entry]
      /\ lfnMap' \in [Handles -> SUBSET Names]
  BY <1>1 DEF HandleTypes
<1>3. /\ inited'[h] /\ entries'[h] = es /\ lfnMap'[h] = ks
      /\ \A x \in Handles \ {h} : /\ inited'[x] = inited[x] /\ lfnMap'[x] = lfnMap[x]
                                  /\ entries'[x] = entries[x]
  BY <1>1 DEF HandleTypes
<1>4. \A x \in Handles :
         /\ lfnMap'[x] \ clashed' \subseteq Keys(entries'[x])
         /\ ~inited'[x] => entries'[x] = {} /\ lfnMap'[x] = {}
         /\ dir[x] = Closed => ~inited'[x]
  <2> TAKE x \in Handles
  <2>1. CASE x = h
    BY <2>1, <1>3, Markers
  <2>2. CASE x # h
    BY <2>2, <1>1, <1>3 DEF HandleTypes
  <2> QED BY <2>1, <2>2
<1> QED BY <1>1, <1>2, <1>4 DEF HandleTypes

(* Handles whose lists change, none of which is opened or closed.          *)
LEMMA ListsTypes ==
    ASSUME TypeInv, UNCHANGED <<dir, parent>>, clashed \subseteq clashed',
           DOMAIN inited' = Handles, DOMAIN entries' = Handles, DOMAIN lfnMap' = Handles,
           inited' = [h \in Handles |-> inited'[h]],
           entries' = [h \in Handles |-> entries'[h]],
           lfnMap' = [h \in Handles |-> lfnMap'[h]],
           \A h \in Handles :
              /\ inited'[h] \in BOOLEAN /\ entries'[h] \in SUBSET Entry
              /\ lfnMap'[h] \in SUBSET Names
              /\ lfnMap'[h] \ clashed' \subseteq Keys(entries'[h])
              /\ ~inited'[h] => entries'[h] = {} /\ lfnMap'[h] = {}
              /\ dir[h] = Closed => ~inited'[h]
    PROVE  HandleTypes'
<1>1. /\ inited' \in [Handles -> BOOLEAN] /\ entries' \in [Handles -> SUBSET Entry]
      /\ lfnMap' \in [Handles -> SUBSET Names]
  OBVIOUS
<1>2. HandleTypes
  BY TypeParts
<1> QED BY <1>1, <1>2 DEF HandleTypes

(* A new handle, for directory d.                                          *)
LEMMA NewTypes ==
    ASSUME HandleTypes, NEW y \in Handles, y # RootHandle, NEW x \in Handles,
           NEW d \in Dirs, NEW b \in BOOLEAN, NEW es \in SUBSET Entry,
           NEW ks \in SUBSET Names, ks \ clashed' \subseteq Keys(es), clashed \subseteq clashed', ~b => es = {} /\ ks = {},
           dir' = [dir EXCEPT ![y] = d], parent' = [parent EXCEPT ![y] = x],
           inited' = [inited EXCEPT ![y] = b],
           entries' = [entries EXCEPT ![y] = es],
           lfnMap' = [lfnMap EXCEPT ![y] = ks]
    PROVE  HandleTypes'
<1>1. /\ inited' \in [Handles -> BOOLEAN] /\ entries' \in [Handles -> SUBSET Entry]
      /\ lfnMap' \in [Handles -> SUBSET Names]
      /\ dir' \in [Handles -> Dirs \cup {Closed}]
      /\ parent' \in [Handles -> Handles \cup {NoHandle}]
  BY DEF HandleTypes
<1>2. /\ inited'[y] = b /\ entries'[y] = es /\ lfnMap'[y] = ks
      /\ dir'[y] = d /\ parent'[y] = x
      /\ \A h \in Handles \ {y} :
            /\ inited'[h] = inited[h] /\ lfnMap'[h] = lfnMap[h]
            /\ entries'[h] = entries[h] /\ dir'[h] = dir[h] /\ parent'[h] = parent[h]
  BY DEF HandleTypes
<1>3. dir'[RootHandle] = Root
  BY <1>2, HandleAssumption DEF HandleAssumption, HandleTypes
<1>4. \A h \in Handles :
         /\ lfnMap'[h] \ clashed' \subseteq Keys(entries'[h])
         /\ ~inited'[h] => entries'[h] = {} /\ lfnMap'[h] = {}
         /\ dir'[h] = Closed => ~inited'[h]
         /\ h # RootHandle /\ dir'[h] # Closed => parent'[h] \in Handles
  <2> TAKE h \in Handles
  <2>1. CASE h = y
    BY <2>1, <1>2, Markers
  <2>2. CASE h # y
    BY <2>2, <1>2 DEF HandleTypes
  <2> QED BY <2>1, <2>2
<1> QED BY <1>1, <1>3, <1>4 DEF HandleTypes

(* List reads a list.                                                      *)
LEMMA ListTypes ==
    ASSUME TypeInv, NEW h \in Handles, List(h)
    PROVE  TypeInv'
<1>1. dir[h] \in Dirs
  BY OpenDirs DEF List, Usable, TypeInv
<1>2. HandleTypes'
  <2>1. /\ Listed(h) \in SUBSET Entry /\ KeysOf(h) \in SUBSET Names
        /\ KeysOf(h) \ clashed' \subseteq Keys(Listed(h)) /\ clashed' = clashed
    BY <1>1, ListedTypes DEF List, historyVars
  <2> QED BY <1>1, <2>1, ChangeTypes DEF List
<1>3. DeletingTypes' /\ CallTypes' /\ DiskTypes' /\ StrayTypes'
  <2>1. \A x \in Handles : inited[x] => inited'[x]
    BY DEF List, TypeInv, TypeOK
  <2> QED BY <2>1, TypeParts, ElementOfSeq DEF List, diskVars, historyVars, DeletingTypes, CallTypes,
       IsCall, Deletes, DiskTypes, StrayTypes
<1> QED BY <1>2, <1>3, TypePartsPrimed

(* search and list: a new handle.                                          *)
LEMMA OpenTypes ==
    ASSUME TypeInv, NEW p \in Handles, NEW h \in Handles, Open(p, h)
    PROVE  TypeInv'
<1>1. dir[p] \in Dirs /\ h # p /\ h # RootHandle
  BY OpenDirs, Markers DEF Open, Usable, TypeInv, HandlesInv
<1>2. PICK e \in Listed(p) : e.item \in Folders /\ dir' = [dir EXCEPT ![h] = e.item]
  BY DEF Open
<1>3. HandleTypes'
  <2>1. HandleTypes
    BY TypeParts
  <2>2. /\ Listed(p) \subseteq Entry /\ KeysOf(p) \subseteq Names
        /\ KeysOf(p) \ clashed \subseteq Keys(Listed(p)) /\ e.item \in Dirs
    BY <1>1, <1>2, ListedTypes, Markers
  <2>8. clashed' = clashed
    BY DEF Open, historyVars
  <2>3. /\ inited' = [inited EXCEPT ![p] = TRUE, ![h] = FALSE]
        /\ entries' = [entries EXCEPT ![p] = Listed(p), ![h] = {}]
        /\ lfnMap' = [lfnMap EXCEPT ![p] = KeysOf(p), ![h] = {}]
        /\ parent' = [parent EXCEPT ![h] = p]
    BY DEF Open
  <2>4. /\ inited' \in [Handles -> BOOLEAN] /\ entries' \in [Handles -> SUBSET Entry]
        /\ lfnMap' \in [Handles -> SUBSET Names]
        /\ dir' \in [Handles -> Dirs \cup {Closed}]
        /\ parent' \in [Handles -> Handles \cup {NoHandle}]
    BY <1>2, <2>1, <2>2, <2>3 DEF HandleTypes
  <2>5. /\ ~inited'[h] /\ entries'[h] = {} /\ lfnMap'[h] = {}
        /\ dir'[h] = e.item /\ parent'[h] = p
        /\ inited'[p] /\ entries'[p] = Listed(p) /\ lfnMap'[p] = KeysOf(p)
        /\ dir'[p] = dir[p] /\ parent'[p] = parent[p]
        /\ \A x \in Handles \ {p, h} :
              /\ inited'[x] = inited[x] /\ lfnMap'[x] = lfnMap[x]
              /\ entries'[x] = entries[x] /\ dir'[x] = dir[x] /\ parent'[x] = parent[x]
    BY <1>1, <1>2, <2>1, <2>3 DEF HandleTypes
  <2>6. dir'[RootHandle] = Root
    BY <1>1, <2>1, <2>5, HandleAssumption DEF HandleAssumption, HandleTypes
  <2>7. \A x \in Handles :
         /\ lfnMap'[x] \ clashed' \subseteq Keys(entries'[x])
         /\ ~inited'[x] => entries'[x] = {} /\ lfnMap'[x] = {}
         /\ dir'[x] = Closed => ~inited'[x]
         /\ x # RootHandle /\ dir'[x] # Closed => parent'[x] \in Handles
    <3> TAKE x \in Handles
    <3>1. CASE x = p
      BY <3>1, <2>1, <2>2, <2>5, <2>8, <1>1, Markers DEF HandleTypes
    <3>2. CASE x = h
      BY <3>2, <2>2, <2>5, Markers DEF Keys
    <3>3. CASE x \notin {p, h}
      BY <3>3, <2>1, <2>5, <2>8 DEF HandleTypes
    <3> QED BY <3>1, <3>2, <3>3
  <2> QED BY <2>4, <2>6, <2>7 DEF HandleTypes
<1>4. DeletingTypes' /\ CallTypes' /\ DiskTypes'
  BY NoCallTypes, TypeParts DEF Open, Idle, diskVars, historyVars, DeletingTypes, CallTypes,
     IsCall, Deletes, DiskTypes
<1>5. StrayTypes'
  <2>1. ~inited[h] /\ strays' = strays /\ place' = place /\ inited' = [inited EXCEPT ![p] = TRUE, ![h] = FALSE]
    BY DEF Open, historyVars, TypeInv, HandlesInv
  <2>2. \A x \in Handles : inited[x] => inited'[x]
    BY <2>1 DEF TypeInv, TypeOK
  <2> QED BY <2>1, <2>2, StraysStay
<1> QED BY <1>3, <1>4, <1>5, TypePartsPrimed

(* Handles that are dropped.                                               *)
LEMMA ForgetTypes ==
    ASSUME TypeInv, NEW hs \in SUBSET Handles, Forget(hs), RootHandle \notin hs,
           \A h \in hs : ~Referred(h), deleting' = deleting, clashed' = clashed,
           StraysAnd({})
    PROVE  HandleTypes' /\ DeletingTypes' /\ StrayTypes'
<1>1. /\ dir' = [h \in Handles |-> IF h \in hs THEN Closed ELSE dir[h]]
      /\ parent' = [h \in Handles |-> IF h \in hs THEN NoHandle ELSE parent[h]]
      /\ inited' = [h \in Handles |-> h \notin hs /\ inited[h]]
      /\ entries' = [h \in Handles |-> IF h \in hs THEN {} ELSE entries[h]]
      /\ lfnMap' = [h \in Handles |-> IF h \in hs THEN {} ELSE lfnMap[h]]
  BY DEF Forget
<1>2. HandleTypes'
  BY <1>1, HandleAssumption DEF HandleAssumption, TypeInv, TypeOK, HandlesInv, HandleTypes, Keys
<1>3. DeletingTypes'
  <2>1. \A k \in DOMAIN deleting : deleting[k] \in Handles /\ deleting[k] \notin hs
    BY ElementOfSeq, TypeParts DEF Referred, DeletingTypes
  <2> QED BY <1>1, <2>1, TypeParts DEF DeletingTypes
<1>4. StrayTypes'
  <2>1. \A h \in Handles : inited[h] /\ dir'[h] # Closed => inited'[h]
    BY <1>1
  <2>2. {} \in SUBSET (Handles \X Items) /\ \A o \in {} : inited[o[1]]
    OBVIOUS
  <2> QED BY <2>1, <2>2, StraysMore
<1> QED BY <1>2, <1>3, <1>4

(* The client drops a handle.                                              *)
LEMMA DropTypes ==
    ASSUME TypeInv, NEW h \in Handles, Drop(h)
    PROVE  TypeInv'
<1>1. HandleTypes' /\ DeletingTypes' /\ StrayTypes'
  BY ForgetTypes DEF Drop
<1>2. CallTypes' /\ DiskTypes'
  BY NoCallTypes, TypeParts DEF Drop, Idle, diskVars, CallTypes, IsCall, Deletes, DiskTypes
<1> QED BY <1>1, <1>2, TypePartsPrimed

(* delete lists a folder.                                                  *)
LEMMA DeleteFolderTypes ==
    ASSUME TypeInv, NEW x \in Handles, DeleteFolder(x)
    PROVE  TypeInv'
<1>1. dir[x] \in Dirs /\ Idle /\ x # RootHandle
  BY OpenDirs DEF DeleteFolder, Usable, TypeInv, Has
<1>2. HandleTypes'
  BY <1>1, ListedTypes, ChangeTypes DEF DeleteFolder
<1>3. DeletingTypes'
  BY <1>1 DEF DeleteFolder, DeletingTypes, TypeInv, TypeOK
<1>4. CallTypes'
  BY <1>1, NoCallTypes, TypeParts DEF DeleteFolder, Idle, CallTypes, IsCall, Deletes
<1>5. DiskTypes'
  BY <1>1, Spoils, TypeParts DEF DeleteFolder, diskVars, DiskTypes
<1>6. StrayTypes'
  <2>1. \A h \in Handles : inited[h] => inited'[h]
    BY DEF DeleteFolder, TypeInv, TypeOK
  <2> QED BY <2>1, StraysStay DEF DeleteFolder
<1> QED BY <1>2, <1>3, <1>4, <1>5, <1>6, TypePartsPrimed

(* delete goes down into a folder.                                         *)
LEMMA DescendTypes ==
    ASSUME TypeInv, NEW x \in Handles, NEW y \in Handles, Descend(x, y)
    PROVE  TypeInv'
<1>1. PICK e \in entries[x] :
         /\ e.item \in Folders
         /\ dir' = [dir EXCEPT ![y] = e.item]
         /\ parent' = [parent EXCEPT ![y] = x]
         /\ inited' = [inited EXCEPT ![y] = TRUE]
         /\ entries' = [entries EXCEPT ![y] = disk[e.item]]
         /\ lfnMap' = [lfnMap EXCEPT ![y] = Keys(disk[e.item])]
         /\ deleting' = <<y>> \o deleting
  BY DEF Descend
<1>2. y # RootHandle /\ dir[y] = Closed /\ call = NoCall
  BY Markers DEF Descend, Emptying, TypeInv, HandlesInv
<1>3. Keys(disk[e.item]) \subseteq Names
  BY <1>1, Markers, Entries DEF Keys, TypeInv, TypeOK
<1>4. HandleTypes'
  <2>1. disk[e.item] \in SUBSET Entry /\ e.item \in Dirs
    BY <1>1, Markers DEF TypeInv, TypeOK
  <2> QED BY <1>1, <1>2, <1>3, <2>1, NewTypes, TypeParts DEF Descend, historyVars
<1>5. DeletingTypes'
  <2>1. /\ <<y>> \in Seq(Handles) /\ deleting \in Seq(Handles)
        /\ Len(<<y>>) = 1 /\ <<y>>[1] = y
    BY DEF TypeInv, TypeOK
  <2>2. /\ deleting' \in Seq(Handles) /\ Len(deleting') = 1 + Len(deleting)
        /\ \A k \in 1..Len(deleting') :
              deleting'[k] = IF k <= 1 THEN y ELSE deleting[k - 1]
    BY <1>1, <2>1, ConcatProperties
  <2>3. \A h \in Handles : inited[h] => inited'[h]
    BY <1>1 DEF TypeInv, TypeOK
  <2>4. inited'[y]
    BY <1>1 DEF TypeInv, TypeOK
  <2>5. ASSUME NEW k \in DOMAIN deleting' PROVE deleting'[k] # RootHandle /\ inited'[deleting'[k]]
    <3>1. k \in 1..1 + Len(deleting) /\ Len(deleting) \in Nat
      BY <2>1, <2>2, <2>5
    <3>2. CASE k <= 1
      BY <3>1, <3>2, <2>2, <2>4, <1>2
    <3>3. CASE ~(k <= 1)
      <4>1. k - 1 \in DOMAIN deleting /\ deleting'[k] = deleting[k - 1]
        BY <3>1, <3>3, <2>1, <2>2
      <4>2. deleting[k - 1] \in Handles
        BY <4>1, <2>1
      <4> QED BY <4>1, <4>2, <2>3 DEF TypeInv, HandlesInv
    <3> QED BY <3>2, <3>3
  <2> QED BY <2>2, <2>5 DEF DeletingTypes
<1>6. CallTypes' /\ DiskTypes'
  BY <1>2, NoCallTypes, TypeParts DEF Descend, diskVars, historyVars, CallTypes,
     IsCall, Deletes, DiskTypes
<1>7. StrayTypes'
  <2>1. \A h \in Handles : inited[h] => inited'[h]
    BY <1>1 DEF TypeInv, TypeOK
  <2> QED BY <2>1, StraysStay DEF Descend, historyVars
<1> QED BY <1>4, <1>5, <1>6, <1>7, TypePartsPrimed

(* A new root object.                                                      *)
LEMMA RemountTypes ==
    ASSUME TypeInv, Remount
    PROVE  TypeInv'
<1>1. disk[Root] \subseteq Entry /\ Keys(disk[Root]) \subseteq Names
  BY Markers, Entries DEF Keys, TypeInv, TypeOK
<1>2. HandleTypes'
  BY <1>1, Markers, HandleAssumption DEF HandleAssumption, Remount, HandleTypes, Keys
<1>3. DeletingTypes' /\ CallTypes' /\ DiskTypes' /\ StrayTypes'
  BY NoCallTypes, TypeParts DEF Remount, Idle, diskVars, DeletingTypes, CallTypes,
     IsCall, Deletes, DiskTypes, StrayTypes
<1> QED BY <1>2, <1>3, TypePartsPrimed

(* A call that changes the list of one handle.                             *)
LEMMA BeginTypes ==
    ASSUME TypeInv, call = NoCall, NEW i \in Items, NEW to \in Places \cup {Nowhere},
           NEW hs \in Seq(Handles), NEW x \in Handles \cup {NoHandle},
           Begin(i, to, hs, x), hs # <<>>, Len(hs) <= 2, to = Nowhere => Len(hs) <= 1,
           deleting' # <<>> => to = Nowhere
    PROVE  CallTypes'
<1>1. /\ call' = [item |-> i, place |-> to, writes |-> hs, handle |-> x]
      /\ call'.item = i /\ call'.place = to /\ call'.writes = hs /\ call'.handle = x
  BY DEF Begin
<1>2. Deletes' <=> to = Nowhere
  BY <1>1, Markers DEF Deletes
<1>3. IsCall'
  <2>1. call' = [item |-> call'.item, place |-> call'.place,
                 writes |-> call'.writes, handle |-> call'.handle]
    BY <1>1, Zenon
  <2>2. Len(call'.writes) <= 2 /\ (Deletes' => Len(call'.writes) <= 1)
    BY <1>1, <1>2, Zenon
  <2>3. call'.item \in Items /\ call'.writes # <<>>
    BY <1>1, Zenon
  <2>4. deleting' # <<>> => Deletes'
    BY <1>2
  <2> QED BY <2>1, <2>3, <2>4, <2>2 DEF IsCall
<1> QED BY <1>1, <1>3 DEF CallTypes

(* A list that is used has been read.                                      *)
LEMMA ReadBefore ==
    ASSUME TypeInv, NEW h \in Handles, NEW e \in entries[h]
    PROVE  /\ inited[h] /\ inited = [inited EXCEPT ![h] = TRUE]
           /\ dir[h] \in Dirs /\ Listed(h) = entries[h] /\ KeysOf(h) = lfnMap[h]
           /\ e \in Entry /\ e.item \in Items /\ e.name \in Names
<1>1. inited[h] /\ dir[h] \in Dirs
  BY OpenDirs DEF TypeInv, HandlesInv
<1>2. e \in Entry
  BY DEF TypeInv, TypeOK
<1> QED BY <1>1, <1>2, Entries DEF Listed, KeysOf, TypeInv, TypeOK

(* An entry more, and one less.                                            *)
LEMMA WithTypes ==
    ASSUME TypeInv, NEW h \in Handles, dir[h] \in Dirs, NEW i \in Items, NEW n \in Names
    PROVE  /\ With(h, i, n) \in SUBSET Entry /\ KeysOf(h) \cup {n} \in SUBSET Names
           /\ (KeysOf(h) \cup {n}) \ clashed \subseteq Keys(With(h, i, n))
<1>1. With(h, i, n) = Listed(h) \cup {Ent(i, n)}
  BY DEF With, Ent
<1> QED BY <1>1, ListedTypes, Entries DEF Keys

(* The same of removeEntry, which may find nothing but the key.            *)
LEMMA WithoutTypes ==
    ASSUME TypeInv, NEW p \in Handles, NEW i \in Items, NEW n \in Names,
           NEW held \in Held(p, i, n)
    PROVE  /\ entries[p] \ held \in SUBSET Entry
           /\ KeysWithout(p, n) \in SUBSET Names
           /\ KeysWithout(p, n) \ clashed \subseteq Keys(entries[p] \ held)
<1>1. held \subseteq {Ent(i, n)} /\ Ent(i, n).name = n
  BY HeldIs, Entries
<1>2. /\ entries[p] \subseteq Entry /\ lfnMap[p] \subseteq Names
      /\ lfnMap[p] \ clashed \subseteq Keys(entries[p])
  BY DEF TypeInv, TypeOK
<1> QED BY <1>1, <1>2 DEF KeysWithout, Keys

(* createFile.                                                             *)
LEMMA CreateFileTypes ==
    ASSUME TypeInv, NEW h \in Handles, NEW n \in Names, NEW i \in Items,
           CreateFile(h, n, i)
    PROVE  TypeInv'
<1>1. dir[h] \in Dirs /\ Idle
  BY OpenDirs DEF CreateFile, Usable, TypeInv
<1>6. Overlooked(h, n) \subseteq Names /\ clashed \subseteq clashed' /\ clashed' \subseteq Names
  BY DEF CreateFile, Overlooked, Clash, TypeInv, TypeOK
<1>2. HandleTypes'
  BY <1>1, <1>6, WithTypes, ChangeTypes DEF CreateFile
<1>3. CallTypes'
  <2>1. <<h>> \in Seq(Handles) /\ <<h>> # <<>> /\ Len(<<h>>) <= 2
    OBVIOUS
  <2>2. /\ <<dir[h], n>> \in Places /\ <<dir[h], n>> # Nowhere
        /\ Begin(i, <<dir[h], n>>, <<h>>, NoHandle)
        /\ deleting' = <<>> /\ call = NoCall
    BY <1>1, Markers DEF CreateFile, Idle
  <2>3. NoHandle \in Handles \cup {NoHandle}
    OBVIOUS
  <2> QED BY <2>1, <2>2, <2>3, BeginTypes
<1>4. DeletingTypes'
  BY <1>1 DEF CreateFile, Idle, DeletingTypes
<1>5. DiskTypes'
  BY <1>1, <1>6, Spoils, TypeParts DEF CreateFile, DiskTypes
<1>7. StrayTypes'
  <2>1. \A y \in Handles : inited[y] => inited'[y]
    BY DEF CreateFile, TypeInv, TypeOK
  <2> QED BY <2>1, StraysStay DEF CreateFile
<1> QED BY <1>2, <1>3, <1>4, <1>5, <1>7, TypePartsPrimed

(* createDirectory.                                                        *)
LEMMA CreateDirectoryTypes ==
    ASSUME TypeInv, NEW h \in Handles, NEW n \in Names, NEW i \in Items,
           NEW x \in Handles, CreateDirectory(h, n, i, x)
    PROVE  TypeInv'
<1>1. dir[h] \in Dirs /\ Idle /\ x # h /\ x # RootHandle /\ i \in Dirs
  BY OpenDirs, Markers DEF CreateDirectory, Usable, TypeInv, HandlesInv
<1>6. Overlooked(h, n) \subseteq Names /\ clashed \subseteq clashed' /\ clashed' \subseteq Names
  BY DEF CreateDirectory, Overlooked, Clash, TypeInv, TypeOK
<1>2. HandleTypes'
  <2>1. HandleTypes
    BY TypeParts
  <2>2. /\ With(h, i, n) \in SUBSET Entry /\ KeysOf(h) \cup {n} \in SUBSET Names
        /\ (KeysOf(h) \cup {n}) \ clashed \subseteq Keys(With(h, i, n))
    BY <1>1, WithTypes
  <2>3. /\ dir' = [dir EXCEPT ![x] = i] /\ parent' = [parent EXCEPT ![x] = h]
        /\ inited' = [inited EXCEPT ![h] = TRUE, ![x] = TRUE]
        /\ entries' = [entries EXCEPT ![h] = With(h, i, n), ![x] = {}]
        /\ lfnMap' = [lfnMap EXCEPT ![h] = KeysOf(h) \cup {n}, ![x] = {}]
    BY DEF CreateDirectory
  <2>4. /\ inited' \in [Handles -> BOOLEAN] /\ entries' \in [Handles -> SUBSET Entry]
        /\ lfnMap' \in [Handles -> SUBSET Names]
        /\ dir' \in [Handles -> Dirs \cup {Closed}]
        /\ parent' \in [Handles -> Handles \cup {NoHandle}]
    BY <1>1, <2>1, <2>2, <2>3 DEF HandleTypes
  <2>5. /\ inited'[x] /\ entries'[x] = {} /\ lfnMap'[x] = {}
        /\ dir'[x] = i /\ parent'[x] = h
        /\ inited'[h] /\ entries'[h] = With(h, i, n) /\ lfnMap'[h] = KeysOf(h) \cup {n}
        /\ dir'[h] = dir[h] /\ parent'[h] = parent[h]
        /\ \A y \in Handles \ {h, x} :
              /\ inited'[y] = inited[y] /\ lfnMap'[y] = lfnMap[y]
              /\ entries'[y] = entries[y] /\ dir'[y] = dir[y] /\ parent'[y] = parent[y]
    BY <1>1, <2>1, <2>3 DEF HandleTypes
  <2>6. dir'[RootHandle] = Root
    BY <1>1, <2>1, <2>5, HandleAssumption DEF HandleAssumption, HandleTypes
  <2>7. \A y \in Handles :
         /\ lfnMap'[y] \ clashed' \subseteq Keys(entries'[y])
         /\ ~inited'[y] => entries'[y] = {} /\ lfnMap'[y] = {}
         /\ dir'[y] = Closed => ~inited'[y]
         /\ y # RootHandle /\ dir'[y] # Closed => parent'[y] \in Handles
    <3> TAKE y \in Handles
    <3>1. CASE y = h
      BY <3>1, <2>1, <2>2, <2>5, <1>1, <1>6, Markers DEF HandleTypes
    <3>2. CASE y = x
      BY <3>2, <2>5, <1>1, Markers DEF Keys
    <3>3. CASE y \notin {h, x}
      BY <3>3, <2>1, <2>5, <1>6 DEF HandleTypes
    <3> QED BY <3>1, <3>2, <3>3
  <2> QED BY <2>4, <2>6, <2>7 DEF HandleTypes
<1>3. CallTypes'
  <2>1. <<h, x>> \in Seq(Handles) /\ <<h, x>> # <<>> /\ Len(<<h, x>>) <= 2
    OBVIOUS
  <2>2. /\ <<dir[h], n>> \in Places /\ <<dir[h], n>> # Nowhere
        /\ Begin(i, <<dir[h], n>>, <<h, x>>, NoHandle)
        /\ deleting' = <<>> /\ call = NoCall
    BY <1>1, Markers DEF CreateDirectory, Idle
  <2>3. NoHandle \in Handles \cup {NoHandle}
    OBVIOUS
  <2> QED BY <2>1, <2>2, <2>3, BeginTypes
<1>4. DeletingTypes'
  BY <1>1 DEF CreateDirectory, Idle, DeletingTypes
<1>5. DiskTypes'
  BY <1>1, <1>6, Spoils, TypeParts DEF CreateDirectory, DiskTypes
<1>7. StrayTypes'
  <2>1. \A y \in Handles : inited[y] => inited'[y]
    BY DEF CreateDirectory, TypeInv, TypeOK
  <2> QED BY <2>1, StraysStay DEF CreateDirectory
<1> QED BY <1>2, <1>3, <1>4, <1>5, <1>7, TypePartsPrimed

(* What renameEntry does, by name.                                         *)
Renames(p, n, i, m, held, qs) ==
    /\ Has(p, i)
    /\ entries' = [h \in Handles |->
          CASE h = p -> (entries[p] \ held) \cup {Ent(i, n)}
            [] h \in qs -> (entries[h] \ {Ent(i, m)}) \cup {Ent(i, n)}
            [] OTHER -> entries[h]]
    /\ lfnMap' = [lfnMap EXCEPT ![p] = KeysWithout(p, m) \cup {n}]
    /\ Begin(i, <<dir[p], n>>, <<p>>, NoHandle)
    /\ Spoil({p}, Missed(i, held))
    /\ Clash(({n} \cap Keys(entries[p])) \cup MissedNames({m, n}, held))
    /\ UNCHANGED <<diskVars, dir, parent, inited, deleting, place, strays>>

(* renameEntry.                                                            *)
LEMMA RenameTypes ==
    ASSUME TypeInv, NEW p \in Handles, NEW n \in Names, Rename(p, n)
    PROVE  TypeInv'
<1>1. PICK i \in Items, m \in Names \ {n} : \E held \in Held(p, i, m) :
         \E qs \in Sharing(p, i, m, held) : Renames(p, n, i, m, held, qs)
  BY DEF Rename, Renames
<1>2. PICK held \in Held(p, i, m) :
         \E qs \in Sharing(p, i, m, held) : Renames(p, n, i, m, held, qs)
  BY <1>1
<1>3. PICK qs \in Sharing(p, i, m, held) : Renames(p, n, i, m, held, qs)
  BY <1>2
<1>4. /\ inited[p] /\ dir[p] \in Dirs /\ Idle
      /\ held \subseteq {Ent(i, m)} /\ Ent(i, m).name = m
      /\ Ent(i, n) \in Entry /\ Ent(i, n).name = n
  BY <1>3, HeldIs, Entries DEF Renames, Has
<1>5. clashed \subseteq clashed' /\ clashed' \subseteq Names /\ (held = {} => m \in clashed')
  BY <1>3 DEF Renames, Clash, MissedNames, TypeInv, TypeOK
<1>6. HandleTypes'
  <2>1. /\ entries[p] \ held \in SUBSET Entry
        /\ KeysWithout(p, m) \in SUBSET Names
        /\ KeysWithout(p, m) \ clashed \subseteq Keys(entries[p] \ held)
    BY WithoutTypes
  <2>2. /\ DOMAIN inited' = Handles /\ DOMAIN entries' = Handles /\ DOMAIN lfnMap' = Handles
        /\ inited' = [h \in Handles |-> inited'[h]]
        /\ entries' = [h \in Handles |-> entries'[h]]
        /\ lfnMap' = [h \in Handles |-> lfnMap'[h]]
        /\ inited' = inited /\ UNCHANGED <<dir, parent>>
        /\ lfnMap'[p] = KeysWithout(p, m) \cup {n}
        /\ \A h \in Handles \ {p} : lfnMap'[h] = lfnMap[h]
    <3>1. DOMAIN inited = Handles /\ inited = [h \in Handles |-> inited[h]]
      BY DEF TypeInv, TypeOK
    <3>2. DOMAIN lfnMap = Handles /\ lfnMap \in [Handles -> SUBSET Names]
      BY DEF TypeInv, TypeOK
    <3>3. /\ inited' = inited /\ UNCHANGED <<dir, parent>>
          /\ lfnMap' = [lfnMap EXCEPT ![p] = KeysWithout(p, m) \cup {n}]
      BY <1>3 DEF Renames
    <3>4. DOMAIN entries' = Handles /\ entries' = [h \in Handles |-> entries'[h]]
      BY <1>3 DEF Renames
    <3>5. /\ DOMAIN lfnMap' = Handles /\ lfnMap' = [h \in Handles |-> lfnMap'[h]]
          /\ lfnMap'[p] = KeysWithout(p, m) \cup {n}
          /\ \A h \in Handles \ {p} : lfnMap'[h] = lfnMap[h]
      BY <3>2, <3>3
    <3> QED BY <3>1, <3>3, <3>4, <3>5
  <2>3. /\ entries'[p] = (entries[p] \ held) \cup {Ent(i, n)}
        /\ \A h \in Handles \ {p} :
              entries'[h] = IF h \in qs THEN (entries[h] \ {Ent(i, m)}) \cup {Ent(i, n)}
                            ELSE entries[h]
    <3> DEFINE one == (entries[p] \ held) \cup {Ent(i, n)}
               other(h) == (entries[h] \ {Ent(i, m)}) \cup {Ent(i, n)}
    <3>1. entries' = [h \in Handles |->
              CASE h = p -> one [] h \in qs -> other(h) [] OTHER -> entries[h]]
      BY <1>3 DEF Renames
    <3>2. p \notin qs
      BY DEF Sharing
    <3> HIDE DEF one, other
    <3>3. entries'[p] = one
      BY <3>1, <3>2
    <3>4. \A h \in Handles \ {p} : entries'[h] = IF h \in qs THEN other(h) ELSE entries[h]
      BY <3>1
    <3> QED BY <3>3, <3>4 DEF one, other
  <2>4. ASSUME NEW h \in Handles
        PROVE  /\ inited'[h] \in BOOLEAN /\ entries'[h] \in SUBSET Entry
               /\ lfnMap'[h] \in SUBSET Names
               /\ lfnMap'[h] \ clashed' \subseteq Keys(entries'[h])
               /\ ~inited'[h] => entries'[h] = {} /\ lfnMap'[h] = {}
               /\ dir[h] = Closed => ~inited'[h]
    <3>1. /\ inited[h] \in BOOLEAN /\ entries[h] \subseteq Entry /\ lfnMap[h] \subseteq Names
          /\ lfnMap[h] \ clashed \subseteq Keys(entries[h])
          /\ ~inited[h] => entries[h] = {} /\ lfnMap[h] = {}
          /\ dir[h] = Closed => ~inited[h]
      BY DEF TypeInv, TypeOK, HandlesInv
    <3>2. CASE h = p
      <4>1. entries'[h] \in SUBSET Entry /\ lfnMap'[h] \in SUBSET Names
        BY <3>2, <2>1, <2>2, <2>3, <1>4
      <4>2. lfnMap'[h] \ clashed' \subseteq Keys(entries'[h])
        BY <3>2, <2>1, <2>2, <2>3, <1>4, <1>5 DEF Keys
      <4> QED BY <4>1, <4>2, <3>1, <3>2, <2>2, <1>4
    <3>3. CASE h \in qs /\ h # p
      <4>1. held = {} /\ Ent(i, m) \in entries[h]
        BY <3>3 DEF Sharing
      <4>2. /\ inited[h] /\ inited' = inited /\ lfnMap'[h] = lfnMap[h]
            /\ entries'[h] = (entries[h] \ {Ent(i, m)}) \cup {Ent(i, n)}
        BY <3>1, <3>3, <4>1, <2>2, <2>3
      <4>3. lfnMap'[h] \ clashed' \subseteq Keys(entries'[h])
        BY <4>1, <4>2, <3>1, <1>4, <1>5 DEF Keys
      <4> QED BY <4>2, <4>3, <3>1, <1>4
    <3>4. CASE h \notin qs /\ h # p
      BY <3>4, <3>1, <2>2, <2>3, <1>5
    <3> QED BY <3>2, <3>3, <3>4
  <2> QED BY <2>2, <2>4, <1>5, ListsTypes
<1>7. CallTypes'
  <2>1. <<p>> \in Seq(Handles) /\ <<p>> # <<>> /\ Len(<<p>>) <= 1 /\ Len(<<p>>) <= 2
    OBVIOUS
  <2>2. /\ <<dir[p], n>> \in Places /\ <<dir[p], n>> # Nowhere
        /\ deleting' = <<>> /\ call = NoCall
        /\ Begin(i, <<dir[p], n>>, <<p>>, NoHandle)
    BY <1>3, <1>4, Markers DEF Renames, Idle
  <2>3. NoHandle \in Handles \cup {NoHandle}
    OBVIOUS
  <2> QED BY <2>1, <2>2, <2>3, BeginTypes
<1>8. DeletingTypes'
  BY <1>3, <1>4 DEF Renames, Idle, DeletingTypes
<1>9. DiskTypes'
  <2>1. Missed(i, held) \in SUBSET Items /\ {p} \in SUBSET Handles /\ Spoil({p}, Missed(i, held))
    BY <1>3, MissedAre DEF Renames
  <2>2. spoiled' \subseteq Items
    BY <1>4, <2>1, Spoils
  <2> QED BY <2>2, <1>3, <1>5, TypeParts DEF Renames, diskVars, DiskTypes
<1>10. StrayTypes'
  <2>1. inited' = inited /\ strays' = strays /\ place' = place
    BY <1>3 DEF Renames
  <2> QED BY <2>1, StraysStay
<1> QED BY <1>6, <1>7, <1>8, <1>9, <1>10, TypePartsPrimed

(* What a delete does, by name.                                            *)
Removes(p, i, n, held) ==
    /\ entries' = [entries EXCEPT ![p] = @ \ held]
    /\ lfnMap' = [lfnMap EXCEPT ![p] = KeysWithout(p, n)]
    /\ Begin(i, Nowhere, <<p>>, NoHandle)
    /\ Spoil({p}, Missed(i, held)) /\ Clash(MissedNames({n}, held))
    /\ UNCHANGED <<diskVars, dir, parent, inited, place, strays>>

(* A delete, of a file or of a folder that has been emptied.               *)
LEMMA RemoveTypes ==
    ASSUME TypeInv, call = NoCall, NEW p \in Handles, NEW i \in Items, RemoveFrom(p, i)
    PROVE  HandleTypes' /\ CallTypes' /\ DiskTypes' /\ StrayTypes'
<1>1. PICK n \in Names : \E held \in Held(p, i, n) : Removes(p, i, n, held)
  BY DEF RemoveFrom, Removes
<1>2. PICK held \in Held(p, i, n) : Removes(p, i, n, held)
  BY <1>1
<1>3. inited[p] /\ inited = [inited EXCEPT ![p] = TRUE] /\ dir[p] \in Dirs
  BY HeldIs
<1>4. clashed \subseteq clashed' /\ clashed' \subseteq Names
  BY <1>2 DEF Removes, Clash, MissedNames, TypeInv, TypeOK
<1>5. HandleTypes'
  <2>1. /\ entries[p] \ held \in SUBSET Entry
        /\ KeysWithout(p, n) \in SUBSET Names
        /\ KeysWithout(p, n) \ clashed' \subseteq Keys(entries[p] \ held)
    BY <1>4, WithoutTypes
  <2>2. /\ entries' = [entries EXCEPT ![p] = entries[p] \ held]
        /\ lfnMap' = [lfnMap EXCEPT ![p] = KeysWithout(p, n)]
        /\ inited' = inited /\ UNCHANGED <<dir, parent>>
    BY <1>2 DEF Removes
  <2> QED BY <1>3, <1>4, <2>1, <2>2, ChangeTypes
<1>6. CallTypes'
  <2>1. <<p>> \in Seq(Handles) /\ <<p>> # <<>> /\ Len(<<p>>) <= 1 /\ Len(<<p>>) <= 2
    OBVIOUS
  <2>2. Begin(i, Nowhere, <<p>>, NoHandle)
    BY <1>2 DEF Removes
  <2>3. NoHandle \in Handles \cup {NoHandle} /\ Nowhere \in Places \cup {Nowhere}
    OBVIOUS
  <2> QED BY <2>1, <2>2, <2>3, BeginTypes
<1>7. DiskTypes'
  <2>1. Missed(i, held) \in SUBSET Items /\ {p} \in SUBSET Handles /\ Spoil({p}, Missed(i, held))
    BY <1>2, MissedAre DEF Removes
  <2>2. spoiled' \subseteq Items
    BY <1>3, <2>1, Spoils
  <2> QED BY <1>2, <1>4, <2>2, TypeParts DEF Removes, diskVars, DiskTypes
<1>8. StrayTypes'
  <2>1. inited' = inited /\ strays' = strays /\ place' = place
    BY <1>2 DEF Removes
  <2> QED BY <2>1, StraysStay
<1> QED BY <1>5, <1>6, <1>7, <1>8

(* delete of a file.                                                       *)
LEMMA DeleteFileTypes ==
    ASSUME TypeInv, NEW p \in Handles, DeleteFile(p)
    PROVE  TypeInv'
<1>1. PICK i \in Files : Has(p, i) /\ RemoveFrom(p, i) /\ UNCHANGED deleting
  BY DEF DeleteFile
<1>2. HandleTypes' /\ CallTypes' /\ DiskTypes' /\ StrayTypes'
  BY <1>1, Markers, RemoveTypes DEF Has, Idle
<1>3. DeletingTypes'
  BY <1>1, TypeParts DEF DeletingTypes, RemoveFrom
<1> QED BY <1>2, <1>3, TypePartsPrimed

(* delete of a file in a folder that is being emptied.                     *)
LEMMA DeleteChildTypes ==
    ASSUME TypeInv, NEW x \in Handles, DeleteChild(x)
    PROVE  TypeInv'
<1>1. PICK i \in Files : RemoveFrom(x, i) /\ UNCHANGED deleting
  BY DEF DeleteChild
<1>2. HandleTypes' /\ CallTypes' /\ DiskTypes' /\ StrayTypes'
  BY <1>1, Markers, RemoveTypes DEF DeleteChild, Emptying
<1>3. DeletingTypes'
  BY <1>1, TypeParts DEF DeletingTypes, RemoveFrom
<1> QED BY <1>2, <1>3, TypePartsPrimed

(* The folder that is being emptied, and the handle it was found through.  *)
LEMMA EmptiedHandle ==
    ASSUME TypeInv, NEW x \in Handles, Emptying(x)
    PROVE  /\ x = deleting[1] /\ 1 \in DOMAIN deleting /\ x # RootHandle
           /\ inited[x] /\ dir[x] \in Dirs /\ parent[x] \in Handles
           /\ Tail(deleting) \in Seq(Handles)
           /\ \A k \in DOMAIN Tail(deleting) :
                 k + 1 \in DOMAIN deleting /\ Tail(deleting)[k] = deleting[k + 1]
<1>1. deleting \in Seq(Handles) /\ deleting # <<>> /\ x = Head(deleting)
  BY DEF Emptying, TypeInv, TypeOK
<1>2. x = deleting[1] /\ 1 \in DOMAIN deleting
  BY <1>1
<1>3. /\ Tail(deleting) \in Seq(Handles)
      /\ \A k \in DOMAIN Tail(deleting) :
            k + 1 \in DOMAIN deleting /\ Tail(deleting)[k] = deleting[k + 1]
  BY <1>1
<1>4. x # RootHandle /\ inited[x]
  BY <1>2 DEF TypeInv, HandlesInv
<1> QED BY <1>2, <1>3, <1>4, OpenDirs DEF TypeInv, HandlesInv

(* delete of the emptied folder.                                           *)
LEMMA AscendTypes ==
    ASSUME TypeInv, NEW x \in Handles, Ascend(x)
    PROVE  TypeInv' /\ dir[x] \in Items
<1>1. /\ parent[x] \in Handles /\ dir[x] \in Dirs /\ call = NoCall
      /\ RemoveFrom(parent[x], dir[x]) /\ deleting' = Tail(deleting)
  BY EmptiedHandle DEF Ascend, Emptying
<1>2. dir[x] \in Items
  <2>1. PICK n \in Names : \E held \in Held(parent[x], dir[x], n) : TRUE
    BY <1>1 DEF RemoveFrom
  <2>2. \/ \E e \in entries[parent[x]] : e.item = dir[x] /\ e \in Entry
        \/ <<parent[x], dir[x]>> \in strays
    <3>1. entries[parent[x]] \subseteq Entry /\ Ent(dir[x], n).item = dir[x]
      BY <1>1 DEF TypeInv, TypeOK, Ent
    <3> QED BY <2>1, <3>1 DEF Held
  <2> QED BY <2>2, Entries DEF TypeInv, TypeOK
<1>3. HandleTypes' /\ CallTypes' /\ DiskTypes' /\ StrayTypes'
  BY <1>1, <1>2, RemoveTypes
<1>4. DeletingTypes'
  <2>1. \A k \in DOMAIN deleting' : k + 1 \in DOMAIN deleting /\ deleting'[k] = deleting[k + 1]
    BY <1>1, EmptiedHandle DEF Ascend
  <2>2. deleting' \in Seq(Handles) /\ inited' = inited
    BY <1>1, EmptiedHandle DEF Ascend, RemoveFrom
  <2> QED BY <2>1, <2>2, TypeParts DEF DeletingTypes
<1> QED BY <1>2, <1>3, <1>4, TypePartsPrimed

(* What a move does to each handle.                                        *)
Moves(p, q, i, n, held, x) ==
    /\ Has(p, i) /\ Usable(q) /\ ~Taken(q, n)
    /\ Begin(i, <<dir[q], n>>, <<p, q>>, x)
    /\ Spoil({p, q}, Missed(i, held) \cup
             {j \in {i} : dir[q] = dir[p] \/ dir[q] \in Under(i)})
    /\ Clash(Overlooked(q, n) \cup MissedNames({n}, held))
    /\ UNCHANGED <<diskVars, dir, parent, deleting, place>>
    /\ StraysAnd(({p} \ {q}) \X {i})
    /\ inited' = [h \in Handles |-> inited[h] \/ h \in {q, x}]
    /\ DOMAIN entries' = Handles /\ DOMAIN lfnMap' = Handles
    /\ entries' = [h \in Handles |-> entries'[h]]
    /\ lfnMap' = [h \in Handles |-> lfnMap'[h]]
    /\ entries'[q] = With(q, i, n) /\ lfnMap'[q] = KeysOf(q) \cup {n}
    /\ p # q => entries'[p] = entries[p] \ held /\ lfnMap'[p] = KeysWithout(p, n)
    /\ x \in Handles \ {p, q} => entries'[x] = Listed(x) /\ lfnMap'[x] = KeysOf(x)
    /\ \A h \in Handles \ {p, q, x} : entries'[h] = entries[h] /\ lfnMap'[h] = lfnMap[h]

(* moveTo is such a move.                                                  *)
LEMMA MoveParts ==
    ASSUME TypeInv, NEW p \in Handles, NEW q \in Handles, MoveTo(p, q)
    PROVE  \E i \in Items, n \in Names : \E held \in Held(p, i, n) :
           \E x \in Handles \cup {NoHandle} :
              /\ Moves(p, q, i, n, held, x)
              /\ dir[p] \in Dirs /\ dir[q] \in Dirs /\ inited[p]
              /\ x \in Handles => dir[x] \in Folders
<1> DEFINE Step(i, n, held, x) ==
        /\ Has(p, i) /\ Usable(q) /\ ~Taken(q, n)
        /\ inited' = [h \in Handles |-> inited[h] \/ h \in {q, x}]
        /\ entries' = [h \in Handles |->
              CASE h = q -> With(q, i, n)
                [] h = p /\ h # q -> entries[p] \ held
                [] h = x /\ x \notin {p, q} -> Listed(x)
                [] OTHER -> entries[h]]
        /\ lfnMap' = [h \in Handles |->
              CASE h = q -> KeysOf(q) \cup {n}
                [] h = p /\ h # q -> KeysWithout(p, n)
                [] h = x /\ x \notin {p, q} -> KeysOf(x)
                [] OTHER -> lfnMap[h]]
        /\ Begin(i, <<dir[q], n>>, <<p, q>>, x)
        /\ Spoil({p, q}, Missed(i, held) \cup
                 {j \in {i} : dir[q] = dir[p] \/ dir[q] \in Under(i)})
        /\ Clash(Overlooked(q, n) \cup MissedNames({n}, held))
        /\ UNCHANGED <<diskVars, dir, parent, deleting, place>>
        /\ StraysAnd(({p} \ {q}) \X {i})
<1>1. PICK i \in Items, n \in Names : \E held \in Held(p, i, n) :
         \E x \in MoveHandles(p, i) : Step(i, n, held, x)
  BY DEF MoveTo, MoveWrites
<1>2. PICK held \in Held(p, i, n) : \E x \in MoveHandles(p, i) : Step(i, n, held, x)
  BY <1>1
<1>3. PICK x \in MoveHandles(p, i) : Step(i, n, held, x)
  BY <1>2
<1>4. /\ x \in Handles \cup {NoHandle} /\ (x \in Handles => dir[x] \in Folders)
  BY HandleAssumption DEF MoveHandles, Items, HandleAssumption
<1>5. dir[p] \in Dirs /\ dir[q] \in Dirs /\ inited[p]
  BY <1>3, HeldIs, OpenDirs DEF Usable, TypeInv
<1>6. /\ entries' = [h \in Handles |-> entries'[h]]
      /\ lfnMap' = [h \in Handles |-> lfnMap'[h]]
      /\ DOMAIN entries' = Handles /\ DOMAIN lfnMap' = Handles
  BY <1>3
<1>7. entries'[q] = With(q, i, n)
  BY <1>3
<1>8. lfnMap'[q] = KeysOf(q) \cup {n}
  BY <1>3
<1>9. p # q => entries'[p] = entries[p] \ held /\ lfnMap'[p] = KeysWithout(p, n)
  BY <1>3
<1>10. x \in Handles \ {p, q} => entries'[x] = Listed(x) /\ lfnMap'[x] = KeysOf(x)
  BY <1>3
<1>11. \A h \in Handles \ {p, q, x} : entries'[h] = entries[h] /\ lfnMap'[h] = lfnMap[h]
  BY <1>3
<1>12. Moves(p, q, i, n, held, x)
  BY <1>3, <1>6, <1>7, <1>8, <1>9, <1>10, <1>11 DEF Moves
<1> HIDE DEF Step
<1> QED BY <1>4, <1>5, <1>12

(* moveTo keeps the types.                                                 *)
LEMMA MoveTypes ==
    ASSUME TypeInv, NEW p \in Handles, NEW q \in Handles, MoveTo(p, q)
    PROVE  TypeInv'
<1>1. PICK i \in Items, n \in Names : \E held \in Held(p, i, n) :
           \E x \in Handles \cup {NoHandle} :
              /\ Moves(p, q, i, n, held, x)
              /\ dir[p] \in Dirs /\ dir[q] \in Dirs /\ inited[p]
              /\ x \in Handles => dir[x] \in Folders
  BY MoveParts
<1>2. PICK held \in Held(p, i, n) : \E x \in Handles \cup {NoHandle} :
              /\ Moves(p, q, i, n, held, x)
              /\ dir[p] \in Dirs /\ dir[q] \in Dirs /\ inited[p]
              /\ x \in Handles => dir[x] \in Folders
  BY <1>1
<1>3. PICK x \in Handles \cup {NoHandle} :
              /\ Moves(p, q, i, n, held, x)
              /\ dir[p] \in Dirs /\ dir[q] \in Dirs /\ inited[p]
              /\ x \in Handles => dir[x] \in Folders
  BY <1>2
<1>4. clashed \subseteq clashed' /\ clashed' \subseteq Names
  BY <1>3 DEF Moves, Clash, MissedNames, Overlooked, TypeInv, TypeOK
<1>5. /\ With(q, i, n) \in SUBSET Entry
      /\ KeysOf(q) \cup {n} \in SUBSET Names
      /\ (KeysOf(q) \cup {n}) \ clashed' \subseteq Keys(With(q, i, n))
  BY <1>3, <1>4, WithTypes
<1>6. /\ entries[p] \ held \in SUBSET Entry
      /\ KeysWithout(p, n) \in SUBSET Names
      /\ KeysWithout(p, n) \ clashed' \subseteq Keys(entries[p] \ held)
  BY <1>4, WithoutTypes
<1>7. x \in Handles => /\ Listed(x) \in SUBSET Entry /\ KeysOf(x) \in SUBSET Names
                       /\ KeysOf(x) \ clashed' \subseteq Keys(Listed(x))
  BY <1>3, <1>4, Markers, ListedTypes
<1>8. HandleTypes'
  <2>1. /\ inited' = [h \in Handles |-> inited[h] \/ h \in {q, x}]
        /\ UNCHANGED <<dir, parent>>
        /\ DOMAIN entries' = Handles /\ DOMAIN lfnMap' = Handles
        /\ entries' = [h \in Handles |-> entries'[h]]
        /\ lfnMap' = [h \in Handles |-> lfnMap'[h]]
    BY <1>3 DEF Moves
  <2>2. ASSUME NEW h \in Handles
        PROVE  /\ inited'[h] \in BOOLEAN /\ entries'[h] \in SUBSET Entry
               /\ lfnMap'[h] \in SUBSET Names
               /\ lfnMap'[h] \ clashed' \subseteq Keys(entries'[h])
               /\ ~inited'[h] => entries'[h] = {} /\ lfnMap'[h] = {}
               /\ dir[h] = Closed => ~inited'[h]
    <3>1. /\ inited[h] \in BOOLEAN /\ entries[h] \subseteq Entry /\ lfnMap[h] \subseteq Names
          /\ lfnMap[h] \ clashed \subseteq Keys(entries[h])
          /\ ~inited[h] => entries[h] = {} /\ lfnMap[h] = {}
          /\ dir[h] = Closed => ~inited[h]
      BY DEF TypeInv, TypeOK, HandlesInv
    <3>2. inited'[h] = (inited[h] \/ h \in {q, x}) /\ inited'[h] \in BOOLEAN
      BY <2>1
    <3>3. CASE h = q
      BY <3>3, <3>2, <1>3, <1>5, Markers DEF Moves
    <3>4. CASE h = p /\ h # q
      BY <3>4, <3>1, <3>2, <1>3, <1>6, Markers DEF Moves
    <3>5. CASE h = x /\ x \notin {p, q}
      BY <3>5, <3>2, <1>3, <1>7, Markers DEF Moves
    <3>6. CASE h \notin {p, q, x}
      BY <3>6, <3>1, <3>2, <1>3, <1>4 DEF Moves
    <3> QED BY <3>3, <3>4, <3>5, <3>6
  <2>3. DOMAIN inited' = Handles /\ inited' = [h \in Handles |-> inited'[h]]
    BY <2>1
  <2> QED BY <1>4, <2>1, <2>2, <2>3, ListsTypes
<1>9. CallTypes'
  <2>1. <<p, q>> \in Seq(Handles) /\ <<p, q>> # <<>> /\ Len(<<p, q>>) <= 2
    OBVIOUS
  <2>2. /\ <<dir[q], n>> \in Places /\ <<dir[q], n>> # Nowhere
        /\ Begin(i, <<dir[q], n>>, <<p, q>>, x)
        /\ deleting' = <<>> /\ call = NoCall
    BY <1>3, Markers DEF Moves, Has, Idle
  <2> QED BY <2>1, <2>2, BeginTypes
<1>10. DeletingTypes'
  BY <1>3 DEF Moves, Has, Idle, DeletingTypes
<1>11. DiskTypes'
  <2> DEFINE others == Missed(i, held) \cup
                         {j \in {i} : dir[q] = dir[p] \/ dir[q] \in Under(i)}
  <2>1. others \in SUBSET Items
    BY MissedAre
  <2>2. Spoil({p, q}, others) /\ {p, q} \in SUBSET Handles
    BY <1>3 DEF Moves
  <2> HIDE DEF others
  <2>3. spoiled' \subseteq Items
    BY <1>3, <2>1, <2>2, Spoils
  <2> QED BY <1>3, <1>4, <2>3, TypeParts DEF Moves, diskVars, DiskTypes
<1>12. StrayTypes'
  <2> DEFINE more == ({p} \ {q}) \X {i}
  <2>1. more \in SUBSET (Handles \X Items) /\ \A o \in more : inited[o[1]]
    BY <1>3
  <2>2. StraysAnd(more) /\ \A h \in Handles : inited[h] => inited'[h]
    BY <1>3 DEF Moves
  <2> HIDE DEF more
  <2> QED BY <2>1, <2>2, StraysMore
<1> QED BY <1>8, <1>9, <1>10, <1>11, <1>12, TypePartsPrimed

(* flush writes a list that does not change.                               *)
LEMMA FlushTypes ==
    ASSUME TypeInv, NEW p \in Handles, Flush(p)
    PROVE  TypeInv'
<1>1. PICK i \in Files, n \in Names :
        /\ Has(p, i) /\ Held(p, i, n) # {}
        /\ Begin(i, IF place[i] = Nowhere THEN <<dir[p], n>> ELSE place[i],
                 <<p>>, NoHandle)
        /\ Spoil({p}, {})
        /\ UNCHANGED <<diskVars, handleVars, deleting, place, clashed, strays>>
  BY DEF Flush
<1>2. PICK held \in Held(p, i, n) : TRUE
  BY <1>1
<1>3. dir[p] \in Dirs /\ i \in Items /\ Idle
  BY <1>1, <1>2, HeldIs, Markers DEF Has
<1>4. CallTypes'
  <2> DEFINE to == IF place[i] = Nowhere THEN <<dir[p], n>> ELSE place[i]
  <2>1. <<p>> \in Seq(Handles) /\ <<p>> # <<>> /\ Len(<<p>>) <= 1 /\ Len(<<p>>) <= 2
    OBVIOUS
  <2>2. to \in Places /\ to # Nowhere
    BY <1>3, Markers DEF TypeInv, TypeOK
  <2>3. /\ deleting' = <<>> /\ call = NoCall
        /\ Begin(i, to, <<p>>, NoHandle) /\ NoHandle \in Handles \cup {NoHandle}
    BY <1>1, <1>3 DEF Idle
  <2> HIDE DEF to
  <2> QED BY <1>3, <2>1, <2>2, <2>3, BeginTypes
<1>5. spoiled' \subseteq Items
  <2>1. {} \in SUBSET Items /\ {p} \in SUBSET Handles /\ \A h \in {p} : dir[h] \in Dirs
    BY <1>3
  <2> QED BY <1>1, <2>1, Spoils
<1>6. HandleTypes' /\ DeletingTypes' /\ DiskTypes' /\ StrayTypes'
  BY <1>1, <1>5, TypeParts
     DEF diskVars, handleVars, HandleTypes, DeletingTypes, DiskTypes, StrayTypes
<1> QED BY <1>4, <1>6, TypePartsPrimed

(* The directory that is written first.                                    *)
LEMMA FirstWrite ==
    ASSUME TypeInv, call.writes # <<>>
    PROVE  /\ Head(call.writes) \in Handles /\ Head(call.writes) = call.writes[1]
           /\ 1 \in DOMAIN call.writes /\ Len(call.writes) \in Nat
           /\ DOMAIN call.writes = 1..Len(call.writes)
           /\ call # NoCall /\ call.item \in Items
           /\ Writes = [disk EXCEPT ![dir[Head(call.writes)]] = entries[Head(call.writes)]]
           /\ Writes \in [Dirs -> SUBSET Entry]
<1>1. call.writes \in Seq(Handles)
  BY DEF TypeInv, TypeOK
<1>2. /\ Head(call.writes) \in Handles /\ Head(call.writes) = call.writes[1]
      /\ 1 \in DOMAIN call.writes /\ Len(call.writes) \in Nat
      /\ DOMAIN call.writes = 1..Len(call.writes)
  BY <1>1
<1>3. call # NoCall /\ call.item \in Items
  BY CallItem
<1>4. Writes = [disk EXCEPT ![dir[Head(call.writes)]] = entries[Head(call.writes)]]
  BY DEF Writes
<1>5. Writes \in [Dirs -> SUBSET Entry]
  BY <1>2, <1>4 DEF TypeInv, TypeOK
<1> QED BY <1>2, <1>3, <1>4, <1>5

(* A call that returns.                                                    *)
LEMMA ReturnTypes ==
    ASSUME TypeInv, Returned, call # NoCall
    PROVE  /\ CallTypes' /\ place' \in [Items -> Places \cup {Nowhere}]
<1>1. call'.item = NoItem /\ ~Deletes' /\ call' = NoCall
  BY NoCallTypes DEF Returned, Deletes
<1>2. CallTypes'
  BY <1>1, NoCallTypes DEF CallTypes, IsCall
<1> QED BY <1>2, CallItem DEF Returned, TypeInv, TypeOK

(* A write keeps the types.                                                *)
LEMMA WriteTypes ==
    ASSUME TypeInv, Write
    PROVE  TypeInv'
<1>1. /\ call.writes # <<>> /\ disk' = Writes
      /\ UNCHANGED <<used, dir, inited, entries, lfnMap, deleting, spoiled, clashed, strays>>
  BY DEF Write
<1>2. disk' \in [Dirs -> SUBSET Entry] /\ call # NoCall
  BY <1>1, FirstWrite
<1>3. CASE Len(call.writes) > 1 \/ Deletes
  <2>1. call' = [call EXCEPT !.writes = Tail(@)] /\ UNCHANGED <<parent, place>>
    BY <1>3 DEF Write
  <2>2. /\ call'.item = call.item /\ call'.place = call.place
        /\ call'.handle = call.handle /\ call'.writes = Tail(call.writes)
        /\ call' = [item |-> call'.item, place |-> call'.place,
                    writes |-> call'.writes, handle |-> call'.handle]
    BY <2>1 DEF TypeInv, IsCall
  <2>3. /\ call.writes \in Seq(Handles) /\ Len(call.writes) \in Nat
        /\ Len(call.writes) <= 2 /\ (Deletes => Len(call.writes) <= 1)
    BY FirstWrite, <1>1 DEF TypeInv, TypeOK, IsCall
  <2>4. /\ Tail(call.writes) \in Seq(Handles) /\ Len(Tail(call.writes)) = Len(call.writes) - 1
    BY <2>3, <1>1
  <2>5. Deletes' <=> Deletes
    BY <2>2 DEF Deletes
  <2>6. /\ Len(call'.writes) <= 2 /\ (Deletes => Len(call'.writes) <= 1)
        /\ Len(call.writes) > 1 => call'.writes # <<>>
    <3>1. \A n \in Nat : /\ n <= 2 => n - 1 <= 2
                         /\ n <= 1 => n - 1 <= 1
                         /\ n > 1 => n - 1 # 0
      OBVIOUS
    <3>2. Len(call'.writes) = Len(call.writes) - 1
      BY <2>2, <2>4
    <3>3. Len(call'.writes) <= 2 /\ (Deletes => Len(call'.writes) <= 1)
      BY <2>3, <3>1, <3>2
    <3>4. Len(call.writes) > 1 => Len(call'.writes) # 0
      BY <2>3, <3>1, <3>2
    <3>5. Len(<<>>) = 0
      OBVIOUS
    <3> QED BY <3>3, <3>4, <3>5, Zenon
  <2>7. IsCall'
    BY <1>1, <1>2, <1>3, <2>2, <2>5, <2>6, CallItem DEF TypeInv, IsCall
  <2>8. CallTypes'
    BY <2>2, <2>4, <2>7 DEF CallTypes, TypeInv, TypeOK
  <2> QED BY <1>1, <1>2, <2>1, <2>8, TypeParts, TypePartsPrimed
       DEF HandleTypes, DeletingTypes, DiskTypes, StrayTypes
<1>4. CASE ~(Len(call.writes) > 1 \/ Deletes)
  <2>1. /\ Returned
        /\ parent' = [h \in Handles |->
                   IF h = call.handle THEN Head(call.writes) ELSE parent[h]]
    BY <1>4 DEF Write
  <2>2. CallTypes' /\ place' \in [Items -> Places \cup {Nowhere}]
    BY <1>2, <2>1, ReturnTypes
  <2>3. HandleTypes'
    BY <1>1, <2>1, FirstWrite, TypeParts DEF HandleTypes
  <2>4. StrayTypes'
    <3>1. /\ call.place # Nowhere /\ place' = [place EXCEPT ![call.item] = call.place]
          /\ strays' = strays /\ inited' = inited
      BY <1>1, <1>2, <1>4, <2>1, CallItem, Markers DEF Deletes, Returned
    <3>2. \A i \in Items : place[i] # Nowhere => place'[i] # Nowhere
      BY <3>1 DEF TypeInv, TypeOK
    <3>3. \A o \in Handles \X Items : o[2] \in Items
      OBVIOUS
    <3> QED BY <3>1, <3>2, <3>3, TypeParts DEF StrayTypes
  <2> QED BY <1>1, <1>2, <2>2, <2>3, <2>4, TypeParts, TypePartsPrimed
       DEF DeletingTypes, DiskTypes
<1> QED BY <1>3, <1>4

(* The last step of a delete.                                              *)
LEMMA FreeTypes ==
    ASSUME TypeInv, Free
    PROVE  TypeInv'
<1>1. call # NoCall /\ call.item \in Items
  BY CallItem DEF Free, Deletes
<1>2. dir[RootHandle] # call.item
  BY <1>1, Markers DEF TypeInv, HandlesInv
<1>3. HandleTypes' /\ DeletingTypes' /\ StrayTypes'
  <2> DEFINE hs == {h \in Handles : dir[h] = call.item /\ ~Referred(h)}
  <2>1. /\ hs \in SUBSET Handles /\ RootHandle \notin hs /\ \A h \in hs : ~Referred(h)
        /\ Forget(hs) /\ deleting' = deleting /\ clashed' = clashed
        /\ StraysAnd({})
    BY <1>2 DEF Free
  <2> HIDE DEF hs
  <2> QED BY <2>1, ForgetTypes
<1>4. CallTypes' /\ place' \in [Items -> Places \cup {Nowhere}]
  BY <1>1, ReturnTypes DEF Free
<1> QED BY <1>3, <1>4, TypeParts, TypePartsPrimed DEF Free, DiskTypes

(* A transfer that throws.                                                 *)
LEMMA FailTypes ==
    ASSUME TypeInv, Fail
    PROVE  TypeInv'
<1>1. call # NoCall /\ call.item \in Items
  BY CallItem DEF Fail
<1>2. Writes \in [Dirs -> SUBSET Entry]
  BY FirstWrite DEF Writes, TypeInv, TypeOK
<1>3. disk' \in [Dirs -> SUBSET Entry] /\ used' \subseteq Items
  BY <1>2 DEF Fail, TypeInv, TypeOK
<1>4. spoiled' \subseteq Items
  BY DEF Fail, Under, TypeInv, TypeOK
<1>5. CallTypes'
  <2>1. call' = NoCall /\ call'.item = NoItem
    BY NoCallTypes DEF Fail
  <2> QED BY <2>1, NoCallTypes DEF CallTypes, IsCall, Deletes
<1>6. DeletingTypes'
  BY DEF Fail, DeletingTypes
<1> QED BY <1>3, <1>4, <1>5, <1>6, TypeParts, TypePartsPrimed
     DEF Fail, handleVars, HandleTypes, DiskTypes, StrayTypes

(* The first state has the types.                                          *)
LEMMA InitTypes == Init => TypeInv
<1> SUFFICES ASSUME Init PROVE TypeInv
  OBVIOUS
<1>1. PICK d \in Folders, n \in Names :
         /\ disk = [x \in Dirs |->
                       IF x = Root THEN {Ent(d, n)} ELSE {}]
         /\ used = {d}
         /\ place = [i \in Items |-> IF i = d THEN <<Root, n>> ELSE Nowhere]
  BY DEF Init
<1>2. /\ disk \in [Dirs -> SUBSET Entry] /\ used \subseteq Items
      /\ place \in [Items -> Places \cup {Nowhere}] /\ spoiled \subseteq Items
      /\ clashed \subseteq Names
  BY <1>1, Markers, Entries DEF Init
<1>3. DiskTypes
  BY <1>2 DEF DiskTypes
<1>4. HandleTypes
  <2>1. disk[Root] \in SUBSET Entry
    BY <1>2, Markers
  <2>2. Keys(disk[Root]) \subseteq Names /\ Keys({}) = {}
    BY <2>1, Entries DEF Keys
  <2>3. entries \in [Handles -> SUBSET Entry]
    BY <2>1 DEF Init
  <2>4. \A h \in Handles : lfnMap[h] = Keys(entries[h])
    BY DEF Init
  <2>5. \A h \in Handles : entries[h] = IF h = RootHandle THEN disk[Root] ELSE {}
    BY DEF Init
  <2>6. lfnMap \in [Handles -> SUBSET Names]
    <3>1. lfnMap = [h \in Handles |-> Keys(entries[h])]
      BY DEF Init
    <3>2. \A h \in Handles : Keys(entries[h]) \in SUBSET Names
      BY <2>2, <2>5
    <3> QED BY <3>1, <3>2
  <2> QED BY <2>2, <2>3, <2>4, <2>5, <2>6, Markers, HandleAssumption
       DEF HandleAssumption, Init, HandleTypes
<1>5. CallTypes /\ DeletingTypes
  BY NoCallTypes DEF Init, CallTypes, IsCall, Deletes, DeletingTypes
<1>6. StrayTypes
  BY DEF Init, StrayTypes
<1> QED BY <1>3, <1>4, <1>5, <1>6, TypeParts

(* Each step keeps the types.                                              *)
LEMMA NextTypes == TypeInv /\ [Next]_vars => TypeInv'
<1> SUFFICES ASSUME TypeInv, [Next]_vars PROVE TypeInv'
  OBVIOUS
<1>1. CASE UNCHANGED vars
  BY <1>1, TypeParts, TypePartsPrimed DEF vars, diskVars, handleVars, historyVars, HandleTypes,
     DeletingTypes, CallTypes, IsCall, Deletes, DiskTypes, StrayTypes
<1>2. CASE \E h \in Handles : List(h) \/ Drop(h) \/ Flush(h) \/ DeleteFile(h) \/ DeleteFolder(h)
                               \/ DeleteChild(h) \/ Ascend(h)
  BY <1>2, ListTypes, DropTypes, FlushTypes, DeleteFileTypes, DeleteFolderTypes, DeleteChildTypes,
     AscendTypes
<1>3. CASE \E h, x \in Handles : Open(h, x) \/ MoveTo(h, x) \/ Descend(h, x)
  BY <1>3, OpenTypes, MoveTypes, DescendTypes
<1>4. CASE \E h \in Handles, n \in Names : Rename(h, n)
  BY <1>4, RenameTypes
<1>5. CASE \E h \in Handles, n \in Names, i \in Items : CreateFile(h, n, i)
  BY <1>5, CreateFileTypes
<1>6. CASE \E h \in Handles, n \in Names, i \in Items, x \in Handles :
              CreateDirectory(h, n, i, x)
  BY <1>6, CreateDirectoryTypes
<1>7. CASE Write \/ Free \/ Fail \/ Remount
  BY <1>7, WriteTypes, FreeTypes, FailTypes, RemountTypes
<1> QED BY <1>1, <1>2, <1>3, <1>4, <1>5, <1>6, <1>7 DEF Next, NewCall

(* Type correctness, with the keys of a map among the names of its list:   *)
(* for any number of items and handles, whatever fails or is spoiled, no   *)
(* name is refused that no entry has.                                      *)
THEOREM TypeCorrect == Spec => []TypeOK
<1>1. TypeInv => TypeOK
  BY DEF TypeInv
<1> QED BY <1>1, InitTypes, NextTypes, PTL DEF Spec

-----------------------------------------------------------------------------
(* Names                                                                   *)

(* What holds of some items holds of fewer, and of fewer entries.          *)
LEMMA ProperLess ==
    ASSUME NEW es, NEW ks, NEW G, Proper(es, ks, G), NEW fs, fs \subseteq es,
           NEW H, H \subseteq G
    PROVE  Proper(fs, ks, H)
BY DEF Proper, UniqueIn

(* The keys of a list that has just been read.                             *)
LEMMA ProperRead ==
    ASSUME NEW es, NEW G, UniqueIn(es, G)
    PROVE  Proper(es, Keys(es), G)
BY DEF Proper, UniqueIn, Keys

(* A name is taken out of the map: no entry of the list has it any more.   *)
LEMMA ProperRemove ==
    ASSUME NEW es, NEW ks, NEW G, Proper(es, ks, G), NEW n, NEW fs, fs \subseteq es,
           \A e \in fs : e.name = n => n \notin G
    PROVE  Proper(fs, ks \ {n}, G)
BY DEF Proper, UniqueIn

(* The entry that is taken away was the only one of its name, unless the   *)
(* name is mixed up.                                                       *)
LEMMA ProperWithout ==
    ASSUME NEW es, NEW ks, NEW G, Proper(es, ks, G), NEW i \in Items, NEW n \in Names,
           NEW held, held \in {{}, {Ent(i, n)}}, held \subseteq es,
           held = {} => n \notin G
    PROVE  Proper(es \ held, ks \ {n}, G)
<1>1. Ent(i, n).name = n
  BY Entries
<1>2. ASSUME NEW e \in es \ held, e.name = n PROVE n \notin G
  <2>1. CASE held = {}
    BY <2>1
  <2>2. CASE held = {Ent(i, n)}
    BY <1>1, <1>2, <2>2 DEF Proper, UniqueIn
  <2> QED BY <2>1, <2>2
<1> QED BY <1>2, ProperRemove

(* addEntry: no other entry has the new name, or the name is not of G.     *)
LEMMA ProperAdd ==
    ASSUME NEW es, NEW ks, NEW G, Proper(es, ks, G), NEW i \in Items, NEW n \in Names,
           \A f \in es : f.name = n => f = Ent(i, n) \/ n \notin G
    PROVE  Proper(es \cup {Ent(i, n)}, ks \cup {n}, G)
<1>1. Ent(i, n).item = i /\ Ent(i, n).name = n
  BY Entries
<1>2. UniqueIn(es \cup {Ent(i, n)}, G)
  <2>1. SUFFICES ASSUME NEW e \in es \cup {Ent(i, n)}, NEW f \in es \cup {Ent(i, n)},
                        e.name = f.name, e # f
                 PROVE  e.name \notin G
    BY DEF UniqueIn
  <2>2. CASE e \in es /\ f \in es
    BY <2>1, <2>2 DEF Proper, UniqueIn
  <2>3. CASE e = Ent(i, n) /\ f \in es
    BY <2>1, <2>3, <1>1
  <2>4. CASE e \in es /\ f = Ent(i, n)
    BY <2>1, <2>4, <1>1
  <2> QED BY <2>1, <2>2, <2>3, <2>4
<1> QED BY <1>1, <1>2 DEF Proper

(* In a list that shares a moved entry the name changes, which is mixed    *)
(* up.                                                                     *)
LEMMA ProperShared ==
    ASSUME NEW es, NEW ks, NEW G, Proper(es, ks, G), NEW i \in Items, NEW n \in Names,
           n \notin G, NEW fs
    PROVE  Proper((es \ fs) \cup {Ent(i, n)}, ks, G)
<1>1. Ent(i, n).name = n
  BY Entries
<1> QED BY <1>1 DEF Proper, UniqueIn

(* A list after init().                                                    *)
LEMMA ProperListed ==
    ASSUME TypeInv, NamesInv, NEW h \in Handles, dir[h] \in Dirs
    PROVE  Proper(Listed(h), KeysOf(h), Clear)
BY ProperRead DEF NamesInv, Listed, KeysOf

(* A name that is not in the map is not the name of an entry, unless it is *)
(* mixed up.                                                               *)
LEMMA NewName ==
    ASSUME TypeInv, NamesInv, NEW h \in Handles, dir[h] \in Dirs, NEW i \in Items,
           NEW n \in Names, ~Taken(h, n), NEW S, clashed \subseteq S,
           Overlooked(h, n) \subseteq S
    PROVE  Proper(With(h, i, n), KeysOf(h) \cup {n}, Names \ S)
<1>1. With(h, i, n) = Listed(h) \cup {Ent(i, n)}
  BY DEF With
<1>2. Proper(Listed(h), KeysOf(h), Names \ S)
  BY ProperListed, ProperLess DEF Clear
<1>3. ASSUME NEW f \in Listed(h), f.name = n
      PROVE  n \notin Names \ S
  <2>1. CASE inited[h]
    <3>1. f \in entries[h]
      BY <2>1 DEF Listed
    <3>2. n \in Clear => n \in lfnMap[h]
      BY <1>3, <3>1 DEF NamesInv, Proper
    <3> QED BY <3>2 DEF Taken, Clear
  <2>2. CASE ~inited[h]
    BY <1>3, <2>2 DEF Overlooked, Keys
  <2> QED BY <2>1, <2>2
<1> QED BY <1>1, <1>2, <1>3, ProperAdd

-----------------------------------------------------------------------------
(* Steps that write nothing                                                *)

(* Between two calls nothing is to be written.                             *)
LEMMA NoWrites ==
    ASSUME TypeInv, call = NoCall
    PROVE  WritesInv /\ MovingInv /\ Settled = Good
<1>1. call.item = NoItem /\ DOMAIN call.writes = {} /\ call.item \notin Items
  BY NoCallTypes, Markers
<1> QED BY <1>1 DEF WritesInv, MovingInv, Settled, Good, Deletes

(* Lists are read from the disk, and forgotten.                            *)
LEMMA Quiet ==
    ASSUME IInv, TypeInv', call = NoCall, UNCHANGED <<disk, used, place, call>>,
           spoiled \subseteq spoiled', clashed \subseteq clashed',
           \A h \in Handles :
              \/ entries'[h] = entries[h] /\ lfnMap'[h] = lfnMap[h]
              \/ \E d \in Dirs : entries'[h] = disk[d] /\ lfnMap'[h] = Keys(disk[d])
              \/ entries'[h] = {},
           EmptyingInv'
    PROVE  IInv'
<1>1. Good' \subseteq Good /\ Clear' \subseteq Clear
  BY DEF Good, Clear
<1>2. Settled = Good /\ Settled' = Good' /\ WritesInv' /\ MovingInv'
  <2>1. Settled = Good
    BY NoWrites DEF IInv
  <2>2. WritesInv' /\ MovingInv' /\ Settled' = Good'
    <3>1. call'.item = NoItem /\ DOMAIN call'.writes = {} /\ call'.item \notin Items
      BY NoCallTypes, Markers
    <3> QED BY <3>1 DEF WritesInv, MovingInv, Settled, Good, Deletes
  <2> QED BY <2>1, <2>2
<1>3. SettledInv'
  BY <1>1, <1>2 DEF IInv, SettledInv, Ent
<1>4. NamesInv'
  <2>1. \A d \in Dirs : UniqueIn(disk[d], Clear')
    BY <1>1 DEF IInv, NamesInv, UniqueIn
  <2>2. \A h \in Handles : Proper(entries'[h], lfnMap'[h], Clear')
    <3> TAKE h \in Handles
    <3>1. CASE entries'[h] = entries[h] /\ lfnMap'[h] = lfnMap[h]
      BY <3>1, <1>1, ProperLess DEF IInv, NamesInv
    <3>2. CASE \E d \in Dirs : entries'[h] = disk[d] /\ lfnMap'[h] = Keys(disk[d])
      BY <3>2, <2>1, ProperRead
    <3>3. CASE entries'[h] = {}
      BY <3>3 DEF Proper, UniqueIn
    <3> QED BY <3>1, <3>2, <3>3
  <2> QED BY <2>1, <2>2 DEF NamesInv
<1> QED BY <1>2, <1>3, <1>4 DEF IInv

(* A list read by init() is the old one or that of the disk.               *)
LEMMA ListedOrRead ==
    ASSUME TypeInv, NEW h \in Handles, dir[h] \in Dirs
    PROVE  \/ Listed(h) = entries[h] /\ KeysOf(h) = lfnMap[h]
           \/ \E d \in Dirs : Listed(h) = disk[d] /\ KeysOf(h) = Keys(disk[d])
BY DEF Listed, KeysOf

(* A list is read.                                                         *)
LEMMA ListInv ==
    ASSUME IInv, NEW h \in Handles, List(h)
    PROVE  IInv'
<1>1. TypeInv /\ TypeInv' /\ dir[h] \in Dirs /\ call = NoCall
  BY ListTypes, OpenDirs DEF List, Usable, IInv, TypeInv, Idle
<1>2. EmptyingInv'
  BY DEF List, Idle, EmptyingInv
<1>3. \A x \in Handles :
              \/ entries'[x] = entries[x] /\ lfnMap'[x] = lfnMap[x]
              \/ \E d \in Dirs : entries'[x] = disk[d] /\ lfnMap'[x] = Keys(disk[d])
              \/ entries'[x] = {}
  BY <1>1, ListedOrRead DEF List, TypeInv, TypeOK
<1> QED BY <1>1, <1>2, <1>3, Quiet DEF List, diskVars, historyVars

(* A new handle of a folder is made.                                       *)
LEMMA OpenInv ==
    ASSUME IInv, NEW p \in Handles, NEW h \in Handles, Open(p, h)
    PROVE  IInv'
<1>1. TypeInv /\ TypeInv' /\ dir[p] \in Dirs /\ call = NoCall
  BY OpenTypes, OpenDirs DEF Open, Usable, IInv, TypeInv, Idle
<1>2. EmptyingInv'
  BY DEF Open, Idle, EmptyingInv
<1>3. \A x \in Handles :
              \/ entries'[x] = entries[x] /\ lfnMap'[x] = lfnMap[x]
              \/ \E d \in Dirs : entries'[x] = disk[d] /\ lfnMap'[x] = Keys(disk[d])
              \/ entries'[x] = {}
  BY <1>1, ListedOrRead DEF Open, TypeInv, TypeOK
<1> QED BY <1>1, <1>2, <1>3, Quiet DEF Open, diskVars, historyVars

(* A handle is dropped.                                                    *)
LEMMA DropInv ==
    ASSUME IInv, NEW h \in Handles, Drop(h)
    PROVE  IInv'
<1>1. TypeInv /\ TypeInv' /\ call = NoCall
  BY DropTypes DEF Drop, IInv, Idle
<1>2. EmptyingInv'
  BY DEF Drop, Idle, EmptyingInv
<1>3. \A x \in Handles :
              \/ entries'[x] = entries[x] /\ lfnMap'[x] = lfnMap[x]
              \/ entries'[x] = {}
  BY DEF Drop, Forget
<1> QED BY <1>1, <1>2, <1>3, Quiet DEF Drop, diskVars, historyVars

(* The device is mounted again.                                            *)
LEMMA RemountInv ==
    ASSUME IInv, Remount
    PROVE  IInv'
<1>1. TypeInv /\ TypeInv' /\ call = NoCall
  BY RemountTypes DEF Remount, IInv, Idle
<1>2. EmptyingInv'
  BY DEF Remount, Idle, EmptyingInv
<1>3. \A x \in Handles :
              \/ \E d \in Dirs : entries'[x] = disk[d] /\ lfnMap'[x] = Keys(disk[d])
              \/ entries'[x] = {}
  BY Markers DEF Remount
<1> QED BY <1>1, <1>2, <1>3, Quiet DEF Remount, diskVars, historyVars

(* A delete lists the folder: from here on it is being emptied.            *)
LEMMA DeleteFolderInv ==
    ASSUME IInv, NEW x \in Handles, DeleteFolder(x)
    PROVE  IInv'
<1>1. TypeInv /\ TypeInv' /\ dir[x] \in Dirs /\ call = NoCall
  BY DeleteFolderTypes, OpenDirs DEF DeleteFolder, Usable, Has, Idle, IInv, TypeInv
<1>2. /\ spoiled \subseteq spoiled' /\ Stale(x) \subseteq spoiled'
  BY <1>1, Spoils DEF DeleteFolder
<1>3. EmptyingInv'
  <2>1. deleting' = <<x>> /\ DOMAIN <<x>> = {1} /\ <<x>>[1] = x
    BY DEF DeleteFolder
  <2>2. /\ entries'[x] = Listed(x) /\ dir' = dir /\ disk' = disk
    BY <1>1 DEF DeleteFolder, diskVars, TypeInv, TypeOK
  <2>3. \A e \in disk[dir[x]] : e.item \in Settled' => e \in Listed(x)
    BY <1>1, <1>2, Fresh DEF Settled, Good
  <2> QED BY <2>1, <2>2, <2>3 DEF EmptyingInv
<1>4. \A h \in Handles :
              \/ entries'[h] = entries[h] /\ lfnMap'[h] = lfnMap[h]
              \/ \E d \in Dirs : entries'[h] = disk[d] /\ lfnMap'[h] = Keys(disk[d])
              \/ entries'[h] = {}
  BY <1>1, ListedOrRead DEF DeleteFolder, TypeInv, TypeOK
<1> QED BY <1>1, <1>2, <1>3, <1>4, Quiet DEF DeleteFolder, diskVars

(* The new handle has just been read, the others are what they were.       *)
LEMMA DescendInv ==
    ASSUME IInv, NEW x \in Handles, NEW y \in Handles, Descend(x, y)
    PROVE  IInv'
<1>1. PICK e \in entries[x] :
         /\ e.item \in Folders
         /\ dir' = [dir EXCEPT ![y] = e.item]
         /\ entries' = [entries EXCEPT ![y] = disk[e.item]]
         /\ lfnMap' = [lfnMap EXCEPT ![y] = Keys(disk[e.item])]
         /\ deleting' = <<y>> \o deleting
  BY DEF Descend
<1>2. /\ TypeInv /\ TypeInv' /\ call = NoCall /\ e.item \in Dirs
      /\ UNCHANGED <<disk, used, place, call, spoiled, clashed>>
  BY <1>1, DescendTypes, Markers DEF Descend, diskVars, historyVars, Emptying, IInv
<1>3. ~inited[y]
  BY <1>2 DEF Descend, TypeInv, HandlesInv
<1>4. EmptyingInv'
  <2>1. /\ <<y>> \in Seq(Handles) /\ deleting \in Seq(Handles)
        /\ Len(<<y>>) = 1 /\ <<y>>[1] = y
    BY <1>2 DEF TypeInv, TypeOK
  <2>2. /\ deleting' \in Seq(Handles) /\ Len(deleting') = 1 + Len(deleting)
        /\ \A k \in 1..Len(deleting') :
              deleting'[k] = IF k <= 1 THEN y ELSE deleting[k - 1]
    BY <1>1, <2>1, ConcatProperties
  <2>3. Settled' = Settled
    BY <1>2 DEF Settled, Good
  <2>4. SUFFICES ASSUME NEW k \in DOMAIN deleting',
                        NEW f \in disk'[dir'[deleting'[k]]], f.item \in Settled'
                 PROVE  f \in entries'[deleting'[k]]
    BY DEF EmptyingInv
  <2>5. k \in 1..1 + Len(deleting) /\ Len(deleting) \in Nat
    BY <2>1, <2>2
  <2>6. CASE k <= 1
    <3>1. deleting'[k] = y
      BY <2>2, <2>5, <2>6
    <3>2. dir'[y] = e.item /\ entries'[y] = disk[e.item]
      BY <1>1, <1>2 DEF TypeInv, TypeOK
    <3> QED BY <2>4, <3>1, <3>2, <1>2
  <2>7. CASE ~(k <= 1)
    <3>1. k - 1 \in DOMAIN deleting /\ deleting'[k] = deleting[k - 1]
      BY <2>5, <2>7, <2>1, <2>2
    <3>2. deleting[k - 1] \in Handles /\ deleting[k - 1] # y
      BY <3>1, <2>1, <1>2, <1>3 DEF TypeInv, HandlesInv
    <3>3. /\ dir'[deleting[k - 1]] = dir[deleting[k - 1]]
          /\ entries'[deleting[k - 1]] = entries[deleting[k - 1]]
      BY <1>1, <1>2, <3>2 DEF TypeInv, TypeOK
    <3> QED BY <2>3, <2>4, <3>1, <3>3, <1>2 DEF IInv, EmptyingInv
  <2> QED BY <2>6, <2>7
<1>5. \A h \in Handles :
              \/ entries'[h] = entries[h] /\ lfnMap'[h] = lfnMap[h]
              \/ \E d \in Dirs : entries'[h] = disk[d] /\ lfnMap'[h] = Keys(disk[d])
  BY <1>1, <1>2 DEF TypeInv, TypeOK
<1> QED BY <1>2, <1>4, <1>5, Quiet

-----------------------------------------------------------------------------
(* Calls that begin                                                        *)

(* Nothing moves when a call begins.                                       *)
LEMMA Begins ==
    ASSUME IInv, TypeInv', call = NoCall, UNCHANGED <<disk, place>>,
           used \subseteq used', spoiled \subseteq spoiled', clashed \subseteq clashed',
           \A h \in Handles : Proper(entries'[h], lfnMap'[h], Clear'),
           WritesInv', MovingInv', EmptyingInv'
    PROVE  IInv'
<1>1. Good' \subseteq Good /\ Settled' \subseteq Good' /\ Settled = Good
  BY NoWrites DEF IInv, Good, Settled
<1>2. SettledInv'
  <2>1. \A i \in Settled' : i \in Settled
    BY <1>1
  <2> QED BY <2>1 DEF IInv, SettledInv
<1>3. NamesInv'
  BY DEF IInv, NamesInv, UniqueIn, Clear
<1> QED BY <1>2, <1>3 DEF IInv

(* An item that a list has and nothing is about to spoil is on the disk    *)
(* where the list has it.                                                  *)
LEMMA FromDisk ==
    ASSUME IInv, call = NoCall, NEW p \in Handles, NEW e \in entries[p],
           NEW S, spoiled \subseteq S, Stale(p) \subseteq S, e.item \notin S
    PROVE  /\ place[e.item] = <<dir[p], e.name>> /\ e.item \in used
           /\ \A d \in Dirs, n \in Names :
                Ent(e.item, n) \in disk[d] <=> d = dir[p] /\ n = e.name
           /\ \A n \in Names : Ent(e.item, n) \in entries[p] <=> n = e.name
<1>1. /\ dir[p] \in Dirs /\ Listed(p) = entries[p]
      /\ e = Ent(e.item, e.name) /\ e.item \in Items /\ e.name \in Names
  BY ReadBefore, Entries DEF IInv
<1>2. e.item \in Settled
  BY <1>1, NoWrites DEF IInv, Good
<1>3. \A n \in Names : Ent(e.item, n) \in entries[p] <=> Ent(e.item, n) \in disk[dir[p]]
  BY <1>1, Fresh, Entries DEF IInv
<1>4. \A d \in Dirs, n \in Names :
         Ent(e.item, n) \in disk[d] <=> place[e.item] = <<d, n>>
  BY <1>2 DEF IInv, SettledInv
<1>5. place[e.item] = <<dir[p], e.name>>
  BY <1>1, <1>3, <1>4
<1>6. e.item \in used
  BY <1>1, <1>2, <1>5, Markers DEF IInv, SettledInv
<1> QED BY <1>1, <1>3, <1>4, <1>5, <1>6

(* A new item is nowhere.                                                  *)
LEMMA NotYet ==
    ASSUME IInv, call = NoCall, NEW i \in Items \ (used \cup spoiled)
    PROVE  /\ place[i] = Nowhere
           /\ \A d \in Dirs, n \in Names : Ent(i, n) \notin disk[d]
<1>1. i \in Settled
  BY NoWrites DEF IInv, Good
<1>2. place[i] = Nowhere
  BY <1>1 DEF IInv, SettledInv
<1>3. ASSUME NEW d \in Dirs, NEW n \in Names PROVE Ent(i, n) \notin disk[d]
  <2>1. place[i] # <<d, n>>
    BY <1>2, Markers
  <2> QED BY <1>1, <2>1 DEF IInv, SettledInv
<1> QED BY <1>2, <1>3

(* A call that writes one directory.                                       *)
LEMMA WritesOne ==
    ASSUME NEW h \in Handles, call'.writes = <<h>>, dir'[h] \in Dirs,
           \A e \in Entry : e.item \in Settled' => (e \in entries'[h] <=> e \in disk'[dir'[h]]),
           Deletes' => \A j \in Settled' : place'[j] # Nowhere => place'[j][1] # call'.item
    PROVE  WritesInv'
<1>1. DOMAIN call'.writes = {1} /\ call'.writes[1] = h
  OBVIOUS
<1> QED BY <1>1 DEF WritesInv

(* Its item, which the list has only where it is to be.                    *)
LEMMA MovingOne ==
    ASSUME NEW h \in Handles, call'.writes = <<h>>, dir'[h] \in Dirs, NEW c, c = call'.item,
           c \in Good' =>
             /\ c \in used'
             /\ call'.place # Nowhere =>
                  /\ call'.place[1] = dir'[h]
                  /\ dir'[h] # Root => place'[dir'[h]] # Nowhere
             /\ \A n \in Names : Ent(c, n) \in entries'[h] <=> call'.place = <<dir'[h], n>>
             /\ \A d \in Dirs, n \in Names :
                  Ent(c, n) \in disk'[d] => d = dir'[h] /\ place'[c] = <<d, n>>
    PROVE  MovingInv'
<1>1. DOMAIN call'.writes = {1} /\ call'.writes[1] = h
  OBVIOUS
<1>2. SUFFICES ASSUME c \in Good'
               PROVE  /\ c \in used'
                      /\ call'.place # Nowhere /\ call'.place[1] # Root
                           => place'[call'.place[1]] # Nowhere
                      /\ \A n \in Names : Ent(c, n) \in entries'[h]
                                            <=> call'.place = <<dir'[h], n>>
                      /\ \A d \in Dirs, n \in Names :
                           d # dir'[h] => (Ent(c, n) \in disk'[d] <=> call'.place = <<d, n>>)
                      /\ \A d \in Dirs, n \in Names :
                           Ent(c, n) \in disk'[d] => d = dir'[h] /\ place'[c] = <<d, n>>
                      /\ call'.place # Nowhere => call'.place[1] = dir'[h]
  BY <1>1 DEF MovingInv, Ent
<1>3. \A d \in Dirs, n \in Names :
         d # dir'[h] => (Ent(c, n) \in disk'[d] <=> call'.place = <<d, n>>)
  <2> TAKE d \in Dirs, n \in Names
  <2> HAVE d # dir'[h]
  <2>1. Ent(c, n) \notin disk'[d]
    BY <1>2
  <2>2. call'.place # <<d, n>>
    <3> SUFFICES ASSUME call'.place = <<d, n>> PROVE FALSE
      OBVIOUS
    <3>1. call'.place # Nowhere /\ call'.place[1] = d
      BY Markers
    <3> QED BY <1>2, <3>1
  <2> QED BY <2>1, <2>2
<1> QED BY <1>2, <1>3

(* A delete: neither list nor map has the item any more.                   *)
LEMMA RemoveInv ==
    ASSUME IInv, TypeInv', call = NoCall, NEW p \in Handles, NEW i \in Items,
           RemoveFrom(p, i),
           \A j \in Good : place[j] # Nowhere => place[j][1] # i,
           EmptyingInv'
    PROVE  IInv'
<1>1. PICK n \in Names : \E held \in Held(p, i, n) : Removes(p, i, n, held)
  BY DEF RemoveFrom, Removes
<1>2. PICK held \in Held(p, i, n) : Removes(p, i, n, held)
  BY <1>1
<1>3. /\ inited[p] /\ dir[p] \in Dirs /\ Listed(p) = entries[p]
      /\ held \in {{}, {Ent(i, n)}} /\ held \subseteq entries[p] /\ Ent(i, n).item = i
  BY HeldIs, Entries DEF IInv
<1>4. /\ entries' = [entries EXCEPT ![p] = entries[p] \ held]
      /\ lfnMap' = [lfnMap EXCEPT ![p] = lfnMap[p] \ {n}]
      /\ call'.item = i /\ call'.place = Nowhere /\ call'.writes = <<p>>
      /\ UNCHANGED <<disk, used, dir, parent, inited, place>>
  BY <1>2 DEF Removes, Begin, KeysWithout, diskVars
<1>5. /\ spoiled \subseteq spoiled' /\ Stale(p) \subseteq spoiled' /\ spoiled' \subseteq Items
      /\ held = {} => i \in spoiled'
  <2>1. /\ Missed(i, held) \in SUBSET Items /\ (held = {} => i \in Missed(i, held))
        /\ {p} \in SUBSET Handles /\ Spoil({p}, Missed(i, held)) /\ \A h \in {p} : dir[h] \in Dirs
    BY <1>2, <1>3, MissedAre DEF Removes
  <2> QED BY <2>1, Spoils DEF IInv
<1>6. clashed \subseteq clashed' /\ (held = {} => n \in clashed')
  BY <1>2 DEF Removes, Clash, MissedNames
<1>7. entries'[p] = entries[p] \ held /\ lfnMap'[p] = lfnMap[p] \ {n}
  BY <1>4 DEF IInv, TypeInv, TypeOK
<1>8. Good' \subseteq Good /\ Settled' = Good' \ {i} /\ Clear' \subseteq Clear
  BY <1>4, <1>5, <1>6 DEF Good, Settled, Clear
<1>9. ASSUME NEW h \in Handles PROVE Proper(entries'[h], lfnMap'[h], Clear')
  <2>1. Proper(entries[h], lfnMap[h], Clear')
    BY <1>8, ProperLess DEF IInv, NamesInv
  <2>2. CASE h = p
    <3>1. held = {} => n \notin Clear'
      BY <1>6 DEF Clear
    <3> QED BY <2>1, <2>2, <3>1, <1>3, <1>7, ProperWithout
  <2>3. CASE h # p
    BY <2>1, <2>3, <1>4 DEF IInv, TypeInv, TypeOK
  <2> QED BY <2>2, <2>3
<1>10. WritesInv'
  <2>1. \A f \in Entry : f.item # i => (f \in entries'[p] <=> f \in Listed(p))
    BY <1>3, <1>7
  <2>2. Settled' = (Items \ spoiled') \ {i} /\ TypeInv
    BY <1>8 DEF Good, IInv
  <2>3. \A f \in Entry : f.item \in Settled' => (f \in entries'[p] <=> f \in disk[dir[p]])
    <3>1. \A f : f.item \notin spoiled' => (f \in Listed(p) <=> f \in disk[dir[p]])
      BY <1>3, <1>5, <2>2, Fresh
    <3> QED BY <2>1, <2>2, <3>1
  <2>4. \A j \in Settled' : place'[j] # Nowhere => place'[j][1] # call'.item
    BY <1>4, <1>8
  <2> QED BY <1>3, <1>4, <2>3, <2>4, WritesOne
<1>11. MovingInv'
  <2>1. ASSUME i \in Good'
        PROVE  /\ i \in used'
               /\ \A m \in Names : Ent(i, m) \notin entries'[p]
               /\ \A d \in Dirs, m \in Names :
                    Ent(i, m) \in disk'[d] => d = dir'[p] /\ place'[i] = <<d, m>>
    <3>1. i \notin spoiled' /\ held = {Ent(i, n)} /\ Ent(i, n) \in entries[p]
      BY <2>1, <1>3, <1>5 DEF Good
    <3>2. /\ place[i] = <<dir[p], n>> /\ i \in used
          /\ \A d \in Dirs, m \in Names :
                Ent(i, m) \in disk[d] <=> d = dir[p] /\ m = n
          /\ \A m \in Names : Ent(i, m) \in entries[p] <=> m = n
      <4>1. Ent(i, n).item = i /\ Ent(i, n).name = n
        BY Entries
      <4> QED BY <3>1, <4>1, <1>5, FromDisk
    <3> QED BY <1>4, <1>7, <3>1, <3>2
  <2>2. \A m \in Names : call'.place # <<dir'[p], m>>
    BY <1>3, <1>4, Markers
  <2> QED BY <1>3, <1>4, <2>1, <2>2, MovingOne
<1> QED BY <1>4, <1>5, <1>6, <1>9, <1>10, <1>11, Begins

(* A folder that is being emptied keeps what is not removed.               *)
LEMMA RemoveEmpties ==
    ASSUME IInv, TypeInv', call = NoCall, NEW p \in Handles, NEW i \in Items,
           RemoveFrom(p, i)
    PROVE  \A k \in DOMAIN deleting :
              \A f \in disk'[dir'[deleting[k]]] :
                 f.item \in Settled' => f \in entries'[deleting[k]]
<1>1. PICK n \in Names : \E held \in Held(p, i, n) : Removes(p, i, n, held)
  BY DEF RemoveFrom, Removes
<1>2. PICK held \in Held(p, i, n) : Removes(p, i, n, held)
  BY <1>1
<1>3. /\ entries' = [entries EXCEPT ![p] = entries[p] \ held]
      /\ call'.item = i /\ UNCHANGED <<disk, dir>>
  BY <1>2 DEF Removes, Begin, diskVars
<1>4. dir[p] \in Dirs /\ held \subseteq {Ent(i, n)} /\ Ent(i, n).item = i
  BY HeldIs, Entries DEF IInv
<1>5. spoiled \subseteq spoiled'
  BY <1>2 DEF Removes, Spoil
<1>6. \A j \in Settled' : j \in Settled /\ j # i
  BY <1>3, <1>5, NoWrites DEF IInv, Good, Settled
<1>7. ASSUME NEW k \in DOMAIN deleting, NEW f \in disk[dir[deleting[k]]], f.item \in Settled'
      PROVE  f \in entries'[deleting[k]]
  <2>1. f \in entries[deleting[k]] /\ f \notin held
    BY <1>4, <1>6, <1>7 DEF IInv, EmptyingInv
  <2>2. deleting[k] \in Handles
    BY DEF IInv, TypeInv, TypeOK
  <2> QED BY <1>3, <2>1, <2>2 DEF IInv, TypeInv, TypeOK
<1> QED BY <1>3, <1>7

(* Where a settled item is, is a directory.                                *)
LEMMA PlacesAre ==
    ASSUME TypeInv, NEW j \in Items, place[j] # Nowhere
    PROVE  place[j][1] \in Dirs /\ place[j][2] \in Names /\ place[j] = <<place[j][1], place[j][2]>>
BY Markers DEF TypeInv, TypeOK

(* No item is in a file.                                                   *)
LEMMA DeleteFileInv ==
    ASSUME IInv, NEW p \in Handles, DeleteFile(p)
    PROVE  IInv'
<1>1. PICK i \in Files : Has(p, i) /\ RemoveFrom(p, i) /\ UNCHANGED deleting
  BY DEF DeleteFile
<1>2. TypeInv /\ TypeInv' /\ call = NoCall /\ deleting' = <<>> /\ i \in Items
  BY <1>1, DeleteFileTypes, Markers DEF Has, Idle, IInv
<1>3. \A j \in Good : place[j] # Nowhere => place[j][1] # i
  BY <1>1, <1>2, PlacesAre, Markers DEF Good
<1>4. EmptyingInv'
  BY <1>2 DEF EmptyingInv
<1> QED BY <1>1, <1>2, <1>3, <1>4, RemoveInv

(* The same in a folder that is being emptied.                             *)
LEMMA DeleteChildInv ==
    ASSUME IInv, NEW x \in Handles, DeleteChild(x)
    PROVE  IInv'
<1>1. PICK i \in Files : RemoveFrom(x, i) /\ UNCHANGED deleting
  BY DEF DeleteChild
<1>2. TypeInv /\ TypeInv' /\ call = NoCall /\ i \in Items
  BY <1>1, DeleteChildTypes, Markers DEF DeleteChild, Emptying, IInv
<1>3. \A j \in Good : place[j] # Nowhere => place[j][1] # i
  BY <1>1, <1>2, PlacesAre, Markers DEF Good
<1>4. EmptyingInv'
  BY <1>1, <1>2, RemoveEmpties DEF IInv, EmptyingInv
<1> QED BY <1>1, <1>2, <1>3, <1>4, RemoveInv

(* No item is in a folder whose list is empty.                             *)
LEMMA AscendInv ==
    ASSUME IInv, NEW x \in Handles, Ascend(x)
    PROVE  IInv'
<1>1. RemoveFrom(parent[x], dir[x])
  BY DEF Ascend
<1>2. /\ TypeInv /\ TypeInv' /\ call = NoCall /\ entries[x] = {} /\ Emptying(x)
      /\ deleting' = Tail(deleting) /\ dir[x] \in Items
  BY AscendTypes DEF Ascend, Emptying, IInv
<1>3. /\ x = deleting[1] /\ 1 \in DOMAIN deleting /\ dir[x] \in Dirs
      /\ parent[x] \in Handles
      /\ \A k \in DOMAIN Tail(deleting) :
            k + 1 \in DOMAIN deleting /\ Tail(deleting)[k] = deleting[k + 1]
  BY <1>2, EmptiedHandle
<1>4. ASSUME NEW j \in Good, place[j] # Nowhere PROVE place[j][1] # dir[x]
  <2>1. /\ place[j][2] \in Names /\ place[j] = <<place[j][1], place[j][2]>>
    BY <1>2, <1>4, PlacesAre DEF Good
  <2>2. j \in Settled /\ j \in Items
    BY <1>2, NoWrites DEF Good
  <2> DEFINE f == Ent(j, place[j][2])
  <2>3. f.item = j
    BY DEF Ent
  <2>4. SUFFICES ASSUME place[j][1] = dir[x] PROVE FALSE
    BY <1>2
  <2>5. f \in disk[dir[x]]
    BY <1>3, <2>1, <2>2, <2>4 DEF IInv, SettledInv
  <2>6. f \in entries[x]
    <3> HIDE DEF f
    <3> QED BY <1>3, <2>2, <2>3, <2>5 DEF IInv, EmptyingInv
  <2> QED BY <1>2, <2>6
<1>5. EmptyingInv'
  <2>1. \A k \in DOMAIN deleting :
           \A f \in disk'[dir'[deleting[k]]] :
              f.item \in Settled' => f \in entries'[deleting[k]]
    BY <1>1, <1>2, <1>3, RemoveEmpties
  <2> QED BY <1>2, <1>3, <2>1 DEF EmptyingInv
<1> QED BY <1>1, <1>2, <1>3, <1>4, <1>5, RemoveInv

(* Where a new entry stands in a list after init().                        *)
LEMMA WithNew ==
    ASSUME IInv, call = NoCall, NEW h \in Handles, dir[h] \in Dirs,
           NEW i \in Items \ (used \cup spoiled), NEW n \in Names,
           NEW S, spoiled \subseteq S, Stale(h) \subseteq S
    PROVE  /\ i \notin S => \A m \in Names : Ent(i, m) \in With(h, i, n) <=> m = n
           /\ \A e \in Entry : e.item \notin S \cup {i} =>
                 (e \in With(h, i, n) <=> e \in disk[dir[h]])
<1>1. With(h, i, n) = Listed(h) \cup {Ent(i, n)}
  BY DEF With, Ent
<1>2. \A f : f.item \notin S => (f \in Listed(h) <=> f \in disk[dir[h]])
  BY Fresh DEF IInv
<1>3. \A m \in Names : Ent(i, m) \notin disk[dir[h]] /\ Ent(i, m).item = i /\ Ent(i, m).name = m
  BY NotYet, Entries
<1>4. i \notin S => \A m \in Names : Ent(i, m) \in With(h, i, n) <=> m = n
  BY <1>1, <1>2, <1>3
<1>5. \A e \in Entry : e.item \notin S \cup {i} =>
                 (e \in With(h, i, n) <=> e \in disk[dir[h]])
  BY <1>1, <1>2, <1>3
<1> QED BY <1>4, <1>5

(* The new file is in the list, not yet on the disk.                       *)
LEMMA CreateFileInv ==
    ASSUME IInv, NEW h \in Handles, NEW n \in Names, NEW i \in Items,
           CreateFile(h, n, i)
    PROVE  IInv'
<1>1. /\ TypeInv /\ TypeInv' /\ call = NoCall /\ dir[h] \in Dirs /\ deleting' = <<>>
      /\ i \in Items \ (used \cup spoiled)
  BY CreateFileTypes, OpenDirs DEF CreateFile, Usable, Idle, IInv, TypeInv
<1>2. /\ call'.item = i /\ call'.place = <<dir[h], n>> /\ call'.writes = <<h>>
      /\ UNCHANGED <<disk, dir, parent, place>> /\ used' = used \cup {i}
      /\ <<dir[h], n>> # Nowhere /\ <<dir[h], n>>[1] = dir[h]
  BY <1>1, Markers DEF CreateFile, Begin
<1>3. /\ spoiled \subseteq spoiled' /\ Stale(h) \subseteq spoiled'
      /\ clashed \subseteq clashed' /\ Overlooked(h, n) \subseteq clashed'
  <2>1. Spoil({h}, {}) /\ {} \in SUBSET Items /\ {h} \in SUBSET Handles
    BY DEF CreateFile
  <2>2. spoiled \subseteq spoiled' /\ Stale(h) \subseteq spoiled'
    BY <1>1, <2>1, Spoils
  <2> QED BY <2>2 DEF CreateFile, Clash
<1>4. /\ entries'[h] = With(h, i, n) /\ lfnMap'[h] = KeysOf(h) \cup {n}
      /\ \A x \in Handles \ {h} : entries'[x] = entries[x] /\ lfnMap'[x] = lfnMap[x]
  BY <1>1 DEF CreateFile, TypeInv, TypeOK
<1>5. /\ i \notin spoiled' => \A m \in Names : Ent(i, m) \in With(h, i, n) <=> m = n
      /\ \A e \in Entry : e.item \notin spoiled' \cup {i} =>
            (e \in With(h, i, n) <=> e \in disk[dir[h]])
  BY <1>1, <1>3, WithNew
<1>6. /\ Good' = Items \ spoiled' /\ Good' \subseteq Good /\ Settled' = Good' \ {i}
      /\ Clear' = Names \ clashed' /\ Clear' \subseteq Clear
  BY <1>2, <1>3 DEF Good, Settled, Clear
<1>7. ASSUME NEW x \in Handles PROVE Proper(entries'[x], lfnMap'[x], Clear')
  <2>1. CASE x = h
    <3>1. ~Taken(h, n) /\ NamesInv
      BY DEF CreateFile, IInv
    <3>2. Proper(With(h, i, n), KeysOf(h) \cup {n}, Names \ clashed')
      BY <1>1, <1>3, <3>1, NewName
    <3> QED BY <2>1, <1>4, <1>6, <3>2
  <2>2. CASE x # h
    BY <2>2, <1>4, <1>6, ProperLess DEF IInv, NamesInv
  <2> QED BY <2>1, <2>2
<1>8. WritesInv'
  <2>1. \A e \in Entry : e.item \in Settled' => (e \in entries'[h] <=> e \in disk'[dir'[h]])
    BY <1>2, <1>4, <1>5, <1>6
  <2>2. ~Deletes'
    BY <1>2 DEF Deletes
  <2> QED BY <1>1, <1>2, <2>1, <2>2, WritesOne
<1>9. MovingInv'
  <2>1. dir[h] # Root => place[dir[h]] # Nowhere
    BY DEF CreateFile, Usable
  <2>2. \A d \in Dirs, m \in Names : Ent(i, m) \notin disk[d]
    BY <1>1, NotYet
  <2>3. i \in Good' => \A m \in Names : Ent(i, m) \in entries'[h] <=> <<dir[h], n>> = <<dir[h], m>>
    BY <1>4, <1>5, <1>6
  <2> QED BY <1>1, <1>2, <2>1, <2>2, <2>3, MovingOne
<1>10. EmptyingInv'
  BY <1>1 DEF EmptyingInv
<1> QED BY <1>1, <1>2, <1>3, <1>7, <1>8, <1>9, <1>10, Begins

(* A call that writes two directories.                                     *)
LEMMA WritesTwo ==
    ASSUME NEW g \in Handles, NEW h \in Handles, call'.writes = <<g, h>>,
           dir'[g] \in Dirs, dir'[h] \in Dirs,
           \A e \in Entry : e.item \in Settled' => (e \in entries'[g] <=> e \in disk'[dir'[g]]),
           \A e \in Entry : e.item \in Settled' => (e \in entries'[h] <=> e \in disk'[dir'[h]]),
           ~Deletes'
    PROVE  WritesInv'
<1>1. DOMAIN call'.writes = {1, 2} /\ call'.writes[1] = g /\ call'.writes[2] = h
  OBVIOUS
<1> QED BY <1>1 DEF WritesInv

(* Its item, which both lists have only where it is to be.                 *)
LEMMA MovingTwo ==
    ASSUME NEW g \in Handles, NEW h \in Handles, call'.writes = <<g, h>>,
           dir'[g] \in Dirs, dir'[h] \in Dirs,
           NEW c, c = call'.item,
           c \in Good' =>
             /\ c \in used' /\ dir'[g] # dir'[h]
             /\ call'.place # Nowhere
             /\ call'.place[1] \in {dir'[g], dir'[h]}
             /\ call'.place[1] # Root => place'[call'.place[1]] # Nowhere
             /\ \A n \in Names : Ent(c, n) \in entries'[g] <=> call'.place = <<dir'[g], n>>
             /\ \A n \in Names : Ent(c, n) \in entries'[h] <=> call'.place = <<dir'[h], n>>
             /\ \A d \in Dirs, n \in Names :
                  Ent(c, n) \in disk'[d] => d = dir'[g] /\ place'[c] = <<d, n>>
    PROVE  MovingInv'
<1>1. DOMAIN call'.writes = {1, 2} /\ call'.writes[1] = g /\ call'.writes[2] = h
  OBVIOUS
<1>2. SUFFICES ASSUME c \in Good'
               PROVE  /\ c \in used'
                      /\ call'.place # Nowhere /\ call'.place[1] # Root
                           => place'[call'.place[1]] # Nowhere
                      /\ \A j, k \in DOMAIN call'.writes :
                            dir'[call'.writes[j]] = dir'[call'.writes[k]] => j = k
                      /\ \A k \in DOMAIN call'.writes, n \in Names :
                           Ent(c, n) \in entries'[call'.writes[k]]
                             <=> call'.place = <<dir'[call'.writes[k]], n>>
                      /\ \A d \in Dirs, n \in Names :
                           ~(\E k \in DOMAIN call'.writes : d = dir'[call'.writes[k]]) =>
                              (Ent(c, n) \in disk'[d] <=> call'.place = <<d, n>>)
                      /\ \A d \in Dirs, n \in Names :
                           Ent(c, n) \in disk'[d] => d = dir'[g] /\ place'[c] = <<d, n>>
                      /\ \E k \in DOMAIN call'.writes : call'.place[1] = dir'[call'.writes[k]]
  BY <1>1 DEF MovingInv, Ent
<1>3. \A d \in Dirs, n \in Names :
         d \notin {dir'[g], dir'[h]} => (Ent(c, n) \in disk'[d] <=> call'.place = <<d, n>>)
  <2> TAKE d \in Dirs, n \in Names
  <2> HAVE d \notin {dir'[g], dir'[h]}
  <2>1. Ent(c, n) \notin disk'[d]
    BY <1>2
  <2>2. call'.place # <<d, n>>
    BY <1>2
  <2> QED BY <2>1, <2>2
<1>4. \A j, k \in DOMAIN call'.writes : dir'[call'.writes[j]] = dir'[call'.writes[k]] => j = k
  BY <1>1, <1>2
<1>5. \A k \in DOMAIN call'.writes, n \in Names :
         Ent(c, n) \in entries'[call'.writes[k]]
            <=> call'.place = <<dir'[call'.writes[k]], n>>
  BY <1>1, <1>2
<1>6. \A d : (\E k \in DOMAIN call'.writes : d = dir'[call'.writes[k]])
               <=> d \in {dir'[g], dir'[h]}
  BY <1>1
<1> QED BY <1>2, <1>3, <1>4, <1>5, <1>6

(* The new folder, too, and nothing is in it yet.                          *)
LEMMA CreateDirectoryInv ==
    ASSUME IInv, NEW h \in Handles, NEW n \in Names, NEW i \in Items,
           NEW x \in Handles, CreateDirectory(h, n, i, x)
    PROVE  IInv'
<1>1. /\ TypeInv /\ TypeInv' /\ call = NoCall /\ dir[h] \in Dirs /\ deleting' = <<>>
      /\ i \in Items \ (used \cup spoiled) /\ i \in Dirs /\ i # Root /\ x # h
  BY CreateDirectoryTypes, OpenDirs, Markers
     DEF CreateDirectory, Usable, Idle, IInv, TypeInv
<1>2. /\ call'.item = i /\ call'.place = <<dir[h], n>> /\ call'.writes = <<h, x>>
      /\ UNCHANGED <<disk, place>> /\ used' = used \cup {i}
      /\ <<dir[h], n>> # Nowhere /\ <<dir[h], n>>[1] = dir[h]
  BY <1>1, Markers DEF CreateDirectory, Begin
<1>3. /\ spoiled \subseteq spoiled' /\ Stale(h) \subseteq spoiled'
      /\ clashed \subseteq clashed' /\ Overlooked(h, n) \subseteq clashed'
  <2>1. Spoil({h}, {}) /\ {} \in SUBSET Items /\ {h} \in SUBSET Handles
    BY DEF CreateDirectory
  <2>2. spoiled \subseteq spoiled' /\ Stale(h) \subseteq spoiled'
    BY <1>1, <2>1, Spoils
  <2> QED BY <2>2 DEF CreateDirectory, Clash
<1>4. /\ entries'[h] = With(h, i, n) /\ lfnMap'[h] = KeysOf(h) \cup {n}
      /\ entries'[x] = {} /\ lfnMap'[x] = {} /\ dir'[x] = i /\ dir'[h] = dir[h]
      /\ \A y \in Handles \ {h, x} : entries'[y] = entries[y] /\ lfnMap'[y] = lfnMap[y]
  BY <1>1 DEF CreateDirectory, TypeInv, TypeOK
<1>5. /\ i \notin spoiled' => \A m \in Names : Ent(i, m) \in With(h, i, n) <=> m = n
      /\ \A e \in Entry : e.item \notin spoiled' \cup {i} =>
            (e \in With(h, i, n) <=> e \in disk[dir[h]])
  BY <1>1, <1>3, WithNew
<1>6. /\ Good' = Items \ spoiled' /\ Good' \subseteq Good /\ Settled' = Good' \ {i}
      /\ Clear' = Names \ clashed' /\ Clear' \subseteq Clear
  BY <1>2, <1>3 DEF Good, Settled, Clear
<1>7. ASSUME NEW y \in Handles PROVE Proper(entries'[y], lfnMap'[y], Clear')
  <2>1. CASE y = h
    <3>1. ~Taken(h, n) /\ NamesInv
      BY DEF CreateDirectory, IInv
    <3>2. Proper(With(h, i, n), KeysOf(h) \cup {n}, Names \ clashed')
      BY <1>1, <1>3, <3>1, NewName
    <3> QED BY <2>1, <1>4, <1>6, <3>2
  <2>2. CASE y = x
    BY <2>2, <1>4 DEF Proper, UniqueIn
  <2>3. CASE y \notin {h, x}
    BY <2>3, <1>4, <1>6, ProperLess DEF IInv, NamesInv
  <2> QED BY <2>1, <2>2, <2>3
<1>8. place[i] = Nowhere /\ \A d \in Dirs, m \in Names : Ent(i, m) \notin disk[d]
  BY <1>1, NotYet
<1>9. dir[h] # Root => place[dir[h]] # Nowhere
  BY DEF CreateDirectory, Usable
<1>10. dir'[h] # dir'[x]
  BY <1>1, <1>4, <1>8, <1>9
<1>11. \A e \in Entry : e.item \in Settled' => e \notin disk[i]
  <2> SUFFICES ASSUME NEW e \in Entry, e.item \in Settled', e \in disk[i]
               PROVE  FALSE
    OBVIOUS
  <2>1. e.item \in Settled /\ e = Ent(e.item, e.name) /\ e.name \in Names
    BY <1>1, <1>6, NoWrites, Entries
  <2>2. place[e.item] = <<i, e.name>>
    BY <1>1, <2>1 DEF IInv, SettledInv
  <2>3. place[e.item] # Nowhere /\ place[e.item][1] = i
    BY <1>1, <2>1, <2>2, Markers
  <2> QED BY <1>1, <1>8, <2>1, <2>3 DEF IInv, SettledInv
<1>12. WritesInv'
  <2>1. \A e \in Entry : e.item \in Settled' => (e \in entries'[h] <=> e \in disk'[dir'[h]])
    BY <1>2, <1>4, <1>5, <1>6
  <2>2. \A e \in Entry : e.item \in Settled' => (e \in entries'[x] <=> e \in disk'[dir'[x]])
    BY <1>2, <1>4, <1>11
  <2>3. ~Deletes'
    BY <1>2 DEF Deletes
  <2> QED BY <1>1, <1>2, <1>4, <2>1, <2>2, <2>3, WritesTwo
<1>13. MovingInv'
  <2>1. i \in Good' => \A m \in Names : Ent(i, m) \in entries'[h] <=> <<dir[h], n>> = <<dir[h], m>>
    BY <1>4, <1>5, <1>6
  <2>2. \A m \in Names : Ent(i, m) \in entries'[x] <=> <<dir[h], n>> = <<dir'[x], m>>
    BY <1>4, <1>10
  <2> QED BY <1>1, <1>2, <1>4, <1>8, <1>9, <1>10, <2>1, <2>2, MovingTwo
<1>14. EmptyingInv'
  BY <1>1 DEF EmptyingInv
<1> QED BY <1>1, <1>2, <1>3, <1>7, <1>12, <1>13, <1>14, Begins

(* The list has the new name, the disk the old one.                        *)
LEMMA RenameInv ==
    ASSUME IInv, NEW p \in Handles, NEW n \in Names, Rename(p, n)
    PROVE  IInv'
<1>1. PICK i \in Items, m \in Names \ {n} : \E held \in Held(p, i, m) :
         \E qs \in Sharing(p, i, m, held) : Renames(p, n, i, m, held, qs)
  BY DEF Rename, Renames
<1>2. PICK held \in Held(p, i, m) :
         \E qs \in Sharing(p, i, m, held) : Renames(p, n, i, m, held, qs)
  BY <1>1
<1>3. PICK qs \in Sharing(p, i, m, held) : Renames(p, n, i, m, held, qs)
  BY <1>2
<1>4. /\ TypeInv /\ TypeInv' /\ call = NoCall /\ deleting' = <<>>
      /\ inited[p] /\ dir[p] \in Dirs /\ Listed(p) = entries[p]
      /\ held \in {{}, {Ent(i, m)}} /\ held \subseteq entries[p]
      /\ \A k \in Names : Ent(i, k).item = i /\ Ent(i, k).name = k
  BY <1>3, RenameTypes, HeldIs, Entries DEF Renames, Has, Idle, IInv
<1>5. /\ call'.item = i /\ call'.place = <<dir[p], n>> /\ call'.writes = <<p>>
      /\ UNCHANGED <<disk, used, dir, place>>
      /\ <<dir[p], n>> # Nowhere /\ <<dir[p], n>>[1] = dir[p]
  BY <1>3, <1>4, Markers DEF Renames, Begin, diskVars
<1>6. /\ spoiled \subseteq spoiled' /\ Stale(p) \subseteq spoiled'
      /\ held = {} => i \in spoiled'
  <2>1. /\ Missed(i, held) \in SUBSET Items /\ (held = {} => i \in Missed(i, held))
        /\ {p} \in SUBSET Handles /\ Spoil({p}, Missed(i, held)) /\ \A h \in {p} : dir[h] \in Dirs
    BY <1>3, <1>4, MissedAre DEF Renames
  <2> DEFINE others == Missed(i, held)
  <2>2. others \in SUBSET Items /\ Spoil({p}, others)
    BY <2>1
  <2> HIDE DEF others
  <2>3. /\ spoiled \subseteq spoiled' /\ others \subseteq spoiled'
        /\ \A h \in {p} : Stale(h) \subseteq spoiled'
    BY <1>4, <2>1, <2>2, Spoils
  <2> QED BY <2>1, <2>3 DEF others
<1>7. /\ clashed \subseteq clashed' /\ {n} \cap Keys(entries[p]) \subseteq clashed'
      /\ held = {} => m \in clashed' /\ n \in clashed'
  BY <1>3 DEF Renames, Clash, MissedNames
<1>8. /\ entries'[p] = (entries[p] \ held) \cup {Ent(i, n)}
      /\ lfnMap'[p] = (lfnMap[p] \ {m}) \cup {n}
      /\ \A x \in Handles \ {p} :
            /\ lfnMap'[x] = lfnMap[x]
            /\ \/ entries'[x] = entries[x]
               \/ held = {} /\ entries'[x] = (entries[x] \ {Ent(i, m)}) \cup {Ent(i, n)}
  <2> DEFINE one == (entries[p] \ held) \cup {Ent(i, n)}
             other(h) == (entries[h] \ {Ent(i, m)}) \cup {Ent(i, n)}
  <2>1. entries' = [h \in Handles |->
              CASE h = p -> one [] h \in qs -> other(h) [] OTHER -> entries[h]]
    BY <1>3 DEF Renames
  <2>2. p \notin qs /\ \A h \in qs : held = {}
    BY DEF Sharing
  <2>3. lfnMap'[p] = (lfnMap[p] \ {m}) \cup {n} /\ \A x \in Handles \ {p} : lfnMap'[x] = lfnMap[x]
    BY <1>3, <1>4 DEF Renames, KeysWithout, TypeInv, TypeOK
  <2> HIDE DEF one, other
  <2>4. entries'[p] = one
    BY <2>1, <2>2
  <2>5. \A h \in Handles \ {p} : entries'[h] = IF h \in qs THEN other(h) ELSE entries[h]
    BY <2>1
  <2> QED BY <2>2, <2>3, <2>4, <2>5 DEF one, other
<1>9. /\ Good' = Items \ spoiled' /\ Good' \subseteq Good /\ Settled' = Good' \ {i}
      /\ Clear' \subseteq Clear /\ \A k \in clashed' : k \notin Clear'
  BY <1>5, <1>6, <1>7 DEF Good, Settled, Clear
<1>10. ASSUME NEW x \in Handles PROVE Proper(entries'[x], lfnMap'[x], Clear')
  <2>1. Proper(entries[x], lfnMap[x], Clear')
    BY <1>9, ProperLess DEF IInv, NamesInv
  <2>2. CASE x = p
    <3>1. Proper(entries[p] \ held, lfnMap[p] \ {m}, Clear')
      BY <2>1, <2>2, <1>4, <1>7, <1>9, ProperWithout
    <3>2. ASSUME NEW f \in entries[p] \ held, f.name = n
          PROVE  n \notin Clear'
      BY <3>2, <1>7, <1>9 DEF Keys
    <3> QED BY <1>8, <2>2, <3>1, <3>2, ProperAdd
  <2>3. CASE x # p /\ entries'[x] = entries[x]
    BY <2>1, <2>3, <1>8
  <2>4. CASE x # p /\ entries'[x] # entries[x]
    <3>1. /\ n \notin Clear' /\ lfnMap'[x] = lfnMap[x]
          /\ entries'[x] = (entries[x] \ {Ent(i, m)}) \cup {Ent(i, n)}
      BY <2>4, <1>7, <1>8, <1>9
    <3>2. Proper((entries[x] \ {Ent(i, m)}) \cup {Ent(i, n)}, lfnMap[x], Clear')
      BY <2>1, <3>1, ProperShared
    <3> QED BY <3>1, <3>2, Zenon
  <2> QED BY <2>2, <2>3, <2>4
<1>11. WritesInv'
  <2>1. \A f : f.item \notin spoiled' => (f \in entries[p] <=> f \in disk[dir[p]])
    BY <1>4, <1>6, Fresh
  <2>2. \A f \in Entry : f.item # i => (f \in entries'[p] <=> f \in entries[p])
    BY <1>4, <1>8
  <2>3. \A f \in Entry : f.item \in Settled' => (f \in entries'[p] <=> f \in disk'[dir'[p]])
    BY <1>5, <1>9, <2>1, <2>2
  <2>4. ~Deletes'
    BY <1>5 DEF Deletes
  <2> QED BY <1>4, <1>5, <2>3, <2>4, WritesOne
<1>12. MovingInv'
  <2>1. dir[p] # Root => place[dir[p]] # Nowhere
    BY <1>3 DEF Renames, Has, Usable
  <2>2. ASSUME i \in Good'
        PROVE  /\ i \in used
               /\ \A d \in Dirs, k \in Names :
                    Ent(i, k) \in disk[d] => d = dir[p] /\ place[i] = <<d, k>>
               /\ \A k \in Names : Ent(i, k) \in entries'[p]
                                     <=> <<dir[p], n>> = <<dir[p], k>>
    <3>1. i \notin spoiled' /\ held = {Ent(i, m)} /\ Ent(i, m) \in entries[p]
      BY <2>2, <1>4, <1>6, <1>9
    <3>2. /\ place[i] = <<dir[p], m>> /\ i \in used
          /\ \A d \in Dirs, k \in Names : Ent(i, k) \in disk[d] <=> d = dir[p] /\ k = m
          /\ \A k \in Names : Ent(i, k) \in entries[p] <=> k = m
      BY <1>4, <1>6, <3>1, FromDisk
    <3>3. \A k \in Names : Ent(i, k) \in entries'[p] <=> k = n
      BY <1>4, <1>8, <3>1, <3>2
    <3> QED BY <3>2, <3>3
  <2> QED BY <1>4, <1>5, <2>1, <2>2, MovingOne
<1>13. EmptyingInv'
  BY <1>4 DEF EmptyingInv
<1> QED BY <1>4, <1>5, <1>6, <1>7, <1>10, <1>11, <1>12, <1>13, Begins

(* The source has the item no more, the destination has it already.        *)
LEMMA MoveInv ==
    ASSUME IInv, NEW p \in Handles, NEW q \in Handles, MoveTo(p, q)
    PROVE  IInv'
<1>1. PICK i \in Items, n \in Names : \E held \in Held(p, i, n) :
           \E x \in Handles \cup {NoHandle} :
              /\ Moves(p, q, i, n, held, x)
              /\ dir[p] \in Dirs /\ dir[q] \in Dirs /\ inited[p]
              /\ x \in Handles => dir[x] \in Folders
  BY MoveParts DEF IInv
<1>2. PICK held \in Held(p, i, n) : \E x \in Handles \cup {NoHandle} :
              /\ Moves(p, q, i, n, held, x)
              /\ dir[p] \in Dirs /\ dir[q] \in Dirs /\ inited[p]
              /\ x \in Handles => dir[x] \in Folders
  BY <1>1
<1>3. PICK x \in Handles \cup {NoHandle} :
              /\ Moves(p, q, i, n, held, x)
              /\ dir[p] \in Dirs /\ dir[q] \in Dirs /\ inited[p]
              /\ x \in Handles => dir[x] \in Folders
  BY <1>2
<1>4. /\ TypeInv /\ TypeInv' /\ call = NoCall /\ deleting' = <<>> /\ Listed(p) = entries[p]
      /\ held \in {{}, {Ent(i, n)}} /\ held \subseteq entries[p]
      /\ \A m \in Names : Ent(i, m).item = i /\ Ent(i, m).name = m
      /\ dir[q] # Root => place[dir[q]] # Nowhere
  BY <1>3, MoveTypes, HeldIs, Entries DEF Moves, Has, Usable, Idle, IInv
<1>5. /\ call'.item = i /\ call'.place = <<dir[q], n>> /\ call'.writes = <<p, q>>
      /\ UNCHANGED <<disk, used, dir, place>>
      /\ <<dir[q], n>> # Nowhere /\ <<dir[q], n>>[1] = dir[q]
  BY <1>3, <1>4, Markers DEF Moves, Begin, diskVars
<1>6. /\ spoiled \subseteq spoiled' /\ Stale(p) \subseteq spoiled' /\ Stale(q) \subseteq spoiled'
      /\ held = {} => i \in spoiled'
      /\ dir[p] = dir[q] => i \in spoiled'
  <2> DEFINE others == Missed(i, held) \cup
                         {j \in {i} : dir[q] = dir[p] \/ dir[q] \in Under(i)}
  <2>1. /\ others \in SUBSET Items /\ (held = {} => i \in others)
        /\ dir[p] = dir[q] => i \in others
    BY MissedAre
  <2>2. Spoil({p, q}, others) /\ {p, q} \in SUBSET Handles /\ \A h \in {p, q} : dir[h] \in Dirs
    BY <1>3 DEF Moves
  <2> HIDE DEF others
  <2>3. /\ spoiled \subseteq spoiled' /\ others \subseteq spoiled'
        /\ \A h \in {p, q} : Stale(h) \subseteq spoiled'
    BY <1>4, <2>1, <2>2, Spoils
  <2> QED BY <2>1, <2>3
<1>7. /\ clashed \subseteq clashed' /\ Overlooked(q, n) \subseteq clashed'
      /\ held = {} => n \in clashed'
  BY <1>3 DEF Moves, Clash, MissedNames
<1>8. /\ p # q => entries'[p] = entries[p] \ held /\ lfnMap'[p] = lfnMap[p] \ {n}
      /\ entries'[q] = With(q, i, n) /\ lfnMap'[q] = KeysOf(q) \cup {n}
  BY <1>3 DEF Moves, KeysWithout
<1>9. /\ Good' = Items \ spoiled' /\ Good' \subseteq Good /\ Settled' = Good' \ {i}
      /\ Clear' = Names \ clashed' /\ Clear' \subseteq Clear
  BY <1>5, <1>6, <1>7 DEF Good, Settled, Clear
<1>10. ASSUME NEW y \in Handles PROVE Proper(entries'[y], lfnMap'[y], Clear')
  <2>1. Proper(entries[y], lfnMap[y], Clear')
    BY <1>9, ProperLess DEF IInv, NamesInv
  <2>2. CASE y = p /\ y # q
    <3>1. Proper(entries[p] \ held, lfnMap[p] \ {n}, Clear')
      BY <2>1, <2>2, <1>4, <1>7, <1>9, ProperWithout
    <3> QED BY <2>2, <3>1, <1>8
  <2>3. CASE y = q
    <3>1. ~Taken(q, n) /\ NamesInv
      BY <1>3 DEF Moves, IInv
    <3>2. Proper(With(q, i, n), KeysOf(q) \cup {n}, Names \ clashed')
      BY <1>3, <1>4, <1>7, <3>1, NewName
    <3> QED BY <2>3, <1>8, <1>9, <3>2
  <2>4. CASE y = x /\ y \notin {p, q}
    <3>1. entries'[y] = Listed(y) /\ lfnMap'[y] = KeysOf(y) /\ dir[y] \in Dirs
      BY <1>3, <2>4, Markers DEF Moves
    <3>2. Proper(Listed(y), KeysOf(y), Clear)
      BY <1>4, <3>1, ProperListed DEF IInv
    <3> QED BY <3>1, <3>2, <1>9, ProperLess
  <2>5. CASE y \notin {p, q, x}
    <3>1. entries'[y] = entries[y] /\ lfnMap'[y] = lfnMap[y]
      BY <1>3, <2>5 DEF Moves
    <3> QED BY <2>1, <3>1
  <2> QED BY <2>2, <2>3, <2>4, <2>5
<1>11. /\ \A f \in Entry : f.item \in Settled' => (f \in entries'[p] <=> f \in disk[dir[p]])
       /\ \A f \in Entry : f.item \in Settled' => (f \in entries'[q] <=> f \in disk[dir[q]])
  <2>1. \A f : f.item \notin spoiled' => (f \in Listed(p) <=> f \in disk[dir[p]])
    BY <1>3, <1>4, <1>6, Fresh
  <2>2. \A f : f.item \notin spoiled' => (f \in Listed(q) <=> f \in disk[dir[q]])
    BY <1>3, <1>4, <1>6, Fresh
  <2>3. \A f \in Entry : f.item # i => (f \in entries'[q] <=> f \in Listed(q))
    BY <1>4, <1>8 DEF With
  <2>4. p # q => \A f \in Entry : f.item # i => (f \in entries'[p] <=> f \in Listed(p))
    BY <1>4, <1>8
  <2>5. \A f \in Entry : f.item \in Settled' => f.item # i /\ f.item \notin spoiled'
    BY <1>9
  <2>6. \A f \in Entry : f.item \in Settled' => (f \in entries'[q] <=> f \in disk[dir[q]])
    BY <2>2, <2>3, <2>5
  <2>7. p # q => \A f \in Entry : f.item \in Settled' => (f \in entries'[p] <=> f \in disk[dir[p]])
    BY <2>1, <2>4, <2>5
  <2> QED BY <2>6, <2>7
<1>12. WritesInv'
  <2>1. ~Deletes'
    BY <1>5 DEF Deletes
  <2> QED BY <1>3, <1>5, <1>11, <2>1, WritesTwo
<1>13. MovingInv'
  <2>1. ASSUME i \in Good'
        PROVE  /\ i \in used /\ dir[p] # dir[q]
               /\ \A d \in Dirs, m \in Names :
                    Ent(i, m) \in disk[d] => d = dir[p] /\ place[i] = <<d, m>>
               /\ \A m \in Names : Ent(i, m) \in entries'[p] <=> <<dir[q], n>> = <<dir[p], m>>
               /\ \A m \in Names : Ent(i, m) \in entries'[q] <=> <<dir[q], n>> = <<dir[q], m>>
    <3>1. /\ i \notin spoiled' /\ held = {Ent(i, n)} /\ Ent(i, n) \in entries[p]
          /\ dir[p] # dir[q] /\ p # q
      BY <2>1, <1>4, <1>6, <1>9
    <3>2. /\ place[i] = <<dir[p], n>> /\ i \in used
          /\ \A d \in Dirs, m \in Names : Ent(i, m) \in disk[d] <=> d = dir[p] /\ m = n
          /\ \A m \in Names : Ent(i, m) \in entries[p] <=> m = n
      BY <1>4, <1>6, <3>1, FromDisk
    <3>3. \A m \in Names : Ent(i, m) \notin entries'[p]
      BY <1>4, <1>8, <3>1, <3>2
    <3>4. \A m \in Names : Ent(i, m) \notin Listed(q)
      <4>1. \A f : f.item \notin spoiled' => (f \in Listed(q) <=> f \in disk[dir[q]])
        BY <1>3, <1>4, <1>6, Fresh
      <4> QED BY <1>3, <1>4, <3>1, <3>2, <4>1
    <3>5. \A m \in Names : Ent(i, m) \in entries'[q] <=> m = n
      BY <1>4, <1>8, <3>4 DEF With
    <3> QED BY <3>1, <3>2, <3>3, <3>5
  <2> QED BY <1>3, <1>4, <1>5, <2>1, MovingTwo
<1>14. EmptyingInv'
  BY <1>4 DEF EmptyingInv
<1> QED BY <1>4, <1>5, <1>6, <1>7, <1>10, <1>12, <1>13, <1>14, Begins

(* A call that leaves its item where it is and writes one directory.       *)
LEMMA MovingAt ==
    ASSUME NEW h \in Handles, call'.writes = <<h>>, dir'[h] \in Dirs, NEW c, c = call'.item,
           UNCHANGED <<disk, dir, entries, used, place>>,
           c \in Good' =>
             /\ c \in used /\ call'.place = place[c]
             /\ place[c][1] # Root => place[place[c][1]] # Nowhere
             /\ \A d \in Dirs, n \in Names : Ent(c, n) \in disk[d] <=> place[c] = <<d, n>>
             /\ \A n \in Names : Ent(c, n) \in entries[h] <=> place[c] = <<dir[h], n>>
             /\ place[c] # Nowhere
    PROVE  MovingInv'
<1>1. DOMAIN call'.writes = {1} /\ call'.writes[1] = h
  OBVIOUS
<1>2. SUFFICES ASSUME c \in Good'
               PROVE  /\ c \in used'
                      /\ call'.place # Nowhere /\ call'.place[1] # Root
                           => place'[call'.place[1]] # Nowhere
                      /\ \A n \in Names : Ent(c, n) \in entries'[h]
                                            <=> call'.place = <<dir'[h], n>>
                      /\ \A d \in Dirs, n \in Names :
                           d # dir'[h] => (Ent(c, n) \in disk'[d] <=> call'.place = <<d, n>>)
                      /\ \A d \in Dirs, n \in Names :
                           d = dir'[h] /\ Ent(c, n) \in disk'[d] =>
                              /\ place'[c] = <<d, n>>
                              /\ call'.place # Nowhere => call'.place[1] = dir'[h]
  BY <1>1 DEF MovingInv, Ent
<1> QED BY <1>2

(* A list is written as it is: the item stays where it was.                *)
LEMMA FlushInv ==
    ASSUME IInv, NEW p \in Handles, Flush(p)
    PROVE  IInv'
<1>1. PICK i \in Files, n \in Names :
        /\ Has(p, i) /\ Held(p, i, n) # {}
        /\ Begin(i, IF place[i] = Nowhere THEN <<dir[p], n>> ELSE place[i],
                 <<p>>, NoHandle)
        /\ Spoil({p}, {})
        /\ UNCHANGED <<diskVars, handleVars, deleting, place, clashed, strays>>
  BY DEF Flush
<1>2. PICK held \in Held(p, i, n) : TRUE
  BY <1>1
<1>3. /\ TypeInv /\ TypeInv' /\ call = NoCall /\ deleting' = <<>> /\ i \in Items
      /\ dir[p] \in Dirs /\ Listed(p) = entries[p]
  BY <1>1, <1>2, HeldIs, FlushTypes, Markers DEF Has, Idle, IInv
<1>4. /\ call'.item = i /\ call'.writes = <<p>>
      /\ call'.place = IF place[i] = Nowhere THEN <<dir[p], n>> ELSE place[i]
      /\ call'.place # Nowhere
      /\ UNCHANGED <<disk, used, dir, entries, lfnMap, place, clashed>>
  BY <1>1, <1>3, Markers DEF Begin, diskVars, handleVars
<1>5. spoiled \subseteq spoiled' /\ Stale(p) \subseteq spoiled'
  <2>1. {} \in SUBSET Items /\ {p} \in SUBSET Handles /\ \A h \in {p} : dir[h] \in Dirs
    BY <1>3
  <2> QED BY <1>1, <1>3, <2>1, Spoils
<1>6. Good' = Items \ spoiled' /\ Good' \subseteq Good /\ Settled' = Good' \ {i}
  BY <1>4, <1>5 DEF Good, Settled
<1>7. \A f : f.item \notin spoiled' => (f \in entries[p] <=> f \in disk[dir[p]])
  BY <1>3, <1>5, Fresh
<1>8. \A h \in Handles : Proper(entries'[h], lfnMap'[h], Clear')
  BY <1>4 DEF IInv, NamesInv, Clear
<1>9. WritesInv'
  <2>1. \A f \in Entry : f.item \in Settled' => (f \in entries'[p] <=> f \in disk'[dir'[p]])
    BY <1>4, <1>6, <1>7
  <2>2. ~Deletes'
    BY <1>4 DEF Deletes
  <2> QED BY <1>3, <1>4, <2>1, <2>2, WritesOne
<1>10. MovingInv'
  <2>1. SUFFICES ASSUME i \in Good'
                 PROVE  /\ i \in used /\ call'.place = place[i]
                        /\ place[i][1] # Root => place[place[i][1]] # Nowhere
                        /\ \A d \in Dirs, m \in Names :
                             Ent(i, m) \in disk[d] <=> place[i] = <<d, m>>
                        /\ \A m \in Names : Ent(i, m) \in entries[p] <=> place[i] = <<dir[p], m>>
                        /\ place[i] # Nowhere
    BY <1>3, <1>4, <1>6, MovingAt
  <2>2. i \in Settled /\ i \notin spoiled'
    BY <1>3, <1>6, <2>1, NoWrites DEF IInv, Good
  <2>3. \A d \in Dirs, m \in Names : Ent(i, m) \in disk[d] <=> place[i] = <<d, m>>
    BY <2>2 DEF IInv, SettledInv
  <2>4. \A m \in Names : Ent(i, m) \in entries[p] <=> place[i] = <<dir[p], m>>
    BY <1>3, <1>7, <2>2, <2>3, Entries
  <2>5. place[i] # Nowhere
    <3>1. \/ <<p, i>> \in strays
          \/ Ent(i, n) \in entries[p]
      BY <1>2, HeldIs, <1>3 DEF Held
    <3>2. <<p, i>> \in strays => place[i] # Nowhere
      BY <1>3 DEF TypeInv, HandlesInv
    <3> QED BY <1>3, <2>4, <3>1, <3>2, Markers
  <2> QED BY <1>4, <2>2, <2>3, <2>4, <2>5 DEF IInv, SettledInv
<1>11. EmptyingInv'
  BY <1>3 DEF EmptyingInv
<1> QED BY <1>3, <1>4, <1>5, <1>8, <1>9, <1>10, <1>11, Begins

-----------------------------------------------------------------------------
(* The transfers of a call                                                 *)

(* A write changes what the disk says of the item of the call only, and    *)
(* leaves no name twice.                                                   *)
LEMMA OneWrite ==
    ASSUME IInv, call.writes # <<>>, NEW h, h = call.writes[1]
    PROVE  /\ h \in Handles /\ dir[h] \in Dirs
           /\ Writes[dir[h]] = entries[h]
           /\ \A d \in Dirs : d # dir[h] => Writes[d] = disk[d]
           /\ \A d \in Dirs : \A e \in Entry :
                 e.item \in Settled => (e \in Writes[d] <=> e \in disk[d])
           /\ \A d \in Dirs : UniqueIn(Writes[d], Clear)
<1>1. /\ h \in Handles /\ 1 \in DOMAIN call.writes
      /\ Writes = [disk EXCEPT ![dir[h]] = entries[h]]
  BY FirstWrite DEF IInv
<1>2. /\ dir[h] \in Dirs
      /\ \A e \in Entry : e.item \in Settled => (e \in entries[h] <=> e \in disk[dir[h]])
  BY <1>1 DEF IInv, WritesInv
<1>3. /\ Writes[dir[h]] = entries[h]
      /\ \A d \in Dirs : d # dir[h] => Writes[d] = disk[d]
  BY <1>1, <1>2 DEF IInv, TypeInv, TypeOK
<1>4. \A d \in Dirs : UniqueIn(Writes[d], Clear)
  BY <1>1, <1>3 DEF IInv, NamesInv, Proper
<1> QED BY <1>1, <1>2, <1>3, <1>4

(* The settled items stay where they are, whatever is written.             *)
LEMMA StillThere ==
    ASSUME IInv, disk' \in {disk, Writes}, NEW S \in SUBSET Settled
    PROVE  /\ \A i \in S, d \in Dirs, n \in Names :
                 Ent(i, n) \in disk'[d] <=> place[i] = <<d, n>>
           /\ \A d \in Dirs : \A e \in Entry :
                 e.item \in Settled => (e \in disk'[d] <=> e \in disk[d])
           /\ \A d \in Dirs : UniqueIn(disk'[d], Clear)
<1>1. /\ \A d \in Dirs : \A e \in Entry :
            e.item \in Settled => (e \in disk'[d] <=> e \in disk[d])
      /\ \A d \in Dirs : UniqueIn(disk'[d], Clear)
  <2>1. CASE disk' = disk
    BY <2>1 DEF IInv, NamesInv
  <2>2. CASE disk' # disk
    <3>1. disk' = Writes /\ call.writes # <<>>
      BY <2>2 DEF Writes
    <3> QED BY <3>1, OneWrite
  <2> QED BY <2>1, <2>2
<1>2. \A i \in S, d \in Dirs, n \in Names :
         Ent(i, n) \in disk'[d] <=> place[i] = <<d, n>>
  BY <1>1, Entries DEF IInv, SettledInv, Settled, Good
<1> QED BY <1>1, <1>2

(* The item of a call that writes is no settled one, every other is.       *)
LEMMA SettledOthers ==
    ASSUME TypeInv
    PROVE  \A i \in Good : i \in Settled \/ i = call.item
BY DEF Settled

(* A write that is not the call's last step.                               *)
LEMMA WriteOn ==
    ASSUME IInv, TypeInv', call.writes # <<>>, disk' = Writes,
           call' = [call EXCEPT !.writes = Tail(@)],
           UNCHANGED <<used, dir, parent, inited, entries, lfnMap, deleting, place, spoiled,
                       clashed>>
    PROVE  IInv'
<1> DEFINE c == call.item
           h == call.writes[1]
<1>1. /\ TypeInv /\ call.writes \in Seq(Handles) /\ Tail(call.writes) \in Seq(Handles)
      /\ call'.item = c /\ call'.place = call.place /\ call'.writes = Tail(call.writes)
      /\ h \in Handles /\ dir[h] \in Dirs
  BY OneWrite DEF IInv, TypeInv, TypeOK, IsCall
<1>2. \A k \in DOMAIN call'.writes :
         k + 1 \in DOMAIN call.writes /\ call'.writes[k] = call.writes[k + 1] /\ k + 1 # 1
  BY <1>1
<1>3. \A k \in DOMAIN call.writes :
         k # 1 => \E j \in DOMAIN call'.writes : call'.writes[j] = call.writes[k]
  <2> SUFFICES ASSUME NEW k \in DOMAIN call.writes, k # 1
               PROVE  k - 1 \in DOMAIN call'.writes /\ call'.writes[k - 1] = call.writes[k]
    OBVIOUS
  <2> QED BY <1>1
<1>4. Settled' = Settled /\ (Deletes' <=> Deletes) /\ Clear' = Clear
      /\ Good' = Good
  BY <1>1 DEF Settled, Good, Clear, Deletes
<1>5. /\ Writes[dir[h]] = entries[h]
      /\ \A d \in Dirs : d # dir[h] => disk'[d] = disk[d]
      /\ \A d \in Dirs : \A e \in Entry :
            e.item \in Settled => (e \in disk'[d] <=> e \in disk[d])
      /\ \A d \in Dirs : UniqueIn(disk'[d], Clear)
  BY OneWrite
<1>6. SettledInv'
  <2>1. \A i \in Settled, d \in Dirs, n \in Names :
           Ent(i, n) \in disk'[d] <=> place[i] = <<d, n>>
    BY StillThere
  <2> QED BY <1>4, <2>1 DEF IInv, SettledInv
<1>7. NamesInv'
  BY <1>4, <1>5 DEF IInv, NamesInv
<1>8. WritesInv'
  <2>1. ASSUME NEW k \in DOMAIN call'.writes
        PROVE  /\ dir[call'.writes[k]] \in Dirs
               /\ \A e \in Entry : e.item \in Settled =>
                     (e \in entries[call'.writes[k]] <=> e \in disk'[dir[call'.writes[k]]])
    <3>1. /\ dir[call.writes[k + 1]] \in Dirs
          /\ \A e \in Entry : e.item \in Settled =>
                (e \in entries[call.writes[k + 1]] <=> e \in disk[dir[call.writes[k + 1]]])
      BY <1>2, <2>1 DEF IInv, WritesInv
    <3> QED BY <1>2, <1>5, <2>1, <3>1
  <2>2. Deletes => \A j \in Settled : place[j] # Nowhere => place[j][1] # c
    BY DEF IInv, WritesInv
  <2> QED BY <1>1, <1>4, <2>1, <2>2 DEF WritesInv
<1>9. MovingInv'
  <2> DEFINE to(k) == dir[call.writes[k]]
             Pending(d) == \E k \in DOMAIN call.writes : d = to(k)
             to2(k) == dir[call'.writes[k]]
             Pending2(d) == \E k \in DOMAIN call'.writes : d = to2(k)
  <2>1. SUFFICES ASSUME c \in Good
                 PROVE  /\ c \in used
                        /\ call.place # Nowhere /\ call.place[1] # Root
                             => place[call.place[1]] # Nowhere
                        /\ \A j, k \in DOMAIN call'.writes : to2(j) = to2(k) => j = k
                        /\ \A k \in DOMAIN call'.writes, n \in Names :
                             Ent(c, n) \in entries[call'.writes[k]]
                               <=> call.place = <<to2(k), n>>
                        /\ \A d \in Dirs, n \in Names :
                             ~Pending2(d) => (Ent(c, n) \in disk'[d] <=> call.place = <<d, n>>)
                        /\ \A d \in Dirs, n \in Names :
                             ~(Pending2(d) /\ Ent(c, n) \in disk'[d])
    BY <1>1, <1>4 DEF MovingInv, Ent
  <2>2. /\ c \in used
        /\ call.place # Nowhere /\ call.place[1] # Root
             => place[call.place[1]] # Nowhere
        /\ \A j, k \in DOMAIN call.writes : to(j) = to(k) => j = k
        /\ \A k \in DOMAIN call.writes, n \in Names :
             Ent(c, n) \in entries[call.writes[k]] <=> call.place = <<to(k), n>>
        /\ \A d \in Dirs, n \in Names :
             ~Pending(d) => (Ent(c, n) \in disk[d] <=> call.place = <<d, n>>)
        /\ \A d \in Dirs, n \in Names :
             Pending(d) /\ Ent(c, n) \in disk[d] => d = to(1)
    BY <2>1 DEF IInv, MovingInv
  <2>3. 1 \in DOMAIN call.writes
    BY <1>1
  <2>4. \A j, k \in DOMAIN call'.writes : to2(j) = to2(k) => j = k
    <3> TAKE j, k \in DOMAIN call'.writes
    <3>1. j \in Nat /\ k \in Nat /\ (j + 1 = k + 1 => j = k)
      BY <1>1
    <3> QED BY <3>1, <1>2, <2>2
  <2>5. \A k \in DOMAIN call'.writes, n \in Names :
           Ent(c, n) \in entries[call'.writes[k]] <=> call.place = <<to2(k), n>>
    <3> TAKE k \in DOMAIN call'.writes, n \in Names
    <3> QED BY <1>2, <2>2
  <2>6. ASSUME NEW d \in Dirs, Pending2(d) PROVE Pending(d) /\ d # dir[h]
    <3>1. PICK k \in DOMAIN call'.writes : d = to2(k)
      BY <2>6
    <3> QED BY <3>1, <1>2, <2>2, <2>3
  <2>7. ASSUME NEW d \in Dirs, ~Pending2(d), d # dir[h] PROVE ~Pending(d)
    BY <1>3, <2>7
  <2>8. ASSUME NEW d \in Dirs, NEW n \in Names, ~Pending2(d)
        PROVE  Ent(c, n) \in disk'[d] <=> call.place = <<d, n>>
    <3>1. CASE d = dir[h]
      <4>1. Ent(c, n) \in entries[h] <=> call.place = <<d, n>>
        BY <3>1, <2>2, <2>3
      <4> QED BY <4>1, <3>1, <1>5
    <3>2. CASE d # dir[h]
      BY <3>2, <2>7, <2>8, <2>2, <1>5
    <3> QED BY <3>1, <3>2
  <2>9. ASSUME NEW d \in Dirs, NEW n \in Names, Pending2(d), Ent(c, n) \in disk'[d]
        PROVE  FALSE
    BY <2>9, <2>6, <2>2, <1>5
  <2> QED BY <2>2, <2>4, <2>5, <2>8, <2>9
<1>10. EmptyingInv'
  <2> SUFFICES ASSUME NEW k \in DOMAIN deleting, NEW e \in disk'[dir[deleting[k]]],
                      e.item \in Settled
               PROVE  e \in entries[deleting[k]]
    BY <1>4 DEF EmptyingInv
  <2>1. dir[deleting[k]] \in Dirs
    BY OpenDirs, <1>1 DEF TypeInv, HandlesInv, TypeOK
  <2>2. e \in Entry
    BY <1>1, <2>1 DEF TypeInv, TypeOK
  <2>3. e \in disk[dir[deleting[k]]]
    BY <1>5, <2>1, <2>2
  <2> QED BY <2>3 DEF IInv, EmptyingInv
<1> QED BY <1>6, <1>7, <1>8, <1>9, <1>10 DEF IInv

(* After a call: the invariant for what it has left.                       *)
LEMMA Ended ==
    ASSUME TypeInv', call' = NoCall, SettledInv', NamesInv', EmptyingInv'
    PROVE  IInv'
<1>1. call'.item = NoItem /\ DOMAIN call'.writes = {} /\ call'.item \notin Items
  BY NoCallTypes, Markers
<1>2. WritesInv' /\ MovingInv'
  BY <1>1 DEF WritesInv, MovingInv, Good, Deletes
<1> QED BY <1>2 DEF IInv

(* The item of a call that returns is where the call puts it, and every    *)
(* other one where it was.                                                 *)
LEMMA Leaves ==
    ASSUME IInv, TypeInv', call # NoCall, Returned, used' \subseteq used,
           call.item \in Good =>
              /\ call.place # Nowhere => /\ call.item \in used'
                                         /\ call.place[1] # Root => place[call.place[1]] # Nowhere
              /\ \A d \in Dirs, n \in Names :
                    Ent(call.item, n) \in disk'[d] <=> call.place = <<d, n>>,
           \A j \in Settled : j \in used => j \in used',
           \A j \in Settled : place[j] # Nowhere /\ call.place = Nowhere
                                 => place[j][1] # call.item,
           disk' \in {disk, Writes}, spoiled' = spoiled
    PROVE  SettledInv'
<1> DEFINE c == call.item
<1>1. /\ c \in Items /\ Good' = Good /\ Settled' = Good
      /\ place'[c] = call.place /\ \A i \in Items \ {c} : place'[i] = place[i]
  <2>1. call'.item = NoItem /\ NoItem \notin Items /\ c \in Items
    BY NoCallTypes, CallItem, Markers DEF Returned, IInv
  <2> QED BY <2>1 DEF Good, Settled, Returned, IInv, TypeInv, TypeOK
<1>2. ASSUME NEW d, place[d] # Nowhere, d \in Items, call.place # Nowhere \/ d # c
      PROVE  place'[d] # Nowhere
  BY <1>1, <1>2
<1>3. SUFFICES ASSUME NEW i \in Good
      PROVE  /\ \A d \in Dirs, n \in Names :
                  Ent(i, n) \in disk'[d] <=> place'[i] = <<d, n>>
             /\ place'[i] # Nowhere =>
                  /\ i \in used'
                  /\ place'[i][1] # Root => place'[place'[i][1]] # Nowhere
  BY <1>1 DEF SettledInv
<1>4. CASE i = c
  <2>1. \A d \in Dirs, n \in Names : Ent(i, n) \in disk'[d] <=> place'[i] = <<d, n>>
    BY <1>1, <1>3, <1>4
  <2>2. ASSUME place'[i] # Nowhere
        PROVE  i \in used' /\ (place'[i][1] # Root => place'[place'[i][1]] # Nowhere)
    <3>1. call.place # Nowhere /\ call.place[1] \in Dirs
      BY <1>1, <1>4, <2>2, Markers DEF IInv, TypeInv, TypeOK
    <3> QED BY <1>1, <1>2, <1>3, <1>4, <3>1, Markers
  <2> QED BY <2>1, <2>2
<1>5. CASE i # c
  <2>1. i \in Settled /\ place'[i] = place[i] /\ i \in Items
    BY <1>1, <1>3, <1>5 DEF Settled, Good
  <2>2. \A d \in Dirs, n \in Names : Ent(i, n) \in disk'[d] <=> place[i] = <<d, n>>
    BY <2>1, StillThere
  <2>3. ASSUME place[i] # Nowhere
        PROVE  i \in used' /\ (place[i][1] # Root => place'[place[i][1]] # Nowhere)
    <3>1. /\ i \in used /\ place[i][1] \in Dirs
          /\ place[i][1] # Root => place[place[i][1]] # Nowhere
      BY <2>1, <2>3, PlacesAre DEF IInv, SettledInv
    <3>2. place[i][1] # Root => place[i][1] \in Items
      BY <3>1, Markers
    <3> QED BY <1>2, <2>1, <2>3, <3>1, <3>2
  <2> QED BY <2>1, <2>2, <2>3
<1> QED BY <1>4, <1>5

(* The last write of a call that is no delete.                             *)
LEMMA WriteLast ==
    ASSUME IInv, Write, TypeInv', ~(Len(call.writes) > 1 \/ Deletes)
    PROVE  IInv'
<1> DEFINE c == call.item
           h == call.writes[1]
<1>1. /\ call.writes # <<>> /\ disk' = Writes /\ Returned
      /\ UNCHANGED <<used, dir, inited, entries, lfnMap, deleting, spoiled, clashed>>
  BY DEF Write
<1>2. /\ TypeInv /\ call # NoCall /\ call.writes \in Seq(Handles) /\ Len(call.writes) \in Nat
      /\ DOMAIN call.writes = {1}
  <2>1. /\ TypeInv /\ call # NoCall /\ call.writes \in Seq(Handles)
        /\ DOMAIN call.writes = 1..Len(call.writes) /\ Len(call.writes) \in Nat
        /\ 1 \in DOMAIN call.writes
    BY <1>1, FirstWrite DEF IInv, TypeInv, TypeOK
  <2>2. \A n \in Nat : ~(n > 1) /\ 1 \in 1..n => 1..n = {1}
    OBVIOUS
  <2> QED BY <2>1, <2>2
<1>3. /\ dir[h] \in Dirs /\ disk'[dir[h]] = entries[h]
      /\ \A d \in Dirs : d # dir[h] => disk'[d] = disk[d]
      /\ \A d \in Dirs : UniqueIn(disk'[d], Clear)
  BY <1>1, OneWrite
<1>4. call.place # Nowhere
  BY <1>2, CallItem, Markers DEF Deletes
<1>5. ASSUME c \in Good
      PROVE  /\ c \in used
             /\ call.place[1] # Root => place[call.place[1]] # Nowhere
             /\ \A d \in Dirs, n \in Names :
                  Ent(c, n) \in disk'[d] <=> call.place = <<d, n>>
  <2>1. /\ c \in used
        /\ call.place # Nowhere /\ call.place[1] # Root => place[call.place[1]] # Nowhere
        /\ \A n \in Names : Ent(c, n) \in entries[h] <=> call.place = <<dir[h], n>>
        /\ \A d \in Dirs, n \in Names :
             d # dir[h] => (Ent(c, n) \in disk[d] <=> call.place = <<d, n>>)
    BY <1>2, <1>5 DEF IInv, MovingInv
  <2> QED BY <1>3, <1>4, <2>1
<1>6. SettledInv'
  BY <1>1, <1>2, <1>4, <1>5, Leaves
<1>7. NamesInv'
  BY <1>1, <1>3 DEF IInv, NamesInv, Clear
<1>8. EmptyingInv'
  BY <1>1, <1>2 DEF EmptyingInv, TypeInv, IsCall, Write
<1> QED BY <1>1, <1>6, <1>7, <1>8, Ended DEF Returned

(* A write, the last one or not.                                           *)
LEMMA WriteInv ==
    ASSUME IInv, Write
    PROVE  IInv'
<1>1. TypeInv'
  BY WriteTypes DEF IInv
<1>2. CASE Len(call.writes) > 1 \/ Deletes
  BY <1>1, <1>2, WriteOn DEF Write
<1>3. CASE ~(Len(call.writes) > 1 \/ Deletes)
  BY <1>1, <1>3, WriteLast
<1> QED BY <1>2, <1>3

(* The clusters are freed: no directory points to them.                    *)
LEMMA FreeInv ==
    ASSUME IInv, Free
    PROVE  IInv'
<1> DEFINE c == call.item
           hs == {h \in Handles : dir[h] = c /\ ~Referred(h)}
<1>1. /\ Deletes /\ call.writes = <<>> /\ used' = used \ {c} /\ Returned /\ Forget(hs)
      /\ UNCHANGED <<disk, deleting, spoiled, clashed>>
  BY DEF Free
<1>2. /\ TypeInv /\ TypeInv' /\ call # NoCall /\ c \in Items /\ call.place = Nowhere
      /\ DOMAIN call.writes = {}
  BY <1>1, FreeTypes, CallItem DEF IInv, Deletes
<1>3. ASSUME c \in Good, NEW d \in Dirs, NEW n \in Names
      PROVE  Ent(c, n) \notin disk[d] /\ call.place # <<d, n>>
  <2>1. call.place # <<d, n>>
    BY <1>2, Markers
  <2>2. Ent(c, n) \in disk[d] <=> call.place = <<d, n>>
    BY <1>2, <1>3 DEF IInv, MovingInv
  <2> QED BY <2>1, <2>2
<1>4. SettledInv'
  <2>1. \A j \in Settled : place[j] # Nowhere => place[j][1] # c
    BY <1>1 DEF IInv, WritesInv
  <2>2. \A j \in Settled : j \in used => j \in used'
    BY <1>1 DEF Settled
  <2>3. c \in Good => \A d \in Dirs, n \in Names :
                         Ent(c, n) \in disk'[d] <=> call.place = <<d, n>>
    BY <1>1, <1>3
  <2> QED BY <1>1, <1>2, <2>1, <2>2, <2>3, Leaves
<1>5. NamesInv'
  <2>1. ASSUME NEW h \in Handles PROVE Proper(entries'[h], lfnMap'[h], Clear)
    <3>1. CASE h \in hs
      <4>1. entries'[h] = {}
        BY <1>1, <3>1 DEF Forget
      <4> QED BY <4>1 DEF Proper, UniqueIn
    <3>2. CASE h \notin hs
      <4> HIDE DEF hs
      <4>1. entries'[h] = entries[h] /\ lfnMap'[h] = lfnMap[h]
        BY <1>1, <3>2 DEF Forget
      <4> QED BY <4>1 DEF IInv, NamesInv
    <3> QED BY <3>1, <3>2
  <2> QED BY <1>1, <2>1 DEF IInv, NamesInv, Clear
<1>6. EmptyingInv'
  <2> SUFFICES ASSUME NEW k \in DOMAIN deleting', NEW e \in disk'[dir'[deleting'[k]]],
                      e.item \in Settled'
               PROVE  e \in entries'[deleting'[k]]
    BY DEF EmptyingInv
  <2>1. /\ k \in DOMAIN deleting /\ deleting[k] \in Handles /\ deleting[k] \notin hs
        /\ deleting' = deleting
    BY <1>1, <1>2 DEF Referred, TypeInv, TypeOK
  <2>2. dir'[deleting[k]] = dir[deleting[k]] /\ entries'[deleting[k]] = entries[deleting[k]]
    <3> HIDE DEF hs
    <3> QED BY <1>1, <2>1 DEF Forget
  <2>3. dir[deleting[k]] \in Dirs
    BY <1>2, <2>1, OpenDirs DEF TypeInv, HandlesInv
  <2>4. /\ e \in disk[dir[deleting[k]]] /\ e \in Entry /\ e = Ent(e.item, e.name)
        /\ e.name \in Names /\ e.item \in Good
    <3>1. e \in disk[dir[deleting[k]]]
      BY <1>1, <2>1, <2>2
    <3>2. e \in Entry
      BY <1>2, <2>3, <3>1 DEF TypeInv, TypeOK
    <3>3. e.item \in Good
      BY <1>1 DEF Settled, Good
    <3> QED BY <3>1, <3>2, <3>3, Entries
  <2>5. e.item # c
    BY <1>3, <2>3, <2>4
  <2>6. e.item \in Settled
    BY <2>4, <2>5 DEF Settled
  <2> QED BY <2>1, <2>2, <2>4, <2>6 DEF IInv, EmptyingInv
<1> QED BY <1>1, <1>2, <1>4, <1>5, <1>6, Ended DEF Returned

(* A call throws: its item is spoiled with all under it.                   *)
LEMMA FailInv ==
    ASSUME IInv, Fail
    PROVE  IInv'
<1>1. /\ TypeInv /\ TypeInv' /\ call.item \in Items /\ call' = NoCall /\ deleting' = <<>>
      /\ spoiled' = spoiled \cup Under(call.item)
      /\ entries' = entries /\ lfnMap' = lfnMap /\ place' = place /\ Clear' = Clear
  BY FailTypes, CallItem DEF Fail, IInv, handleVars, Clear
<1>2. disk' \in {disk, Writes} /\ (used' = used \/ used' = used \ {call.item})
  BY DEF Fail
<1>3. Good' \subseteq Good /\ Settled' \subseteq Settled /\ call.item \notin Settled'
      /\ Settled' = Good'
  <2>1. call.item \in Under(call.item)
    BY <1>1 DEF Under
  <2>2. call'.item = NoItem /\ NoItem \notin Items
    BY <1>1, NoCallTypes, Markers
  <2> QED BY <1>1, <2>1, <2>2 DEF Good, Settled
<1>4. SettledInv'
  <2>1. \A i \in Settled', d \in Dirs, n \in Names :
           Ent(i, n) \in disk'[d] <=> place[i] = <<d, n>>
    <3>1. Settled' \in SUBSET Settled
      BY <1>3
    <3> QED BY <1>2, <1>3, <3>1, StillThere
  <2>2. \A i \in Settled' : i \in Settled /\ (i \in used => i \in used')
    BY <1>2, <1>3
  <2> QED BY <1>1, <2>1, <2>2 DEF IInv, SettledInv
<1>5. NamesInv'
  <2>1. \A d \in Dirs : UniqueIn(disk'[d], Clear)
    BY <1>2, StillThere
  <2>2. \A d \in Dirs : UniqueIn(disk'[d], Clear')
    BY <1>1, <2>1, Zenon
  <2>3. \A h \in Handles : Proper(entries'[h], lfnMap'[h], Clear')
    BY <1>1, <1>3, ProperLess DEF IInv, NamesInv
  <2> QED BY <2>2, <2>3 DEF NamesInv
<1>6. EmptyingInv'
  BY <1>1 DEF EmptyingInv
<1> QED BY <1>1, <1>4, <1>5, <1>6, Ended

-----------------------------------------------------------------------------
(* The invariant holds in every state                                      *)

(* The volume a session begins with.                                       *)
LEMMA InitInv == Init => IInv
<1> SUFFICES ASSUME Init PROVE IInv
  OBVIOUS
<1>1. TypeInv
  BY InitTypes
<1>2. PICK d \in Folders, n \in Names :
         /\ disk = [x \in Dirs |-> IF x = Root THEN {Ent(d, n)} ELSE {}]
         /\ used = {d}
         /\ place = [i \in Items |-> IF i = d THEN <<Root, n>> ELSE Nowhere]
  BY DEF Init
<1>3. call = NoCall /\ deleting = <<>> /\ spoiled = {}
  BY DEF Init
<1>4. WritesInv /\ MovingInv /\ Settled = Good
  BY <1>1, <1>3, NoWrites
<1>5. \A x \in Dirs : \A e, f \in disk[x] : e = f
  BY <1>2
<1>6. NamesInv
  <2>1. \A x \in Dirs : UniqueIn(disk[x], Clear)
    BY <1>5 DEF UniqueIn
  <2>2. ASSUME NEW h \in Handles PROVE Proper(entries[h], lfnMap[h], Clear)
    <3>1. lfnMap[h] = Keys(entries[h]) /\ entries[h] \in {disk[Root], {}}
      BY DEF Init
    <3>2. UniqueIn(entries[h], Clear)
      BY <2>1, <3>1, Markers DEF UniqueIn
    <3> QED BY <3>1, <3>2, ProperRead
  <2> QED BY <2>1, <2>2 DEF NamesInv
<1>7. SettledInv
  <2> SUFFICES ASSUME NEW i \in Items
               PROVE  /\ \A x \in Dirs, m \in Names :
                           Ent(i, m) \in disk[x] <=> place[i] = <<x, m>>
                      /\ place[i] # Nowhere =>
                           /\ i \in used
                           /\ place[i][1] # Root => place[place[i][1]] # Nowhere
    BY <1>4 DEF SettledInv, Good
  <2>1. \A m \in Names : Ent(i, m) = Ent(d, n) <=> i = d /\ m = n
    BY DEF Ent
  <2>2. \A x \in Dirs, m \in Names : Ent(i, m) \in disk[x] <=> x = Root /\ i = d /\ m = n
    BY <1>2, <2>1
  <2>3. CASE i = d
    BY <1>2, <2>2, <2>3, Markers
  <2>4. CASE i # d
    BY <1>2, <2>2, <2>4, Markers
  <2> QED BY <2>3, <2>4
<1>8. EmptyingInv
  BY <1>3 DEF EmptyingInv
<1> QED BY <1>1, <1>4, <1>6, <1>7, <1>8 DEF IInv

(* Each step keeps the invariant.                                          *)
LEMMA NextInv == IInv /\ [Next]_vars => IInv'
<1> SUFFICES ASSUME IInv, [Next]_vars PROVE IInv'
  OBVIOUS
<1>1. CASE UNCHANGED vars
  <2>1. TypeInv'
    BY NextTypes DEF IInv
  <2>2. Settled' = Settled /\ Good' = Good /\ Clear' = Clear /\ (Deletes' <=> Deletes)
    BY <1>1 DEF vars, diskVars, historyVars, Settled, Good, Clear, Deletes
  <2>3. SettledInv' /\ EmptyingInv'
    BY <1>1, <2>2 DEF vars, diskVars, handleVars, historyVars, IInv, SettledInv, EmptyingInv
  <2>4. NamesInv'
    BY <1>1, <2>2 DEF vars, diskVars, handleVars, IInv, NamesInv
  <2>5. WritesInv'
    BY <1>1, <2>2 DEF vars, diskVars, handleVars, historyVars, IInv, WritesInv
  <2>6. MovingInv'
    BY <1>1, <2>2 DEF vars, diskVars, handleVars, historyVars, IInv, MovingInv
  <2> QED BY <2>1, <2>3, <2>4, <2>5, <2>6 DEF IInv
<1>2. CASE \E h \in Handles : List(h) \/ Drop(h) \/ Flush(h) \/ DeleteFile(h) \/ DeleteFolder(h)
                               \/ DeleteChild(h) \/ Ascend(h)
  BY <1>2, ListInv, DropInv, FlushInv, DeleteFileInv, DeleteFolderInv, DeleteChildInv, AscendInv
<1>3. CASE \E h, x \in Handles : Open(h, x) \/ MoveTo(h, x) \/ Descend(h, x)
  BY <1>3, OpenInv, MoveInv, DescendInv
<1>4. CASE \E h \in Handles, n \in Names : Rename(h, n)
  BY <1>4, RenameInv
<1>5. CASE \E h \in Handles, n \in Names, i \in Items : CreateFile(h, n, i)
  BY <1>5, CreateFileInv
<1>6. CASE \E h \in Handles, n \in Names, i \in Items, x \in Handles :
              CreateDirectory(h, n, i, x)
  BY <1>6, CreateDirectoryInv
<1>7. CASE Write \/ Free \/ Fail \/ Remount
  BY <1>7, WriteInv, FreeInv, FailInv, RemountInv
<1> QED BY <1>1, <1>2, <1>3, <1>4, <1>5, <1>6, <1>7 DEF Next, NewCall

(* The invariant holds in every state that can be reached.                 *)
LEMMA Reachable == Spec => []IInv
BY InitInv, NextInv, PTL DEF Spec

-----------------------------------------------------------------------------
(* What it says of the disk                                                *)

(* An entry on the disk and its place.                                     *)
LEMMA OnDiskPlaces ==
    \A i : \A p \in OnDiskAt(i) :
       p \in Places /\ p[1] \in Dirs /\ p[2] \in Names /\ p = <<p[1], p[2]>>
       /\ Ent(i, p[2]) \in disk[p[1]]
BY Markers DEF OnDiskAt, Ent

(* A settled item is on the disk in its place.                             *)
LEMMA SettledOnDisk ==
    ASSUME IInv, NEW i \in Settled
    PROVE  OnDiskAt(i) = {place[i]} \ {Nowhere}
<1>1. /\ \A d \in Dirs, n \in Names : Ent(i, n) \in disk[d] <=> place[i] = <<d, n>>
      /\ i \in Items
  BY DEF IInv, SettledInv, Settled, Good
<1>2. \A p \in OnDiskAt(i) : p \in {place[i]} \ {Nowhere}
  <2> TAKE p \in OnDiskAt(i)
  <2>1. /\ p \in Places /\ p[1] \in Dirs /\ p[2] \in Names /\ p = <<p[1], p[2]>>
        /\ Ent(i, p[2]) \in disk[p[1]]
    BY OnDiskPlaces
  <2> QED BY <1>1, <2>1, Markers
<1>3. ASSUME place[i] # Nowhere PROVE place[i] \in OnDiskAt(i)
  <2>1. place[i] \in Places
    BY <1>1, <1>3 DEF IInv, TypeInv, TypeOK
  <2>2. /\ place[i][1] \in Dirs /\ place[i][2] \in Names
        /\ place[i] = <<place[i][1], place[i][2]>>
    BY <2>1, Markers
  <2>3. Ent(i, place[i][2]) \in disk[place[i][1]]
    BY <1>1, <2>2
  <2> QED BY <2>1, <2>3 DEF OnDiskAt, Ent
<1> QED BY <1>2, <1>3

(* The item of the call is on the disk in one place at most: the old one   *)
(* until it is written, the new one once it is.                            *)
LEMMA MovingOnDisk ==
    ASSUME IInv, call.item \in Good
    PROVE  /\ \A p, q \in OnDiskAt(call.item) : p = q
           /\ call.item \in used
<1> DEFINE c == call.item
           Pending(d) == \E k \in DOMAIN call.writes : d = dir[call.writes[k]]
<1>1. /\ c \in used
      /\ \A d \in Dirs, n \in Names :
           ~Pending(d) => (Ent(c, n) \in disk[d] <=> call.place = <<d, n>>)
      /\ \A d \in Dirs, n \in Names :
           Pending(d) /\ Ent(c, n) \in disk[d] =>
              /\ place[c] = <<d, n>>
              /\ call.place # Nowhere => Pending(call.place[1])
  BY DEF IInv, MovingInv
<1>2. ASSUME NEW p \in OnDiskAt(c)
      PROVE  \/ p = call.place /\ p # Nowhere /\ ~Pending(p[1])
             \/ p = place[c] /\ (call.place # Nowhere => Pending(call.place[1]))
  <2>1. /\ p \in Places /\ p[1] \in Dirs /\ p[2] \in Names /\ p = <<p[1], p[2]>>
        /\ Ent(c, p[2]) \in disk[p[1]] /\ p # Nowhere
    BY OnDiskPlaces, Markers
  <2>2. CASE Pending(p[1])
    BY <1>1, <2>1, <2>2
  <2>3. CASE ~Pending(p[1])
    <3>1. Ent(c, p[2]) \in disk[p[1]] <=> call.place = <<p[1], p[2]>>
      BY <1>1, <2>1, <2>3
    <3> QED BY <2>1, <2>3, <3>1
  <2> QED BY <2>2, <2>3
<1> HIDE DEF Pending
<1> QED BY <1>1, <1>2

(* One place at most is none or one.                                       *)
LEMMA AtMostOne ==
    ASSUME NEW S, \A p, q \in S : p = q
    PROVE  Cardinality(S) <= 1
<1>1. CASE S = {}
  BY <1>1, FS_EmptySet
<1>2. CASE S # {}
  <2>1. PICK p \in S : S = {p}
    BY <1>2
  <2>2. Cardinality({p}) = 1
    BY FS_Singleton
  <2> QED BY <2>1, <2>2
<1> QED BY <1>1, <1>2

(* "write changes immediately to disk": whatever order calls, writes,      *)
(* failures and unplugging come in, an unspoiled item is in one directory  *)
(* at most at any time, and between two calls in the one its last call put *)
(* it into, under its last name.                                           *)
THEOREM ItemsStay == Spec => []OnePlace
<1>1. IInv => OnePlace
  <2> SUFFICES ASSUME IInv, NEW i \in Items \ spoiled
               PROVE  /\ Cardinality(OnDiskAt(i)) <= 1
                      /\ Idle => OnDiskAt(i) = {place[i]} \ {Nowhere}
    BY DEF OnePlace
  <2>1. i \in Settled \/ i = call.item
    BY DEF Settled, Good
  <2>2. \A p, q \in OnDiskAt(i) : p = q
    <3>1. CASE i \in Settled
      BY <3>1, SettledOnDisk
    <3>2. CASE i = call.item
      BY <3>2, MovingOnDisk DEF Good
    <3> QED BY <2>1, <3>1, <3>2
  <2>3. ASSUME Idle PROVE OnDiskAt(i) = {place[i]} \ {Nowhere}
    <3>1. i \in Settled
      BY <2>3, NoWrites DEF Idle, Good, IInv
    <3> QED BY <3>1, SettledOnDisk
  <2> QED BY <2>2, <2>3, AtMostOne
<1> QED BY <1>1, Reachable, PTL

(* As long as a directory on the disk points to an unspoiled item its      *)
(* clusters are allocated: nobody else's data appears in it.               *)
THEOREM ClustersKept == Spec => []NoDangling
<1>1. IInv => NoDangling
  <2> SUFFICES ASSUME IInv, NEW i \in Items \ spoiled, OnDiskAt(i) # {}
               PROVE  i \in used
    BY DEF NoDangling
  <2>1. CASE i \in Settled
    <3>1. place[i] # Nowhere
      BY <2>1, SettledOnDisk
    <3> QED BY <2>1, <3>1 DEF IInv, SettledInv
  <2>2. CASE i = call.item
    BY <2>2, MovingOnDisk DEF Good
  <2> QED BY <2>1, <2>2 DEF Settled, Good
<1> QED BY <1>1, Reachable, PTL

(* "Item already exists!": no two entries of a directory on the disk ever  *)
(* have one name but a name the client has mixed up, whatever else is      *)
(* spoiled, stale or has failed.                                           *)
THEOREM NamesDiffer == Spec => []NamesUnique
<1>1. IInv => NamesUnique
  <2> SUFFICES ASSUME IInv, NEW d \in Dirs, NEW e \in disk[d], NEW f \in disk[d],
                      e # f, e.name = f.name
               PROVE  e.name \in clashed
    BY DEF NamesUnique
  <2>1. e.name \in Names
    BY Entries DEF IInv, TypeInv, TypeOK
  <2> QED BY <2>1 DEF IInv, NamesInv, UniqueIn, Clear
<1> QED BY <1>1, Reachable, PTL

(* What a deleted folder held is deleted before it: between two calls the  *)
(* folder of every unspoiled item is in place too.                         *)
THEOREM FoldersReached == Spec => []Rooted
<1>1. IInv => Rooted
  BY NoWrites DEF IInv, Rooted, SettledInv, Idle, Good
<1> QED BY <1>1, Reachable, PTL
=============================================================================
