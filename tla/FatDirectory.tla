---------------------------- MODULE FatDirectory ----------------------------
(***************************************************************************)
(* The directories of a FAT32 volume (libaums, fs/fat32/FatDirectory.java  *)
(* with FatFile's setName, moveTo, delete and flush).                      *)
(*                                                                         *)
(* Every search or list makes new handles, so two handles may stand for    *)
(* one directory.  A handle reads the entries at its first use and then    *)
(* works on its own copy; a call changes copies first and then writes each *)
(* directory it changed as a whole.  An action is a call up to its first   *)
(* write, or one write; any write may fail and the device may be unplugged *)
(* between two of them.                                                    *)
(*                                                                         *)
(* An item is a file or a directory, known by its start cluster.  A        *)
(* directory fits into one cluster, the volume has a label (the root is    *)
(* never written empty) and short names are left out.                      *)
(***************************************************************************)
EXTENDS Naturals, Sequences, FiniteSets

CONSTANTS
    Files, Folders,   \* the items: files, and directories but the root
    Root,
    Names,            \* a name stands for its spellings in any case
    Handles, RootHandle,
    MaxSpoiled,       \* bound: items spoiled and names mixed up when a client
                      \* makes another call
    MaxStrays,        \* bound: objects of moved items the client keeps
    NoItem, Nowhere, NoHandle, Closed

Items == Files \cup Folders
Dirs == Folders \cup {Root}
Entry == [item : Items, name : Names]
Places == Dirs \X Names

ASSUME ItemAssumption ==
    /\ Files \cap Folders = {} /\ Root \notin Items /\ NoItem \notin Items
    /\ Closed \notin Dirs /\ Nowhere \notin Places
ASSUME HandleAssumption == RootHandle \in Handles /\ NoHandle \notin Handles
ASSUME BoundAssumption == MaxSpoiled \in Nat /\ MaxStrays \in Nat

VARIABLES
    disk,       \* the entries in the clusters of each directory
    used,       \* the items whose clusters are allocated
    dir,        \* the directory of each handle, Closed if there is none
    parent,     \* FatDirectory.parent
    inited,     \* hasBeenInited
    entries,    \* FatDirectory.entries, without "." and ".."
    lfnMap,     \* the keys of FatDirectory.lfnMap
    call,       \* the call in progress: its item, the item's new place, the
                \* handles to write, and the moved or new directory's handle
    deleting,   \* the handles of the directories in recursive deletes
    place,      \* history: where the calls that returned left each item
    spoiled,    \* history: the items a call has thrown on, or a mistake of
                \* the client has hit (see Properties)
    clashed,    \* history: the names its mistakes have mixed up
    strays      \* history: the handles and items of the objects whose entry
                \* a move through another object took out of the list

diskVars == <<disk, used>>
handleVars == <<dir, parent, inited, entries, lfnMap>>
historyVars == <<place, spoiled, clashed, strays>>
vars == <<diskVars, handleVars, call, deleting, historyVars>>

NoCall ==
    [item |-> NoItem, place |-> Nowhere, writes |-> <<>>, handle |-> NoHandle]

Keys(es) == {e.name : e \in es}
EntriesOf(i, es) == {e \in es : e.item = i}
Ent(i, n) == [item |-> i, name |-> n]

-----------------------------------------------------------------------------
(* A volume with at least one folder next to the root.                     *)

Init ==
    /\ \E d \in Folders, n \in Names :
         /\ disk = [x \in Dirs |->
                       IF x = Root THEN {Ent(d, n)} ELSE {}]
         /\ used = {d}
         /\ place = [i \in Items |-> IF i = d THEN <<Root, n>> ELSE Nowhere]
    /\ dir = [h \in Handles |-> IF h = RootHandle THEN Root ELSE Closed]
    /\ parent = [h \in Handles |-> NoHandle]
    /\ inited = [h \in Handles |-> h = RootHandle]
    /\ entries = [h \in Handles |-> IF h = RootHandle THEN disk[Root] ELSE {}]
    /\ lfnMap = [h \in Handles |-> Keys(entries[h])]
    /\ call = NoCall /\ deleting = <<>>
    /\ spoiled = {} /\ clashed = {} /\ strays = {}

-----------------------------------------------------------------------------
(* Handles                                                                 *)

Idle == call = NoCall /\ deleting = <<>>

(* The client has a handle of this directory, which it has not deleted and *)
(* nothing has spoiled.                                                    *)
Usable(h) ==
    /\ dir[h] # Closed /\ dir[h] \notin spoiled
    /\ dir[h] # Root => place[dir[h]] # Nowhere
    /\ Cardinality(spoiled) + Cardinality(clashed) <= MaxSpoiled

(* The entries and keys of a handle after init(): read at the first use.   *)
Listed(h) == IF inited[h] THEN entries[h] ELSE disk[dir[h]]

(* Mistake: the entries read from the disk are not put into the map.       *)
KeysUnread(h) == lfnMap[h]

KeysOf(h) == IF inited[h] THEN lfnMap[h] ELSE Keys(disk[dir[h]])

(* The items under i, itself included: the least set that holds i and,     *)
(* with a folder, what is in it.                                           *)
Under(i) ==
    LET sets == {S \in SUBSET Items :
                    /\ i \in S
                    /\ \A j \in Items :
                         place[j] # Nowhere /\ place[j][1] \in S => j \in S}
    IN  {j \in Items : \A S \in sets : j \in S}

(* Items on which a handle and the disk disagree: another handle of the    *)
(* directory has written since this one read, or a call has failed.        *)
Stale(h) ==
    IF ~inited[h] THEN {}
    ELSE LET now == disk[dir[h]]
         IN  {e.item : e \in (entries[h] \ now) \cup (now \ entries[h])}

(* A name that a handle does not know to be taken, as it has not read the  *)
(* entries yet.                                                            *)
Overlooked(h, n) == IF inited[h] THEN {} ELSE {n} \cap Keys(Listed(h))

Clash(names) == clashed' = clashed \cup names

(* What a call on the handles hs spoils: what it writes from a stale list, *)
(* and the items others, each with all that is under it.                   *)
Spoil(hs, others) ==
    spoiled' = spoiled \cup UNION {Under(i) :
                   i \in others \cup UNION {Stale(h) : h \in hs}}

(* search or list: a new handle of a folder that is in a listed one.       *)
Open(p, h) ==
    /\ Idle /\ Usable(p) /\ dir[h] = Closed
    /\ inited' = [inited EXCEPT ![p] = TRUE, ![h] = FALSE]
    /\ entries' = [entries EXCEPT ![p] = Listed(p), ![h] = {}]
    /\ lfnMap' = [lfnMap EXCEPT ![p] = KeysOf(p), ![h] = {}]
    /\ \E e \in Listed(p) : /\ e.item \in Folders \ spoiled
                            /\ dir' = [dir EXCEPT ![h] = e.item]
    /\ parent' = [parent EXCEPT ![h] = p]
    /\ UNCHANGED <<diskVars, call, deleting, historyVars>>

(* list of an open handle.                                                 *)
List(h) ==
    /\ Idle /\ Usable(h) /\ ~inited[h]
    /\ inited' = [inited EXCEPT ![h] = TRUE]
    /\ entries' = [entries EXCEPT ![h] = Listed(h)]
    /\ lfnMap' = [lfnMap EXCEPT ![h] = KeysOf(h)]
    /\ UNCHANGED <<diskVars, dir, parent, call, deleting, historyVars>>

(* A handle that another one has as its parent, or a call works with.      *)
Referred(h) ==
    \/ \E x \in Handles : dir[x] # Closed /\ parent[x] = h
    \/ \E k \in DOMAIN deleting : deleting[k] = h

(* Handles nobody refers to any more.                                      *)
Forget(hs) ==
    /\ dir' = [h \in Handles |-> IF h \in hs THEN Closed ELSE dir[h]]
    /\ parent' = [h \in Handles |-> IF h \in hs THEN NoHandle ELSE parent[h]]
    /\ inited' = [h \in Handles |-> h \notin hs /\ inited[h]]
    /\ entries' = [h \in Handles |-> IF h \in hs THEN {} ELSE entries[h]]
    /\ lfnMap' = [h \in Handles |-> IF h \in hs THEN {} ELSE lfnMap[h]]

(* The client may keep these objects besides the old ones it has, as long  *)
(* as their directories are open and their items are not deleted.          *)
StraysAnd(more) ==
    \E new \in {{}, more} :
        /\ strays' = {o \in strays \cup new :
                        dir'[o[1]] # Closed /\ place'[o[2]] # Nowhere}
        /\ Cardinality(strays') <= MaxStrays

(* The client drops a handle.                                              *)
Drop(h) ==
    /\ Idle /\ h # RootHandle /\ dir[h] # Closed /\ ~Referred(h)
    /\ Forget({h})
    /\ UNCHANGED <<diskVars, call, deleting, place, spoiled, clashed>>
    /\ StraysAnd({})

-----------------------------------------------------------------------------
(* The calls, up to their first write                                      *)

Begin(i, to, hs, x) ==
    call' = [item |-> i, place |-> to, writes |-> hs, handle |-> x]

(* Mistake: removeEntry leaves the name in the map.                        *)
KeysKept(h, n) == lfnMap[h]

(* removeEntry's effect on the map.                                        *)
KeysWithout(h, n) == lfnMap[h] \ {n}

(* "Item already exists!"                                                  *)
Taken(h, n) == n \in lfnMap[h]

(* addEntry after init().                                                  *)
With(h, i, n) == Listed(h) \cup {Ent(i, n)}

(* createFile; the name is looked up before init() has read the entries.   *)
CreateFile(h, n, i) ==
    /\ Idle /\ Usable(h) /\ ~Taken(h, n)
    /\ i \in Files \ (used \cup spoiled)
    /\ used' = used \cup {i}
    /\ inited' = [inited EXCEPT ![h] = TRUE]
    /\ entries' = [entries EXCEPT ![h] = With(h, i, n)]
    /\ lfnMap' = [lfnMap EXCEPT ![h] = KeysOf(h) \cup {n}]
    /\ Begin(i, <<dir[h], n>>, <<h>>, NoHandle)
    /\ Spoil({h}, {}) /\ Clash(Overlooked(h, n))
    /\ UNCHANGED <<disk, dir, parent, deleting, place, strays>>

(* createDirectory writes the parent, then the new, empty directory.       *)
CreateDirectory(h, n, i, x) ==
    /\ Idle /\ Usable(h) /\ ~Taken(h, n) /\ dir[x] = Closed
    /\ i \in Folders \ (used \cup spoiled)
    /\ used' = used \cup {i}
    /\ dir' = [dir EXCEPT ![x] = i]
    /\ parent' = [parent EXCEPT ![x] = h]
    /\ inited' = [inited EXCEPT ![h] = TRUE, ![x] = TRUE]
    /\ entries' = [entries EXCEPT
                      ![h] = With(h, i, n), ![x] = {}]
    /\ lfnMap' = [lfnMap EXCEPT ![h] = KeysOf(h) \cup {n}, ![x] = {}]
    /\ Begin(i, <<dir[h], n>>, <<h, x>>, NoHandle)
    /\ Spoil({h}, {}) /\ Clash(Overlooked(h, n))
    /\ UNCHANGED <<disk, deleting, place, strays>>

(* The client has an object of item i from a listing through p, whose list *)
(* may have lost the entry since.                                          *)
Has(p, i) ==
    /\ Idle /\ Usable(p) /\ i \notin spoiled
    /\ EntriesOf(i, entries[p]) # {} \/ <<p, i>> \in strays

(* What p's list holds of the entry, with name n, of an object of item i:  *)
(* nothing if another object has moved it away.  The list may by now hold  *)
(* another entry of the item, and the object keep a name the item had.     *)
Held(p, i, n) ==
    {es \in SUBSET {Ent(i, n)} :
        es \subseteq entries[p] /\ (es = {} => <<p, i>> \in strays)}

(* The lists a moved entry may be in; they share it with its objects.      *)
Sharing(p, i, n, held) ==
    {{}} \cup {{q} : q \in {x \in Handles \ {p} :
                              held = {} /\ Ent(i, n) \in entries[x]}}

(* What a call spoils and mixes up through an object p no longer lists:    *)
(* its entry gets into two lists, and the name's key goes, whoever has it. *)
Missed(i, held) == IF held = {} THEN {i} ELSE {}
MissedNames(names, held) == IF held = {} THEN names ELSE {}

(* renameEntry does not look whether the new name is taken.                *)
Rename(p, n) ==
    \E i \in Items, m \in Names \ {n} : \E held \in Held(p, i, m) :
    \E qs \in Sharing(p, i, m, held) :
        /\ Has(p, i)
        /\ entries' = [h \in Handles |->
              CASE h = p -> (entries[p] \ held) \cup {Ent(i, n)}
                [] h \in qs -> (entries[h] \ {Ent(i, m)}) \cup {Ent(i, n)}
                [] OTHER -> entries[h]]
        /\ lfnMap' = [lfnMap EXCEPT ![p] = KeysWithout(p, m) \cup {n}]
        /\ Begin(i, <<dir[p], n>>, <<p>>, NoHandle)
        /\ Spoil({p}, Missed(i, held))
        /\ Clash(({n} \cap Keys(entries[p])) \cup MissedNames({m, n}, held))
        /\ UNCHANGED <<diskVars, dir, parent, inited, deleting, place, strays>>

(* The handles the call moveTo may be made on: a folder's own handle, none *)
(* for a file.                                                             *)
MoveHandles(p, i) ==
    IF i \in Files THEN {NoHandle}
    ELSE {x \in Handles : dir[x] = i /\ parent[x] = p}

(* Mistake: the destination is written first.                              *)
DestinationFirst(p, q) == <<q, p>>

(* The order of the two writes of a move.                                  *)
MoveWrites(p, q) == <<p, q>>

(* moveTo: nothing stops a directory from being moved into itself, nor the *)
(* two handles from being one directory's.                                 *)
MoveTo(p, q) ==
    \E i \in Items, n \in Names : \E held \in Held(p, i, n) :
    \E x \in MoveHandles(p, i) :
        /\ Has(p, i) /\ Usable(q) /\ ~Taken(q, n)
        /\ inited' = [h \in Handles |-> inited[h] \/ h \in {q, x}]
        /\ entries' = [h \in Handles |->
              CASE h = q -> With(q, i, n)
                [] h = p /\ h # q -> entries[p] \ held
                [] h = x /\ x \notin {p, q} -> Listed(x)
                [] OTHER -> entries[h]]
        /\ lfnMap' = [h \in Handles |->
              CASE h = q -> KeysOf(q) \cup {n}
                [] h = p /\ h # q -> KeysWithout(p, n)
                [] h = x /\ x \notin {p, q} -> KeysOf(x)
                [] OTHER -> lfnMap[h]]
        /\ Begin(i, <<dir[q], n>>, MoveWrites(p, q), x)
        /\ Spoil({p, q}, Missed(i, held) \cup
                 {j \in {i} : dir[q] = dir[p] \/ dir[q] \in Under(i)})
        /\ Clash(Overlooked(q, n) \cup MissedNames({n}, held))
        /\ UNCHANGED <<diskVars, dir, parent, deleting, place>>
        /\ StraysAnd(({p} \ {q}) \X {i})

(* FatFile.flush and close write the parent's list, whatever is in it.     *)
Flush(p) ==
    \E i \in Files, n \in Names :
        /\ Has(p, i) /\ Held(p, i, n) # {}
        /\ Begin(i, IF place[i] = Nowhere THEN <<dir[p], n>> ELSE place[i],
                 <<p>>, NoHandle)
        /\ Spoil({p}, {})
        /\ UNCHANGED <<diskVars, handleVars, deleting, place, clashed, strays>>

(* delete of a file, and of a folder once it is empty.                     *)
RemoveFrom(p, i) ==
    \E n \in Names : \E held \in Held(p, i, n) :
        /\ entries' = [entries EXCEPT ![p] = @ \ held]
        /\ lfnMap' = [lfnMap EXCEPT ![p] = KeysWithout(p, n)]
        /\ Begin(i, Nowhere, <<p>>, NoHandle)
        /\ Spoil({p}, Missed(i, held)) /\ Clash(MissedNames({n}, held))
        /\ UNCHANGED <<diskVars, dir, parent, inited, place, strays>>

DeleteFile(p) ==
    \E i \in Files : Has(p, i) /\ RemoveFrom(p, i) /\ UNCHANGED deleting

(* delete of a folder lists it and deletes what it holds, one by one.      *)
DeleteFolder(x) ==
    /\ Usable(x) /\ x # RootHandle
    /\ Has(parent[x], dir[x])
    /\ deleting' = <<x>>
    /\ inited' = [inited EXCEPT ![x] = TRUE]
    /\ entries' = [entries EXCEPT ![x] = Listed(x)]
    /\ lfnMap' = [lfnMap EXCEPT ![x] = KeysOf(x)]
    /\ Spoil({x}, {})
    /\ UNCHANGED <<diskVars, dir, parent, call, place, clashed, strays>>

Emptying(x) == deleting # <<>> /\ x = Head(deleting) /\ call = NoCall

DeleteChild(x) ==
    /\ Emptying(x)
    /\ \E i \in Files : /\ EntriesOf(i, entries[x]) # {}
                        /\ RemoveFrom(x, i) /\ UNCHANGED deleting

(* A folder in it gets a new handle.                                       *)
Descend(x, y) ==
    /\ Emptying(x) /\ dir[y] = Closed
    /\ \E e \in entries[x] :
         /\ e.item \in Folders
         /\ dir' = [dir EXCEPT ![y] = e.item]
         /\ parent' = [parent EXCEPT ![y] = x]
         /\ inited' = [inited EXCEPT ![y] = TRUE]
         /\ entries' = [entries EXCEPT ![y] = disk[e.item]]
         /\ lfnMap' = [lfnMap EXCEPT ![y] = Keys(disk[e.item])]
         /\ deleting' = <<y>> \o deleting
    /\ UNCHANGED <<diskVars, call, historyVars>>

(* Mistake: what is left in the folder is forgotten.                       *)
AscendEarly(x) ==
    /\ Emptying(x)
    /\ RemoveFrom(parent[x], dir[x])
    /\ deleting' = Tail(deleting)

(* The folder itself, when nothing is left in it.                          *)
Ascend(x) ==
    /\ Emptying(x) /\ entries[x] = {}
    /\ RemoveFrom(parent[x], dir[x])
    /\ deleting' = Tail(deleting)

-----------------------------------------------------------------------------
(* The transfers of a call                                                 *)

Deletes == call.item # NoItem /\ call.place = Nowhere
Writes == IF call.writes = <<>> THEN disk
          ELSE LET h == Head(call.writes)
               IN  [disk EXCEPT ![dir[h]] = entries[h]]

Returned == call' = NoCall /\ place' = [place EXCEPT ![call.item] = call.place]

(* write() stores the entries of one directory; after the last one the     *)
(* call returns, unless it is a delete.                                    *)
Write ==
    /\ call.writes # <<>>
    /\ disk' = Writes
    /\ IF Len(call.writes) > 1 \/ Deletes
         THEN /\ call' = [call EXCEPT !.writes = Tail(@)]
              /\ UNCHANGED <<parent, place>>
         ELSE /\ Returned
              /\ parent' = [h \in Handles |->
                   IF h = call.handle THEN Head(call.writes) ELSE parent[h]]
    /\ UNCHANGED <<used, dir, inited, entries, lfnMap, deleting>>
    /\ UNCHANGED <<spoiled, clashed, strays>>

(* Mistake: the clusters are freed before the directory is written.        *)
FreeFirst ==
    /\ Deletes
    /\ used' = used \ {call.item}
    /\ IF call.writes # <<>> THEN UNCHANGED <<handleVars, call, place>>
       ELSE Returned /\ Forget({h \in Handles : dir[h] = call.item /\ ~Referred(h)})
    /\ UNCHANGED <<disk, deleting, spoiled, clashed, strays>>

(* The last step of a delete: chain.setLength(0).                          *)
Free ==
    /\ Deletes /\ call.writes = <<>>
    /\ used' = used \ {call.item}
    /\ Returned
    /\ Forget({h \in Handles : dir[h] = call.item /\ ~Referred(h)})
    /\ UNCHANGED <<disk, deleting, spoiled, clashed>>
    /\ StraysAnd({})

(* A transfer throws and may have been carried out all the same.           *)
Fail ==
    /\ call # NoCall
    /\ \/ disk' \in {disk, Writes} /\ UNCHANGED used
       \/ Deletes /\ call.writes = <<>> /\ used' = used \ {call.item}
            /\ UNCHANGED disk
    /\ call' = NoCall /\ deleting' = <<>>
    /\ spoiled' = spoiled \cup Under(call.item)
    /\ UNCHANGED <<handleVars, place, clashed, strays>>

(* The device is unplugged and mounted again: readRoot makes a new root.   *)
Remount ==
    /\ Idle
    /\ dir' = [h \in Handles |-> IF h = RootHandle THEN Root ELSE Closed]
    /\ parent' = [h \in Handles |-> NoHandle]
    /\ inited' = [h \in Handles |-> h = RootHandle]
    /\ entries' = [h \in Handles |-> IF h = RootHandle THEN disk[Root] ELSE {}]
    /\ lfnMap' = [h \in Handles |-> Keys(entries'[h])]
    /\ strays' = {}
    /\ UNCHANGED <<diskVars, call, deleting, place, spoiled, clashed>>

(* A call of the client begins between two calls.                          *)
NewCall(h) ==
    /\ Idle /\ Usable(h)
    /\ \/ List(h) \/ Flush(h) \/ DeleteFile(h) \/ DeleteFolder(h)
       \/ \E x \in Handles : Open(h, x) \/ MoveTo(h, x)
       \/ \E n \in Names : Rename(h, n) \/ \E i \in Items :
            \/ CreateFile(h, n, i)
            \/ \E x \in Handles : CreateDirectory(h, n, i, x)

Next ==
    \/ \E h \in Handles :
         \/ NewCall(h) \/ Drop(h) \/ DeleteChild(h) \/ Ascend(h)
         \/ \E x \in Handles : Descend(h, x)
    \/ Write \/ Free \/ Fail \/ Remount

Spec == Init /\ [][Next]_vars

-----------------------------------------------------------------------------
(* Properties.  An item is spoiled by a call that throws, and by a client  *)
(* that writes through a handle that is no longer up to date, moves a      *)
(* folder into itself or an item within its directory, or makes a call     *)
(* through an object of the item whose entry another object has moved      *)
(* away.  A name is mixed up by a rename onto it, by a create or move      *)
(* through a handle that has not been listed, and by such an old object.   *)
(* What these cost is in the README; here is what every other item and     *)
(* name is promised.                                                       *)

(* Type correctness; besides, a map holds no name without an entry, which  *)
(* would make createFile refuse a name that is free, but one mixed up.     *)
TypeOK ==
    /\ disk \in [Dirs -> SUBSET Entry] /\ used \subseteq Items
    /\ dir \in [Handles -> Dirs \cup {Closed}]
    /\ parent \in [Handles -> Handles \cup {NoHandle}]
    /\ inited \in [Handles -> BOOLEAN]
    /\ entries \in [Handles -> SUBSET Entry]
    /\ lfnMap \in [Handles -> SUBSET Names]
    /\ \A h \in Handles : lfnMap[h] \ clashed \subseteq Keys(entries[h])
    /\ deleting \in Seq(Handles)
    /\ call.item \in Items \cup {NoItem}
    /\ call.place \in Places \cup {Nowhere}
    /\ call.writes \in Seq(Handles) /\ call.handle \in Handles \cup {NoHandle}
    /\ place \in [Items -> Places \cup {Nowhere}] /\ spoiled \subseteq Items
    /\ clashed \subseteq Names /\ strays \subseteq Handles \X Items

OnDiskAt(i) ==
    {p \in Places : Ent(i, p[2]) \in disk[p[1]]}

(* "write changes immediately to disk" (FatDirectory.java, line 357):      *)
(* between two calls each item is on the disk where its last call left it, *)
(* under its last name and nowhere else, whichever up to date handle and   *)
(* object it went through.                                                 *)
(* At no time do two directories on the disk hold it, not even between the *)
(* two writes of a move (lines 595 and 636).                               *)
OnePlace ==
    \A i \in Items \ spoiled :
        /\ Cardinality(OnDiskAt(i)) <= 1
        /\ Idle => OnDiskAt(i) = {place[i]} \ {Nowhere}

(* The clusters of an item are allocated as long as a directory on the     *)
(* disk points to them: before the entry is written, after it is removed.  *)
NoDangling ==
    \A i \in Items \ spoiled : OnDiskAt(i) # {} => i \in used

(* "Item already exists!" (lines 345, 367, 586 and 626): no two entries of *)
(* a directory on the disk have one name, spoiled items and out of date    *)
(* lists included, but a name the client has mixed up.                     *)
NamesUnique ==
    \A d \in Dirs : \A e, f \in disk[d] :
        e # f /\ e.name = f.name => e.name \in clashed

(* Creating throws if "a item with the same name already exists"           *)
(* (UsbFile.java, lines 196 and 208): with no call failed and no list out  *)
(* of date, the name of a new item is not one of its directory's.          *)
CreateRefusesTaken ==
    [][ spoiled' = {} /\ used' \ used # {} =>
          call'.place[2] \notin Keys(disk[call'.place[1]]) ]_vars

(* setName throws "if new name is already assigned" (UsbFile.java, line    *)
(* 69): no two entries of a directory on the disk have one name.           *)
ItemNamesDiffer ==
    \A d \in Dirs : \A e, f \in disk[d] : e # f => e.name # f.name

(* What a deleted folder held is deleted before it, so that every item can *)
(* still be reached from the root.                                         *)
Rooted ==
    Idle => \A i \in Items \ spoiled : place[i] # Nowhere =>
        place[i][1] = Root \/ place[place[i][1]] # Nowhere
=============================================================================
