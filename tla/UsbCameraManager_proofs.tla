------------------------ MODULE UsbCameraManager_proofs ------------------------
(***************************************************************************)
(* Proofs about UsbCameraManager and the monitor under it, for any devices *)
(* and any number of requests, registrations and surfaces.                 *)
(*                                                                         *)
(* The monitor's invariant has three parts besides the types: while no     *)
(* detach is pending the count and the unseen devices together are at most *)
(* the devices plugged in (CountInv); a block with a connection is in      *)
(* mCtrlBlocks (BlockInv); nothing has happened before the first register  *)
(* (FirstInv).                                                             *)
(***************************************************************************)
EXTENDS UsbCameraManager, TLAPS, FiniteSetTheorems

-----------------------------------------------------------------------------
(* What a queue holds                                                      *)

Holds(q, m) == \E i \in DOMAIN q : q[i] = m

(* A message is posted.                                                    *)
LEMMA AppendHolds ==
    ASSUME NEW S, NEW q \in Seq(S), NEW e \in S
    PROVE  /\ Append(q, e) \in Seq(S)
           /\ \A m : Holds(Append(q, e), m) <=> Holds(q, m) \/ m = e
<1>1. /\ DOMAIN Append(q, e) = DOMAIN q \cup {Len(q) + 1}
      /\ Append(q, e) \in Seq(S)
    OBVIOUS
<1>2. /\ \A i \in DOMAIN q : Append(q, e)[i] = q[i]
      /\ Append(q, e)[Len(q) + 1] = e
    OBVIOUS
<1> QED BY <1>1, <1>2, Zenon DEF Holds

(* The first message is taken.                                             *)
LEMMA TailHolds ==
    ASSUME NEW S, NEW q \in Seq(S), q # <<>>
    PROVE  /\ Tail(q) \in Seq(S) /\ Head(q) \in S
           /\ \A m : Holds(q, m) <=> Holds(Tail(q), m) \/ m = Head(q)
<1>1. /\ Tail(q) \in Seq(S) /\ Head(q) \in S
      /\ Head(q) = q[1] /\ 1 \in DOMAIN q
    OBVIOUS
<1>2. \A i \in DOMAIN Tail(q) : i + 1 \in DOMAIN q /\ Tail(q)[i] = q[i + 1]
    OBVIOUS
<1>3. \A j \in DOMAIN q : j = 1 \/ \E i \in DOMAIN Tail(q) : j = i + 1
  <2> SUFFICES ASSUME NEW j \in DOMAIN q, j # 1
               PROVE  j - 1 \in DOMAIN Tail(q) /\ j = (j - 1) + 1
      OBVIOUS
  <2> QED OBVIOUS
<1> QED BY <1>1, <1>2, <1>3, Zenon DEF Holds

-----------------------------------------------------------------------------
(* The invariant                                                           *)

Kinds == Broadcasts \cup Posts
Messages == [kind : Kinds, device : Devices]
Announcements == [kind : Broadcasts, device : Devices]
Blocks == [device : Devices, connected : BOOLEAN]

CountInv ==
    registered =>
        \/ mDeviceCounts + Cardinality(unseen) <= Cardinality(Plugged)
        \/ \E d \in Devices : DetachPending(d)

BlockInv ==
    \A b \in DOMAIN blocks :
        blocks[b].connected => mCtrlBlocks[blocks[b].device] = b

FirstInv ==
    calls.register = 0 =>
        /\ ~registered /\ blocks = <<>> /\ intents = <<>>
        /\ \A d \in Devices : /\ ~Holds(queue, Message("connect", d))
                              /\ ~Holds(queue, Message("granted", d))

MonitorInv == MonitorTypeOK /\ CountInv /\ BlockInv /\ GoneClosed /\ FirstInv

-----------------------------------------------------------------------------
(* Messages and queues                                                     *)

(* A message is made of its kind and its device.                           *)
LEMMA MessageFields ==
    /\ \A k, d : Message(k, d).kind = k /\ Message(k, d).device = d
    /\ \A k \in Kinds : \A d \in Devices : Message(k, d) \in Messages
    /\ \A k \in Broadcasts : \A d \in Devices : Message(k, d) \in Announcements
BY DEF Message, Messages, Announcements

(* A detach is pending in one of the two queues.                           *)
LEMMA PendingHolds ==
    /\ \A d : DetachPending(d) <=> \/ Holds(intents, Message("detached", d))
                                   \/ Holds(queue, Message("detached", d))
    /\ \A d : DetachPending(d)' <=> \/ Holds(intents', Message("detached", d))
                                    \/ Holds(queue', Message("detached", d))
BY DEF DetachPending, Holds

(* What the invariant says of the queues, in the names used here.          *)
LEMMA QueuesTyped ==
    ASSUME MonitorTypeOK
    PROVE  intents \in Seq(Announcements) /\ queue \in Seq(Messages)
BY DEF MonitorTypeOK, Messages, Announcements, Kinds

(* A broadcast is sent.                                                    *)
LEMMA Sent ==
    ASSUME MonitorTypeOK, NEW k \in Broadcasts, NEW d \in Devices,
           Broadcast(k, d)
    PROVE  /\ intents' \in Seq(Announcements)
           /\ \A m : Holds(intents, m) => Holds(intents', m)
           /\ registered => Holds(intents', Message(k, d))
           /\ ~registered => intents' = intents
<1>1. intents \in Seq(Announcements) /\ Message(k, d) \in Announcements
    BY QueuesTyped, MessageFields
<1>2. CASE registered
    BY <1>1, <1>2, AppendHolds DEF Broadcast
<1>3. CASE ~registered
    BY <1>1, <1>3 DEF Broadcast
<1> QED BY <1>2, <1>3

(* The first message of the main thread is taken.                          *)
LEMMA Taken ==
    ASSUME MonitorTypeOK, NEW k, Comes(k)
    PROVE  /\ Tail(queue) \in Seq(Messages)
           /\ Device \in Devices
           /\ Head(queue) = Message(k, Device)
           /\ \A m : Holds(queue, m) <=>
                       Holds(Tail(queue), m) \/ m = Message(k, Device)
<1>1. queue \in Seq(Messages) /\ queue # <<>> /\ Head(queue).kind = k
    BY QueuesTyped DEF Comes
<1>2. /\ Tail(queue) \in Seq(Messages) /\ Head(queue) \in Messages
      /\ \A m : Holds(queue, m) <=> Holds(Tail(queue), m) \/ m = Head(queue)
    BY <1>1, TailHolds
<1>3. Head(queue) = Message(k, Device) /\ Device \in Devices
    BY <1>1, <1>2 DEF Messages, Message, Device
<1> QED BY <1>2, <1>3

(* A message is posted behind those that wait.                             *)
LEMMA Posted ==
    ASSUME NEW q \in Seq(Messages), NEW k \in Kinds, NEW d \in Devices
    PROVE  /\ Append(q, Message(k, d)) \in Seq(Messages)
           /\ \A m : Holds(Append(q, Message(k, d)), m) <=>
                       Holds(q, m) \/ m = Message(k, d)
<1>1. Message(k, d) \in Messages
    BY MessageFields
<1> QED BY <1>1, AppendHolds

(* What the invariant says of the blocks.                                  *)
LEMMA BlocksTyped ==
    ASSUME MonitorTypeOK
    PROVE  /\ blocks \in Seq(Blocks) /\ Len(blocks) \in Nat
           /\ DOMAIN blocks = 1..Len(blocks)
           /\ \A b \in DOMAIN blocks : /\ blocks[b] \in Blocks
                                       /\ blocks[b].device \in Devices
<1>1. blocks \in Seq(Blocks)
    BY DEF MonitorTypeOK, Blocks
<1>2. /\ Len(blocks) \in Nat /\ DOMAIN blocks = 1..Len(blocks)
      /\ \A b \in 1..Len(blocks) : blocks[b] \in Blocks
    BY <1>1
<1>3. \A x \in Blocks : x.device \in Devices
    BY DEF Blocks
<1> QED BY <1>1, <1>2, <1>3

(* Counting a call.                                                        *)
LEMMA CallCounted ==
    ASSUME MonitorTypeOK
    PROVE  /\ calls.request \in Nat /\ calls.register \in Nat
           /\ calls.request < MaxRequests =>
                LET c == [calls EXCEPT !.request = @ + 1]
                IN  /\ c \in [request : 0..MaxRequests, register : 0..MaxRegisters]
                    /\ c.register = calls.register
           /\ calls.register < MaxRegisters =>
                LET c == [calls EXCEPT !.register = @ + 1]
                IN  /\ c \in [request : 0..MaxRequests, register : 0..MaxRegisters]
                    /\ c.register = calls.register + 1
<1>1. calls \in [request : 0..MaxRequests, register : 0..MaxRegisters]
    BY DEF MonitorTypeOK
<1>2. MaxRequests \in Nat /\ MaxRegisters \in Nat
    BY MonitorAssumption DEF MonitorAssumption
<1>3. calls.request \in 0..MaxRequests /\ calls.register \in 0..MaxRegisters
    BY <1>1
<1>4. calls.request < MaxRequests => calls.request + 1 \in 0..MaxRequests
    BY <1>2, <1>3
<1>5. calls.register < MaxRegisters => calls.register + 1 \in 0..MaxRegisters
    BY <1>2, <1>3
<1> QED BY <1>1, <1>2, <1>3, <1>4, <1>5

-----------------------------------------------------------------------------
(* The devices that are plugged in                                         *)

(* They are finitely many, and so are those nobody was told of.            *)
LEMMA PluggedFinite ==
    ASSUME MonitorTypeOK
    PROVE  /\ IsFiniteSet(Plugged) /\ IsFiniteSet(unseen)
           /\ Cardinality(Plugged) \in Nat /\ Cardinality(unseen) \in Nat
           /\ Cardinality(unseen) <= Cardinality(Plugged)
           /\ Cardinality(Plugged) <= Cardinality(Devices)
           /\ Cardinality(Devices) \in Nat
<1>1. Plugged \subseteq Devices /\ unseen \subseteq Plugged
    BY DEF MonitorTypeOK, Plugged
<1>2. IsFiniteSet(Devices)
    BY MonitorAssumption DEF MonitorAssumption
<1>3. IsFiniteSet(Plugged) /\ Cardinality(Plugged) <= Cardinality(Devices)
    BY <1>1, <1>2, FS_Subset
<1>4. IsFiniteSet(unseen) /\ Cardinality(unseen) <= Cardinality(Plugged)
    BY <1>1, <1>3, FS_Subset
<1> QED BY <1>2, <1>3, <1>4, FS_CardinalityType

-----------------------------------------------------------------------------
(* The monitor's steps                                                     *)

(* At the start nothing is plugged in and the queues are empty.            *)
LEMMA MonitorInvInit == MonitorInit => MonitorInv
<1> SUFFICES ASSUME MonitorInit PROVE MonitorInv
    OBVIOUS
<1> USE MonitorAssumption DEF MonitorInit, MonitorAssumption
<1>1. Cardinality(Devices) \in Nat
    BY FS_CardinalityType
<1>2. MonitorTypeOK
  <2>1. Len(blocks) = 0 /\ mCtrlBlocks \in [Devices -> 0..Len(blocks)]
      OBVIOUS
  <2>2. calls \in [request : 0..MaxRequests, register : 0..MaxRegisters]
      OBVIOUS
  <2>3. /\ intents \in Seq([kind : Broadcasts, device : Devices])
        /\ queue \in Seq([kind : Broadcasts \cup Posts, device : Devices])
        /\ blocks \in Seq([device : Devices, connected : BOOLEAN])
      OBVIOUS
  <2> HIDE DEF MonitorInit
  <2>4. /\ place \in [Devices -> {"new", "plugged", "gone"}]
        /\ permitted = {} /\ asked = {} /\ unseen = {}
        /\ registered \in BOOLEAN
      BY DEF MonitorInit
  <2>5. mDeviceCounts \in 0..Cardinality(Devices)
      BY <1>1 DEF MonitorInit
  <2> QED BY <2>1, <2>2, <2>3, <2>4, <2>5 DEF MonitorTypeOK
<1>3. \A m : ~Holds(queue, m)
    BY DEF Holds
<1> QED
    BY <1>2, <1>3 DEF MonitorInv, CountInv, BlockInv, GoneClosed, FirstInv

(* A device is plugged in: it counts on both sides of CountInv.            *)
LEMMA InvPlug ==
    ASSUME MonitorInv, NEW d \in Devices, Plug(d)
    PROVE  MonitorInv'
<1> USE DEF MonitorInv, Plug
<1>1. Plugged' = Plugged \cup {d} /\ d \notin Plugged
    BY DEF Plugged, MonitorTypeOK
<1>2. unseen' = unseen \cup {d} /\ d \notin unseen
    BY <1>1 DEF MonitorTypeOK
<1>3. MonitorTypeOK'
    BY <1>1, <1>2 DEF MonitorTypeOK
<1>4. \A e : DetachPending(e)' <=> DetachPending(e)
    BY PendingHolds
<1>5. /\ Cardinality(Plugged') = Cardinality(Plugged) + 1
      /\ Cardinality(unseen') = Cardinality(unseen) + 1
    BY <1>1, <1>2, PluggedFinite, FS_AddElement
<1>6. CountInv'
    BY <1>4, <1>5, PluggedFinite DEF CountInv, MonitorTypeOK
<1>7. BlockInv' /\ FirstInv'
    BY DEF BlockInv, FirstInv
<1>8. GoneClosed'
  <2>1. place' = [place EXCEPT ![d] = "plugged"] /\ blocks' = blocks
      OBVIOUS
  <2>2. \A e \in Devices : place'[e] = "gone" => place[e] = "gone"
      BY <2>1 DEF MonitorTypeOK
  <2> QED BY <1>4, <2>1, <2>2, BlocksTyped DEF GoneClosed
<1> QED BY <1>3, <1>6, <1>7, <1>8

(* A device goes: its detach is sent if anybody listens.                   *)
LEMMA InvUnplug ==
    ASSUME MonitorInv, NEW d \in Devices, Unplug(d)
    PROVE  MonitorInv'
<1> USE DEF MonitorInv, Unplug
<1>1. Plugged' = Plugged \ {d}
    BY DEF Plugged, MonitorTypeOK
<1>2. /\ intents' \in Seq(Announcements)
      /\ \A m : Holds(intents, m) => Holds(intents', m)
      /\ registered => Holds(intents', Message("detached", d))
      /\ ~registered => intents' = intents
    BY Sent DEF Broadcasts
<1>3. MonitorTypeOK'
    BY <1>1, <1>2 DEF MonitorTypeOK, Announcements
<1>4. /\ \A e : DetachPending(e) => DetachPending(e)'
      /\ registered => DetachPending(d)'
    BY <1>2, PendingHolds
<1>5. CountInv'
    BY <1>4 DEF CountInv
<1>6. BlockInv' /\ FirstInv'
    BY <1>2 DEF BlockInv, FirstInv
<1>7. GoneClosed'
  <2>1. place' = [place EXCEPT ![d] = "gone"] /\ blocks' = blocks
      OBVIOUS
  <2>2. \A e \in Devices : place'[e] = "gone" => place[e] = "gone" \/ e = d
      BY <2>1 DEF MonitorTypeOK
  <2> QED BY <1>4, <2>1, <2>2, BlocksTyped DEF GoneClosed
<1> QED BY <1>3, <1>5, <1>6, <1>7

(* Steps that change none of the devices, counts and blocks, and lose no   *)
(* detach.                                                                 *)
LEMMA InvQueues ==
    ASSUME MonitorInv,
           UNCHANGED <<place, registered, mDeviceCounts, blocks, mCtrlBlocks,
                       unseen>>,
           MonitorTypeOK', calls'.register = calls.register, FirstInv',
           \A e \in Devices : DetachPending(e) => DetachPending(e)'
    PROVE  MonitorInv'
<1> USE DEF MonitorInv
<1>1. CountInv'
    BY DEF CountInv, Plugged
<1>2. BlockInv'
    BY DEF BlockInv
<1>3. GoneClosed'
  <2>1. \A b \in DOMAIN blocks : blocks[b].device \in Devices
      BY BlocksTyped
  <2> QED BY <2>1 DEF GoneClosed
<1> QED BY <1>1, <1>2, <1>3

(* The user answers.                                                       *)
LEMMA InvAnswer ==
    ASSUME MonitorInv, NEW d \in Devices, Answer(d)
    PROVE  MonitorInv'
<1> USE DEF MonitorInv, Answer
<1>0. PICK k \in {"granted", "denied"} : Broadcast(k, d)
    OBVIOUS
<1>1. /\ intents' \in Seq(Announcements)
      /\ \A m : Holds(intents, m) => Holds(intents', m)
      /\ ~registered => intents' = intents
    BY <1>0, Sent DEF Broadcasts
<1>2. MonitorTypeOK'
    BY <1>1 DEF MonitorTypeOK, Announcements, Plugged
<1>3. \A e : DetachPending(e) => DetachPending(e)'
    BY <1>1, PendingHolds
<1>4. FirstInv'
    BY <1>1 DEF FirstInv
<1> QED BY <1>2, <1>3, <1>4, InvQueues

(* A broadcast reaches the main thread.                                    *)
LEMMA InvDeliver ==
    ASSUME MonitorInv, Deliver
    PROVE  MonitorInv'
<1> USE DEF MonitorInv, Deliver
<1>1. intents \in Seq(Announcements) /\ queue \in Seq(Messages)
    BY QueuesTyped
<1>2. /\ intents' \in Seq(Announcements) /\ Head(intents) \in Announcements
      /\ \A m : Holds(intents, m) <=> Holds(intents', m) \/ m = Head(intents)
    BY <1>1, TailHolds
<1>3. Head(intents) \in Messages
    BY <1>2 DEF Announcements, Messages, Kinds
<1>4. /\ queue' \in Seq(Messages)
      /\ \A m : Holds(queue', m) <=> Holds(queue, m) \/ m = Head(intents)
    BY <1>1, <1>3, AppendHolds
<1>5. MonitorTypeOK'
    BY <1>2, <1>4 DEF MonitorTypeOK, Announcements, Messages, Kinds, Plugged
<1>6. \A e : DetachPending(e) => DetachPending(e)'
    BY <1>2, <1>4, PendingHolds
<1>7. FirstInv'
    BY DEF FirstInv
<1> QED BY <1>5, <1>6, <1>7, InvQueues

(* The first register, and any later one, starts counting at 0.            *)
LEMMA InvRegister ==
    ASSUME MonitorInv, Register
    PROVE  MonitorInv'
<1> USE DEF MonitorInv, Register
<1>1. MonitorTypeOK'
  <2>1. mDeviceCounts' \in 0..Cardinality(Devices) /\ registered' \in BOOLEAN
      BY PluggedFinite
  <2>2. calls' \in [request : 0..MaxRequests, register : 0..MaxRegisters]
      BY CallCounted
  <2> QED BY <2>1, <2>2 DEF MonitorTypeOK, Plugged
<1>2. CountInv'
    BY PluggedFinite DEF CountInv, Plugged
<1>3. calls'.register = calls.register + 1 /\ calls.register \in Nat
    BY CallCounted
<1>4. BlockInv' /\ FirstInv'
    BY <1>3 DEF BlockInv, FirstInv
<1>5. GoneClosed'
    BY <1>3 DEF GoneClosed, FirstInv
<1> QED BY <1>1, <1>2, <1>4, <1>5

(* Nobody listens any more: what waits in the queue loses its receiver.    *)
LEMMA Forgotten ==
    ASSUME MonitorInv, ForgetReceiver
    PROVE  /\ queue' \in Seq(Messages) /\ intents' \in Seq(Announcements)
           /\ \A d \in Devices : \A k \in {"connect", "granted"} :
                Holds(queue', Message(k, d)) => Holds(queue, Message(k, d))
<1> USE DEF MonitorInv, ForgetReceiver
<1>1. queue \in Seq(Messages) /\ DOMAIN queue = 1..Len(queue)
      /\ Len(queue) \in Nat
    BY QueuesTyped
<1>2. \A m \in Messages : Unheard(m) \in Messages
    BY DEF Unheard, Messages, Message, Kinds, Posts
<1>3. \A i \in 1..Len(queue) : queue[i] \in Messages
    BY <1>1
<1>4. queue' \in [1..Len(queue) -> Messages] /\ DOMAIN queue' = 1..Len(queue)
    BY <1>1, <1>2, <1>3
<1>5. queue' \in Seq(Messages)
    BY <1>1, <1>4
<1>6. ASSUME NEW d \in Devices, NEW k \in {"connect", "granted"},
             NEW i \in 1..Len(queue), queue'[i] = Message(k, d)
      PROVE  queue[i] = Message(k, d)
  <2>1. queue'[i] = Unheard(queue[i])
      BY <1>1
  <2>2. Unheard(queue[i]) # Message("forgotten", queue[i].device)
    <3>1. queue'[i].kind # "forgotten"
        BY <1>6, MessageFields
    <3> QED BY <2>1, <3>1, MessageFields
  <2> QED BY <1>6, <2>1, <2>2 DEF Unheard
<1>7. intents' \in Seq(Announcements)
    OBVIOUS
<1> QED BY <1>1, <1>4, <1>5, <1>6, <1>7 DEF Holds

(* unregister forgets the receiver.                                        *)
LEMMA InvUnregister ==
    ASSUME MonitorInv, Unregister
    PROVE  MonitorInv'
<1> USE DEF MonitorInv, Unregister
<1>1. /\ queue' \in Seq(Messages) /\ intents' = <<>>
      /\ intents' \in Seq(Announcements) /\ registered' = FALSE /\ mDeviceCounts' = 0
      /\ \A d \in Devices : \A k \in {"connect", "granted"} :
            Holds(queue', Message(k, d)) => Holds(queue, Message(k, d))
    BY Forgotten DEF ForgetReceiver
<1>2. MonitorTypeOK'
  <2>1. 0 \in 0..Cardinality(Devices)
      BY PluggedFinite
  <2>2. queue' \in Seq([kind : Broadcasts \cup Posts, device : Devices])
      BY <1>1 DEF Messages, Kinds
  <2>3. registered' \in BOOLEAN
      BY <1>1
  <2> QED
      BY <1>1, <2>1, <2>2, <2>3 DEF MonitorTypeOK, Announcements, Plugged
<1>3. CountInv' /\ BlockInv' /\ GoneClosed' /\ FirstInv'
    BY <1>1 DEF CountInv, BlockInv, GoneClosed, FirstInv
<1> QED BY <1>2, <1>3

(* Closing blocks changes nothing but their connections.                   *)
LEMMA ClosedBlocks ==
    ASSUME MonitorTypeOK, NEW bs
    PROVE  /\ Closed(bs) \in Seq(Blocks) /\ Len(Closed(bs)) = Len(blocks)
           /\ DOMAIN Closed(bs) = DOMAIN blocks
           /\ \A b \in DOMAIN blocks :
                /\ Closed(bs)[b].device = blocks[b].device
                /\ Closed(bs)[b].connected <=> blocks[b].connected /\ b \notin bs
<1>1. blocks \in Seq(Blocks) /\ DOMAIN blocks = 1..Len(blocks)
      /\ Len(blocks) \in Nat
    BY DEF MonitorTypeOK, Blocks
<1>2. \A b \in 1..Len(blocks) : blocks[b] \in Blocks
    BY <1>1
<1>3. \A b \in 1..Len(blocks) :
        /\ Closed(bs)[b] \in Blocks
        /\ Closed(bs)[b].device = blocks[b].device
        /\ Closed(bs)[b].connected <=> blocks[b].connected /\ b \notin bs
    BY <1>1, <1>2 DEF Closed, Blocks
<1>4. /\ Closed(bs) \in [1..Len(blocks) -> Blocks]
      /\ DOMAIN Closed(bs) = 1..Len(blocks)
    BY <1>1, <1>3 DEF Closed
<1>5. Closed(bs) \in Seq(Blocks) /\ Len(Closed(bs)) = Len(blocks)
    BY <1>1, <1>4
<1> QED BY <1>1, <1>3, <1>4, <1>5

(* destroy also closes every block in mCtrlBlocks.                         *)
LEMMA InvDestroy ==
    ASSUME MonitorInv, Destroy
    PROVE  MonitorInv'
<1> USE DEF MonitorInv, Destroy
<1> DEFINE all == {mCtrlBlocks[d] : d \in Devices}
<1>1. /\ queue' \in Seq(Messages) /\ intents' = <<>>
      /\ intents' \in Seq(Announcements) /\ registered' = FALSE /\ mDeviceCounts' = 0
      /\ \A d \in Devices : \A k \in {"connect", "granted"} :
            Holds(queue', Message(k, d)) => Holds(queue, Message(k, d))
    BY Forgotten DEF ForgetReceiver
<1>2. /\ blocks' \in Seq(Blocks) /\ Len(blocks') = Len(blocks)
      /\ DOMAIN blocks' = DOMAIN blocks
      /\ \A b \in DOMAIN blocks :
           /\ blocks'[b].device = blocks[b].device
           /\ blocks'[b].connected <=> blocks[b].connected /\ b \notin all
    BY ClosedBlocks
<1>3. MonitorTypeOK'
  <2>1. Len(blocks) \in Nat
      BY DEF MonitorTypeOK
  <2>2. mCtrlBlocks' \in [Devices -> 0..Len(blocks')]
      BY <1>2, <2>1
  <2>3. 0 \in 0..Cardinality(Devices)
      BY PluggedFinite
  <2>4. queue' \in Seq([kind : Broadcasts \cup Posts, device : Devices])
      BY <1>1 DEF Messages, Kinds
  <2>5. registered' \in BOOLEAN
      BY <1>1
  <2> HIDE DEF all
  <2> QED
      BY <1>1, <1>2, <2>2, <2>3, <2>4, <2>5
         DEF MonitorTypeOK, Announcements, Plugged, Blocks
<1>4. BlockInv'
  <2>1. \A b \in DOMAIN blocks : blocks[b].device \in Devices
      BY BlocksTyped
  <2> QED BY <1>2, <2>1 DEF BlockInv
<1>5. CountInv' /\ GoneClosed'
    BY <1>1 DEF CountInv, GoneClosed
<1>6. FirstInv'
  <2>1. blocks = <<>> => blocks' = <<>>
      BY <1>2 DEF Closed
  <2> QED BY <1>1, <2>1 DEF FirstInv
<1> QED BY <1>3, <1>4, <1>5, <1>6

(* requestPermission posts an answer or asks the user.                     *)
LEMMA InvRequestPermission ==
    ASSUME MonitorInv, NEW d \in Devices, RequestPermission(d)
    PROVE  MonitorInv'
<1> USE DEF MonitorInv, RequestPermission
<1>1. calls'.register = calls.register /\ calls' \in
          [request : 0..MaxRequests, register : 0..MaxRegisters]
    BY CallCounted
<1>2. queue \in Seq(Messages)
    BY QueuesTyped
<1>3. ASSUME NEW k \in {"cancel", "connect"}, Post(k, d), asked' = asked,
             k = "connect" => registered
      PROVE  MonitorInv'
  <2>1. /\ queue' \in Seq(Messages)
        /\ \A m : Holds(queue', m) <=> Holds(queue, m) \/ m = Message(k, d)
      BY <1>2, <1>3, Posted DEF Post, Kinds, Posts
  <2>2. MonitorTypeOK'
      BY <1>1, <1>3, <2>1 DEF MonitorTypeOK, Messages, Kinds, Plugged
  <2>3. \A e : DetachPending(e) => DetachPending(e)'
      BY <2>1, PendingHolds
  <2>4. FirstInv'
      BY <1>1, <1>3, <2>1, MessageFields DEF FirstInv
  <2> QED BY <1>1, <2>2, <2>3, <2>4, InvQueues
<1>4. CASE asked' = asked \cup {d} /\ UNCHANGED queue
  <2>1. MonitorTypeOK'
      BY <1>1, <1>4 DEF MonitorTypeOK, Plugged
  <2>2. \A e : DetachPending(e) => DetachPending(e)'
      BY <1>4, PendingHolds
  <2>3. FirstInv'
      BY <1>1, <1>4 DEF FirstInv
  <2> QED BY <1>1, <2>1, <2>2, <2>3, InvQueues
<1> QED BY <1>3, <1>4

(* The receiver posts a connect or a cancel for an answer.                 *)
LEMMA InvReceiveAnswer ==
    ASSUME MonitorInv, ReceiveAnswer
    PROVE  MonitorInv'
<1> USE DEF MonitorInv, ReceiveAnswer
<1>1. PICK from \in {"granted", "denied"}, to \in {"connect", "cancel"} :
          Comes(from) /\ Handled(to) /\ (to = "connect" => from = "granted")
    OBVIOUS
<1>2. /\ Tail(queue) \in Seq(Messages) /\ Device \in Devices
      /\ \A m : Holds(queue, m) <=>
                  Holds(Tail(queue), m) \/ m = Message(from, Device)
    BY <1>1, Taken
<1>3. /\ queue' \in Seq(Messages)
      /\ \A m : Holds(queue', m) <=>
                  Holds(Tail(queue), m) \/ m = Message(to, Device)
  <2>1. to \in Kinds
      BY DEF Kinds, Posts
  <2>2. queue' = Append(Tail(queue), Message(to, Device))
      BY <1>1 DEF Handled
  <2> QED BY <1>2, <2>1, <2>2, Posted
<1>4. MonitorTypeOK'
    BY <1>3 DEF MonitorTypeOK, Messages, Kinds, Plugged
<1>5. \A e : DetachPending(e) => DetachPending(e)'
    BY <1>2, <1>3, PendingHolds, MessageFields
<1>6. FirstInv'
    BY <1>1, <1>2, <1>3, MessageFields DEF FirstInv
<1> QED BY <1>4, <1>5, <1>6, InvQueues

(* A detach is handled: the count starts again, and the blocks of the      *)
(* device are closed.                                                      *)
LEMMA InvReceiveDetached ==
    ASSUME MonitorInv, ReceiveDetached
    PROVE  MonitorInv'
<1> USE DEF MonitorInv, ReceiveDetached
<1>1. /\ Tail(queue) \in Seq(Messages) /\ Device \in Devices
      /\ \A m : Holds(queue, m) <=>
                  Holds(Tail(queue), m) \/ m = Message("detached", Device)
    BY Taken
<1>2. /\ queue' \in Seq(Messages)
      /\ \A m : Holds(queue', m) <=>
                  Holds(Tail(queue), m) \/ m = Message("dettach", Device)
    BY <1>1, Posted DEF Handled, Kinds, Posts
<1>3. /\ blocks' \in Seq(Blocks) /\ Len(blocks') = Len(blocks)
      /\ DOMAIN blocks' = DOMAIN blocks
      /\ \A b \in DOMAIN blocks :
           /\ blocks'[b].device = blocks[b].device
           /\ blocks'[b].connected <=>
                blocks[b].connected /\ b # mCtrlBlocks[Device]
    BY ClosedBlocks DEF BlocksOf
<1>4. /\ mCtrlBlocks \in [Devices -> 0..Len(blocks)] /\ Len(blocks) \in Nat
      /\ \A b \in DOMAIN blocks : blocks[b].device \in Devices
    BY BlocksTyped DEF MonitorTypeOK
<1>5. /\ mCtrlBlocks' \in [Devices -> 0..Len(blocks')]
      /\ \A d \in Devices : d # Device => mCtrlBlocks'[d] = mCtrlBlocks[d]
    BY <1>1, <1>3, <1>4
<1>6. mDeviceCounts' = 0
    BY DEF CountAfterDetach
<1>7. MonitorTypeOK'
    BY <1>2, <1>3, <1>5, <1>6, PluggedFinite
       DEF MonitorTypeOK, Messages, Kinds, Plugged, Blocks
<1>8. CountInv'
    BY <1>6, PluggedFinite DEF CountInv, Plugged
<1>9. BlockInv'
    BY <1>3, <1>4, <1>5 DEF BlockInv
<1>10. \A d : d # Device /\ DetachPending(d) => DetachPending(d)'
    BY <1>1, <1>2, PendingHolds, MessageFields
<1>11. GoneClosed'
    BY <1>3, <1>4, <1>10 DEF GoneClosed, BlockInv
<1>12. FirstInv'
  <2>1. blocks = <<>> => blocks' = <<>>
      BY <1>3 DEF Closed
  <2> QED BY <1>1, <1>2, <2>1, MessageFields DEF FirstInv
<1> QED BY <1>7, <1>8, <1>9, <1>11, <1>12

(* The first message leaves the queue, and it is no detach.                *)
LEMMA TakenOther ==
    ASSUME MonitorInv, NEW k \in Kinds, k # "detached", Comes(k),
           queue' = Tail(queue), intents' = intents
    PROVE  /\ queue' \in Seq(Messages) /\ Device \in Devices
           /\ \A e : DetachPending(e) => DetachPending(e)'
           /\ \A m : Holds(queue', m) => Holds(queue, m)
           /\ Holds(queue, Message(k, Device))
<1> USE DEF MonitorInv
<1>1. /\ Tail(queue) \in Seq(Messages) /\ Device \in Devices
      /\ \A m : Holds(queue, m) <=>
                  Holds(Tail(queue), m) \/ m = Message(k, Device)
    BY Taken
<1> QED BY <1>1, PendingHolds, MessageFields

(* A connect makes a block of a device that has none, connected only if    *)
(* the device is there.                                                    *)
LEMMA InvConnect ==
    ASSUME MonitorInv, NEW b, Connect(b)
    PROVE  /\ MonitorInv' /\ b \in 1..Len(blocks')
           /\ Len(blocks) \in Nat /\ Len(blocks') \in Nat
           /\ Len(blocks) <= Len(blocks')
<1> USE DEF MonitorInv, Connect
<1>1. /\ queue' \in Seq(Messages) /\ Device \in Devices
      /\ \A e : DetachPending(e) => DetachPending(e)'
      /\ \A m : Holds(queue', m) => Holds(queue, m)
      /\ Holds(queue, Message("connect", Device))
    BY TakenOther DEF Kinds, Posts
<1>2. FirstInv' /\ calls.register # 0
    BY <1>1 DEF FirstInv
<1>3. /\ mCtrlBlocks \in [Devices -> 0..Len(blocks)] /\ Len(blocks) \in Nat
      /\ blocks \in Seq(Blocks) /\ DOMAIN blocks = 1..Len(blocks)
      /\ \A x \in DOMAIN blocks : blocks[x].device \in Devices
    BY BlocksTyped DEF MonitorTypeOK
<1>4. CASE mCtrlBlocks[Device] # 0
  <2>1. b \in 1..Len(blocks') /\ Len(blocks') = Len(blocks)
      BY <1>1, <1>3, <1>4
  <2>2. MonitorTypeOK'
      BY <1>1, <1>4 DEF MonitorTypeOK, Messages, Kinds, Plugged
  <2> QED BY <1>1, <1>2, <1>3, <1>4, <2>1, <2>2, InvQueues
<1>5. CASE mCtrlBlocks[Device] = 0
  <2> DEFINE new == [device |-> Device,
                     connected |-> place[Device] = "plugged"
                                     /\ Device \in permitted]
  <2>1. new \in Blocks /\ new.device = Device
        /\ (new.connected => place[Device] = "plugged")
      BY <1>1 DEF Blocks
  <2>2. b = Len(blocks) + 1 /\ blocks' = Append(blocks, new)
      BY <1>5
  <2>3. /\ blocks' \in Seq(Blocks) /\ Len(blocks') = b
        /\ DOMAIN blocks' = 1..b /\ blocks'[b] = new
        /\ \A x \in DOMAIN blocks : blocks'[x] = blocks[x]
    <3> HIDE DEF new, Connect, MonitorInv
    <3>1. /\ Append(blocks, new) \in Seq(Blocks)
          /\ Len(Append(blocks, new)) = Len(blocks) + 1
          /\ Append(blocks, new)[Len(blocks) + 1] = new
          /\ \A x \in 1..Len(blocks) : Append(blocks, new)[x] = blocks[x]
        BY <1>3, <2>1
    <3>2. DOMAIN Append(blocks, new) = 1..Len(blocks) + 1
        BY <1>3, <2>1
    <3> QED BY <1>3, <2>2, <3>1, <3>2
  <2>4. \A x \in DOMAIN blocks' : x \in DOMAIN blocks \/ x = b
    <3> HIDE DEF Connect
    <3> QED BY <1>3, <2>2, <2>3
  <2>5. /\ mCtrlBlocks' \in [Devices -> 0..b] /\ mCtrlBlocks'[Device] = b
        /\ \A d \in Devices : d # Device => mCtrlBlocks'[d] = mCtrlBlocks[d]
      BY <1>1, <1>3, <1>5, <2>2
  <2>6. MonitorTypeOK'
      BY <1>1, <2>3, <2>5 DEF MonitorTypeOK, Messages, Kinds, Plugged, Blocks
  <2>7. BlockInv'
    <3>1. \A x \in DOMAIN blocks : blocks[x].connected =>
              x # 0 /\ blocks[x].device # Device
        BY <1>3, <1>5 DEF BlockInv
    <3> QED BY <1>3, <2>1, <2>3, <2>4, <2>5, <3>1 DEF BlockInv
  <2>8. CountInv'
      BY <1>1 DEF CountInv, Plugged
  <2>9. GoneClosed'
    <3>1. blocks'[b].connected => place[blocks'[b].device] # "gone"
        BY <2>1, <2>3
    <3>2. UNCHANGED <<place, registered, calls>>
        OBVIOUS
    <3> HIDE DEF Connect, new
    <3> QED BY <1>1, <1>3, <2>3, <2>4, <3>1, <3>2 DEF GoneClosed
  <2>10. b \in 1..Len(blocks') /\ Len(blocks') = Len(blocks) + 1
    <3> HIDE DEF Connect, MonitorInv, new
    <3> QED BY <1>3, <2>2, <2>3
  <2> QED BY <1>3, <1>2, <2>6, <2>7, <2>8, <2>9, <2>10
<1> QED BY <1>4, <1>5

(* A message that only calls the listener.                                 *)
LEMMA InvNotify ==
    ASSUME MonitorInv, Notify
    PROVE  MonitorInv'
<1> USE DEF MonitorInv, Notify
<1>1. PICK k \in {"cancel", "dettach", "forgotten"} : Comes(k)
    OBVIOUS
<1>2. /\ queue' \in Seq(Messages)
      /\ \A e : DetachPending(e) => DetachPending(e)'
      /\ \A m : Holds(queue', m) => Holds(queue, m)
    BY <1>1, TakenOther DEF Kinds, Posts
<1>3. MonitorTypeOK'
    BY <1>2 DEF MonitorTypeOK, Messages, Kinds, Plugged
<1>4. FirstInv'
    BY <1>2 DEF FirstInv
<1> QED BY <1>2, <1>3, <1>4, InvQueues

(* The poll counts the devices plugged in.                                 *)
LEMMA InvCheckDevices ==
    ASSUME MonitorInv, CheckDevices
    PROVE  MonitorInv'
<1> USE DEF MonitorInv, CheckDevices
<1>1. Plugged' = Plugged /\ mDeviceCounts \in Nat
    BY PluggedFinite DEF Plugged, MonitorTypeOK
<1>2. \A e : DetachPending(e) <=> DetachPending(e)'
    BY PendingHolds
<1>3. MonitorTypeOK'
    BY <1>1, PluggedFinite DEF MonitorTypeOK
<1>4. CountInv'
    BY <1>1, <1>2, PluggedFinite, FS_EmptySet DEF CountInv
<1>5. BlockInv' /\ GoneClosed' /\ FirstInv'
    BY <1>2 DEF BlockInv, GoneClosed, FirstInv
<1> QED BY <1>3, <1>4, <1>5

(* Steps of the manager alone.                                             *)
LEMMA InvOthers ==
    ASSUME MonitorInv, UNCHANGED monitorVars
    PROVE  MonitorInv'
BY DEF monitorVars, MonitorInv, MonitorTypeOK, CountInv, BlockInv, GoneClosed,
       FirstInv, Plugged, DetachPending

(* Every other step of the monitor keeps the number of blocks.             *)
LEMMA InvMonitor ==
    ASSUME MonitorInv,
           \/ \E d \in Devices : \/ Plug(d) \/ Unplug(d) \/ Answer(d)
                                 \/ RequestPermission(d)
           \/ Deliver \/ Register \/ Unregister \/ Destroy
           \/ ReceiveAnswer \/ ReceiveDetached \/ Notify \/ CheckDevices
           \/ UNCHANGED monitorVars
    PROVE  MonitorInv' /\ Len(blocks') = Len(blocks)
<1>0. MonitorTypeOK
    BY DEF MonitorInv
<1>1. ASSUME NEW d \in Devices, Plug(d) PROVE MonitorInv' /\ blocks' = blocks
    BY <1>1, InvPlug DEF Plug
<1>2. ASSUME NEW d \in Devices, Unplug(d) PROVE MonitorInv' /\ blocks' = blocks
    BY <1>2, InvUnplug DEF Unplug
<1>3. ASSUME NEW d \in Devices, Answer(d) PROVE MonitorInv' /\ blocks' = blocks
    BY <1>3, InvAnswer DEF Answer
<1>4. ASSUME NEW d \in Devices, RequestPermission(d)
      PROVE  MonitorInv' /\ blocks' = blocks
    BY <1>4, InvRequestPermission DEF RequestPermission
<1>5. CASE Deliver
    BY <1>5, InvDeliver DEF Deliver
<1>6. CASE Register
    BY <1>6, InvRegister DEF Register
<1>7. CASE Unregister
    BY <1>7, InvUnregister DEF Unregister
<1>8. CASE Destroy
    BY <1>0, <1>8, InvDestroy, ClosedBlocks DEF Destroy
<1>9. CASE ReceiveAnswer
    BY <1>9, InvReceiveAnswer DEF ReceiveAnswer
<1>10. CASE ReceiveDetached
    BY <1>0, <1>10, InvReceiveDetached, ClosedBlocks DEF ReceiveDetached
<1>11. CASE Notify
    BY <1>11, InvNotify DEF Notify
<1>12. CASE CheckDevices
    BY <1>12, InvCheckDevices DEF CheckDevices
<1>13. CASE UNCHANGED monitorVars
    BY <1>13, InvOthers DEF monitorVars
<1> QED
    BY <1>1, <1>2, <1>3, <1>4, <1>5, <1>6, <1>7, <1>8, <1>9, <1>10, <1>11,
       <1>12, <1>13

-----------------------------------------------------------------------------
(* The manager's invariant                                                 *)

ManagerTypes ==
    /\ mUVCCamera \in Cameras \cup {NoCamera}
    /\ orphans \in Seq({"off", "on", "dead"})
    /\ taskAt \in {"none", "size", "test", "start"}
    /\ mainAt \in {"idle", "changed", "destroyed"}
    /\ mPreviewSurface \in BOOLEAN /\ isActive \in BOOLEAN
    /\ isPreview \in BOOLEAN
    /\ crashed \in {"none", "surfaceChanged", "destoryUVCCamera"}
    /\ surfaces \in 0..MaxSurfaces /\ overlaps \in Nat
    /\ failed \in BOOLEAN /\ raced \in BOOLEAN

TasksTyped == tasks \in Seq(1..Len(blocks))

(* While tasks wait, the cameras they will open are the ones that can      *)
(* still push an open camera out.                                          *)
OpenCameras == IF IsOpen(mUVCCamera) THEN 1 ELSE 0
OrphanInv ==
    /\ OrphansBounded
    /\ tasks # <<>> =>
          Len(orphans) + Len(tasks) + OpenCameras <= overlaps + 1

(* Between the halves of surfaceDestroyed only the task turns it on again. *)
SurfaceInv ==
    /\ NoDeadSurface
    /\ mainAt = "destroyed" /\ mUVCCamera # NoCamera
         /\ mUVCCamera.preview = "on" => raced

(* isActive is set with a camera.                                          *)
ActiveInv == CrashCause /\ (isActive /\ mUVCCamera = NoCamera => failed)

ManagerInv ==
    MonitorInv /\ ManagerTypes /\ TasksTyped /\ OrphanInv /\ SurfaceInv
      /\ ActiveInv

(* Cameras, new and changed.                                               *)
LEMMA CameraFields ==
    /\ \A n \in {"created", "open", "destroyed"} : \A p \in {"off", "on", "dead"} :
          /\ Camera(n, p) \in Cameras /\ Camera(n, p) # NoCamera
          /\ Camera(n, p).native = n /\ Camera(n, p).preview = p
    /\ \A c \in Cameras : c # NoCamera
    /\ \A c \in Cameras : \A p \in {"off", "on", "dead"} :
          /\ [c EXCEPT !.preview = p] \in Cameras
          /\ [c EXCEPT !.preview = p] # NoCamera
          /\ [c EXCEPT !.preview = p].native = c.native
          /\ [c EXCEPT !.preview = p].preview = p
BY SurfacesAssumption DEF SurfacesAssumption, Camera, Cameras

(* startPreview leaves the camera, or an open one with its preview on.     *)
LEMMA Started ==
    ASSUME ManagerTypes, mUVCCamera' \in MayStart(mUVCCamera, mPreviewSurface)
    PROVE  /\ mUVCCamera' \in Cameras \cup {NoCamera}
           /\ (mUVCCamera' = NoCamera) <=> (mUVCCamera = NoCamera)
           /\ IsOpen(mUVCCamera') <=> IsOpen(mUVCCamera)
           /\ mUVCCamera' = mUVCCamera \/ mUVCCamera'.preview = "on"
BY CameraFields DEF ManagerTypes, MayStart, IsOpen

(* The tasks and the blocks they name, which become more.                  *)
LEMMA TasksKept ==
    ASSUME NEW s, NEW m \in Nat, NEW n \in Nat, m <= n, s \in Seq(1..m)
    PROVE  s \in Seq(1..n)
<1>1. Len(s) \in Nat /\ s \in [1..Len(s) -> 1..m]
    OBVIOUS
<1>2. 1..m \subseteq 1..n
    OBVIOUS
<1>3. s \in [1..Len(s) -> 1..n]
    BY <1>1, <1>2
<1> QED BY <1>1, <1>3

(* At the start there are no cameras.                                      *)
LEMMA ManagerInvInit == Init => ManagerInv
<1> SUFFICES ASSUME Init PROVE ManagerInv
    OBVIOUS
<1>1. MonitorInv
    BY MonitorInvInit DEF Init
<1>2. ManagerTypes /\ TasksTyped
  <2>1. /\ raced \in BOOLEAN /\ failed \in BOOLEAN /\ crashed = "none"
        /\ mPreviewSurface \in BOOLEAN /\ isActive \in BOOLEAN
        /\ isPreview \in BOOLEAN
      BY DEF Init
  <2>2. surfaces \in 0..MaxSurfaces /\ overlaps \in Nat
      BY SurfacesAssumption DEF Init, SurfacesAssumption
  <2>3. orphans \in Seq({"off", "on", "dead"}) /\ tasks \in Seq(1..Len(blocks))
      BY DEF Init
  <2>4. /\ mUVCCamera = NoCamera /\ taskAt = "none" /\ mainAt = "idle"
      BY DEF Init
  <2> QED BY <2>1, <2>2, <2>3, <2>4 DEF ManagerTypes, TasksTyped
<1>3. OrphanInv /\ SurfaceInv /\ ActiveInv
    BY DEF Init, OrphanInv, OrphansBounded, SurfaceInv, NoDeadSurface,
           ActiveInv, CrashCause
<1> QED BY <1>1, <1>2, <1>3 DEF ManagerInv

(* Steps of the monitor that call nothing of the manager.                  *)
LEMMA InvOutside ==
    ASSUME ManagerInv, Outside \/ DeliverNext \/ Call \/ Receive \/ Check
    PROVE  ManagerInv'
<1>1. /\ MonitorInv' /\ Len(blocks') = Len(blocks)
      /\ UNCHANGED managerVars
    BY InvMonitor DEF ManagerInv, Outside, DeliverNext, Call, Receive, Check
<1> QED
    BY <1>1 DEF ManagerInv, managerVars, ManagerTypes, TasksTyped, OrphanInv,
                OrphansBounded, OpenCameras, IsOpen, SurfaceInv, NoDeadSurface,
                ActiveInv, CrashCause

(* A connect destroys the camera in use and hands a block to a task.       *)
LEMMA InvRunConnect ==
    ASSUME ManagerInv, RunConnect
    PROVE  ManagerInv'
<1> USE DEF ManagerInv
<1>1. PICK b \in 1..Len(blocks) + 1 : Connect(b) /\ OnConnect(b)
    BY DEF RunConnect
<1>2. /\ MonitorInv' /\ b \in 1..Len(blocks')
      /\ Len(blocks) \in Nat /\ Len(blocks') \in Nat
      /\ Len(blocks) <= Len(blocks')
    BY <1>1, InvConnect
<1>3. /\ mUVCCamera' = Destroyed(mUVCCamera)
      /\ tasks' = Append(tasks, b)
      /\ overlaps' = IF tasks # <<>> THEN overlaps + 1 ELSE overlaps
      /\ UNCHANGED <<orphans, taskAt, mPreviewSurface, isActive, isPreview,
                     mainAt, crashed, surfaces, failed, raced>>
    BY <1>1 DEF OnConnect, Replaced
<1>4. /\ mUVCCamera' \in Cameras \cup {NoCamera} /\ ~IsOpen(mUVCCamera')
      /\ mUVCCamera' # NoCamera => mUVCCamera'.preview = "off"
      /\ mUVCCamera' = NoCamera <=> mUVCCamera = NoCamera
    BY <1>3, CameraFields DEF ManagerTypes, Destroyed, IsOpen
<1>5. ManagerTypes'
    BY <1>3, <1>4 DEF ManagerTypes
<1>6. tasks \in Seq(1..Len(blocks'))
    BY <1>2, TasksKept DEF TasksTyped
<1>7. /\ tasks' \in Seq(1..Len(blocks')) /\ Len(tasks') = Len(tasks) + 1
      /\ Len(tasks) \in Nat /\ (tasks = <<>> => Len(tasks) = 0)
      /\ Len(orphans) \in Nat
    BY <1>2, <1>3, <1>6 DEF ManagerTypes
<1>8. OrphanInv'
    BY <1>3, <1>4, <1>7
       DEF OrphanInv, OrphansBounded, OpenCameras, ManagerTypes
<1>9. SurfaceInv' /\ ActiveInv'
    BY <1>3, <1>4 DEF SurfaceInv, NoDeadSurface, ActiveInv, CrashCause
<1> QED BY <1>2, <1>5, <1>7, <1>8, <1>9 DEF TasksTyped

(* A step that leaves monitor, tasks and orphans alone, and opens no       *)
(* camera.                                                                 *)
LEMMA InvCamera ==
    ASSUME ManagerInv, UNCHANGED <<monitorVars, tasks, overlaps>>,
           Len(orphans') = Len(orphans), OpenCameras' <= OpenCameras,
           ManagerTypes', SurfaceInv', ActiveInv'
    PROVE  ManagerInv'
<1> USE DEF ManagerInv
<1>1. MonitorInv' /\ Len(blocks') = Len(blocks)
    BY InvMonitor DEF monitorVars
<1>2. TasksTyped'
    BY <1>1 DEF TasksTyped
<1>3. /\ Len(orphans) \in Nat /\ Len(tasks) \in Nat /\ overlaps \in Nat
      /\ OpenCameras \in {0, 1} /\ OpenCameras' \in {0, 1}
    BY DEF ManagerTypes, TasksTyped, OpenCameras
<1>4. OrphanInv'
    BY <1>3 DEF OrphanInv, OrphansBounded
<1> QED BY <1>1, <1>2, <1>4

(* The application gives its camera up.                                    *)
LEMMA InvDestory ==
    ASSUME ManagerInv, DestoryUVCCamera
    PROVE  ManagerInv'
<1> USE DEF ManagerInv, DestoryUVCCamera
<1>1. ManagerTypes' /\ SurfaceInv' /\ ActiveInv'
    BY DEF ManagerTypes, SurfaceInv, NoDeadSurface, ActiveInv, CrashCause,
           FlagsReset
<1>2. OpenCameras' <= OpenCameras
    BY DEF OpenCameras, IsOpen
<1> QED BY <1>1, <1>2, InvCamera

(* The callbacks of the surface.                                           *)
LEMMA InvSurface ==
    ASSUME ManagerInv, Surface
    PROVE  ManagerInv'
<1> USE DEF ManagerInv
<1>1. CASE SurfaceChanged
  <2>1. ManagerTypes'
      BY <1>1, SurfacesAssumption
         DEF SurfaceChanged, ManagerTypes, SurfacesAssumption
  <2>2. SurfaceInv' /\ ActiveInv'
      BY <1>1 DEF SurfaceChanged, SurfaceInv, NoDeadSurface, ActiveInv,
                  CrashCause
  <2>3. OpenCameras' <= OpenCameras
      BY <1>1 DEF SurfaceChanged, OpenCameras
  <2> QED BY <1>1, <2>1, <2>2, <2>3, InvCamera DEF SurfaceChanged
<1>2. CASE SurfaceUsed
  <2>1. CASE mUVCCamera' \in MayStart(mUVCCamera, mPreviewSurface)
               /\ isPreview' = TRUE /\ UNCHANGED crashed
    <3>1. /\ mUVCCamera' \in Cameras \cup {NoCamera}
          /\ mUVCCamera' = NoCamera <=> mUVCCamera = NoCamera
          /\ IsOpen(mUVCCamera') <=> IsOpen(mUVCCamera)
          /\ mUVCCamera' = mUVCCamera \/ mUVCCamera'.preview = "on"
        BY <2>1, Started
    <3>2. ManagerTypes' /\ SurfaceInv' /\ ActiveInv'
        BY <1>2, <2>1, <3>1
           DEF SurfaceUsed, ManagerTypes, SurfaceInv, NoDeadSurface, ActiveInv,
               CrashCause
    <3>3. OpenCameras' <= OpenCameras
        BY <3>1 DEF OpenCameras
    <3> QED BY <1>2, <3>2, <3>3, InvCamera DEF SurfaceUsed
  <2>2. CASE mUVCCamera' = mUVCCamera /\ isPreview' = isPreview
               /\ (crashed' # crashed => isActive /\ mUVCCamera = NoCamera
                                          /\ crashed' = "surfaceChanged")
    <3>1. crashed' \in {"none", "surfaceChanged", "destoryUVCCamera"}
        BY <2>2 DEF ManagerTypes
    <3>2. ManagerTypes' /\ SurfaceInv' /\ ActiveInv'
        BY <1>2, <2>2, <3>1
           DEF SurfaceUsed, ManagerTypes, SurfaceInv, NoDeadSurface, ActiveInv,
               CrashCause
    <3>3. OpenCameras' <= OpenCameras
        BY <2>2 DEF OpenCameras
    <3> QED BY <1>2, <3>2, <3>3, InvCamera DEF SurfaceUsed
  <2> QED BY <1>2, <2>1, <2>2 DEF SurfaceUsed
<1>3. CASE SurfaceDestroyed
  <2>1. /\ mUVCCamera' \in Cameras \cup {NoCamera}
        /\ mUVCCamera' = NoCamera <=> mUVCCamera = NoCamera
        /\ IsOpen(mUVCCamera') <=> IsOpen(mUVCCamera)
        /\ mUVCCamera' # NoCamera => mUVCCamera'.preview = "off"
      BY <1>3, CameraFields DEF SurfaceDestroyed, Stopped, ManagerTypes, IsOpen
  <2>2. ManagerTypes' /\ SurfaceInv' /\ ActiveInv'
      BY <1>3, <2>1 DEF SurfaceDestroyed, ManagerTypes, SurfaceInv,
                        NoDeadSurface, ActiveInv, CrashCause
  <2>3. OpenCameras' <= OpenCameras
      BY <2>1 DEF OpenCameras
  <2> QED BY <1>3, <2>2, <2>3, InvCamera DEF SurfaceDestroyed
<1>4. CASE SurfaceForgotten
  <2>0. \A p \in {"off", "on", "dead"} : Gone(p) \in {"off", "on", "dead"}
      BY DEF Gone
  <2>1. /\ mUVCCamera' \in Cameras \cup {NoCamera}
        /\ mUVCCamera' = NoCamera <=> mUVCCamera = NoCamera
        /\ IsOpen(mUVCCamera') <=> IsOpen(mUVCCamera)
        /\ mUVCCamera # NoCamera =>
              mUVCCamera'.preview = Gone(mUVCCamera.preview)
    <3>1. CASE mUVCCamera = NoCamera
        BY <1>4, <3>1 DEF SurfaceForgotten, IsOpen
    <3>2. CASE mUVCCamera \in Cameras /\ mUVCCamera # NoCamera
      <4>1. mUVCCamera.preview \in {"off", "on", "dead"}
          BY <3>2 DEF Cameras
      <4>2. mUVCCamera' =
              [mUVCCamera EXCEPT !.preview = Gone(mUVCCamera.preview)]
          BY <1>4, <3>2 DEF SurfaceForgotten
      <4>3. Gone(mUVCCamera.preview) \in {"off", "on", "dead"}
          BY <2>0, <4>1
      <4>4. /\ mUVCCamera' \in Cameras /\ mUVCCamera' # NoCamera
            /\ mUVCCamera'.native = mUVCCamera.native
            /\ mUVCCamera'.preview = Gone(mUVCCamera.preview)
          BY <3>2, <4>2, <4>3, CameraFields
      <4> QED BY <3>2, <4>4 DEF IsOpen
    <3> QED BY <3>1, <3>2 DEF ManagerTypes
  <2>2. /\ orphans' \in Seq({"off", "on", "dead"})
        /\ Len(orphans') = Len(orphans)
    <3>1. orphans' = [i \in DOMAIN orphans |-> Gone(orphans[i])]
        BY <1>4 DEF SurfaceForgotten
    <3>2. /\ Len(orphans) \in Nat /\ DOMAIN orphans = 1..Len(orphans)
          /\ \A i \in 1..Len(orphans) : orphans[i] \in {"off", "on", "dead"}
        BY DEF ManagerTypes
    <3>3. orphans' \in [1..Len(orphans) -> {"off", "on", "dead"}]
        BY <2>0, <3>1, <3>2
    <3> QED BY <3>2, <3>3
  <2>3. ManagerTypes'
      BY <1>4, <2>1, <2>2 DEF SurfaceForgotten, ManagerTypes
  <2>4. SurfaceInv' /\ ActiveInv'
      BY <1>4, <2>1 DEF SurfaceForgotten, ManagerTypes, SurfaceInv,
                        NoDeadSurface, ActiveInv, CrashCause, Gone
  <2>5. OpenCameras' <= OpenCameras
      BY <2>1 DEF OpenCameras
  <2> QED BY <1>4, <2>2, <2>3, <2>4, <2>5, InvCamera DEF SurfaceForgotten
<1> QED BY <1>1, <1>2, <1>3, <1>4 DEF Surface

(* The executor's thread.                                                  *)
LEMMA InvTask ==
    ASSUME ManagerInv, Task
    PROVE  ManagerInv'
<1> USE DEF ManagerInv
<1>1. CASE TaskOpen
  <2>1. /\ mUVCCamera' \in Cameras /\ mUVCCamera' # NoCamera
        /\ mUVCCamera'.preview = "off"
      BY <1>1, CameraFields DEF TaskOpen
  <2>2. /\ Len(tasks) \in Nat \ {0} /\ tasks' \in Seq(1..Len(blocks))
        /\ Len(tasks') = Len(tasks) - 1 /\ tasks # <<>> /\ blocks' = blocks
      BY <1>1 DEF TaskOpen, TasksTyped, monitorVars
  <2>3. /\ Len(orphans) \in Nat /\ orphans' \in Seq({"off", "on", "dead"})
        /\ Len(orphans') = Len(orphans) + OpenCameras
    <3>1. mUVCCamera \in Cameras => mUVCCamera.preview \in {"off", "on", "dead"}
        BY DEF Cameras
    <3> QED BY <1>1, <3>1 DEF TaskOpen, ManagerTypes, OpenCameras, IsOpen
  <2>4. ManagerTypes'
      BY <1>1, <2>1, <2>3 DEF TaskOpen, ManagerTypes
  <2>5. SurfaceInv' /\ ActiveInv'
      BY <1>1, <2>1 DEF TaskOpen, SurfaceInv, NoDeadSurface, ActiveInv,
                        CrashCause
  <2>6. OpenCameras \in {0, 1} /\ OpenCameras' \in {0, 1}
      BY DEF OpenCameras
  <2>7. overlaps' = overlaps /\ overlaps \in Nat
      BY <1>1 DEF TaskOpen, ManagerTypes
  <2>8. OrphanInv'
      BY <2>2, <2>3, <2>6, <2>7 DEF OrphanInv, OrphansBounded
  <2>9. MonitorInv'
      BY <1>1, InvMonitor DEF TaskOpen
  <2> QED BY <2>2, <2>4, <2>5, <2>8, <2>9 DEF TasksTyped
<1>2. CASE TaskSize /\ ~Crashed
  <2>1. ManagerTypes' /\ SurfaceInv' /\ ActiveInv'
      BY <1>2 DEF TaskSize, ManagerTypes, SurfaceInv, NoDeadSurface, ActiveInv,
                  CrashCause, Crashed, IsOpen
  <2>2. OpenCameras' <= OpenCameras
      BY <1>2 DEF TaskSize, OpenCameras, IsOpen
  <2> QED BY <1>2, <2>1, <2>2, InvCamera DEF TaskSize
<1>3. CASE TaskTest
  <2>1. ManagerTypes' /\ SurfaceInv' /\ ActiveInv'
      BY <1>3 DEF TaskTest, ManagerTypes, SurfaceInv, NoDeadSurface, ActiveInv,
                  CrashCause
  <2>2. OpenCameras' <= OpenCameras
      BY <1>3 DEF TaskTest, OpenCameras
  <2> QED BY <1>3, <2>1, <2>2, InvCamera DEF TaskTest
<1>4. CASE TaskStart
  <2>1. /\ mUVCCamera' \in Cameras \cup {NoCamera}
        /\ mUVCCamera' = NoCamera <=> mUVCCamera = NoCamera
        /\ IsOpen(mUVCCamera') <=> IsOpen(mUVCCamera)
        /\ mUVCCamera' = mUVCCamera \/ mUVCCamera'.preview = "on"
      BY <1>4, Started DEF TaskStart
  <2>2. raced' \in BOOLEAN /\ (raced => raced')
        /\ (mainAt = "destroyed" => raced')
      BY <1>4 DEF TaskStart, ManagerTypes
  <2>3. ManagerTypes' /\ SurfaceInv' /\ ActiveInv'
      BY <1>4, <2>1, <2>2 DEF TaskStart, ManagerTypes, SurfaceInv,
                              NoDeadSurface, ActiveInv, CrashCause
  <2>4. OpenCameras' <= OpenCameras
      BY <2>1 DEF OpenCameras
  <2> QED BY <1>4, <2>3, <2>4, InvCamera DEF TaskStart
<1> QED BY <1>1, <1>2, <1>3, <1>4 DEF Task

(* Every step preserves the invariant.                                     *)
LEMMA ManagerInvNext == ManagerInv /\ [Next]_vars => ManagerInv'
<1> SUFFICES ASSUME ManagerInv, [Next]_vars PROVE ManagerInv'
    OBVIOUS
<1>1. CASE UNCHANGED vars
  <2>1. ManagerTypes' /\ SurfaceInv' /\ ActiveInv'
      BY <1>1 DEF vars, managerVars, ManagerInv, ManagerTypes, SurfaceInv,
                  NoDeadSurface, ActiveInv, CrashCause
  <2>2. OpenCameras' <= OpenCameras
      BY <1>1 DEF vars, managerVars, OpenCameras
  <2> QED BY <1>1, <2>1, <2>2, InvCamera DEF vars, managerVars
<1>2. CASE Next
    BY <1>2, InvOutside, InvRunConnect, InvDestory, InvSurface, InvTask DEF Next
<1> QED BY <1>1, <1>2

(* So every state of every behaviour satisfies it.                         *)
LEMMA ManagerInvAlways == Spec => []ManagerInv
BY ManagerInvInit, ManagerInvNext, PTL DEF Spec

(* Type correctness of the monitor and the manager, for any number of      *)
(* devices.                                                                *)
THEOREM TypeCorrect == Spec => []TypeOK
<1>1. ManagerInv => TypeOK
    BY DEF ManagerInv, MonitorInv, ManagerTypes, TasksTyped, TypeOK
<1> QED BY <1>1, ManagerInvAlways, PTL

(* mDeviceCheckRunnable will report a device nobody was told of: the count *)
(* is too low, or a pending detach is going to reset it.                   *)
THEOREM AttachesReported == Spec => []AttachReported
<1>1. ManagerInv => AttachReported
  <2> SUFFICES ASSUME MonitorInv, registered, unseen # {},
                      \A d \in Devices : ~DetachPending(d)
               PROVE  Cardinality(Plugged) > mDeviceCounts
      BY DEF ManagerInv, AttachReported
  <2>1. mDeviceCounts + Cardinality(unseen) <= Cardinality(Plugged)
      BY DEF MonitorInv, CountInv
  <2>2. /\ Cardinality(Plugged) \in Nat /\ Cardinality(unseen) \in Nat
        /\ IsFiniteSet(unseen) /\ mDeviceCounts \in Nat
      BY PluggedFinite DEF MonitorInv, MonitorTypeOK
  <2>3. Cardinality(unseen) # 0
      BY <2>2, FS_EmptySet
  <2> QED BY <2>1, <2>2, <2>3
<1> QED BY <1>1, ManagerInvAlways, PTL

(* A connection outlives its device only until the detach is handled.      *)
THEOREM GoneAreClosed == Spec => []GoneClosed
<1>1. ManagerInv => GoneClosed
    BY DEF ManagerInv, MonitorInv
<1> QED BY <1>1, ManagerInvAlways, PTL

(* No more open cameras are lost than connects came too early.             *)
THEOREM OrphansAreBounded == Spec => []OrphansBounded
<1>1. ManagerInv => OrphansBounded
    BY DEF ManagerInv, OrphanInv
<1> QED BY <1>1, ManagerInvAlways, PTL

(* The camera in use draws on a surface that is gone only after the race.  *)
THEOREM DeadSurfaceRaced == Spec => []NoDeadSurface
<1>1. ManagerInv => NoDeadSurface
    BY DEF ManagerInv, SurfaceInv
<1> QED BY <1>1, ManagerInvAlways, PTL

(* surfaceChanged fails only after a camera was given up.                  *)
THEOREM CrashesHaveCause == Spec => []CrashCause
<1>1. ManagerInv => CrashCause
    BY DEF ManagerInv, ActiveInv
<1> QED BY <1>1, ManagerInvAlways, PTL
=============================================================================
