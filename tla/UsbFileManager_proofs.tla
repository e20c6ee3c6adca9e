------------------------ MODULE UsbFileManager_proofs ------------------------
(***************************************************************************)
(* Proofs about UsbFileManager, for any storage devices and other devices. *)
(*                                                                         *)
(* SetUpIsOpen is inductive with the types.  CrashCause is not: AnswerInv  *)
(* says what has happened before an answer arrives, namely that a device   *)
(* the user was asked for and that is still there has been found, so that  *)
(* there is an object, and that its permission holds if it was given.      *)
(***************************************************************************)
EXTENDS UsbFileManager, TLAPS

-----------------------------------------------------------------------------
(* What a queue holds                                                      *)

Holds(q, m) == \E i \in DOMAIN q : q[i] = m

(* A message is posted.                                                    *)
LEMMA AppendHolds ==
    ASSUME NEW S, NEW q \in Seq(S), NEW e \in S
    PROVE  /\ Append(q, e) \in Seq(S)
           /\ \A m : Holds(Append(q, e), m) <=> Holds(q, m) \/ m = e
<1>1. /\ DOMAIN Append(q, e) = DOMAIN q \cup {Len(q) + 1}
      /\ Append(q, e) \in Seq(S)
    OBVIOUS
<1>2. /\ \A i \in DOMAIN q : Append(q, e)[i] = q[i]
      /\ Append(q, e)[Len(q) + 1] = e
    OBVIOUS
<1> QED BY <1>1, <1>2, Zenon DEF Holds

(* The first message is taken.                                             *)
LEMMA TailHolds ==
    ASSUME NEW S, NEW q \in Seq(S), q # <<>>
    PROVE  /\ Tail(q) \in Seq(S) /\ Head(q) \in S
           /\ \A m : Holds(q, m) <=> Holds(Tail(q), m) \/ m = Head(q)
<1>1. /\ Tail(q) \in Seq(S) /\ Head(q) \in S
      /\ Head(q) = q[1] /\ 1 \in DOMAIN q
    OBVIOUS
<1>2. \A i \in DOMAIN Tail(q) : i + 1 \in DOMAIN q /\ Tail(q)[i] = q[i + 1]
    OBVIOUS
<1>3. \A j \in DOMAIN q : j = 1 \/ \E i \in DOMAIN Tail(q) : j = i + 1
  <2> SUFFICES ASSUME NEW j \in DOMAIN q, j # 1
               PROVE  j - 1 \in DOMAIN Tail(q) /\ j = (j - 1) + 1
      OBVIOUS
  <2> QED OBVIOUS
<1> QED BY <1>1, <1>2, <1>3, Zenon DEF Holds

-----------------------------------------------------------------------------
(* The invariant                                                           *)

Messages == [kind : {"attached", "detached", "granted", "denied"},
             device : Devices]
Objects == [device : Storage, connected : BOOLEAN, mounted : BOOLEAN]

Answered(d) ==
    \/ Holds(broadcasts, Message("granted", d))
    \/ Holds(broadcasts, Message("denied", d))

AnswerInv ==
    \A d \in Devices :
        /\ Answered(d) => d \in Storage
        /\ d \in asked \/ Answered(d) => place[d] # "new"
        /\ (d \in asked \/ Answered(d)) /\ d \in Plugged
              => InUse # NoDevice
        /\ Holds(broadcasts, Message("granted", d)) /\ d \in Plugged
              => d \in permitted

ManagerInv == TypeOK /\ AnswerInv /\ SetUpIsOpen /\ CrashCause

-----------------------------------------------------------------------------
(* What the helpers do                                                     *)

(* A message is made of its kind and its device.                           *)
LEMMA MessageFields ==
    /\ \A k, d : Message(k, d).kind = k /\ Message(k, d).device = d
    /\ \A k \in {"attached", "detached", "granted", "denied"} :
         \A d \in Devices : Message(k, d) \in Messages
BY DEF Message, Messages

(* An object of a storage device carries what it was made with.            *)
LEMMA ObjectFields ==
    \A d \in Storage : \A c, m \in BOOLEAN :
        /\ Object(d, c, m) \in Objects /\ Object(d, c, m) # NoDevice
        /\ Object(d, c, m).device = d
        /\ Object(d, c, m).connected = c /\ Object(d, c, m).mounted = m
BY StorageAssumption DEF StorageAssumption, Object, Objects

(* A detach is pending while its broadcast is in the queue.                *)
LEMMA PendingHolds ==
    /\ \A d : DetachPending(d) <=> Holds(broadcasts, Message("detached", d))
    /\ \A d : DetachPending(d)' <=> Holds(broadcasts', Message("detached", d))
BY DEF DetachPending, Holds

(* A broadcast is sent.                                                    *)
LEMMA Sent ==
    ASSUME TypeOK, NEW k \in {"attached", "detached", "granted", "denied"},
           NEW d \in Devices, broadcasts' = Append(broadcasts, Message(k, d))
    PROVE  /\ broadcasts' \in Seq(Messages)
           /\ \A m : Holds(broadcasts', m) <=>
                       Holds(broadcasts, m) \/ m = Message(k, d)
<1>1. broadcasts \in Seq(Messages)
    BY DEF TypeOK, Messages
<1>2. Message(k, d) \in Messages
    BY MessageFields
<1> QED BY <1>1, <1>2, AppendHolds

(* The receiver is called with the first broadcast.                        *)
LEMMA Received ==
    ASSUME TypeOK, broadcasts # <<>>
    PROVE  /\ Tail(broadcasts) \in Seq(Messages)
           /\ Head(broadcasts) \in Messages
           /\ Head(broadcasts) = Message(Head(broadcasts).kind, Device)
           /\ \A m : Holds(broadcasts, m) <=>
                       Holds(Tail(broadcasts), m) \/ m = Head(broadcasts)
<1>1. broadcasts \in Seq(Messages)
    BY DEF TypeOK, Messages
<1>2. Tail(broadcasts) \in Seq(Messages) /\ Head(broadcasts) \in Messages
    BY <1>1, TailHolds
<1>3. Head(broadcasts) = Message(Head(broadcasts).kind, Device)
    BY <1>2 DEF Messages, Message, Device
<1> QED BY <1>1, <1>2, <1>3, TailHolds

(* What discoverDevice leaves: nothing has changed when there is no        *)
(* device, and otherwise there is a new object and somebody was asked.     *)
LEMMA Discovered ==
    ASSUME TypeOK, NEW object, NEW state, NEW rest \in Seq(Messages),
           DiscoverDevice(object, state, rest)
    PROVE  \/ /\ Plugged = {} /\ asked' = asked /\ broadcasts' = rest
              /\ usbMassStorageDevice' = object /\ mDeviceState' = state
           \/ /\ usbMassStorageDevice' \in Objects
              /\ usbMassStorageDevice' # NoDevice
              /\ mDeviceState' = "discovered"
              /\ broadcasts' \in Seq(Messages)
              /\ \E d \in Plugged :
                   /\ asked' \subseteq asked \cup {d}
                   /\ \A m : Holds(rest, m) => Holds(broadcasts', m)
                   /\ \A m : Holds(broadcasts', m) =>
                        \/ Holds(rest, m)
                        \/ m = Message("granted", d) /\ d \in permitted
<1>1. CASE /\ Plugged = {} /\ asked' = asked /\ broadcasts' = rest
           /\ usbMassStorageDevice' = object /\ mDeviceState' = state
    BY <1>1
<1>2. ASSUME NEW d \in Plugged, usbMassStorageDevice' = Object(d, FALSE, FALSE),
             mDeviceState' = "discovered", Ask(d, rest)
      PROVE  /\ usbMassStorageDevice' \in Objects
             /\ usbMassStorageDevice' # NoDevice
             /\ broadcasts' \in Seq(Messages)
             /\ asked' \subseteq asked \cup {d}
             /\ \A m : Holds(rest, m) => Holds(broadcasts', m)
             /\ \A m : Holds(broadcasts', m) =>
                  \/ Holds(rest, m)
                  \/ m = Message("granted", d) /\ d \in permitted
  <2>1. d \in Storage /\ d \in Devices
      BY DEF Plugged, Devices
  <2>2. FALSE \in BOOLEAN
      OBVIOUS
  <2>3. usbMassStorageDevice' \in Objects /\ usbMassStorageDevice' # NoDevice
      BY <1>2, <2>1, <2>2, ObjectFields
  <2>4. CASE d \in permitted
    <3>1. broadcasts' = Append(rest, Message("granted", d)) /\ asked' = asked
        BY <1>2, <2>4 DEF Ask
    <3>2. Message("granted", d) \in Messages
        BY <2>1, MessageFields
    <3> QED BY <2>3, <2>4, <3>1, <3>2, AppendHolds
  <2>5. CASE d \notin permitted
      BY <1>2, <2>3, <2>5 DEF Ask
  <2> QED BY <2>4, <2>5
<1> QED
    BY <1>1, <1>2 DEF DiscoverDevice

-----------------------------------------------------------------------------
(* The invariant                                                           *)

(* At the start nobody was asked and nothing was sent.                     *)
LEMMA InvInit == Init => ManagerInv
<1> SUFFICES ASSUME Init PROVE ManagerInv
    OBVIOUS
<1> USE DEF Init
<1>1. TypeOK
    BY DEF TypeOK, Plugged, InUse
<1>2. \A m : ~Holds(broadcasts, m)
    BY DEF Holds
<1>3. AnswerInv
    BY <1>2 DEF AnswerInv, Answered
<1>4. SetUpIsOpen /\ CrashCause
    BY DEF SetUpIsOpen, CrashCause, Crashed
<1> QED BY <1>1, <1>3, <1>4 DEF ManagerInv

(* The cable and the user.                                                 *)
LEMMA InvOutside ==
    ASSUME ManagerInv, NEW d \in Devices,
           Plug(d) \/ Unplug(d) \/ (d \in Storage /\ Answer(d))
    PROVE  ManagerInv'
<1> USE DEF ManagerInv
<1> InUse' = InUse /\ mDeviceState' = mDeviceState /\ fault' = fault
    BY DEF Plug, Unplug, Answer, InUse
<1>1. CASE Plug(d)
  <2>1. /\ broadcasts' \in Seq(Messages)
        /\ \A m : Holds(broadcasts', m) <=>
                    Holds(broadcasts, m) \/ m = Message("attached", d)
      BY <1>1, Sent DEF Plug
  <2>2. TypeOK'
      BY <1>1, <2>1 DEF Plug, TypeOK, Messages, Plugged, Devices
  <2>3. \A e \in Devices : Answered(e)' <=> Answered(e)
      BY <2>1, MessageFields DEF Answered
  <2>a. \A e \in Devices : Holds(broadcasts', Message("granted", e)) =>
                             Holds(broadcasts, Message("granted", e))
      BY <2>1, MessageFields
  <2>b. /\ place' = [place EXCEPT ![d] = "plugged"] /\ asked' = asked
        /\ permitted' = permitted /\ place[d] = "new"
      BY <1>1 DEF Plug
  <2>c. /\ place \in [Devices -> {"new", "early", "plugged", "gone"}]
        /\ \A e \in Devices : e \in Plugged' <=> e \in Plugged \/ (e = d /\ d \in Storage)
      BY <2>b DEF TypeOK, Plugged
  <2>d. Holds(broadcasts, Message("granted", d)) => Answered(d)
      BY DEF Answered
  <2>4. AnswerInv'
      BY <2>3, <2>a, <2>b, <2>c, <2>d DEF AnswerInv
  <2>5. SetUpIsOpen'
      BY <1>1, <2>1, <2>c, PendingHolds DEF Plug, TypeOK, SetUpIsOpen, Devices
  <2>6. CrashCause'
      BY <1>1 DEF Plug, TypeOK, CrashCause, Crashed, Devices
  <2> QED BY <2>2, <2>4, <2>5, <2>6
<1>2. CASE Unplug(d)
  <2>1. /\ broadcasts' \in Seq(Messages)
        /\ \A m : Holds(broadcasts', m) <=>
                    Holds(broadcasts, m) \/ m = Message("detached", d)
      BY <1>2, Sent DEF Unplug
  <2>2. TypeOK'
      BY <1>2, <2>1 DEF Unplug, TypeOK, Messages, Plugged, Devices
  <2>3. \A e \in Devices : Answered(e)' <=> Answered(e)
      BY <2>1, MessageFields DEF Answered
  <2>4. AnswerInv'
      BY <1>2, <2>1, <2>3, MessageFields
         DEF Unplug, TypeOK, AnswerInv, Plugged
  <2>5. SetUpIsOpen'
      BY <1>2, <2>1, PendingHolds
         DEF Unplug, TypeOK, SetUpIsOpen, Devices, Plugged
  <2>6. CrashCause'
      BY <1>2 DEF Unplug, TypeOK, CrashCause, Crashed, Devices
  <2> QED BY <2>2, <2>4, <2>5, <2>6
<1>3. ASSUME d \in Storage, Answer(d) PROVE ManagerInv'
  <2>0. PICK kind \in {"granted", "denied"} :
            /\ broadcasts' = Append(broadcasts, Message(kind, d))
            /\ permitted' = IF kind = "granted" /\ d \in Plugged
                              THEN permitted \cup {d} ELSE permitted
      BY <1>3 DEF Answer
  <2>1. /\ broadcasts' \in Seq(Messages)
        /\ \A m : Holds(broadcasts', m) <=>
                    Holds(broadcasts, m) \/ m = Message(kind, d)
      BY <2>0, Sent
  <2>2. TypeOK'
      BY <1>3, <2>0, <2>1 DEF Answer, TypeOK, Messages, Plugged, Devices
  <2>3. \A e \in Devices : Answered(e)' <=> Answered(e) \/ e = d
      BY <2>0, <2>1, MessageFields DEF Answered
  <2>4. AnswerInv'
      BY <1>3, <2>0, <2>1, <2>3, MessageFields
         DEF Answer, TypeOK, AnswerInv, Plugged
  <2>5. SetUpIsOpen'
      BY <1>3, <2>1, PendingHolds DEF Answer, TypeOK, SetUpIsOpen, Plugged
  <2>6. CrashCause'
      BY <1>3, <2>0 DEF Answer, TypeOK, CrashCause, Crashed
  <2> QED BY <2>2, <2>4, <2>5, <2>6
<1> QED BY <1>1, <1>2, <1>3

(* A call of discoverDevice, by the dialog or the receiver: object is left *)
(* in use when there is no device, and rest is what was not yet received.  *)
LEMMA InvDiscover ==
    ASSUME ManagerInv, NEW object \in Objects \cup {NoDevice}, NEW state,
           NEW rest \in Seq(Messages),
           DiscoverDevice(object, state, rest),
           UNCHANGED <<place, permitted, fault>>, ~Crashed,
           \A m : Holds(rest, m) => Holds(broadcasts, m),
           state \in {"idle", "discovered", "granted", "setuped"},
           state = "setuped" =>
              /\ object = InUse /\ mDeviceState = "setuped"
              /\ Holds(broadcasts, Message("detached", object.device)) =>
                    Holds(rest, Message("detached", object.device))
    PROVE  ManagerInv'
<1> USE DEF ManagerInv
<1>1. InUse' = usbMassStorageDevice'
    BY DEF InUse
<1>2. CASE /\ Plugged = {} /\ asked' = asked /\ broadcasts' = rest
           /\ usbMassStorageDevice' = object /\ mDeviceState' = state
  <2>1. TypeOK'
      BY <1>1, <1>2 DEF TypeOK, Messages, Objects, Plugged
  <2>2. AnswerInv'
      BY <1>2 DEF AnswerInv, Answered, Plugged, TypeOK
  <2>3. SetUpIsOpen'
      BY <1>1, <1>2, PendingHolds DEF SetUpIsOpen
  <2>4. CrashCause'
      BY DEF CrashCause, Crashed
  <2> QED BY <2>1, <2>2, <2>3, <2>4
<1>3. ASSUME usbMassStorageDevice' \in Objects,
             usbMassStorageDevice' # NoDevice,
             mDeviceState' = "discovered", broadcasts' \in Seq(Messages),
             NEW d \in Plugged,
             asked' \subseteq asked \cup {d},
             \A m : Holds(broadcasts', m) =>
                 Holds(rest, m) \/ (m = Message("granted", d) /\ d \in permitted)
      PROVE  ManagerInv'
  <2>1. TypeOK'
      BY <1>1, <1>3 DEF TypeOK, Messages, Objects, Plugged
  <2>2. AnswerInv'
      BY <1>1, <1>3, MessageFields DEF TypeOK, AnswerInv, Answered, Plugged
  <2>3. SetUpIsOpen'
      BY <1>3 DEF SetUpIsOpen
  <2>4. CrashCause'
      BY DEF CrashCause, Crashed
  <2> QED BY <2>1, <2>2, <2>3, <2>4
<1>4. TypeOK
    OBVIOUS
<1>5. \/ /\ Plugged = {} /\ asked' = asked /\ broadcasts' = rest
         /\ usbMassStorageDevice' = object /\ mDeviceState' = state
      \/ /\ usbMassStorageDevice' \in Objects
         /\ usbMassStorageDevice' # NoDevice
         /\ mDeviceState' = "discovered"
         /\ broadcasts' \in Seq(Messages)
         /\ \E d \in Plugged :
              /\ asked' \subseteq asked \cup {d}
              /\ \A m : Holds(rest, m) => Holds(broadcasts', m)
              /\ \A m : Holds(broadcasts', m) =>
                   \/ Holds(rest, m)
                   \/ m = Message("granted", d) /\ d \in permitted
    BY <1>4, Discovered
<1>6. CASE ~(/\ Plugged = {} /\ asked' = asked /\ broadcasts' = rest
             /\ usbMassStorageDevice' = object /\ mDeviceState' = state)
  <2>1. PICK d \in Plugged :
            /\ asked' \subseteq asked \cup {d}
            /\ \A m : Holds(broadcasts', m) =>
                 Holds(rest, m) \/ (m = Message("granted", d) /\ d \in permitted)
      BY <1>5, <1>6
  <2> QED BY <1>3, <1>5, <1>6, <2>1
<1> QED
    BY <1>2, <1>6

(* setupDevice after an answer.                                            *)
LEMMA InvGranted ==
    ASSUME ManagerInv, Granted
    PROVE  ManagerInv'
<1> USE DEF ManagerInv
<1>1. /\ broadcasts # <<>> /\ Head(broadcasts).kind = "granted" /\ ~Crashed
      /\ broadcasts' = Tail(broadcasts) /\ SetupDevice
      /\ UNCHANGED <<place, permitted, asked>>
    BY DEF Granted, Comes, Told
<1>2. /\ broadcasts' \in Seq(Messages) /\ Device \in Devices
      /\ \A m : Holds(broadcasts, m) <=>
                  Holds(broadcasts', m) \/ m = Message("granted", Device)
  <2>1. /\ Tail(broadcasts) \in Seq(Messages)
        /\ Head(broadcasts) \in Messages
        /\ Head(broadcasts) = Message("granted", Device)
        /\ \A m : Holds(broadcasts, m) <=>
                    Holds(Tail(broadcasts), m) \/ m = Head(broadcasts)
      BY <1>1, Received
  <2>2. Device \in Devices
      BY <2>1 DEF Messages, Device
  <2> QED BY <1>1, <2>1, <2>2
<1>3. Device \in Storage
    BY <1>2 DEF AnswerInv, Answered
<1>4. InUse # NoDevice => InUse \in Objects
    BY DEF TypeOK, Objects
<1>5. InUse' = usbMassStorageDevice'
    BY DEF InUse
<1>6. CASE /\ fault' = Device /\ InUse' = InUse /\ mDeviceState' = "granted"
  <2>1. TypeOK'
      BY <1>1, <1>2, <1>3, <1>6 DEF TypeOK, Messages, Plugged
  <2>2. AnswerInv'
      BY <1>1, <1>2, <1>6 DEF AnswerInv, Answered, Plugged
  <2>3. SetUpIsOpen'
      BY <1>6 DEF SetUpIsOpen
  <2>4. place[Device] # "new"
      BY <1>2 DEF AnswerInv, Answered
  <2>5. Device \in Plugged => InUse # NoDevice /\ Device \in permitted
      BY <1>2 DEF AnswerInv, Answered
  <2>6. place[Device] = "gone" \/ Device \in Plugged
      BY <1>2, <1>3, <2>4 DEF TypeOK, Plugged
  <2>7. CrashCause'
      BY <1>1, <1>6, <2>5, <2>6 DEF CrashCause
  <2> QED BY <2>1, <2>2, <2>3, <2>7
<1>7. ASSUME MayOpen, NEW m \in BOOLEAN,
             usbMassStorageDevice' = Opened(m), fault' = fault,
             mDeviceState' = "granted" \/ (mDeviceState' = "setuped" /\ m)
      PROVE  ManagerInv'
  <2>1. InUse \in Objects /\ InUse.device \in Storage
        /\ InUse.device \in permitted
      BY <1>4, <1>7 DEF MayOpen, Objects
  <2>2. TRUE \in BOOLEAN
      OBVIOUS
  <2>3. /\ InUse' \in Objects /\ InUse' # NoDevice
        /\ InUse'.device = InUse.device
        /\ InUse'.connected /\ InUse'.mounted = m
      BY <1>5, <1>7, <2>1, <2>2, ObjectFields DEF Opened
  <2>4. TypeOK'
      BY <1>1, <1>2, <1>7, <2>3 DEF TypeOK, Messages, Objects, Plugged
  <2>5. AnswerInv'
      BY <1>1, <1>2, <2>3 DEF AnswerInv, Answered, Plugged
  <2>6. SetUpIsOpen'
      BY <1>1, <1>7, <2>1, <2>3 DEF SetUpIsOpen, TypeOK, Plugged
  <2>7. CrashCause'
      BY <1>1, <1>7 DEF CrashCause, Crashed
  <2> QED BY <2>4, <2>5, <2>6, <2>7
<1>8. MayOpen => InUse.mounted \in BOOLEAN
    BY <1>4 DEF MayOpen, Objects
<1> QED BY <1>1, <1>5, <1>6, <1>7, <1>8 DEF SetupDevice, Fails, InUse

(* An answer that is no only leaves the queue.                             *)
LEMMA InvDenied ==
    ASSUME ManagerInv, Denied
    PROVE  ManagerInv'
<1> USE DEF ManagerInv
<1>1. /\ broadcasts # <<>> /\ Head(broadcasts).kind = "denied"
      /\ broadcasts' = Tail(broadcasts) /\ InUse' = InUse
      /\ UNCHANGED <<place, permitted, asked, mDeviceState, fault>>
    BY DEF Denied, Comes, Told, InUse
<1>2. /\ broadcasts' \in Seq(Messages)
      /\ \A m : Holds(broadcasts, m) <=>
                  Holds(broadcasts', m) \/ m = Message("denied", Device)
    BY <1>1, Received
<1>3. TypeOK'
    BY <1>1, <1>2 DEF TypeOK, Messages, Plugged
<1>4. AnswerInv'
    BY <1>1, <1>2 DEF AnswerInv, Answered, Plugged
<1>5. SetUpIsOpen'
    BY <1>1, <1>2, PendingHolds, MessageFields DEF SetUpIsOpen, Plugged
<1>6. CrashCause'
    BY <1>1 DEF CrashCause, Crashed
<1> QED BY <1>3, <1>4, <1>5, <1>6

(* Every step preserves the invariant.                                     *)
LEMMA InvNext == ManagerInv /\ [Next]_vars => ManagerInv'
<1> SUFFICES ASSUME ManagerInv, [Next]_vars PROVE ManagerInv'
    OBVIOUS
<1>0. InUse \in Objects \cup {NoDevice} /\ NoDevice \notin Objects
      /\ broadcasts \in Seq(Messages)
      /\ mDeviceState \in {"idle", "discovered", "granted", "setuped"}
    BY StorageAssumption
       DEF StorageAssumption, ManagerInv, TypeOK, Objects, Messages
<1>1. ASSUME NEW d \in Devices, Plug(d) \/ Unplug(d) PROVE ManagerInv'
    BY <1>1, InvOutside
<1>2. ASSUME NEW d \in Storage, Answer(d) PROVE ManagerInv'
    BY <1>2, InvOutside DEF Devices
<1>3. CASE GetMassStorageDevices
  <2>1. mDeviceState # "setuped"
      BY <1>3 DEF GetMassStorageDevices, ManagerInv, SetUpIsOpen
  <2> QED
      BY <1>0, <1>3, <2>1, InvDiscover DEF GetMassStorageDevices
<1>4. ASSUME Comes("attached") \/ Comes("detached")
      PROVE  /\ Tail(broadcasts) \in Seq(Messages)
             /\ \A m : Holds(broadcasts, m) <=>
                   \/ Holds(Tail(broadcasts), m)
                   \/ m = Message(Head(broadcasts).kind, Device)
    BY <1>4, Received DEF Comes, ManagerInv
<1>5. CASE Attached
  <2>1. \A d : Holds(broadcasts, Message("detached", d)) =>
                 Holds(Tail(broadcasts), Message("detached", d))
      BY <1>4, <1>5, MessageFields DEF Attached, Comes
  <2> QED
      BY <1>0, <1>4, <1>5, <2>1, InvDiscover DEF Attached, Comes
<1>6. CASE Detached
  <2>1. PICK state : /\ DiscoverDevice(NoDevice, state, Tail(broadcasts))
                     /\ state = IF InUse = NoDevice THEN mDeviceState ELSE "idle"
      BY <1>6 DEF Detached, Replace
  <2>2. state # "setuped"
        /\ state \in {"idle", "discovered", "granted", "setuped"}
      BY <1>0, <2>1 DEF ManagerInv, SetUpIsOpen
  <2> QED
      BY <1>4, <1>6, <2>1, <2>2, InvDiscover DEF Detached, Comes
<1>7. CASE Denied
    BY <1>7, InvDenied
<1>8. CASE Granted
    BY <1>8, InvGranted
<1>9. CASE UNCHANGED vars
    BY <1>9 DEF vars, ManagerInv, TypeOK, AnswerInv, Answered, SetUpIsOpen,
                CrashCause, Crashed, InUse, Plugged, DetachPending
<1> QED
    BY <1>1, <1>2, <1>3, <1>5, <1>6, <1>7, <1>8, <1>9 DEF Next, Receive

(* So every state of every behaviour satisfies it.                         *)
LEMMA InvAlways == Spec => []ManagerInv
BY InvInit, InvNext, PTL DEF Spec

(* Type correctness: in particular no permission outlives its device.      *)
THEOREM TypeCorrect == Spec => []TypeOK
<1>1. ManagerInv => TypeOK
    BY DEF ManagerInv
<1> QED BY <1>1, InvAlways, PTL

(* A device that counts as set up is open, has a file system and is there, *)
(* or the broadcast that it has gone is on its way.                        *)
THEOREM SetUpDeviceIsOpen == Spec => []SetUpIsOpen
<1>1. ManagerInv => SetUpIsOpen
    BY DEF ManagerInv
<1> QED BY <1>1, InvAlways, PTL

(* The process ends only for an answer about a device that has gone, that  *)
(* another one has replaced, or that init has opened and could not read.   *)
THEOREM CrashesHaveCause == Spec => []CrashCause
<1>1. ManagerInv => CrashCause
    BY DEF ManagerInv
<1> QED BY <1>1, InvAlways, PTL
=============================================================================
