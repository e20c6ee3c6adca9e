----------------------------- MODULE USBMonitor -----------------------------
(***************************************************************************)
(* USBMonitor (com/serenegiant/usb/USBMonitor.java): the receiver of the   *)
(* permission and detach broadcasts, the poll of the device list that      *)
(* stands in for the attach broadcast, and one control block per device.   *)
(* Everything runs on the main thread, message by message; broadcasts are  *)
(* on their way for some time (intents) before they reach its queue.       *)
(*                                                                         *)
(* A device is plugged in once: the next time it has another number, hence *)
(* another name, and the name is what makes two UsbDevices equal.          *)
(* UsbControlBlock.close has no caller but the monitor.                    *)
(***************************************************************************)
EXTENDS Naturals, Sequences, FiniteSets

CONSTANTS
    Devices,
    MaxRequests,        \* bound: calls of requestPermission
    MaxRegisters        \* bound: calls of register

ASSUME MonitorAssumption ==
    /\ IsFiniteSet(Devices) /\ MaxRequests \in Nat /\ MaxRegisters \in Nat

VARIABLES
    place,          \* where each device is: "new", "plugged" or "gone"
    permitted,      \* the devices the user has given permission for
    asked,          \* the devices the user is being asked for
    intents,        \* broadcasts on their way to the receiver
    queue,          \* the messages of the main thread
    registered,     \* mPermissionIntent is set and the poll is posted
    mDeviceCounts,
    blocks,         \* every UsbControlBlock made: device, mConnection # null
    mCtrlBlocks,    \* the index of the block of each device, or 0
    unseen,         \* history: devices plugged in since the last onAttach
    calls           \* history: calls of requestPermission and of register

monitorVars == <<place, permitted, asked, intents, queue, registered,
                 mDeviceCounts, blocks, mCtrlBlocks, unseen, calls>>

Broadcasts == {"granted", "denied", "detached"}
Posts == {"connect", "cancel", "dettach", "forgotten"}
Message(kind, d) == [kind |-> kind, device |-> d]

MonitorInit ==
    /\ place = [d \in Devices |-> "new"]
    /\ permitted = {} /\ asked = {}
    /\ intents = <<>> /\ queue = <<>>
    /\ registered = FALSE /\ mDeviceCounts = 0
    /\ blocks = <<>> /\ mCtrlBlocks = [d \in Devices |-> 0]
    /\ unseen = {} /\ calls = [request |-> 0, register |-> 0]

-----------------------------------------------------------------------------
(* The devices, the user and the system                                    *)

(* A broadcast is sent to a registered receiver only.                      *)
Broadcast(kind, d) ==
    intents' = IF registered THEN Append(intents, Message(kind, d)) ELSE intents

Plug(d) ==
    /\ place[d] = "new"
    /\ place' = [place EXCEPT ![d] = "plugged"]
    /\ unseen' = unseen \cup {d}
    /\ UNCHANGED <<permitted, asked, intents, queue, registered, mDeviceCounts,
                   blocks, mCtrlBlocks, calls>>

Unplug(d) ==
    /\ place[d] = "plugged"
    /\ place' = [place EXCEPT ![d] = "gone"]
    /\ permitted' = permitted \ {d} /\ unseen' = unseen \ {d}
    /\ Broadcast("detached", d)
    /\ UNCHANGED <<asked, queue, registered, mDeviceCounts, blocks, mCtrlBlocks,
                   calls>>

Answer(d) ==
    /\ d \in asked
    /\ asked' = asked \ {d}
    /\ \/ /\ place[d] = "plugged"
          /\ permitted' = permitted \cup {d}
          /\ Broadcast("granted", d)
       \/ Broadcast("denied", d) /\ UNCHANGED permitted
    /\ UNCHANGED <<place, queue, registered, mDeviceCounts, blocks, mCtrlBlocks,
                   unseen, calls>>

(* A broadcast reaches the main thread.                                    *)
Deliver ==
    /\ intents # <<>>
    /\ queue' = Append(queue, Head(intents)) /\ intents' = Tail(intents)
    /\ UNCHANGED <<place, permitted, asked, registered, mDeviceCounts, blocks,
                   mCtrlBlocks, unseen, calls>>

-----------------------------------------------------------------------------
(* The calls of a client                                                   *)

Register ==
    /\ ~registered /\ calls.register < MaxRegisters
    /\ registered' = TRUE /\ mDeviceCounts' = 0
    /\ calls' = [calls EXCEPT !.register = @ + 1]
    /\ UNCHANGED <<place, permitted, asked, intents, queue, blocks, mCtrlBlocks,
                   unseen>>

(* The system drops what is on its way to a receiver that is unregistered; *)
(* what has reached the queue goes through it and is handled by nobody.    *)
Unheard(message) ==
    IF message.kind \in Broadcasts THEN Message("forgotten", message.device)
    ELSE message

ForgetReceiver ==
    /\ registered' = FALSE /\ mDeviceCounts' = 0
    /\ intents' = <<>> /\ queue' = [i \in DOMAIN queue |-> Unheard(queue[i])]

Unregister ==
    /\ registered
    /\ ForgetReceiver
    /\ UNCHANGED <<place, permitted, asked, blocks, mCtrlBlocks, unseen, calls>>

(* The blocks in bs are closed.                                            *)
Closed(bs) ==
    [b \in DOMAIN blocks |->
       [blocks[b] EXCEPT !.connected = @ /\ b \notin bs]]

Destroy ==
    /\ registered \/ \E d \in Devices : mCtrlBlocks[d] # 0
    /\ ForgetReceiver
    /\ blocks' = Closed({mCtrlBlocks[d] : d \in Devices})
    /\ mCtrlBlocks' = [d \in Devices |-> 0]
    /\ UNCHANGED <<place, permitted, asked, unseen, calls>>

Post(kind, d) == queue' = Append(queue, Message(kind, d))

(* The device comes from a list that may be old.                           *)
RequestPermission(d) ==
    /\ place[d] # "new" /\ calls.request < MaxRequests
    /\ calls' = [calls EXCEPT !.request = @ + 1]
    /\ CASE ~registered -> Post("cancel", d) /\ UNCHANGED asked
         [] registered /\ d \in permitted -> Post("connect", d) /\ UNCHANGED asked
         [] OTHER -> asked' = asked \cup {d} /\ UNCHANGED queue
    /\ UNCHANGED <<place, permitted, intents, registered, mDeviceCounts, blocks,
                   mCtrlBlocks, unseen>>

-----------------------------------------------------------------------------
(* The main thread's messages                                              *)

Comes(kind) == queue # <<>> /\ Head(queue).kind = kind
Device == Head(queue).device

(* What the receiver posts runs behind the messages already waiting.       *)
Handled(kind) == queue' = Append(Tail(queue), Message(kind, Device))

ReceiveAnswer ==
    /\ Comes("granted") \/ Comes("denied")
    /\ Handled(IF Comes("granted") THEN "connect" ELSE "cancel")
    /\ UNCHANGED <<place, permitted, asked, intents, registered, mDeviceCounts,
                   blocks, mCtrlBlocks, unseen, calls>>

(* Mistakes: the number of devices is kept; it is counted down.            *)
CountKept == mDeviceCounts
CountedDown == mDeviceCounts - 1
CountAfterDetach == 0

(* Mistake: the block is forgotten and its connection stays open.          *)
NoneClosed(d) == {}
BlocksOf(d) == {mCtrlBlocks[d]}

ReceiveDetached ==
    /\ Comes("detached")
    /\ Handled("dettach")
    /\ blocks' = Closed(BlocksOf(Device))
    /\ mCtrlBlocks' = [mCtrlBlocks EXCEPT ![Device] = 0]
    /\ mDeviceCounts' = CountAfterDetach
    /\ UNCHANGED <<place, permitted, asked, intents, registered, unseen, calls>>

(* The runnable of processConnect, up to the call of onConnect with b.     *)
(* openDevice returns null for a device that has gone or is not permitted. *)
Connect(b) ==
    /\ Comes("connect")
    /\ queue' = Tail(queue)
    /\ IF mCtrlBlocks[Device] # 0
         THEN b = mCtrlBlocks[Device] /\ UNCHANGED <<blocks, mCtrlBlocks>>
         ELSE /\ b = Len(blocks) + 1
              /\ blocks' = Append(blocks,
                   [device |-> Device,
                    connected |-> place[Device] = "plugged"
                                    /\ Device \in permitted])
              /\ mCtrlBlocks' = [mCtrlBlocks EXCEPT ![Device] = b]
    /\ UNCHANGED <<place, permitted, asked, intents, registered, mDeviceCounts,
                   unseen, calls>>

(* onCancel and onDettach are called, or nobody.                           *)
Notify ==
    /\ \E kind \in {"cancel", "dettach", "forgotten"} : Comes(kind)
    /\ queue' = Tail(queue)
    /\ UNCHANGED <<place, permitted, asked, intents, registered, mDeviceCounts,
                   blocks, mCtrlBlocks, unseen, calls>>

(* mDeviceCheckRunnable, every two seconds; onAttach(null) names nobody.   *)
Plugged == {d \in Devices : place[d] = "plugged"}

CheckDevices ==
    /\ registered
    /\ IF Cardinality(Plugged) > mDeviceCounts
         THEN mDeviceCounts' = Cardinality(Plugged) /\ unseen' = {}
         ELSE UNCHANGED <<mDeviceCounts, unseen>>
    /\ UNCHANGED <<place, permitted, asked, intents, queue, registered, blocks,
                   mCtrlBlocks, calls>>

MonitorTypeOK ==
    /\ place \in [Devices -> {"new", "plugged", "gone"}]
    /\ permitted \subseteq Plugged /\ asked \subseteq Devices
    /\ intents \in Seq([kind : Broadcasts, device : Devices])
    /\ queue \in Seq([kind : Broadcasts \cup Posts, device : Devices])
    /\ registered \in BOOLEAN
    /\ mDeviceCounts \in 0..Cardinality(Devices)
    /\ blocks \in Seq([device : Devices, connected : BOOLEAN])
    /\ mCtrlBlocks \in [Devices -> 0..Len(blocks)]
    /\ unseen \subseteq Plugged
    /\ calls \in [request : 0..MaxRequests, register : 0..MaxRegisters]
=============================================================================
