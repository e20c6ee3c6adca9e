--------------------------- MODULE UsbFileManager ---------------------------
(***************************************************************************)
(* The application's storage device (Models/UsbFileManager.java): it looks *)
(* for a device whenever any USB device comes or goes, asks the user for   *)
(* permission and sets the file system up when the answer comes.           *)
(* Everything runs on the main thread, broadcast by broadcast; the user    *)
(* and the cable are faster than the broadcasts.                           *)
(*                                                                         *)
(* A device is plugged in once: the next time it has another name.  It may *)
(* be there before the receiver is registered, which looks for none.  The  *)
(* activity is started from the launcher, so its intent names no device.   *)
(* UsbMassStorageDevice is taken by the outcomes of init; what the user    *)
(* does with the list of files changes nothing here.                       *)
(***************************************************************************)
EXTENDS Naturals, Sequences, FiniteSets

CONSTANTS
    Storage, Others,        \* storage devices, and USB devices of other kinds
    NoDevice

ASSUME StorageAssumption ==
    /\ IsFiniteSet(Storage) /\ IsFiniteSet(Others)
    /\ Storage \cap Others = {} /\ NoDevice \notin Storage \cup Others
    /\ NoDevice \notin [device : Storage, connected : BOOLEAN,
                        mounted : BOOLEAN]

VARIABLES
    place,                  \* where each device is: "new", "gone", or there,
                            \* since before register ("early") or "plugged"
    permitted,              \* the devices the user has given permission for
    asked,                  \* the devices the user is being asked for
    broadcasts,             \* what the receiver still has to be told
    usbMassStorageDevice,   \* NoDevice, or the object of a device
    mDeviceState,
    fault                   \* the answer whose handling ended the process

vars == <<place, permitted, asked, broadcasts, usbMassStorageDevice,
          mDeviceState, fault>>

Devices == Storage \cup Others

(* Mistake: USB devices of every kind are taken.                           *)
AnyPlugged == {d \in Devices : place[d] \in {"early", "plugged"}}

(* getMassStorageDevices.                                                  *)
Plugged == {d \in Storage : place[d] \in {"early", "plugged"}}
InUse == usbMassStorageDevice

(* An object: its device, whether deviceConnection is open, and whether    *)
(* partitions holds one.                                                   *)
Object(d, connected, mounted) ==
    [device |-> d, connected |-> connected, mounted |-> mounted]

Message(kind, d) == [kind |-> kind, device |-> d]
Crashed == fault # NoDevice

(* The receiver has been registered.                                       *)
Init ==
    /\ place \in [Devices -> {"new", "early"}]
    /\ permitted = {} /\ asked = {} /\ broadcasts = <<>>
    /\ usbMassStorageDevice = NoDevice /\ mDeviceState = "idle"
    /\ fault = NoDevice

-----------------------------------------------------------------------------
(* The devices and the user                                                *)

Plug(d) ==
    /\ place[d] = "new"
    /\ place' = [place EXCEPT ![d] = "plugged"]
    /\ broadcasts' = Append(broadcasts, Message("attached", d))
    /\ UNCHANGED <<permitted, asked, usbMassStorageDevice, mDeviceState, fault>>

Unplug(d) ==
    /\ place[d] \in {"early", "plugged"}
    /\ place' = [place EXCEPT ![d] = "gone"]
    /\ permitted' = permitted \ {d}
    /\ broadcasts' = Append(broadcasts, Message("detached", d))
    /\ UNCHANGED <<asked, usbMassStorageDevice, mDeviceState, fault>>

Answer(d) ==
    /\ d \in asked /\ asked' = asked \ {d}
    /\ \E kind \in {"granted", "denied"} :
         /\ broadcasts' = Append(broadcasts, Message(kind, d))
         /\ permitted' = IF kind = "granted" /\ d \in Plugged
                           THEN permitted \cup {d} ELSE permitted
    /\ UNCHANGED <<place, usbMassStorageDevice, mDeviceState, fault>>

-----------------------------------------------------------------------------
(* discoverDevice                                                          *)

(* requestPermission; the system answers itself if permission was given.   *)
Ask(d, rest) ==
    IF d \in permitted
      THEN broadcasts' = Append(rest, Message("granted", d)) /\ UNCHANGED asked
      ELSE broadcasts' = rest /\ asked' = asked \cup {d}

(* The first device of the list, whatever was in use.  rest is what the    *)
(* receiver has still to be told, and state what is left if there is none. *)
DiscoverDevice(object, state, rest) ==
    \/ /\ Plugged = {}
       /\ usbMassStorageDevice' = object /\ mDeviceState' = state
       /\ broadcasts' = rest /\ UNCHANGED asked
    \/ \E d \in Plugged :
         /\ usbMassStorageDevice' = Object(d, FALSE, FALSE)
         /\ mDeviceState' = "discovered"
         /\ Ask(d, rest)

(* getMassStorageDevices, called by the dialog.                            *)
GetMassStorageDevices ==
    /\ ~Crashed /\ InUse = NoDevice
    /\ DiscoverDevice(InUse, mDeviceState, broadcasts)
    /\ UNCHANGED <<place, permitted, fault>>

-----------------------------------------------------------------------------
(* The receiver                                                            *)

Comes(kind) == broadcasts # <<>> /\ Head(broadcasts).kind = kind /\ ~Crashed
Device == Head(broadcasts).device
Told == broadcasts' = Tail(broadcasts)

Attached ==
    /\ Comes("attached")
    /\ DiscoverDevice(InUse, mDeviceState, Tail(broadcasts))
    /\ UNCHANGED <<place, permitted, fault>>

(* Mistakes: the search comes first and its result is forgotten; there is  *)
(* no search; the object is closed and kept.                               *)
ForgetsFound ==
    /\ \/ Plugged = {} /\ Told /\ UNCHANGED asked
       \/ \E d \in Plugged : Ask(d, Tail(broadcasts))
    /\ usbMassStorageDevice' = NoDevice /\ mDeviceState' = "idle"
SearchesNot ==
    /\ Told /\ UNCHANGED asked
    /\ usbMassStorageDevice' = NoDevice /\ mDeviceState' = "idle"
KeepsClosed ==
    LET closed == IF InUse = NoDevice THEN NoDevice
                  ELSE [InUse EXCEPT !.connected = FALSE]
    IN  DiscoverDevice(closed, mDeviceState, Tail(broadcasts))

(* The object in use is closed and forgotten, whichever device has gone.   *)
Replace == DiscoverDevice(NoDevice, IF InUse = NoDevice THEN mDeviceState
                                    ELSE "idle", Tail(broadcasts))

Detached ==
    /\ Comes("detached")
    /\ Replace
    /\ UNCHANGED <<place, permitted, fault>>

Denied ==
    /\ Comes("denied")
    /\ Told
    /\ UNCHANGED <<place, permitted, asked, usbMassStorageDevice, mDeviceState,
                   fault>>

(* No object, no permission for its device, or what init reads: no MBR, no *)
(* partition.  It reads again if the object was set up before.             *)
Fails == fault' = Device /\ UNCHANGED usbMassStorageDevice

(* What init has made of the object when it throws an IOException midway,  *)
(* or returns: the connection is open, and there may be partitions.        *)
Opened(m) == Object(InUse.device, TRUE, m)
MayOpen == InUse # NoDevice /\ InUse.device \in permitted

(* setupDevice: init opens the device and reads the partitions, of which   *)
(* the first is taken; openDevice returns a connection if it is permitted. *)
SetupDevice ==
    \/ Fails /\ mDeviceState' = "granted"
    \/ /\ MayOpen
       /\ \/ /\ \E m \in {InUse.mounted, TRUE} : usbMassStorageDevice' = Opened(m)
             /\ mDeviceState' = "granted"
          \/ usbMassStorageDevice' = Opened(TRUE) /\ mDeviceState' = "setuped"
       /\ UNCHANGED fault

(* The answer is about the device that was asked for, not the one in use.  *)
Granted ==
    /\ Comes("granted")
    /\ Told /\ SetupDevice
    /\ UNCHANGED <<place, permitted, asked>>

-----------------------------------------------------------------------------
(* Next and Spec                                                           *)

Receive == Attached \/ Detached \/ Denied \/ Granted

Next == \/ \E d \in Devices : Plug(d) \/ Unplug(d)
        \/ \E d \in Storage : Answer(d)
        \/ GetMassStorageDevices
        \/ Receive

Spec == Init /\ [][Next]_vars

(* The main thread handles what reaches it.  Users need not answer.        *)
LiveSpec == Spec /\ WF_vars(Receive)

-----------------------------------------------------------------------------
(* Properties                                                              *)

(* Type correctness.                                                       *)
TypeOK ==
    /\ place \in [Devices -> {"new", "early", "plugged", "gone"}]
    /\ permitted \subseteq Plugged /\ asked \subseteq Storage
    /\ broadcasts \in Seq([kind : {"attached", "detached", "granted", "denied"},
                           device : Devices])
    /\ InUse = NoDevice \/ InUse \in [device : Storage, connected : BOOLEAN,
                                      mounted : BOOLEAN]
    /\ mDeviceState \in {"idle", "discovered", "granted", "setuped"}
    /\ fault \in Storage \cup {NoDevice}

DetachPending(d) ==
    \E i \in DOMAIN broadcasts : broadcasts[i] = Message("detached", d)

(* Once the device is set up, which is what the dialog asks before it      *)
(* shows the files, its connection is open and it has a file system; and   *)
(* if it has gone, the broadcast that ends this state is on its way.       *)
SetUpIsOpen ==
    mDeviceState = "setuped" =>
        /\ InUse # NoDevice /\ InUse.connected /\ InUse.mounted
        /\ InUse.device \in Plugged \/ DetachPending(InUse.device)

(* An answer about a device that is still there never ends the process for *)
(* want of an object or of permission: another device has taken its place, *)
(* or init has opened it and could not use what it read.                   *)
CrashCause ==
    Crashed => \/ place[fault] = "gone"
               \/ /\ InUse # NoDevice
                  /\ InUse.device # fault \/ fault \in permitted

(* The receiver will be called about d, or about whatever came or went     *)
(* while d was there.                                                      *)
Announced(d) ==
    \/ place[d] = "plugged"
    \/ /\ place[d] = "early"
       /\ \E i \in DOMAIN broadcasts :
            broadcasts[i].kind \in {"attached", "detached"}

(* As long as there is a storage device, one is found, in whatever order   *)
(* devices come and go and users answer; but one that was there before the *)
(* receiver only once another USB device comes or goes, or the dialog asks *)
(* for it.                                                                 *)
PluggedIsFound ==
    \A d \in Storage :
        Announced(d) ~>
            \/ place[d] = "gone" \/ Crashed
            \/ InUse # NoDevice /\ InUse.device \in Plugged
=============================================================================
