------------------------------ MODULE UVCDevice ------------------------------
(***************************************************************************)
(* Opening and closing the devices of one libuvc context (init.c and       *)
(* device.c) as UVCCamera::connect and release do it, and the one thread   *)
(* of the context, _uvc_handle_events, which runs the status callbacks.    *)
(* One caller opens and closes; libuvc takes no locks.  UVCCamera has one  *)
(* device in a context of its own; another caller may have several.        *)
(*                                                                         *)
(* libusb (vendored) is taken by its contract: callbacks run inside of     *)
(* libusb_handle_events under the events lock, which libusb_close takes    *)
(* too, interrupting the thread that waits for events; what is in flight   *)
(* for the closed device is forgotten.  Waiting for events ends after 60   *)
(* seconds (io.c).                                                         *)
(***************************************************************************)
EXTENDS Naturals, FiniteSets

CONSTANTS
    Devices,
    NoDevice,
    MaxThreads          \* bound: handler threads started in one context

ASSUME DeviceAssumption ==
    /\ IsFiniteSet(Devices) /\ NoDevice \notin Devices
    /\ MaxThreads \in Nat \ {0}

VARIABLES
    plugged,            \* the cameras that are connected
    open_devices,       \* the devices in the context's list
    kill_handler_thread,
    handler,            \* "none", "test", "events", "callback", "exited"
    serving,            \* the device whose callback runs
    status_xfer,        \* "none", "idle", "flying" or "arrived" per device
    allocated,          \* the devices whose handle is in memory
    ref,                \* uvc_device_t.ref, 0 when it is freed
    status_cb,          \* "null", or UVCStatusCallback's, with its object
                        \* "unset", "live" or "deleted"
    at,                 \* where the caller is: step and device
    threads             \* history: threads started in this context

vars == <<plugged, open_devices, kill_handler_thread, handler, serving,
          status_xfer, allocated, ref, status_cb, at, threads>>

At(step, d) == [step |-> step, device |-> d]
Idle == At("idle", NoDevice)
Done == at' = Idle

Init ==
    /\ plugged = {} /\ open_devices = {} /\ kill_handler_thread = FALSE
    /\ handler = "none" /\ serving = NoDevice
    /\ status_xfer = [d \in Devices |-> "none"]
    /\ allocated = {} /\ ref = [d \in Devices |-> 0]
    /\ status_cb = [d \in Devices |-> "null"]
    /\ at = Idle /\ threads = 0

-----------------------------------------------------------------------------
(* The cameras                                                             *)

(* A camera that comes back is another one for a handle still open.        *)
Plug(d) ==
    /\ d \notin plugged \cup allocated /\ plugged' = plugged \cup {d}
    /\ UNCHANGED <<open_devices, kill_handler_thread, handler, serving,
                   status_xfer, allocated, ref, at, threads, status_cb>>

(* A status has come, or the error that ends the transfer.                 *)
Arrives(d) ==
    /\ status_xfer[d] = "flying"
    /\ status_xfer' = [status_xfer EXCEPT ![d] = "arrived"]

Unplug(d) ==
    /\ d \in plugged /\ plugged' = plugged \ {d}
    /\ IF status_xfer[d] = "flying" THEN Arrives(d) ELSE UNCHANGED status_xfer
    /\ UNCHANGED <<open_devices, kill_handler_thread, handler, serving, allocated,
                   ref, at, threads, status_cb>>

Status(d) ==
    /\ d \in plugged /\ Arrives(d)
    /\ UNCHANGED <<plugged, open_devices, kill_handler_thread, handler, serving,
                   allocated, ref, at, threads, status_cb>>

-----------------------------------------------------------------------------
(* Opening                                                                 *)

(* Mistake: the list is tested after the device was appended.              *)
FirstTooLate(d) == open_devices \cup {d} = {}
First(d) == open_devices = {}

(* uvc_find_device2 and uvc_open up to the test of open_devices.  Whatever *)
(* fails, uvc_open undoes its part and connect gives its reference back.   *)
Connect(d) ==
    /\ at = Idle /\ d \notin open_devices
    /\ First(d) => threads < MaxThreads
    /\ \/ UNCHANGED <<status_xfer, allocated, ref, at>>
       \/ /\ d \in plugged
          /\ ref' = [ref EXCEPT ![d] = 2]
          /\ allocated' = allocated \cup {d}
          /\ \E xfer \in {"none", "flying"} :
                status_xfer' = [status_xfer EXCEPT ![d] = xfer]
          /\ at' = At("append", d)
    /\ UNCHANGED <<plugged, open_devices, kill_handler_thread, handler, serving,
                   threads, status_cb>>

AppendDevice(d) ==
    /\ at = At("append", d)
    /\ IF First(d)
         THEN handler' = "test" /\ threads' = threads + 1
         ELSE UNCHANGED <<handler, threads>>
    /\ open_devices' = open_devices \cup {d}
    /\ at' = At("register", d)
    /\ UNCHANGED <<plugged, kill_handler_thread, serving, status_xfer, allocated,
                   ref, status_cb>>

(* The rest of connect: UVCStatusCallback's constructor has itself called; *)
(* uvc_set_status_callback stores the function and then the object.        *)
Register(d) ==
    /\ at = At("register", d)
    /\ status_cb' = [status_cb EXCEPT ![d] = "unset"]
    /\ at' = At("object", d)
    /\ UNCHANGED <<plugged, open_devices, kill_handler_thread, handler, serving,
                   status_xfer, allocated, ref, threads>>

RegisterObject(d) ==
    /\ at = At("object", d)
    /\ status_cb' = [status_cb EXCEPT ![d] = "live"]
    /\ Done
    /\ UNCHANGED <<plugged, open_devices, kill_handler_thread, handler, serving,
                   status_xfer, allocated, ref, threads>>

-----------------------------------------------------------------------------
(* Closing                                                                 *)

(* release deletes the callback object; the handle still has its address.  *)
Release(d) ==
    /\ at = Idle /\ d \in open_devices
    /\ status_cb' = [status_cb EXCEPT ![d] = "deleted"]
    /\ at' = At("kill", d)
    /\ UNCHANGED <<plugged, open_devices, kill_handler_thread, handler, serving,
                   status_xfer, allocated, ref, threads>>

Last(d) == open_devices = {d}

(* Mistake: the thread is not told.                                        *)
Untold(d) == kill_handler_thread
Told(d) == kill_handler_thread \/ Last(d)

(* uvc_close up to libusb_close.                                           *)
Kill(d) ==
    /\ at = At("kill", d)
    /\ kill_handler_thread' = Told(d)
    /\ at' = At("close", d)
    /\ UNCHANGED <<plugged, open_devices, handler, serving, status_xfer, allocated,
                   ref, status_cb, threads>>

(* Mistake: the transfer may still complete.                               *)
LeftFlying(d) == status_xfer
Forgotten(d) == [status_xfer EXCEPT ![d] = "idle"]

(* libusb_close; the caller waits while a callback runs.                   *)
CloseUsb(d) ==
    /\ at = At("close", d)
    /\ handler # "callback"
    /\ handler' = IF handler = "events" THEN "test" ELSE handler
    /\ status_xfer' = Forgotten(d)
    /\ at' = At(IF Last(d) THEN "join" ELSE "free", d)
    /\ UNCHANGED <<plugged, open_devices, kill_handler_thread, serving, allocated,
                   ref, threads, status_cb>>

JoinHandler(d) ==
    /\ at = At("join", d)
    /\ handler = "exited" /\ handler' = "none"
    /\ at' = At("free", d)
    /\ UNCHANGED <<plugged, open_devices, kill_handler_thread, serving,
                   status_xfer, allocated, ref, threads, status_cb>>

(* Mistake: a reference more is given back.                                *)
OneTooMany(d) == [ref EXCEPT ![d] = @ - 3]
NoReference(d) == [ref EXCEPT ![d] = @ - 2]

(* uvc_close takes the device off the list, gives its reference back and   *)
(* frees the handle and the transfer; release gives back connect's.        *)
FreeHandle(d) ==
    /\ at = At("free", d)
    /\ open_devices' = open_devices \ {d}
    /\ allocated' = allocated \ {d}
    /\ status_xfer' = [status_xfer EXCEPT ![d] = IF @ = "idle" THEN "none" ELSE @]
    /\ status_cb' = [status_cb EXCEPT ![d] = "null"]
    /\ ref' = NoReference(d)
    /\ Done
    /\ UNCHANGED <<plugged, kill_handler_thread, handler, serving, threads>>

(* ~UVCCamera, which has released; the next camera makes a new context.    *)
Exit ==
    /\ at = Idle /\ open_devices = {} /\ threads > 0
    /\ kill_handler_thread' = FALSE /\ threads' = 0
    /\ UNCHANGED <<plugged, open_devices, handler, serving, status_xfer, allocated,
                   ref, at, status_cb>>

-----------------------------------------------------------------------------
(* The handler thread                                                      *)

TestKill ==
    /\ handler = "test"
    /\ handler' = IF kill_handler_thread THEN "exited" ELSE "events"
    /\ UNCHANGED <<plugged, open_devices, kill_handler_thread, serving,
                   status_xfer, allocated, ref, at, threads, status_cb>>

StartCallback(d) ==
    /\ handler = "events" /\ status_xfer[d] = "arrived"
    /\ handler' = "callback" /\ serving' = d
    /\ status_xfer' = [status_xfer EXCEPT ![d] = "idle"]
    /\ UNCHANGED <<plugged, open_devices, kill_handler_thread, allocated, ref, at,
                   threads, status_cb>>

(* _uvc_status_callback submits the transfer again, unless the device is   *)
(* gone or the submission fails.                                           *)
EndCallback ==
    /\ handler = "callback"
    /\ handler' = "test" /\ serving' = NoDevice
    /\ \/ UNCHANGED status_xfer
       \/ /\ serving \in plugged
          /\ status_xfer' = [status_xfer EXCEPT ![serving] = "flying"]
    /\ UNCHANGED <<plugged, open_devices, kill_handler_thread, allocated, ref, at,
                   threads, status_cb>>

EventsTimeOut ==
    /\ handler = "events" /\ \A d \in Devices : status_xfer[d] # "arrived"
    /\ handler' = "test"
    /\ UNCHANGED <<plugged, open_devices, kill_handler_thread, serving,
                   status_xfer, allocated, ref, at, threads, status_cb>>

-----------------------------------------------------------------------------
(* Next and Spec                                                           *)

Cameras == \E d \in Devices : Plug(d) \/ Unplug(d) \/ Status(d)

Continue(d) ==
    \/ AppendDevice(d) \/ Register(d) \/ RegisterObject(d)
    \/ Kill(d) \/ CloseUsb(d) \/ JoinHandler(d) \/ FreeHandle(d)

Caller == Exit \/ \E d \in Devices : Connect(d) \/ Release(d) \/ Continue(d)

Handler == TestKill \/ EndCallback \/ EventsTimeOut
             \/ \E d \in Devices : StartCallback(d)

Next == Cameras \/ Caller \/ Handler

Spec == Init /\ [][Next]_vars

(* A call that has begun goes on; libusb_close gets the events lock, since *)
(* it keeps others from taking it again (pollfd_modify); and the thread    *)
(* runs: poll reports every transfer that has arrived, and gives up after  *)
(* 60 seconds.                                                             *)
Fairness ==
    /\ \A d \in Devices : /\ WF_vars(Continue(d))
                          /\ SF_vars(CloseUsb(d)) /\ SF_vars(StartCallback(d))
    /\ WF_vars(TestKill) /\ WF_vars(EndCallback) /\ WF_vars(EventsTimeOut)

LiveSpec == Spec /\ Fairness

-----------------------------------------------------------------------------
(* Properties                                                              *)

(* Type correctness.                                                       *)
TypeOK ==
    /\ plugged \subseteq Devices /\ open_devices \subseteq Devices
    /\ kill_handler_thread \in BOOLEAN
    /\ handler \in {"none", "test", "events", "callback", "exited"}
    /\ serving \in Devices \cup {NoDevice}
    /\ status_xfer \in [Devices -> {"none", "idle", "flying", "arrived"}]
    /\ allocated \subseteq Devices
    /\ ref \in [Devices -> 0..2]
    /\ status_cb \in [Devices -> {"null", "unset", "live", "deleted"}]
    /\ at = Idle \/ at \in [step : {"append", "register", "object", "kill",
                                     "close", "join", "free"},
                             device : Devices]
    /\ threads \in 0..MaxThreads

(* No callback runs, and no transfer that could lead to one is in flight,  *)
(* for a handle that has been freed; a callback can only meet a status     *)
(* callback object that release has deleted (UVCCamera.cpp, line 162)      *)
(* until libusb_close has returned, and one that is not yet set only while *)
(* uvc_set_status_callback is between its two stores.                      *)
NoUseAfterFree ==
    \A d \in Devices :
        /\ serving = d \/ status_xfer[d] \in {"flying", "arrived"}
              => d \in allocated
        /\ serving = d /\ status_cb[d] = "deleted"
              => at.device = d /\ at.step \in {"kill", "close"}
        /\ serving = d /\ status_cb[d] = "unset" => at = At("object", d)

(* uvc_close returns: the thread leaves libusb_handle_events, sees the     *)
(* flag, and can be joined.                                                *)
CloseReturns == at.step \in {"kill", "close", "join", "free"} ~> at = Idle

(* A status that has arrived gets its callback, unless the device is       *)
(* closed or the flag is set before.                                       *)
StatusHandled ==
    \A d \in Devices :
        status_xfer[d] = "arrived" /\ d \in open_devices
            ~> status_xfer[d] # "arrived" \/ kill_handler_thread

(* "Since this is our first device, we need to spawn the event handler     *)
(* thread" (device.c, line 286): a status that has arrived gets its        *)
(* callback whenever the device is open.                                   *)
FirstIsHandled ==
    \A d \in Devices : status_xfer[d] = "arrived" ~> status_xfer[d] # "arrived"
=============================================================================
