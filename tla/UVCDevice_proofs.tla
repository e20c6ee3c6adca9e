-------------------------- MODULE UVCDevice_proofs --------------------------
(***************************************************************************)
(* Proofs about UVCDevice, for every number of devices and of threads.     *)
(*                                                                         *)
(* NoUseAfterFree is not inductive.  HandleInv adds what the order of      *)
(* uvc_close guarantees: the transfer of a handle is forgotten and no      *)
(* callback runs for it from libusb_close on, which is before it is freed; *)
(* and only the handle being released has a deleted callback object.       *)
(***************************************************************************)
EXTENDS UVCDevice, TLAPS

Closing == {"kill", "close", "join", "free"}
Quiet == {"join", "free"}

(* Which handles there are, and with how many references.                  *)
HandlesKnown ==
    /\ open_devices \subseteq allocated
    /\ \A d \in allocated : d \in open_devices \/ at = At("append", d)
    /\ \A d \in Devices : at = At("append", d) =>
          /\ d \in allocated /\ d \notin open_devices
          /\ First(d) => threads < MaxThreads
    /\ at.step \in Closing \cup {"register", "object"} => at.device \in open_devices
    /\ \A d \in Devices : ref[d] = IF d \in allocated THEN 2 ELSE 0

(* A transfer belongs to a handle, is idle while its callback runs, and    *)
(* stays idle once libusb_close has returned.                              *)
TransfersKnown ==
    /\ \A d \in Devices : status_xfer[d] # "none" => d \in allocated
    /\ (handler = "callback") = (serving # NoDevice)
    /\ serving # NoDevice => status_xfer[serving] = "idle"
    /\ at.step \in Quiet =>
          status_xfer[at.device] = "idle" /\ serving # at.device

(* Only the handle being released has a deleted callback object, and only  *)
(* the one being registered has a callback without an object.              *)
CallbacksKnown ==
    \A d \in Devices :
        /\ status_cb[d] = "deleted" => at.device = d /\ at.step \in Closing
        /\ status_cb[d] = "unset" => at = At("object", d)

(* There is a thread only while a device is open: the one that closes the  *)
(* last device has joined it before the device leaves the list.            *)
HandlerKnown ==
    /\ open_devices = {} => handler = "none"
    /\ at.step = "free" /\ open_devices = {at.device} => handler = "none"

HandleInv ==
    TypeOK /\ HandlesKnown /\ TransfersKnown /\ CallbacksKnown /\ HandlerKnown

-----------------------------------------------------------------------------

(* HandleInv is what NoUseAfterFree needs.                                 *)
LEMMA HandleInvSafe == HandleInv => NoUseAfterFree
BY DeviceAssumption
   DEF DeviceAssumption, HandleInv, TransfersKnown, CallbacksKnown,
       NoUseAfterFree, Closing, Quiet

(* At the start there are no handles.                                      *)
LEMMA HandleInvInit == Init => HandleInv
<1> SUFFICES ASSUME Init PROVE HandleInv
    OBVIOUS
<1> USE DeviceAssumption DEF DeviceAssumption, Init
<1>0. kill_handler_thread \in BOOLEAN
    OBVIOUS
<1>1. TypeOK
    BY <1>0 DEF TypeOK
<1>2. HandlesKnown
    BY DEF HandlesKnown, Closing, Idle, At
<1>3. TransfersKnown /\ CallbacksKnown /\ HandlerKnown
    BY DEF TransfersKnown, CallbacksKnown, HandlerKnown, Quiet, Idle, At
<1> QED BY <1>1, <1>2, <1>3 DEF HandleInv

(* Every step preserves HandleInv.                                         *)
LEMMA HandleInvNext == HandleInv /\ [Next]_vars => HandleInv'
<1> SUFFICES ASSUME HandleInv, [Next]_vars PROVE HandleInv'
    OBVIOUS
<1> USE DeviceAssumption DEF DeviceAssumption, HandleInv
<1>1. ASSUME NEW d \in Devices, Plug(d) PROVE HandleInv'
  <2>1. TypeOK'
      BY <1>1 DEF Plug, TypeOK, Idle, At
  <2>2. HandlesKnown' /\ CallbacksKnown'
      BY <1>1 DEF Plug, HandlesKnown, CallbacksKnown, First
  <2>3. TransfersKnown'
      BY <1>1 DEF Plug, TransfersKnown
  <2>5. HandlerKnown'
      BY <1>1 DEF Plug, TypeOK, HandlerKnown, Closing, Idle, At
  <2> QED BY <2>5, <2>1, <2>2, <2>3
<1>2. ASSUME NEW d \in Devices, Unplug(d) PROVE HandleInv'
  <2>1. TypeOK'
      BY <1>2 DEF Unplug, Arrives, TypeOK, Idle, At
  <2>2. HandlesKnown' /\ CallbacksKnown'
      BY <1>2 DEF Unplug, HandlesKnown, CallbacksKnown, First
  <2>3. TransfersKnown'
      BY <1>2 DEF Unplug, Arrives, TransfersKnown, HandlesKnown, TypeOK, Idle,
                  At, Quiet, Closing
  <2>5. HandlerKnown'
      BY <1>2 DEF Unplug, TypeOK, HandlerKnown, Closing, Idle, At
  <2> QED BY <2>5, <2>1, <2>2, <2>3
<1>3. ASSUME NEW d \in Devices, Status(d) PROVE HandleInv'
  <2>1. TypeOK'
      BY <1>3 DEF Status, Arrives, TypeOK, Idle, At
  <2>2. HandlesKnown' /\ CallbacksKnown'
      BY <1>3 DEF Status, HandlesKnown, CallbacksKnown, First
  <2>3. TransfersKnown'
      BY <1>3 DEF Status, Arrives, TransfersKnown, HandlesKnown, TypeOK, Idle,
                  At, Quiet, Closing
  <2>5. HandlerKnown'
      BY <1>3 DEF Status, TypeOK, HandlerKnown, Closing, Idle, At
  <2> QED BY <2>5, <2>1, <2>2, <2>3
<1>4. ASSUME NEW d \in Devices, Connect(d) PROVE HandleInv'
  <2>0. d \notin allocated
      BY <1>4 DEF Connect, HandlesKnown, Idle, At
  <2>1. TypeOK'
      BY <1>4 DEF Connect, TypeOK, Idle, At
  <2>2. HandlesKnown'
    <3>1. CASE UNCHANGED <<status_xfer, allocated, ref, at>>
        BY <1>4, <3>1 DEF Connect, HandlesKnown, First
    <3>2. CASE /\ at' = At("append", d)
               /\ allocated' = allocated \cup {d}
               /\ ref' = [ref EXCEPT ![d] = 2]
      <4>1. /\ open_devices' = open_devices /\ threads' = threads
            /\ at = Idle /\ d \notin open_devices
            /\ First(d) => threads < MaxThreads
          BY <1>4 DEF Connect
      <4>2. \A e \in Devices : at' = At("append", e) => e = d
          BY <3>2 DEF At
      <4>3. at'.step = "append"
          BY <3>2 DEF At
      <4>4. \A e \in Devices : at # At("append", e)
          BY <4>1 DEF Idle, At
      <4>5. \A e \in Devices : ref'[e] = IF e \in allocated' THEN 2 ELSE 0
          BY <3>2 DEF TypeOK, HandlesKnown
      <4> QED
          BY <3>2, <4>1, <4>2, <4>3, <4>4, <4>5
             DEF TypeOK, HandlesKnown, First, Closing
    <3> QED BY <1>4, <3>1, <3>2 DEF Connect
  <2>3. TransfersKnown'
      BY <1>4, <2>0 DEF Connect, TypeOK, TransfersKnown, Quiet, Idle, At
  <2>4. CallbacksKnown'
      BY <1>4 DEF Connect, CallbacksKnown, Closing, Idle, At
  <2>5. HandlerKnown'
      BY <1>4 DEF Connect, TypeOK, HandlerKnown, Closing, Idle, At
  <2> QED BY <2>5, <2>1, <2>2, <2>3, <2>4
<1>5. ASSUME NEW d \in Devices, AppendDevice(d) PROVE HandleInv'
  <2>1. TypeOK'
      BY <1>5 DEF AppendDevice, TypeOK, HandlesKnown, First, Idle, At
  <2>2. HandlesKnown'
      BY <1>5 DEF AppendDevice, TypeOK, HandlesKnown, Closing, Idle, At
  <2>3. TransfersKnown'
      BY <1>5 DEF AppendDevice, TypeOK, HandlesKnown, TransfersKnown,
                  HandlerKnown, First, Quiet, Idle, At
  <2>4. CallbacksKnown'
      BY <1>5 DEF AppendDevice, CallbacksKnown, Closing, Idle, At
  <2>5. HandlerKnown'
      BY <1>5 DEF AppendDevice, HandlesKnown, Last, TypeOK, HandlerKnown, Closing, Idle, At
  <2> QED BY <2>5, <2>1, <2>2, <2>3, <2>4
<1>6. ASSUME NEW d \in Devices, Register(d) PROVE HandleInv'
  <2>1. TypeOK'
      BY <1>6 DEF Register, TypeOK, Idle, At
  <2>2. HandlesKnown'
      BY <1>6 DEF Register, TypeOK, HandlesKnown, Closing, Idle, At
  <2>3. TransfersKnown'
      BY <1>6 DEF Register, TypeOK, TransfersKnown, Quiet, Idle, At
  <2>4. CallbacksKnown'
      BY <1>6 DEF Register, TypeOK, CallbacksKnown, Closing, Idle, At
  <2>5. HandlerKnown'
      BY <1>6 DEF Register, TypeOK, HandlerKnown, Closing, Idle, At
  <2> QED BY <2>5, <2>1, <2>2, <2>3, <2>4
<1>18. ASSUME NEW d \in Devices, RegisterObject(d) PROVE HandleInv'
  <2>1. TypeOK'
      BY <1>18 DEF RegisterObject, Done, TypeOK, Idle, At
  <2>2. HandlesKnown'
      BY <1>18 DEF RegisterObject, Done, TypeOK, HandlesKnown, Closing, Idle, At
  <2>3. TransfersKnown'
      BY <1>18 DEF RegisterObject, Done, TypeOK, TransfersKnown, Quiet, Idle, At
  <2>4. CallbacksKnown'
      BY <1>18 DEF RegisterObject, Done, TypeOK, CallbacksKnown, Closing, Idle, At
  <2>5. HandlerKnown'
      BY <1>18 DEF RegisterObject, Done, TypeOK, HandlerKnown, Closing, Idle, At
  <2> QED BY <2>5, <2>1, <2>2, <2>3, <2>4
<1>7. ASSUME NEW d \in Devices, Release(d) PROVE HandleInv'
  <2>1. TypeOK'
      BY <1>7 DEF Release, TypeOK, Idle, At
  <2>2. HandlesKnown'
      BY <1>7 DEF Release, TypeOK, HandlesKnown, Closing, Idle, At
  <2>3. TransfersKnown'
      BY <1>7 DEF Release, TypeOK, TransfersKnown, Quiet, Idle, At
  <2>4. CallbacksKnown'
      BY <1>7 DEF Release, TypeOK, CallbacksKnown, Closing, Idle, At
  <2>5. HandlerKnown'
      BY <1>7 DEF Release, TypeOK, HandlerKnown, Closing, Idle, At
  <2> QED BY <2>5, <2>1, <2>2, <2>3, <2>4
<1>8. ASSUME NEW d \in Devices, Kill(d) PROVE HandleInv'
  <2>1. TypeOK'
      BY <1>8 DEF Kill, Told, Last, TypeOK, Idle, At
  <2>2. HandlesKnown'
      BY <1>8 DEF Kill, TypeOK, HandlesKnown, Closing, Idle, At
  <2>3. TransfersKnown'
      BY <1>8 DEF Kill, TypeOK, TransfersKnown, Quiet, Idle, At
  <2>4. CallbacksKnown'
      BY <1>8 DEF Kill, TypeOK, CallbacksKnown, Closing, Idle, At
  <2>5. HandlerKnown'
      BY <1>8 DEF Kill, TypeOK, HandlerKnown, Closing, Idle, At
  <2> QED BY <2>5, <2>1, <2>2, <2>3, <2>4
<1>9. ASSUME NEW d \in Devices, CloseUsb(d) PROVE HandleInv'
  <2>1. TypeOK'
      BY <1>9 DEF CloseUsb, Forgotten, Last, TypeOK, Idle, At
  <2>2. HandlesKnown'
      BY <1>9 DEF CloseUsb, TypeOK, HandlesKnown, Closing, Idle, At
  <2>3. TransfersKnown'
      BY <1>9 DEF CloseUsb, Forgotten, TypeOK, HandlesKnown, TransfersKnown,
                  Closing, Quiet, Idle, At
  <2>4. CallbacksKnown'
      BY <1>9 DEF CloseUsb, TypeOK, CallbacksKnown, Closing, Idle, At
  <2>5. HandlerKnown'
      BY <1>9 DEF CloseUsb, HandlesKnown, Last, TypeOK, HandlerKnown, Closing, Idle, At
  <2> QED BY <2>5, <2>1, <2>2, <2>3, <2>4
<1>10. ASSUME NEW d \in Devices, JoinHandler(d) PROVE HandleInv'
  <2>1. TypeOK'
      BY <1>10 DEF JoinHandler, TypeOK, Idle, At
  <2>2. HandlesKnown'
      BY <1>10 DEF JoinHandler, TypeOK, HandlesKnown, Closing, Idle, At
  <2>3. TransfersKnown'
      BY <1>10 DEF JoinHandler, TypeOK, TransfersKnown, Quiet, Idle, At
  <2>4. CallbacksKnown'
      BY <1>10 DEF JoinHandler, TypeOK, CallbacksKnown, Closing, Idle, At
  <2>5. HandlerKnown'
      BY <1>10 DEF JoinHandler, TypeOK, HandlerKnown, Closing, Idle, At
  <2> QED BY <2>5, <2>1, <2>2, <2>3, <2>4
<1>11. ASSUME NEW d \in Devices, FreeHandle(d) PROVE HandleInv'
  <2>0. d \in open_devices /\ ref[d] = 2
      BY <1>11 DEF FreeHandle, HandlesKnown, Closing, At
  <2>1. TypeOK'
      BY <1>11, <2>0 DEF FreeHandle, NoReference, Done, TypeOK, Idle, At
  <2>2. HandlesKnown'
      BY <1>11, <2>0 DEF FreeHandle, NoReference, Done, TypeOK, HandlesKnown,
                         Closing, Idle, At
  <2>3. TransfersKnown'
      BY <1>11 DEF FreeHandle, Done, TypeOK, TransfersKnown, Quiet, Idle, At
  <2>4. CallbacksKnown'
      BY <1>11 DEF FreeHandle, Done, TypeOK, CallbacksKnown, Closing, Idle, At
  <2>5. HandlerKnown'
      BY <1>11 DEF FreeHandle, Done, HandlesKnown, TypeOK, HandlerKnown, Closing, Idle, At
  <2> QED BY <2>5, <2>1, <2>2, <2>3, <2>4
<1>12. CASE Exit
  <2>0. kill_handler_thread' \in BOOLEAN
      BY <1>12 DEF Exit
  <2>1. TypeOK'
      BY <1>12, <2>0 DEF Exit, TypeOK, Idle, At
  <2>2. HandlesKnown' /\ CallbacksKnown'
      BY <1>12 DEF Exit, HandlesKnown, CallbacksKnown, First, Idle, At
  <2>3. TransfersKnown'
      BY <1>12 DEF Exit, TransfersKnown
  <2>5. HandlerKnown'
      BY <1>12 DEF Exit, TypeOK, HandlerKnown, Closing, Idle, At
  <2> QED BY <2>5, <2>1, <2>2, <2>3
<1>13. CASE TestKill
  <2>1. TypeOK'
      BY <1>13 DEF TestKill, TypeOK, Idle, At
  <2>2. HandlesKnown' /\ CallbacksKnown'
      BY <1>13 DEF TestKill, HandlesKnown, CallbacksKnown, First
  <2>3. TransfersKnown'
      BY <1>13 DEF TestKill, TransfersKnown
  <2>5. HandlerKnown'
      BY <1>13 DEF TestKill, TypeOK, HandlerKnown, Closing, Idle, At
  <2> QED BY <2>5, <2>1, <2>2, <2>3
<1>14. CASE EventsTimeOut
  <2>1. TypeOK'
      BY <1>14 DEF EventsTimeOut, TypeOK, Idle, At
  <2>2. HandlesKnown' /\ CallbacksKnown'
      BY <1>14 DEF EventsTimeOut, HandlesKnown, CallbacksKnown, First
  <2>3. TransfersKnown'
      BY <1>14 DEF EventsTimeOut, TransfersKnown
  <2>5. HandlerKnown'
      BY <1>14 DEF EventsTimeOut, TypeOK, HandlerKnown, Closing, Idle, At
  <2> QED BY <2>5, <2>1, <2>2, <2>3
<1>15. ASSUME NEW d \in Devices, StartCallback(d) PROVE HandleInv'
  <2>1. TypeOK'
      BY <1>15 DEF StartCallback, TypeOK, Idle, At
  <2>2. HandlesKnown' /\ CallbacksKnown'
      BY <1>15 DEF StartCallback, HandlesKnown, CallbacksKnown, First
  <2>3. TransfersKnown'
      BY <1>15 DEF StartCallback, TypeOK, HandlesKnown, TransfersKnown, Quiet,
                   Closing, Idle, At
  <2>5. HandlerKnown'
      BY <1>15 DEF StartCallback, TypeOK, HandlerKnown, Closing, Idle, At
  <2> QED BY <2>5, <2>1, <2>2, <2>3
<1>16. CASE EndCallback
  <2>0. serving \in Devices /\ serving \in allocated
      BY <1>16 DEF EndCallback, TypeOK, TransfersKnown
  <2>1. TypeOK'
      BY <1>16, <2>0 DEF EndCallback, TypeOK, Idle, At
  <2>2. HandlesKnown' /\ CallbacksKnown'
      BY <1>16 DEF EndCallback, HandlesKnown, CallbacksKnown, First
  <2>3. TransfersKnown'
      BY <1>16, <2>0 DEF EndCallback, TypeOK, HandlesKnown, TransfersKnown,
                         Quiet, Closing, Idle, At
  <2>5. HandlerKnown'
      BY <1>16 DEF EndCallback, TypeOK, HandlerKnown, Closing, Idle, At
  <2> QED BY <2>5, <2>1, <2>2, <2>3
<1>17. CASE UNCHANGED vars
  <2>1. TypeOK'
      BY <1>17 DEF vars, TypeOK, Idle, At
  <2>2. HandlesKnown' /\ CallbacksKnown' /\ TransfersKnown'
      BY <1>17 DEF vars, HandlesKnown, CallbacksKnown, TransfersKnown, First
  <2>3. HandlerKnown'
      BY <1>17 DEF vars, HandlerKnown
  <2> QED BY <2>1, <2>2, <2>3
<1> QED
    BY <1>1, <1>2, <1>3, <1>4, <1>5, <1>6, <1>7, <1>8, <1>9, <1>10, <1>11,
       <1>12, <1>13, <1>14, <1>15, <1>16, <1>17, <1>18
       DEF Next, Cameras, Caller, Continue, Handler

(* So every state of every behaviour satisfies it.                         *)
LEMMA HandleInvAlways == Spec => []HandleInv
BY HandleInvInit, HandleInvNext, PTL DEF Spec

(* Type correctness: in particular no device is given back a reference it  *)
(* does not have.                                                          *)
THEOREM TypeCorrect == Spec => []TypeOK
<1>1. HandleInv => TypeOK
    BY DEF HandleInv
<1> QED BY <1>1, HandleInvAlways, PTL

(* No status callback runs, or can still run, for a freed handle; one      *)
(* meets a deleted callback object only before libusb_close has returned,  *)
(* and one without an object only while it is being registered.            *)
THEOREM CallbacksInTime == Spec => []NoUseAfterFree
BY HandleInvSafe, HandleInvAlways, PTL
=============================================================================
