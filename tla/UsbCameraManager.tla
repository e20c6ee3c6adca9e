-------------------------- MODULE UsbCameraManager --------------------------
(***************************************************************************)
(* The application's camera (Models/UsbCameraManager.java) on top of the   *)
(* monitor: onConnect destroys the camera in use and lets the one thread   *)
(* of EXECUTER open the next one, the callbacks of the surface start and   *)
(* stop the preview.  mSync orders the two threads, but mPreviewSurface is *)
(* written outside of it.                                                  *)
(*                                                                         *)
(* UVCCamera (UVCCamera.java and UVCCamera.cpp) is taken by its results: a *)
(* camera is created, open or destroyed, its preview off, on, or still     *)
(* drawing on a surface that is gone ("dead").                             *)
(***************************************************************************)
EXTENDS USBMonitor

CONSTANTS
    NoCamera,
    MaxSurfaces         \* bound: times the surface is made

Cameras == [native : {"created", "open", "destroyed"},
            preview : {"off", "on", "dead"}]

ASSUME SurfacesAssumption == MaxSurfaces \in Nat /\ NoCamera \notin Cameras

VARIABLES
    mUVCCamera,         \* NoCamera or [native, preview]
    orphans,            \* the previews of open cameras nobody refers to
    tasks,              \* EXECUTER's queue: the blocks to be opened
    taskAt,             \* "none", "size", "test", "start"; it holds mSync
    mPreviewSurface,    \* whether it is set
    isActive,
    isPreview,
    mainAt,             \* "idle", "changed", "destroyed": in a callback
    crashed,            \* "none", or the method that called one on null:
                        \* the process is gone
    surfaces,           \* history: surfaces made
    overlaps,           \* history: connects while a camera was to be opened
    failed,             \* history: the last camera opened was given up
    raced               \* history: a preview was started under "destroyed"

managerVars == <<mUVCCamera, orphans, tasks, taskAt, mPreviewSurface, isActive,
                 isPreview, mainAt, crashed, surfaces, overlaps, failed,
                 raced>>
vars == <<monitorVars, managerVars>>

Init ==
    /\ MonitorInit
    /\ mUVCCamera = NoCamera /\ orphans = <<>>
    /\ tasks = <<>> /\ taskAt = "none"
    /\ mPreviewSurface = FALSE /\ isActive = FALSE /\ isPreview = FALSE
    /\ mainAt = "idle" /\ crashed = "none"
    /\ surfaces = 0 /\ overlaps = 0 /\ failed = FALSE /\ raced = FALSE

-----------------------------------------------------------------------------
(* UVCCamera                                                               *)

Camera(native, preview) == [native |-> native, preview |-> preview]
IsOpen(c) == c # NoCamera /\ c.native = "open"

(* destroy twice is harmless, the native object is gone after the first.   *)
Destroyed(c) == IF c = NoCamera THEN c ELSE Camera("destroyed", "off")

(* setPreviewDisplay and startPreview: nothing without a native object, a  *)
(* device and a window, and the camera may refuse.                         *)
MayStart(c, surface) ==
    IF IsOpen(c) /\ surface THEN {c, Camera("open", "on")} ELSE {c}

(* Mistake: the preview goes on.                                           *)
NotStopped(c) == c
Stopped(c) == IF c = NoCamera THEN c ELSE [c EXCEPT !.preview = "off"]

-----------------------------------------------------------------------------
(* The main thread                                                         *)

Crashed == crashed # "none"
Free == mainAt = "idle" /\ ~Crashed
Unlocked == taskAt = "none"

(* Mistake: the camera in use is left to the task.                         *)
LeftOpen(c) == c
Replaced(c) == Destroyed(c)

OnConnect(b) ==
    /\ Unlocked
    /\ mUVCCamera' = Replaced(mUVCCamera)
    /\ tasks' = Append(tasks, b)
    /\ overlaps' = IF tasks # <<>> THEN overlaps + 1 ELSE overlaps
    /\ UNCHANGED <<orphans, taskAt, mPreviewSurface, isActive, isPreview,
                   mainAt, crashed, surfaces, failed, raced>>

RunConnect == Free /\ \E b \in 1..Len(blocks) + 1 : Connect(b) /\ OnConnect(b)

(* Mistake: the flags outlive the camera.                                  *)
FlagsKept == UNCHANGED <<isActive, isPreview>>
FlagsReset == isActive' = FALSE /\ isPreview' = FALSE

DestoryUVCCamera ==
    /\ Free /\ Unlocked
    /\ IF mUVCCamera = NoCamera
         THEN /\ crashed' = "destoryUVCCamera"
              /\ UNCHANGED <<mUVCCamera, isActive, isPreview>>
         ELSE mUVCCamera' = NoCamera /\ FlagsReset /\ UNCHANGED crashed
    /\ UNCHANGED <<monitorVars, orphans, tasks, taskAt, mPreviewSurface,
                   mainAt, surfaces, overlaps, failed, raced>>

(* surfaceChanged up to the lock.                                          *)
SurfaceChanged ==
    /\ Free
    /\ mPreviewSurface \/ surfaces < MaxSurfaces
    /\ surfaces' = IF mPreviewSurface THEN surfaces ELSE surfaces + 1
    /\ mPreviewSurface' = TRUE
    /\ mainAt' = "changed"
    /\ UNCHANGED <<monitorVars, mUVCCamera, orphans, tasks, taskAt, isActive,
                   isPreview, crashed, overlaps, failed, raced>>

SurfaceUsed ==
    /\ mainAt = "changed" /\ Unlocked
    /\ mainAt' = "idle"
    /\ IF isActive /\ ~isPreview
         THEN IF mUVCCamera = NoCamera
                THEN /\ crashed' = "surfaceChanged"
                     /\ UNCHANGED <<mUVCCamera, isPreview>>
                ELSE /\ mUVCCamera' \in MayStart(mUVCCamera, mPreviewSurface)
                     /\ isPreview' = TRUE
                     /\ UNCHANGED crashed
         ELSE UNCHANGED <<mUVCCamera, isPreview, crashed>>
    /\ UNCHANGED <<monitorVars, orphans, tasks, taskAt, mPreviewSurface, isActive,
                   surfaces, overlaps, failed, raced>>

(* surfaceDestroyed up to the end of the lock.                             *)
SurfaceDestroyed ==
    /\ Free /\ Unlocked /\ mPreviewSurface
    /\ mUVCCamera' = Stopped(mUVCCamera)
    /\ isPreview' = FALSE
    /\ mainAt' = "destroyed"
    /\ UNCHANGED <<monitorVars, orphans, tasks, taskAt, mPreviewSurface, isActive,
                   crashed, surfaces, overlaps, failed, raced>>

(* When it returns the surface is gone.                                    *)
Gone(preview) == IF preview = "on" THEN "dead" ELSE preview

SurfaceForgotten ==
    /\ mainAt = "destroyed"
    /\ mainAt' = "idle" /\ mPreviewSurface' = FALSE
    /\ mUVCCamera' = IF mUVCCamera = NoCamera THEN NoCamera
                     ELSE [mUVCCamera EXCEPT !.preview = Gone(@)]
    /\ orphans' = [i \in DOMAIN orphans |-> Gone(orphans[i])]
    /\ UNCHANGED <<monitorVars, tasks, taskAt, isActive, isPreview, crashed,
                   surfaces, overlaps, failed, raced>>

-----------------------------------------------------------------------------
(* The thread of EXECUTER                                                  *)

(* A new camera takes the place of the old one and is opened if it can be. *)
TaskOpen ==
    /\ Unlocked /\ tasks # <<>>
    /\ taskAt' = "size" /\ tasks' = Tail(tasks)
    /\ orphans' = IF IsOpen(mUVCCamera) THEN Append(orphans, mUVCCamera.preview)
                  ELSE orphans
    /\ LET block == blocks[Head(tasks)] IN
       \/ mUVCCamera' = Camera("created", "off")
       \/ /\ block.connected /\ place[block.device] = "plugged"
          /\ mUVCCamera' = Camera("open", "off")
    /\ UNCHANGED <<monitorVars, mPreviewSurface, isActive, isPreview, mainAt,
                   crashed, surfaces, overlaps, failed, raced>>

(* MJPEG or the default; a camera that has neither is given up.            *)
TaskSize ==
    /\ taskAt = "size"
    /\ taskAt' = "test"
    /\ \/ IsOpen(mUVCCamera) /\ failed' = FALSE /\ UNCHANGED mUVCCamera
       \/ mUVCCamera' = NoCamera /\ failed' = TRUE
    /\ UNCHANGED <<monitorVars, orphans, tasks, mPreviewSurface, isActive,
                   isPreview, mainAt, crashed, surfaces, overlaps, raced>>

TaskTest ==
    /\ taskAt = "test"
    /\ IF mUVCCamera # NoCamera /\ mPreviewSurface
         THEN taskAt' = "start" /\ isActive' = TRUE
         ELSE taskAt' = "none" /\ UNCHANGED isActive
    /\ UNCHANGED <<monitorVars, mUVCCamera, orphans, tasks, mPreviewSurface,
                   isPreview, mainAt, crashed, surfaces, overlaps, failed,
                   raced>>

(* mPreviewSurface is read once more.                                      *)
TaskStart ==
    /\ taskAt = "start"
    /\ taskAt' = "none"
    /\ mUVCCamera' \in MayStart(mUVCCamera, mPreviewSurface)
    /\ isPreview' = TRUE
    /\ raced' = (raced \/ mainAt = "destroyed")
    /\ UNCHANGED <<monitorVars, orphans, tasks, mPreviewSurface, isActive,
                   mainAt, crashed, surfaces, overlaps, failed>>

-----------------------------------------------------------------------------
(* Next and Spec                                                           *)

(* The monitor's steps of the main thread and those of the outside; all    *)
(* callbacks but onConnect are empty.                                      *)
Receive ==
    /\ Free
    /\ ReceiveAnswer \/ ReceiveDetached \/ Notify
    /\ UNCHANGED managerVars

Check == Free /\ CheckDevices /\ UNCHANGED managerVars

Call ==
    /\ Free
    /\ Register \/ Unregister \/ Destroy \/ \E d \in Devices : RequestPermission(d)
    /\ UNCHANGED managerVars

Outside ==
    /\ \E d \in Devices : Plug(d) \/ Unplug(d) \/ Answer(d)
    /\ UNCHANGED managerVars

DeliverNext == Deliver /\ UNCHANGED managerVars

(* The process does not outlive a crash of the main thread.                *)
Task == ~Crashed /\ (TaskOpen \/ TaskSize \/ TaskTest \/ TaskStart)

Surface == SurfaceChanged \/ SurfaceUsed \/ SurfaceDestroyed \/ SurfaceForgotten

Next == \/ Outside \/ DeliverNext \/ Call \/ Receive \/ Check \/ RunConnect
        \/ DestoryUVCCamera \/ Surface \/ Task

Spec == Init /\ [][Next]_vars

-----------------------------------------------------------------------------
(* Properties                                                              *)

(* Type correctness of the manager and the monitor.                        *)
TypeOK ==
    /\ MonitorTypeOK
    /\ mUVCCamera \in Cameras \cup {NoCamera}
    /\ orphans \in Seq({"off", "on", "dead"})
    /\ tasks \in Seq(1..Len(blocks))
    /\ taskAt \in {"none", "size", "test", "start"}
    /\ mainAt \in {"idle", "changed", "destroyed"}
    /\ mPreviewSurface \in BOOLEAN /\ isActive \in BOOLEAN
    /\ isPreview \in BOOLEAN
    /\ crashed \in {"none", "surfaceChanged", "destoryUVCCamera"}
    /\ surfaces \in 0..MaxSurfaces /\ overlaps \in Nat
    /\ failed \in BOOLEAN /\ raced \in BOOLEAN

(* An open camera loses its last reference only where a device connected   *)
(* before the camera of an earlier connect was opened.                     *)
OrphansBounded == Len(orphans) <= overlaps

(* The camera in use never draws on a surface that is gone, unless the     *)
(* task started it between the two halves of surfaceDestroyed.  Nothing is *)
(* claimed of cameras that are no longer in use: nobody can stop them.     *)
NoDeadSurface ==
    mUVCCamera # NoCamera /\ mUVCCamera.preview = "dead" => raced

(* Without a camera, surfaceChanged finds isActive set, and fails, only    *)
(* where the last camera that was opened had to be given up.  That         *)
(* destoryUVCCamera fails without a camera is left to its callers.         *)
CrashCause == crashed = "surfaceChanged" => failed

(* A broadcast of the detach of d has been sent and not been handled.      *)
DetachPending(d) ==
    \E messages \in {intents, queue} : \E i \in DOMAIN messages :
        messages[i] = Message("detached", d)

(* Whatever the order of attach, detach and poll, the poll will report a   *)
(* device that nobody has been told of: the count it compares is too low,  *)
(* or a detach that is pending will reset it.                              *)
AttachReported ==
    registered /\ unseen # {} =>
        \/ Cardinality(Plugged) > mDeviceCounts
        \/ \E d \in Devices : DetachPending(d)

(* While the monitor stays registered, a connection to a device that has   *)
(* gone is open only until the detach that is pending is handled.          *)
GoneClosed ==
    \A b \in DOMAIN blocks :
        registered /\ calls.register = 1 /\ blocks[b].connected
          /\ place[blocks[b].device] = "gone"
            => DetachPending(blocks[b].device)

(* "called after device opend" (USBMonitor.java, line 78): onConnect gets  *)
(* a block with a connection.                                              *)
ConnectOpened ==
    [][Len(tasks') > Len(tasks) => blocks'[tasks'[Len(tasks')]].connected]_vars
=============================================================================
