----------------------------- MODULE UVCPreview -----------------------------
(***************************************************************************)
(* UVCPreview (UVCCamera/UVCPreview.cpp): the object that starts the USB   *)
(* stream of one camera and moves its frames                               *)
(*                                                                         *)
(*   USB callback --previewFrames--> preview thread --captureQueu-->       *)
(*   capture thread --> capture Surface and Java IFrameCallback            *)
(*                                                                         *)
(* Four kinds of threads run here:                                         *)
(*   client  the JNI caller (one at a time, the application serialises     *)
(*           its calls): startPreview, stopPreview, setFrameCallback, ...  *)
(*   usb     libuvc's callback thread: uvc_preview_frame_callback          *)
(*   pv      preview_thread_func                                           *)
(*   cp[c]   capture_thread_func, one per pthread_create at line 522       *)
(*                                                                         *)
(* A critical section of preview_mutex, capture_mutex or pool_mutex is one *)
(* action.  The only time a lock is held between two actions is between    *)
(* testing a condition and pthread_cond_wait, because stopPreview signals  *)
(* without the lock: these are the pcs "enterWait" and "setterWait".       *)
(* A thread in the wait set of a condition variable has pc "waiting" (or   *)
(* "setterWaiting"); once woken it is "woken" until it has the lock again. *)
(***************************************************************************)
EXTENDS Integers, Sequences, FiniteSets, Functions

CONSTANTS
    Frames,          \* the memory for uvc_frame_t objects
    MaxFrame,        \* MAX_FRAME, the capacity of previewFrames
    CaptureThreads,  \* one identity per capture thread ever created
    Callbacks,       \* Java IFrameCallback objects
    Windows,         \* ANativeWindows a capture can be drawn to
    Modes,           \* the preview modes the client asks for
    MaxStarts,       \* bound: calls of startPreview that create a thread
    MaxRefs,         \* bound: references to one ANativeWindow
    ClientOps,       \* the optional operations the client uses
    StartMayFail,    \* whether negotiation or stream start can fail
    NoFrame, NoThread, NoObj, NoWindow

ASSUME FrameAssumption == NoFrame \notin Frames
ASSUME MaxFrameAssumption == MaxFrame \in Nat \ {0}
ASSUME ThreadAssumption ==
    /\ NoThread \notin CaptureThreads
    /\ \A t \in {"usb", "pv", "client"} : t \notin CaptureThreads
ASSUME ObjectAssumption == NoObj \notin Callbacks /\ NoWindow \notin Windows
ASSUME ModeAssumption == Modes \subseteq {"yuyv", "mjpeg"} /\ Modes # {}
ASSUME BoundAssumption ==
    /\ MaxStarts \in Nat /\ MaxRefs \in Nat
    /\ IsFiniteSet(CaptureThreads) /\ Cardinality(CaptureThreads) = MaxStarts
ASSUME EnvironmentAssumption ==
    /\ ClientOps \subseteq {"size", "frameCallback", "captureDisplay", "destroy"}
    /\ StartMayFail \in BOOLEAN

FRAME_POOL_SZ == MaxFrame + 2

(* The local variables that hold a frame: the copy of the USB callback,    *)
(* the locals of do_preview and those of each capture thread.              *)
LocalSlots == {<<"usb", "copy">>, <<"pv", "frame_mjpeg">>,
               <<"pv", "frame">>, <<"pv", "converted">>}
CaptureSlots == CaptureThreads \X {"frame", "converted", "callback_frame"}
Slots == LocalSlots \cup CaptureSlots

VARIABLES
    client, arg,                  \* pc of the JNI caller, its argument
    usb, pv, cp,                  \* pcs of the other threads
    inSurface,                    \* capture thread is in do_capture_surface
    capture_thread,               \* the id stopPreview joins
    starts,                       \* threads created by startPreview so far
    mIsRunning, mIsCapturing,
    previewFrames, captureQueu, mFramePool,
    hold,                         \* the frame each local variable holds
    leaked,                       \* frames no variable refers to any more
    mPreviewWindow,               \* whether there is a preview window
    mCaptureWindow, winRefs,      \* references UVCPreview owns to a window
    mFrameCallbackObj, mPixelFormat,
    requestMode, frameMode,
    ctrl                          \* the format negotiated with the camera

frameVars == <<previewFrames, captureQueu, mFramePool, hold, leaked>>
windowVars == <<mPreviewWindow, mCaptureWindow, winRefs>>
callbackVars == <<mFrameCallbackObj, mPixelFormat>>
modeVars == <<requestMode, frameMode, ctrl>>
queues == <<previewFrames, captureQueu, leaked>>
runVars == <<mIsRunning, starts, capture_thread>>
clientVars == <<client, arg>>
captureVars == <<cp, inSurface>>
threads == <<usb, pv, captureVars>>
settings == <<windowVars, callbackVars, modeVars>>
shared == <<runVars, mIsCapturing, settings>>
vars == <<clientVars, usb, pv, captureVars, runVars, mIsCapturing,
          frameVars, windowVars, callbackVars, modeVars>>

-----------------------------------------------------------------------------
(* Locks, condition variables and the frame pool                           *)

PreviewMutexFree == pv # "enterWait"
CaptureMutexFree == /\ \A c \in CaptureThreads : cp[c] # "enterWait"
                    /\ client \notin {"callbackWait", "displayWait"}

(* Waking the threads of W that wait for capture_sync; pcs are the pcs the *)
(* capture threads have otherwise.                                         *)
Wake(W, pcs) ==
    /\ cp' = [c \in CaptureThreads |-> IF c \in W THEN "woken" ELSE pcs[c]]
    /\ client' = IF "client" \notin W THEN client
                 ELSE IF client = "callbackWaiting" THEN "callbackWoken"
                 ELSE "displayWoken"

(* Mistake: the paused setters wait on a condition nobody signals.         *)
CaptureWaitersOwnCondition == {c \in CaptureThreads : cp[c] = "waiting"}

CaptureWaiters ==
    {c \in CaptureThreads : cp[c] = "waiting"}
    \cup (IF client \in {"callbackWaiting", "displayWaiting"}
          THEN {"client"} ELSE {})

SignalCaptureSync ==
    \/ CaptureWaiters = {} /\ Wake({}, cp)
    \/ \E t \in CaptureWaiters : Wake({t}, cp)

InUse == mFramePool \cup Range(previewFrames) \cup {captureQueu} \cup leaked
           \cup {hold[s] : s \in Slots}

(* get_frame returns f: the pool's last frame, or a new one, or NULL when  *)
(* no memory is left.                                                      *)
GetFrame(f) ==
    \/ f \in mFramePool /\ mFramePool' = mFramePool \ {f}
    \/ /\ mFramePool = {}
       /\ \/ f \in Frames \ InUse
          \/ Frames \subseteq InUse /\ f = NoFrame
       /\ UNCHANGED mFramePool

(* recycle_frame on each frame of F (NULL is ignored): the pool keeps as   *)
(* many as fit, the others are freed.                                      *)
Recycle(F) ==
    LET room == FRAME_POOL_SZ - Cardinality(mFramePool)
        real == F \ {NoFrame}
    IN  \E K \in SUBSET real :
          /\ \/ K = real /\ Cardinality(K) <= room
             \/ K # real /\ Cardinality(K) = room
          /\ mFramePool' = mFramePool \cup K

(* ANativeWindow_fromSurface on one window, ANativeWindow_release on one.  *)
RefsAfter(acquired, released) ==
    [w \in Windows |-> winRefs[w] + (IF w = acquired THEN 1 ELSE 0)
                                 - (IF w = released THEN 1 ELSE 0)]

-----------------------------------------------------------------------------
Init ==
    /\ client = "idle" /\ arg = NoObj
    /\ usb = "off" /\ pv = "none"
    /\ cp = [c \in CaptureThreads |-> "none"]
    /\ inSurface = [c \in CaptureThreads |-> FALSE]
    /\ capture_thread = NoThread
    /\ starts = 0
    /\ mIsRunning = FALSE /\ mIsCapturing = FALSE
    /\ previewFrames = <<>> /\ captureQueu = NoFrame /\ mFramePool = {}
    /\ hold = [s \in Slots |-> NoFrame] /\ leaked = {}
    /\ mPreviewWindow = FALSE
    /\ mCaptureWindow = NoWindow /\ winRefs = [w \in Windows |-> 0]
    /\ mFrameCallbackObj = NoObj /\ mPixelFormat \in {"raw", "converted"}
    /\ requestMode = "yuyv" /\ frameMode = "yuyv" /\ ctrl = "yuyv"

-----------------------------------------------------------------------------
(* The client: the methods of UVCPreview called through JNI                *)

ClientIdle == client = "idle"

SetPreviewSize ==
    /\ ClientIdle /\ "size" \in ClientOps
    /\ \E mode \in Modes : requestMode # mode /\ requestMode' = mode
    /\ UNCHANGED <<clientVars, threads, runVars, mIsCapturing, frameVars,
                   windowVars, callbackVars, frameMode, ctrl>>

SetPreviewDisplay ==
    /\ ClientIdle /\ PreviewMutexFree
    /\ mPreviewWindow' \in BOOLEAN
    /\ UNCHANGED <<clientVars, threads, runVars, mIsCapturing, frameVars,
                   mCaptureWindow, winRefs, callbackVars, modeVars>>

(* startPreview sets the flag before it takes the lock ...                 *)
StartPreview ==
    /\ ClientIdle /\ ~mIsRunning /\ starts < MaxStarts
    /\ mIsRunning' = TRUE
    /\ client' = "starting"
    /\ UNCHANGED <<arg, threads, starts, capture_thread, mIsCapturing,
                   frameVars, settings>>

(* ... and creates the preview thread if there is a window to draw to.     *)
CreatePreviewThread ==
    /\ client = "starting" /\ PreviewMutexFree
    /\ mPreviewWindow
    /\ pv' = "negotiate" /\ starts' = starts + 1
    /\ client' = "idle"
    /\ UNCHANGED <<arg, usb, captureVars, mIsRunning, capture_thread,
                   mIsCapturing, frameVars, settings>>

StartPreviewFails ==
    /\ client = "starting" /\ PreviewMutexFree
    /\ ~mPreviewWindow
    /\ mIsRunning' = FALSE
    /\ client' = "idle"
    /\ UNCHANGED <<arg, threads, starts, capture_thread, mIsCapturing,
                   frameVars, settings>>

StopPreview ==
    /\ ClientIdle
    /\ IF mIsRunning THEN client' = "signalPreview" /\ mIsRunning' = FALSE
                     ELSE client' = "clearPreview" /\ UNCHANGED mIsRunning
    /\ UNCHANGED <<arg, threads, starts, capture_thread, mIsCapturing,
                   frameVars, settings>>

(* The two signals of stopPreview: the caller holds no lock.               *)
SignalPreview ==
    /\ client = "signalPreview"
    /\ pv' = IF pv = "waiting" THEN "woken" ELSE pv
    /\ client' = "signalCapture"
    /\ UNCHANGED <<arg, usb, captureVars, shared, frameVars>>

SignalCapture ==
    /\ client = "signalCapture"
    /\ LET waiting == {c \in CaptureThreads : cp[c] = "waiting"}
       IN  \/ \E c \in waiting : cp' = [cp EXCEPT ![c] = "woken"]
           \/ waiting = {} /\ UNCHANGED cp
    /\ client' = "joinCapture"
    /\ UNCHANGED <<arg, usb, pv, inSurface, shared, frameVars>>

(* pthread_join(capture_thread): the field is not initialised before the   *)
(* first capture thread is created, and stale after a join; the join of    *)
(* such an id fails with ESRCH, which is logged and ignored.               *)
JoinCapture ==
    /\ client = "joinCapture"
    /\ capture_thread # NoThread => cp[capture_thread] = "done"
    /\ capture_thread' = NoThread
    /\ client' = "joinPreview"
    /\ UNCHANGED <<arg, threads, mIsRunning, starts, mIsCapturing, frameVars,
                   settings>>

(* Mistake: stopPreview does not wait for the preview thread.              *)
JoinPreviewDetached ==
    /\ client = "joinPreview" /\ client' = "clearPreview"
    /\ UNCHANGED <<arg, threads, shared, frameVars>>

JoinPreview ==
    /\ client = "joinPreview" /\ pv = "done"
    /\ client' = "clearPreview"
    /\ UNCHANGED <<arg, threads, shared, frameVars>>

(* The last four steps of stopPreview, each under its own lock:            *)
(* clearPreviewFrame, clearCaptureFrame and the releases of the windows.   *)
ClearPreview ==
    /\ client = "clearPreview" /\ PreviewMutexFree
    /\ Recycle(Range(previewFrames)) /\ previewFrames' = <<>>
    /\ client' = "clearCapture"
    /\ UNCHANGED <<arg, threads, shared, captureQueu, hold, leaked>>

ClearCapture ==
    /\ client = "clearCapture" /\ CaptureMutexFree
    /\ Recycle({captureQueu}) /\ captureQueu' = NoFrame
    /\ client' = "releasePreview"
    /\ UNCHANGED <<arg, threads, shared, previewFrames, hold, leaked>>

ReleasePreviewWindow ==
    /\ client = "releasePreview" /\ PreviewMutexFree
    /\ mPreviewWindow' = FALSE
    /\ client' = "releaseCapture"
    /\ UNCHANGED <<arg, threads, runVars, mIsCapturing, frameVars,
                   mCaptureWindow, winRefs, callbackVars, modeVars>>

ReleaseCaptureWindow ==
    /\ client = "releaseCapture" /\ CaptureMutexFree
    /\ winRefs' = RefsAfter(NoWindow, mCaptureWindow)
    /\ mCaptureWindow' = NoWindow
    /\ client' = "idle"
    /\ UNCHANGED <<arg, threads, runVars, mIsCapturing, frameVars,
                   mPreviewWindow, callbackVars, modeVars>>

(* UVCCamera::release deletes the object after its stopPreview.            *)
Destroy ==
    /\ ClientIdle /\ ~mIsRunning /\ "destroy" \in ClientOps
    /\ mFramePool' = {} /\ previewFrames' = <<>> /\ captureQueu' = NoFrame
    /\ winRefs' = RefsAfter(NoWindow, mCaptureWindow)
    /\ mCaptureWindow' = NoWindow /\ mPreviewWindow' = FALSE
    /\ client' = "destroyed"
    /\ UNCHANGED <<arg, threads, runVars, mIsCapturing, hold, leaked,
                   callbackVars, modeVars>>

-----------------------------------------------------------------------------
(* setFrameCallback and setCaptureDisplay: if a capture is going on, ask   *)
(* the capture thread to pause and wait for capture_sync, then swap.       *)

MustPause == mIsRunning /\ mIsCapturing

SwapCallback(obj) ==
    /\ mFrameCallbackObj' = obj
    /\ IF obj # NoObj THEN mPixelFormat' \in {"raw", "converted"}
                      ELSE UNCHANGED mPixelFormat

SetFrameCallback ==
    /\ ClientIdle /\ "frameCallback" \in ClientOps /\ CaptureMutexFree
    /\ mIsCapturing' = (mIsCapturing /\ ~MustPause)
    /\ \E obj \in Callbacks \cup {NoObj} :
         IF MustPause /\ mFrameCallbackObj # NoObj
           THEN client' = "callbackWait" /\ arg' = obj /\ UNCHANGED callbackVars
           ELSE SwapCallback(obj) /\ UNCHANGED clientVars
    /\ UNCHANGED <<threads, runVars, frameVars, windowVars, modeVars>>

SwapWindow(w) ==
    IF mCaptureWindow = w
      THEN UNCHANGED <<mCaptureWindow, winRefs>>
      ELSE mCaptureWindow' = w /\ winRefs' = RefsAfter(NoWindow, mCaptureWindow)

(* The JNI layer takes a reference to the new window first.                *)
SetCaptureDisplay ==
    /\ ClientIdle /\ "captureDisplay" \in ClientOps /\ CaptureMutexFree
    /\ mIsCapturing' = (mIsCapturing /\ ~MustPause)
    /\ \E w \in Windows \cup {NoWindow} :
         /\ w # NoWindow => winRefs[w] < MaxRefs
         /\ IF MustPause /\ mCaptureWindow # NoWindow
              THEN /\ client' = "displayWait" /\ arg' = w
                   /\ winRefs' = RefsAfter(w, NoWindow) /\ UNCHANGED mCaptureWindow
              ELSE /\ winRefs' = RefsAfter(w, IF w = mCaptureWindow
                                              THEN NoWindow ELSE mCaptureWindow)
                   /\ mCaptureWindow' = w /\ UNCHANGED clientVars
    /\ UNCHANGED <<threads, runVars, frameVars, mPreviewWindow, callbackVars,
                   modeVars>>

(* pthread_cond_signal and then pthread_cond_wait, which gives up the lock *)
SetterWait ==
    /\ \/ client = "callbackWait" /\ client' = "callbackWaiting"
       \/ client = "displayWait" /\ client' = "displayWaiting"
    /\ LET waiting == {c \in CaptureThreads : cp[c] = "waiting"}
       IN  \/ \E c \in waiting : cp' = [cp EXCEPT ![c] = "woken"]
           \/ waiting = {} /\ UNCHANGED cp
    /\ UNCHANGED <<arg, usb, pv, inSurface, shared, frameVars>>

SwapCallbackAfterWait ==
    /\ client = "callbackWoken" /\ CaptureMutexFree
    /\ SwapCallback(arg)
    /\ client' = "idle" /\ arg' = NoObj
    /\ UNCHANGED <<threads, runVars, mIsCapturing, frameVars, windowVars,
                   modeVars>>

SwapWindowAfterWait ==
    /\ client = "displayWoken" /\ CaptureMutexFree
    /\ SwapWindow(arg)
    /\ client' = "idle" /\ arg' = NoObj
    /\ UNCHANGED <<threads, runVars, mIsCapturing, frameVars, mPreviewWindow,
                   callbackVars, modeVars>>

-----------------------------------------------------------------------------
(* The USB callback thread: uvc_preview_frame_callback                     *)

UsbUsesFrames == UNCHANGED <<clientVars, pv, captureVars, queues, shared>>

UsbFrame ==
    /\ usb = "idle" /\ mIsRunning
    /\ \E f \in Frames : /\ GetFrame(f)
                         /\ hold' = [hold EXCEPT ![<<"usb", "copy">>] = f]
    /\ usb' = "duplicate"
    /\ UsbUsesFrames

UsbDuplicate ==
    /\ usb = "duplicate" /\ usb' = "add"
    /\ UNCHANGED <<mFramePool, hold>> /\ UsbUsesFrames

(* uvc_duplicate_frame fails: the frame goes back to the pool.             *)
UsbDuplicateFails ==
    /\ usb = "duplicate"
    /\ Recycle({hold[<<"usb", "copy">>]})
    /\ hold' = [hold EXCEPT ![<<"usb", "copy">>] = NoFrame]
    /\ usb' = "idle"
    /\ UsbUsesFrames

(* Mistakes: one frame more than MAX_FRAME is queued; the preview thread   *)
(* is not signalled.                                                       *)
AddPreviewFrameOneMore ==
    /\ usb = "add" /\ PreviewMutexFree /\ mIsRunning
    /\ Len(previewFrames) <= MaxFrame
    /\ previewFrames' = Append(previewFrames, hold[<<"usb", "copy">>])
    /\ pv' = IF pv = "waiting" THEN "woken" ELSE pv
    /\ hold' = [hold EXCEPT ![<<"usb", "copy">>] = NoFrame]
    /\ usb' = "idle"
    /\ UNCHANGED <<clientVars, captureVars, shared, captureQueu, mFramePool,
                   leaked>>

AddPreviewFrameSilent ==
    /\ usb = "add" /\ PreviewMutexFree
    /\ IF mIsRunning /\ Len(previewFrames) < MaxFrame
         THEN /\ previewFrames' = Append(previewFrames, hold[<<"usb", "copy">>])
              /\ UNCHANGED mFramePool
         ELSE Recycle({hold[<<"usb", "copy">>]}) /\ UNCHANGED previewFrames
    /\ hold' = [hold EXCEPT ![<<"usb", "copy">>] = NoFrame]
    /\ usb' = "idle"
    /\ UNCHANGED <<clientVars, pv, captureVars, shared, captureQueu, leaked>>

AddPreviewFrame ==
    /\ usb = "add" /\ PreviewMutexFree
    /\ IF mIsRunning /\ Len(previewFrames) < MaxFrame
         THEN /\ previewFrames' = Append(previewFrames, hold[<<"usb", "copy">>])
              /\ pv' = IF pv = "waiting" THEN "woken" ELSE pv
              /\ UNCHANGED mFramePool
         ELSE /\ Recycle({hold[<<"usb", "copy">>]})
              /\ UNCHANGED <<previewFrames, pv>>
    /\ hold' = [hold EXCEPT ![<<"usb", "copy">>] = NoFrame]
    /\ usb' = "idle"
    /\ UNCHANGED <<clientVars, captureVars, shared, captureQueu, leaked>>

-----------------------------------------------------------------------------
(* The preview thread: prepare_preview and do_preview                      *)

PvUsesFrames == UNCHANGED <<clientVars, usb, captureVars, queues, shared>>

(* uvc_get_stream_ctrl_format_size_fps asks for the requested mode ...     *)
PvNegotiate ==
    /\ pv = "negotiate"
    /\ \/ pv' = "prepare" /\ ctrl' = requestMode
       \/ StartMayFail /\ pv' = "done" /\ UNCHANGED ctrl
    /\ UNCHANGED <<clientVars, usb, captureVars, runVars, mIsCapturing,
                   frameVars, windowVars, callbackVars, requestMode,
                   frameMode>>

(* ... and frameMode is read from requestMode when the answer has come.    *)
PvPrepare ==
    /\ pv = "prepare" /\ PreviewMutexFree
    /\ frameMode' = requestMode
    /\ \/ pv' = "startStream"
       \/ StartMayFail /\ pv' = "done"
    /\ UNCHANGED <<clientVars, usb, captureVars, runVars, mIsCapturing,
                   frameVars, windowVars, callbackVars, requestMode, ctrl>>

PvStartStream ==
    /\ pv = "startStream"
    /\ \/ pv' = "clear" /\ usb' = "idle"
       \/ StartMayFail /\ pv' = "done" /\ UNCHANGED usb
    /\ UNCHANGED <<clientVars, captureVars, shared, frameVars>>

PvClearPreviewFrame ==
    /\ pv = "clear" /\ PreviewMutexFree
    /\ Recycle(Range(previewFrames)) /\ previewFrames' = <<>>
    /\ pv' = "create"
    /\ UNCHANGED <<clientVars, usb, captureVars, shared, captureQueu, hold,
                   leaked>>

PvCreateCapture ==
    /\ pv = "create"
    /\ \E c \in CaptureThreads :
         /\ cp[c] = "none" /\ cp' = [cp EXCEPT ![c] = "init"]
         /\ capture_thread' = c
    /\ pv' = "loop"
    /\ UNCHANGED <<clientVars, usb, inSurface, mIsRunning, starts,
                   mIsCapturing, frameVars, settings>>

(* One turn of do_preview's loop up to the lock, and waitPreviewFrame: take *)
(* the first frame, or get ready to wait with the lock held.                *)
PvSlot == <<"pv", IF frameMode = "mjpeg" THEN "frame_mjpeg" ELSE "frame">>

TakePreviewFrame ==
    /\ hold' = [hold EXCEPT ![PvSlot] = Head(previewFrames)]
    /\ previewFrames' = Tail(previewFrames)
    /\ pv' = IF frameMode = "mjpeg" THEN "getYuyv" ELSE "draw"

PvLoop ==
    /\ pv = "loop"
    /\ \/ mIsRunning /\ previewFrames # <<>> /\ TakePreviewFrame
       \/ /\ mIsRunning /\ previewFrames = <<>> /\ pv' = "enterWait"
          /\ UNCHANGED <<hold, previewFrames>>
       \/ ~mIsRunning /\ pv' = "signal" /\ UNCHANGED <<hold, previewFrames>>
    /\ UNCHANGED <<clientVars, usb, captureVars, shared, captureQueu,
                   mFramePool, leaked>>

PvWait ==
    /\ pv = "enterWait" /\ pv' = "waiting"
    /\ UNCHANGED <<clientVars, usb, captureVars, shared, frameVars>>

PvWoken ==
    /\ pv = "woken"
    /\ IF mIsRunning /\ previewFrames # <<>>
         THEN TakePreviewFrame
         ELSE pv' = "loop" /\ UNCHANGED <<hold, previewFrames>>
    /\ UNCHANGED <<clientVars, usb, captureVars, shared, captureQueu,
                   mFramePool, leaked>>

PvGetYuyv ==
    /\ pv = "getYuyv"
    /\ \E f \in Frames \cup {NoFrame} :
         GetFrame(f) /\ hold' = [hold EXCEPT ![<<"pv", "frame">>] = f]
    /\ pv' = "decode"
    /\ PvUsesFrames

(* uvc_mjpeg2yuyv dereferences its output, and refuses other formats.      *)
PvDecode ==
    /\ pv = "decode"
    /\ LET mjpeg == hold[<<"pv", "frame_mjpeg">>]
           frame == hold[<<"pv", "frame">>]
       IN  \/ /\ frame = NoFrame /\ pv' = "crashed"
              /\ UNCHANGED <<mFramePool, hold>>
           \/ /\ frame # NoFrame /\ ctrl = "mjpeg"
              /\ Recycle({mjpeg}) /\ pv' = "draw"
              /\ hold' = [hold EXCEPT ![<<"pv", "frame_mjpeg">>] = NoFrame]
           \/ /\ frame # NoFrame
              /\ Recycle({mjpeg, frame}) /\ pv' = "loop"
              /\ hold' = [hold EXCEPT ![<<"pv", "frame_mjpeg">>] = NoFrame,
                                      ![<<"pv", "frame">>] = NoFrame]
    /\ PvUsesFrames

(* draw_preview_one: look for a window and convert into a second frame ... *)
PvConvert ==
    /\ pv = "draw" /\ PreviewMutexFree
    /\ IF mPreviewWindow
         THEN \E f \in Frames \cup {NoFrame} :
                /\ GetFrame(f)
                /\ hold' = [hold EXCEPT ![<<"pv", "converted">>] = f]
         ELSE UNCHANGED <<mFramePool, hold>>
    /\ pv' = "copy"
    /\ PvUsesFrames

(* Mistake: draw_preview_one recycles the frame it returns.                *)
PvCopyToSurfaceSwapped ==
    /\ pv = "copy" /\ PreviewMutexFree
    /\ Recycle({hold[<<"pv", "frame">>]})
    /\ hold' = [hold EXCEPT ![<<"pv", "converted">>] = NoFrame]
    /\ pv' = "addCapture"
    /\ PvUsesFrames

(* ... copy it to the window, if there still is one, and recycle it.       *)
PvCopyToSurface ==
    /\ pv = "copy" /\ PreviewMutexFree
    /\ Recycle({hold[<<"pv", "converted">>]})
    /\ hold' = [hold EXCEPT ![<<"pv", "converted">>] = NoFrame]
    /\ pv' = "addCapture"
    /\ PvUsesFrames

(* Mistakes: the frame that was queued is not recycled; nobody is woken.   *)
AddCaptureFrameLosesOld ==
    /\ pv = "addCapture" /\ CaptureMutexFree
    /\ leaked' = leaked \cup ({captureQueu} \ {NoFrame})
    /\ captureQueu' = hold[<<"pv", "frame">>]
    /\ Wake(CaptureWaiters, cp)
    /\ hold' = [hold EXCEPT ![<<"pv", "frame">>] = NoFrame]
    /\ pv' = "loop"
    /\ UNCHANGED <<arg, usb, inSurface, shared, previewFrames, mFramePool>>

AddCaptureFrameSilent ==
    /\ pv = "addCapture" /\ CaptureMutexFree
    /\ Recycle({captureQueu}) /\ captureQueu' = hold[<<"pv", "frame">>]
    /\ hold' = [hold EXCEPT ![<<"pv", "frame">>] = NoFrame]
    /\ pv' = "loop"
    /\ UNCHANGED <<arg, client, cp, usb, inSurface, shared, previewFrames, leaked>>

(* addCaptureFrame keeps the latest frame only; when the preview has been  *)
(* stopped it neither stores nor recycles the frame.                       *)
AddCaptureFrame ==
    /\ pv = "addCapture" /\ CaptureMutexFree
    /\ LET frame == hold[<<"pv", "frame">>]
       IN  IF mIsRunning
             THEN /\ Recycle({captureQueu}) /\ captureQueu' = frame
                  /\ Wake(CaptureWaiters, cp) /\ UNCHANGED leaked
             ELSE /\ leaked' = leaked \cup {frame}
                  /\ UNCHANGED <<mFramePool, captureQueu, cp, client>>
    /\ hold' = [hold EXCEPT ![<<"pv", "frame">>] = NoFrame]
    /\ pv' = "loop"
    /\ UNCHANGED <<arg, usb, inSurface, shared, previewFrames>>

PvSignalCapture ==
    /\ pv = "signal" /\ SignalCaptureSync
    /\ pv' = "stopStream"
    /\ UNCHANGED <<arg, usb, inSurface, shared, frameVars>>

(* uvc_stop_streaming returns when the callback thread has ended.          *)
PvStopStream ==
    /\ pv = "stopStream" /\ usb = "idle"
    /\ usb' = "off" /\ pv' = "done"
    /\ UNCHANGED <<clientVars, captureVars, shared, frameVars>>

-----------------------------------------------------------------------------
(* A capture thread: do_capture                                            *)

CpUnchanged == UNCHANGED <<clientVars, usb, pv, runVars, modeVars>>
CpOnly == CpUnchanged /\ UNCHANGED <<inSurface, mIsCapturing, frameVars,
                                     windowVars, callbackVars>>
CpUsesFrames == CpUnchanged /\ UNCHANGED <<inSurface, mIsCapturing, queues,
                                           windowVars, callbackVars>>

CpInit(c) ==
    /\ cp[c] = "init" /\ CaptureMutexFree
    /\ Recycle({captureQueu}) /\ captureQueu' = NoFrame
    /\ cp' = [cp EXCEPT ![c] = "loop"]
    /\ CpUnchanged
    /\ UNCHANGED <<inSurface, mIsCapturing, previewFrames, hold, leaked,
                   windowVars, callbackVars>>

(* The test of isRunning, the flag set again, and the choice of a loop:    *)
(* three accesses without a lock.                                          *)
CpLoop(c) ==
    /\ cp[c] = "loop"
    /\ cp' = [cp EXCEPT ![c] = IF mIsRunning THEN "capture" ELSE "done"]
    /\ CpOnly

CpCapture(c) ==
    /\ cp[c] = "capture" /\ cp' = [cp EXCEPT ![c] = "choose"]
    /\ mIsCapturing' = TRUE
    /\ CpUnchanged /\ UNCHANGED <<inSurface, frameVars, windowVars, callbackVars>>

CpChoose(c) ==
    /\ cp[c] = "choose" /\ cp' = [cp EXCEPT ![c] = "test"]
    /\ inSurface' = [inSurface EXCEPT ![c] = mCaptureWindow # NoWindow]
    /\ CpUnchanged
    /\ UNCHANGED <<mIsCapturing, frameVars, windowVars, callbackVars>>

(* The loop condition of do_capture_idle_loop and do_capture_surface       *)
CpTest(c) ==
    /\ cp[c] = "test"
    /\ cp' = [cp EXCEPT ![c] = IF mIsRunning /\ mIsCapturing THEN "take"
                               ELSE IF inSurface[c] THEN "leaveSurface"
                               ELSE "broadcast"]
    /\ CpOnly

TakeCaptureFrame(c) ==
    /\ hold' = [hold EXCEPT ![<<c, "frame">>] = captureQueu]
    /\ captureQueu' = NoFrame
    /\ cp' = [cp EXCEPT ![c] = IF inSurface[c] THEN "convert" ELSE "callback"]

NoCaptureFrame(c) ==
    cp' = [cp EXCEPT ![c] = "test"] /\ UNCHANGED <<hold, captureQueu>>

(* waitCaptureFrame, up to the wait and after it                           *)
CpTake(c) ==
    /\ cp[c] = "take" /\ CaptureMutexFree
    /\ \/ captureQueu # NoFrame /\ mIsRunning /\ TakeCaptureFrame(c)
       \/ captureQueu # NoFrame /\ ~mIsRunning /\ NoCaptureFrame(c)
       \/ /\ captureQueu = NoFrame /\ cp' = [cp EXCEPT ![c] = "enterWait"]
          /\ UNCHANGED <<hold, captureQueu>>
    /\ CpUnchanged
    /\ UNCHANGED <<inSurface, mIsCapturing, previewFrames, mFramePool, leaked,
                   windowVars, callbackVars>>

CpWait(c) ==
    /\ cp[c] = "enterWait" /\ cp' = [cp EXCEPT ![c] = "waiting"]
    /\ CpOnly

CpWoken(c) ==
    /\ cp[c] = "woken" /\ CaptureMutexFree
    /\ IF mIsRunning /\ captureQueu # NoFrame THEN TakeCaptureFrame(c)
                                              ELSE NoCaptureFrame(c)
    /\ CpUnchanged
    /\ UNCHANGED <<inSurface, mIsCapturing, previewFrames, mFramePool, leaked,
                   windowVars, callbackVars>>

(* do_capture_surface: convert, if still capturing, and look for the window *)
CpConvert(c) ==
    /\ cp[c] = "convert"
    /\ IF mIsCapturing
         THEN /\ IF hold[<<c, "converted">>] = NoFrame
                   THEN \E f \in Frames \cup {NoFrame} :
                          /\ GetFrame(f)
                          /\ hold' = [hold EXCEPT ![<<c, "converted">>] = f]
                   ELSE UNCHANGED <<mFramePool, hold>>
              /\ cp' = [cp EXCEPT ![c] =
                          IF hold'[<<c, "converted">>] # NoFrame
                               /\ mCaptureWindow # NoWindow
                            THEN "copy" ELSE "callback"]
         ELSE /\ cp' = [cp EXCEPT ![c] = "callback"]
              /\ UNCHANGED <<mFramePool, hold>>
    /\ CpUsesFrames

(* copyToSurface reads mCaptureWindow again, without a lock.               *)
CpCopy(c) ==
    /\ cp[c] = "copy"
    /\ \/ cp' = [cp EXCEPT ![c] = "callback"]
       \/ mCaptureWindow = NoWindow /\ cp' = [cp EXCEPT ![c] = "crashed"]
    /\ CpOnly

(* do_capture_callback: whether there is somebody to call, and in which    *)
(* format; without a callback or memory the frame is recycled.             *)
CpCallback(c) ==
    /\ cp[c] = "callback"
    /\ \/ /\ mFrameCallbackObj # NoObj /\ mPixelFormat = "raw"
          /\ cp' = [cp EXCEPT ![c] = "call"] /\ UNCHANGED <<mFramePool, hold>>
       \/ /\ mFrameCallbackObj # NoObj /\ mPixelFormat = "converted"
          /\ \E f \in Frames :
               /\ GetFrame(f)
               /\ hold' = [hold EXCEPT ![<<c, "callback_frame">>] = f]
          /\ cp' = [cp EXCEPT ![c] = "convertCallback"]
       \/ /\ \/ mFrameCallbackObj = NoObj
             \/ mPixelFormat = "converted" /\ mFramePool = {} /\ Frames \subseteq InUse
          /\ Recycle({hold[<<c, "frame">>]})
          /\ hold' = [hold EXCEPT ![<<c, "frame">>] = NoFrame]
          /\ cp' = [cp EXCEPT ![c] = "test"]
    /\ CpUsesFrames

CpConvertCallback(c) ==
    /\ cp[c] = "convertCallback"
    /\ \/ /\ Recycle({hold[<<c, "frame">>]})
          /\ hold' = [hold EXCEPT ![<<c, "frame">>] = NoFrame]
          /\ cp' = [cp EXCEPT ![c] = "call"]
       \/ /\ Recycle({hold[<<c, "frame">>], hold[<<c, "callback_frame">>]})
          /\ hold' = [hold EXCEPT ![<<c, "frame">>] = NoFrame,
                                  ![<<c, "callback_frame">>] = NoFrame]
          /\ cp' = [cp EXCEPT ![c] = "test"]
    /\ CpUsesFrames

(* CallVoidMethod on mFrameCallbackObj as it is now aborts for a null one. *)
CpCall(c) ==
    /\ cp[c] = "call"
    /\ IF mFrameCallbackObj = NoObj
         THEN /\ cp' = [cp EXCEPT ![c] = "crashed"]
              /\ UNCHANGED <<mFramePool, hold>>
         ELSE /\ Recycle({hold[<<c, "frame">>], hold[<<c, "callback_frame">>]})
              /\ hold' = [hold EXCEPT ![<<c, "frame">>] = NoFrame,
                                      ![<<c, "callback_frame">>] = NoFrame]
              /\ cp' = [cp EXCEPT ![c] = "test"]
    /\ CpUsesFrames

(* The end of do_capture_surface: test, release and forget the window, all *)
(* without capture_mutex.                                                  *)
CpLeaveSurface(c) ==
    /\ cp[c] = "leaveSurface"
    /\ Recycle({hold[<<c, "converted">>]})
    /\ hold' = [hold EXCEPT ![<<c, "converted">>] = NoFrame]
    /\ cp' = [cp EXCEPT ![c] = IF mCaptureWindow # NoWindow THEN "release"
                                                            ELSE "broadcast"]
    /\ CpUsesFrames

CpReleaseWindow(c) ==
    /\ cp[c] = "release"
    /\ cp' = [cp EXCEPT ![c] = IF mCaptureWindow = NoWindow THEN "crashed"
                                                            ELSE "forget"]
    /\ winRefs' = RefsAfter(NoWindow, mCaptureWindow)
    /\ CpUnchanged
    /\ UNCHANGED <<inSurface, mIsCapturing, frameVars, mPreviewWindow,
                   mCaptureWindow, callbackVars>>

CpForgetWindow(c) ==
    /\ cp[c] = "forget"
    /\ mCaptureWindow' = NoWindow
    /\ cp' = [cp EXCEPT ![c] = "broadcast"]
    /\ CpUnchanged
    /\ UNCHANGED <<inSurface, mIsCapturing, frameVars, mPreviewWindow, winRefs,
                   callbackVars>>

CpBroadcast(c) ==
    /\ cp[c] = "broadcast"
    /\ Wake(CaptureWaiters, [cp EXCEPT ![c] = "loop"])
    /\ UNCHANGED <<arg, usb, pv, inSurface, shared, frameVars>>

(* pthread_cond_wait may return without a signal.                          *)
SpuriousWakeup ==
    /\ \/ pv = "waiting" /\ pv' = "woken" /\ UNCHANGED <<cp, client>>
       \/ \E t \in CaptureWaiters : Wake({t}, cp) /\ UNCHANGED pv
    /\ UNCHANGED <<arg, usb, inSurface, shared, frameVars>>

-----------------------------------------------------------------------------
ClientCall == \/ SetPreviewSize \/ SetPreviewDisplay \/ StartPreview
              \/ StopPreview \/ SetFrameCallback \/ SetCaptureDisplay \/ Destroy

ClientContinue == \/ CreatePreviewThread \/ StartPreviewFails
                  \/ SignalPreview \/ SignalCapture \/ JoinCapture \/ JoinPreview
                  \/ ClearPreview \/ ClearCapture
                  \/ ReleasePreviewWindow \/ ReleaseCaptureWindow
                  \/ SetterWait \/ SwapCallbackAfterWait \/ SwapWindowAfterWait

UsbNext == UsbFrame \/ UsbDuplicate \/ UsbDuplicateFails \/ AddPreviewFrame

PvNext == \/ PvNegotiate \/ PvPrepare \/ PvStartStream \/ PvClearPreviewFrame
          \/ PvCreateCapture \/ PvLoop \/ PvWait \/ PvWoken \/ PvGetYuyv
          \/ PvDecode \/ PvConvert \/ PvCopyToSurface \/ AddCaptureFrame
          \/ PvSignalCapture \/ PvStopStream

CpNext(c) == \/ CpInit(c) \/ CpLoop(c) \/ CpCapture(c) \/ CpChoose(c)
             \/ CpTest(c) \/ CpTake(c) \/ CpWait(c)
             \/ CpWoken(c) \/ CpConvert(c) \/ CpCopy(c) \/ CpCallback(c)
             \/ CpConvertCallback(c) \/ CpCall(c) \/ CpLeaveSurface(c)
             \/ CpReleaseWindow(c) \/ CpForgetWindow(c) \/ CpBroadcast(c)

(* Nothing runs after the process has crashed; what threads do with a      *)
(* deleted object, or with a window released too often, is undefined.      *)
Alive == /\ client # "destroyed" /\ pv # "crashed"
         /\ \A c \in CaptureThreads : cp[c] # "crashed"
         /\ \A w \in Windows : winRefs[w] >= 0

Next == /\ Alive
        /\ \/ ClientCall \/ ClientContinue \/ UsbNext \/ PvNext \/ SpuriousWakeup
           \/ \E c \in CaptureThreads : CpNext(c)

Spec == Init /\ [][Next]_vars

(* Every thread that can run again and again does, locks are starvation    *)
(* free, and the camera goes on delivering frames that can be copied; the  *)
(* client finishes the call it is in but need not make another one.        *)
Fairness == /\ SF_vars(Alive /\ ClientContinue)
            /\ SF_vars(Alive /\ UsbFrame) /\ SF_vars(Alive /\ UsbDuplicate)
            /\ SF_vars(Alive /\ AddPreviewFrame)
            /\ SF_vars(Alive /\ PvNext)
            /\ \A c \in CaptureThreads : SF_vars(Alive /\ CpNext(c))

LiveSpec == Spec /\ Fairness

-----------------------------------------------------------------------------
(* Types                                                                   *)

ClientPcs == {"idle", "starting", "signalPreview", "signalCapture",
              "joinCapture", "joinPreview", "clearPreview", "clearCapture",
              "releasePreview", "releaseCapture",
              "callbackWait", "callbackWaiting", "callbackWoken",
              "displayWait", "displayWaiting", "displayWoken", "destroyed"}
PvPcs == {"none", "negotiate", "prepare", "startStream", "clear", "create",
          "loop", "enterWait", "waiting", "woken", "getYuyv", "decode", "draw",
          "copy", "addCapture", "signal", "stopStream", "done", "crashed"}
CpPcs == {"none", "init", "loop", "capture", "choose", "test", "take",
          "enterWait", "waiting", "woken", "convert", "copy", "callback", "convertCallback", "call",
          "leaveSurface", "release", "forget", "broadcast", "done", "crashed"}

ThreadTypes ==
    /\ client \in ClientPcs /\ pv \in PvPcs
    /\ usb \in {"off", "idle", "duplicate", "add"}
    /\ cp \in [CaptureThreads -> CpPcs]
    /\ capture_thread \in CaptureThreads \cup {NoThread}
    /\ starts \in 0..MaxStarts
    /\ client = "starting" => starts < MaxStarts

FlagTypes ==
    /\ mIsRunning \in BOOLEAN /\ mIsCapturing \in BOOLEAN
    /\ mPreviewWindow \in BOOLEAN
    /\ inSurface \in [CaptureThreads -> BOOLEAN]

FrameTypes ==
    /\ previewFrames \in Seq(Frames) /\ Len(previewFrames) <= MaxFrame
    /\ captureQueu \in Frames \cup {NoFrame}
    /\ mFramePool \subseteq Frames /\ leaked \subseteq Frames
    /\ hold \in [Slots -> Frames \cup {NoFrame}]

SettingTypes ==
    /\ client \in {"callbackWait", "callbackWaiting", "callbackWoken"}
         => arg \in Callbacks \cup {NoObj}
    /\ client \in {"displayWait", "displayWaiting", "displayWoken"}
         => arg \in Windows \cup {NoWindow}
    /\ mCaptureWindow \in Windows \cup {NoWindow}
    /\ winRefs \in [Windows -> Int]
    /\ mFrameCallbackObj \in Callbacks \cup {NoObj}
    /\ mPixelFormat \in {"raw", "converted"}
    /\ requestMode \in {"yuyv", "mjpeg"} /\ frameMode \in {"yuyv", "mjpeg"}
    /\ ctrl \in {"yuyv", "mjpeg"}

(* Type correctness of the preview object and its threads: among others    *)
(* the argument of a paused setter is of the kind it will store.           *)
TypeOK == ThreadTypes /\ FlagTypes /\ FrameTypes /\ SettingTypes

-----------------------------------------------------------------------------
(* Safety                                                                  *)

(* A frame has one owner: the pool, a place in previewFrames, captureQueu, *)
(* or one local variable of one thread; a lost frame stays lost.  So no    *)
(* two threads ever write the same buffer, and no frame is freed twice,    *)
(* although frames pass between four threads and the pool under three      *)
(* locks (get_frame, recycle_frame, addPreviewFrame, waitCaptureFrame...). *)
FrameOwnership ==
    /\ \A i, j \in DOMAIN previewFrames : previewFrames[i] = previewFrames[j] => i = j
    /\ \A s, t \in Slots : hold[s] = hold[t] /\ hold[s] # NoFrame => s = t
    /\ \A i \in DOMAIN previewFrames, s \in Slots : previewFrames[i] # hold[s]
    /\ \A i \in DOMAIN previewFrames :
         previewFrames[i] # captureQueu /\ previewFrames[i] \notin mFramePool \cup leaked
    /\ \A s \in Slots :
         /\ hold[s] = captureQueu => captureQueu = NoFrame
         /\ hold[s] \notin mFramePool \cup leaked
    /\ captureQueu \notin mFramePool \cup leaked
    /\ mFramePool \cap leaked = {}

(* A thread never sleeps on a condition variable while the frame it waits  *)
(* for is there: addPreviewFrame and addCaptureFrame always wake it, even  *)
(* if it went to sleep in between (waitPreviewFrame, waitCaptureFrame test *)
(* the queue and sleep under one lock).                                    *)
NoSleepOnFrame ==
    /\ pv \in {"enterWait", "waiting"} => previewFrames = <<>>
    /\ \A c \in CaptureThreads :
         cp[c] \in {"enterWait", "waiting"} => captureQueu = NoFrame

(* Once stopPreview has returned no preview thread runs, the stream is off *)
(* and both queues are empty, whatever the threads were doing when it was  *)
(* called.                                                                 *)
StoppedQuiet ==
    client \in {"idle", "destroyed"} /\ ~mIsRunning =>
        /\ pv \in {"none", "done"} /\ usb = "off"
        /\ previewFrames = <<>> /\ captureQueu = NoFrame

(* addCaptureFrame forgets the frame of a preview that has just been       *)
(* stopped: at most one frame per preview is lost that way.                *)
LeakBounded == Cardinality(leaked) <= starts

(* "frame data is always YUYV format" (do_capture_surface, line 815): what *)
(* the preview thread hands to the capture thread has been decoded, or     *)
(* came from a stream that was negotiated as YUYV.                         *)
CaptureIsYuyv ==
    captureQueu # NoFrame => frameMode = "mjpeg" \/ ctrl = "yuyv"

(* "wait finishing capturing" (setFrameCallback, line 218): the callback   *)
(* object is not replaced while a capture thread is calling it.            *)
CallbackObjectStable ==
    [][\A c \in CaptureThreads : cp[c] \in {"convertCallback", "call"} =>
         mFrameCallbackObj' = mFrameCallbackObj]_vars

(* "wait finishing capturing" (setCaptureDisplay, line 673): UVCPreview    *)
(* never releases a window it has no reference to any more.                *)
WindowRefsOwned == \A w \in Windows : winRefs[w] >= 0

(* "terminate capture thread" (stopPreview, line 362): when stopPreview has *)
(* returned, no capture thread is left.                                   *)
NoCaptureAfterStop ==
    client \in {"idle", "destroyed"} /\ ~mIsRunning =>
        \A c \in CaptureThreads : cp[c] \in {"none", "done", "crashed"}

-----------------------------------------------------------------------------
(* Liveness                                                                *)

(* A full preview queue, which makes addPreviewFrame drop every new frame,  *)
(* is drained, or the preview is stopped: no order of addPreviewFrame and  *)
(* waitPreviewFrame strands a queued frame.                                *)
QueueDrained ==
    Len(previewFrames) = MaxFrame
        ~> Len(previewFrames) < MaxFrame \/ ~mIsRunning \/ ~Alive

(* setFrameCallback and setCaptureDisplay return from their wait for the   *)
(* capture thread ("wait finishing capturing", lines 218 and 673).         *)
SetterReturns ==
    client \in {"callbackWaiting", "displayWaiting"} ~> client = "idle" \/ ~Alive

(* "stop preview" (UVCCamera.java:398): stopPreview returns.               *)
StopReturns == client = "joinCapture" ~> client = "idle" \/ ~Alive

=============================================================================
