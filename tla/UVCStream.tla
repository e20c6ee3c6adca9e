----------------------------- MODULE UVCStream -----------------------------
(***************************************************************************)
(* One video stream of libuvc (libuvc/src/stream.c): the transfers that    *)
(* receive the camera's payloads, the two buffers they are collected in,   *)
(* and whoever is handed the frames.                                       *)
(*                                                                         *)
(*   own  the thread that calls uvc_start_streaming_bandwidth and          *)
(*        uvc_stop_streaming (UVCPreview's preview thread)                 *)
(*   ev   the event thread of the context, which runs _uvc_stream_callback *)
(*   uc   _uvc_user_caller, if the owner passed a callback                 *)
(*   pl   a thread that polls with uvc_stream_get_frame, if it did not     *)
(*                                                                         *)
(* A critical section of cb_mutex is one action.  libusb and the camera    *)
(* are modelled by what stream.c expects of them: a transfer in flight     *)
(* completes with some status, the payloads of a frame carry its frame ID  *)
(* bit, and the last one the end-of-frame bit.  A buffer is abstracted to  *)
(* the set of camera frames that bytes in it come from.                    *)
(*                                                                         *)
(* After the handle has been freed nothing that would use it takes a step: *)
(* what that does is undefined, and CloseQuiesces says it does not happen. *)
(***************************************************************************)
EXTENDS Integers, FiniteSets

CONSTANTS
    Transfers,      \* the LIBUVC_NUM_TRANSFER_BUFS libusb transfers
    MaxCam,         \* bound: frames the camera sends
    MaxLossRun,     \* payloads that may be lost between two that arrive
    UseCallback,    \* frames are handed to a callback, or polled for
    BadPayloads,    \* whether payloads may be malformed or too large
    MayUnplug,      \* whether the camera may be unplugged
    SubmitMayFail,  \* whether the submission of a transfer may fail
    NoTransfer

ASSUME TransferAssumption ==
    IsFiniteSet(Transfers) /\ Transfers # {} /\ NoTransfer \notin Transfers
ASSUME BoundAssumption == MaxCam \in Nat /\ MaxLossRun \in Nat
ASSUME SwitchAssumption ==
    /\ UseCallback \in BOOLEAN /\ BadPayloads \in BOOLEAN
    /\ MayUnplug \in BOOLEAN /\ SubmitMayFail \in BOOLEAN

VARIABLES
    own, handle,            \* pc of the owner; whether the handle exists
    running,
    xfer,                   \* what each transfers[i] is doing
    ev, cur, payload,       \* the event thread, its transfer and payload
    fid, seq, bfh_err, outbuf,              \* collected by the event thread
    hold_seq, hold_bfh_err, holdbuf,        \* presented to the listeners
    uc, last_seq,           \* the user caller thread
    pl, last_polled_seq,    \* the polling thread
    frame,                  \* strmh->frame, and the hold_seq it is a copy of
    cam, lossRun, plugged   \* the camera and its cable

eventVars == <<ev, cur, payload>>
workVars == <<fid, seq, bfh_err, outbuf>>
holdVars == <<hold_seq, hold_bfh_err, holdbuf>>
listeners == <<uc, last_seq, pl, last_polled_seq, frame>>
camera == <<cam, lossRun, plugged>>
vars == <<own, handle, running, xfer, eventVars, workVars, holdVars,
          listeners, camera>>

Fid(f) == f % 2

(* pthread_cond_broadcast(&cb_cond), when nothing else moves these threads *)
Broadcast ==
    /\ own' = IF own = "waiting" THEN "woken" ELSE own
    /\ uc' = IF uc = "waiting" THEN "test" ELSE uc
    /\ pl' = IF pl = "waiting" THEN "woken" ELSE pl

AllDeleted == \A t \in Transfers : xfer[t] = "null"

(* Everything that could still use the handle has ended.                   *)
Quiet == AllDeleted /\ ev = "idle" /\ uc \in {"none", "ended"} /\ pl = "idle"

Init ==
    /\ own = "idle" /\ handle = "none" /\ running = FALSE
    /\ xfer = [t \in Transfers |-> "null"]
    /\ ev = "idle" /\ cur = NoTransfer
    /\ payload = [frame |-> 0, kind |-> "empty", eof |-> FALSE]
    /\ fid = 0 /\ seq = 0 /\ bfh_err = FALSE /\ outbuf = {}
    /\ hold_seq = 0 /\ hold_bfh_err = FALSE /\ holdbuf = {}
    /\ uc = "none" /\ last_seq = 0 /\ pl = "idle" /\ last_polled_seq = 0
    /\ frame = [seq |-> 0, content |-> {}]
    /\ cam = 0 /\ lossRun = 0 /\ plugged = TRUE

-----------------------------------------------------------------------------
(* The owner: uvc_start_streaming_bandwidth                                *)

(* uvc_stream_open_ctrl allocates a zeroed handle.                         *)
OpenCtrl ==
    /\ own = "idle" /\ handle = "none" /\ plugged /\ Quiet
    /\ handle' = "open" /\ own' = "setup" /\ running' = FALSE
    /\ fid' = 0 /\ seq' = 0 /\ bfh_err' = FALSE /\ outbuf' = {}
    /\ hold_seq' = 0 /\ hold_bfh_err' = FALSE /\ holdbuf' = {}
    /\ uc' = "none" /\ last_seq' = 0 /\ last_polled_seq' = 0
    /\ frame' = [seq |-> 0, content |-> {}]
    /\ UNCHANGED <<xfer, eventVars, pl, camera>>

(* uvc_stream_start_bandwidth up to the submission: no transfer is in      *)
(* flight, so nobody sees the steps.                                       *)
StartStream ==
    /\ own = "setup"
    /\ running' = TRUE
    /\ xfer' = [t \in Transfers |-> "allocated"]
    /\ uc' = IF UseCallback THEN "test" ELSE "none"
    /\ own' = "submit"
    /\ UNCHANGED <<handle, eventVars, workVars, holdVars, last_seq, pl,
                   last_polled_seq, frame, camera>>

StartRefused ==
    /\ own = "setup" /\ own' = "startFailed"
    /\ UNCHANGED <<handle, running, xfer, eventVars, workVars, holdVars,
                   listeners, camera>>

SubmitTransfer(t) ==
    /\ own = "submit" /\ xfer[t] = "allocated"
    /\ \/ plugged /\ xfer' = [xfer EXCEPT ![t] = "submitted"] /\ UNCHANGED own
       \/ /\ ~plugged \/ SubmitMayFail
          /\ own' = "startFailed" /\ UNCHANGED xfer
    /\ UNCHANGED <<handle, running, eventVars, workVars, holdVars, listeners,
                   camera>>

Submitted ==
    /\ own = "submit" /\ \A t \in Transfers : xfer[t] # "allocated"
    /\ own' = "streaming"
    /\ UNCHANGED <<handle, running, xfer, eventVars, workVars, holdVars,
                   listeners, camera>>

(* The label fail, and the uvc_stream_close of the caller: as running is   *)
(* FALSE now, it frees the handle without stopping anything.               *)
StartFails ==
    /\ own = "startFailed" /\ own' = "free" /\ running' = FALSE
    /\ UNCHANGED <<handle, xfer, eventVars, workVars, holdVars, listeners,
                   camera>>

-----------------------------------------------------------------------------
(* The owner: uvc_stop_streaming, uvc_stream_close, uvc_stream_stop        *)

CloseStream ==
    /\ own = "streaming"
    /\ own' = IF running THEN "cancel" ELSE "free"
    /\ running' = FALSE
    /\ UNCHANGED <<handle, xfer, eventVars, workVars, holdVars, listeners,
                   camera>>

(* The test under cb_mutex that ends with the wait or with the broadcast   *)
WaitForTransfers ==
    IF \A t \in Transfers : xfer'[t] = "null"
      THEN /\ own' = "join"
           /\ uc' = IF uc = "waiting" THEN "test" ELSE uc
           /\ pl' = IF pl = "waiting" THEN "woken" ELSE pl
      ELSE own' = "waiting" /\ UNCHANGED <<uc, pl>>

CancelTransfers ==
    /\ own = "cancel"
    /\ xfer' = [t \in Transfers |->
                  IF xfer[t] = "submitted" THEN "cancelling" ELSE xfer[t]]
    /\ WaitForTransfers
    /\ UNCHANGED <<handle, running, eventVars, workVars, holdVars, last_seq,
                   last_polled_seq, frame, camera>>

StopWoken ==
    /\ own = "woken" /\ UNCHANGED xfer
    /\ WaitForTransfers
    /\ UNCHANGED <<handle, running, eventVars, workVars, holdVars, last_seq,
                   last_polled_seq, frame, camera>>

(* Mistake: the callback thread is not joined.                             *)
JoinCallerDetached ==
    /\ own = "join" /\ own' = "free"
    /\ UNCHANGED <<handle, running, xfer, eventVars, workVars, holdVars,
                   listeners, camera>>

JoinCaller ==
    /\ own = "join" /\ (UseCallback => uc = "ended")
    /\ own' = "free"
    /\ UNCHANGED <<handle, running, xfer, eventVars, workVars, holdVars,
                   listeners, camera>>

FreeHandle ==
    /\ own = "free"
    /\ handle' = "none" /\ own' = "idle"
    /\ UNCHANGED <<running, xfer, eventVars, workVars, holdVars, listeners,
                   camera>>

-----------------------------------------------------------------------------
(* The event thread: _uvc_stream_callback and _uvc_process_payload         *)

EvAt(pc) == ev = pc /\ handle = "open"

InFlight(t) == xfer[t] \in {"submitted", "cancelling"}

(* The camera sends one payload of its current frame, or the last one.     *)
CameraSends(eof) ==
    /\ cam < MaxCam
    /\ cam' = IF eof THEN cam + 1 ELSE cam

(* LIBUSB_TRANSFER_COMPLETED.  Empty payloads are ignored.  A bogus one    *)
(* (header_len > payload_len) counts as lost, and so does an end-of-frame  *)
(* bit in a payload without data, which the code does not look at.         *)
PayloadKinds ==
    {"empty", "header", "data"}
    \cup (IF BadPayloads THEN {"bogus", "overflow"} ELSE {})

Completed(t) ==
    /\ EvAt("idle") /\ InFlight(t) /\ plugged
    /\ \E kind \in PayloadKinds, eof \in BOOLEAN :
         /\ payload' = [frame |-> cam, kind |-> kind, eof |-> eof]
         /\ IF kind = "empty"
              THEN ~eof /\ UNCHANGED <<cam, lossRun>>
              ELSE /\ CameraSends(eof)
                   /\ IF kind = "bogus" \/ (kind = "header" /\ eof)
                        THEN lossRun < MaxLossRun /\ lossRun' = lossRun + 1
                        ELSE lossRun' = 0
    /\ ev' = "payload" /\ cur' = t
    /\ xfer' = [xfer EXCEPT ![t] = "handled"]
    /\ UNCHANGED <<own, handle, running, workVars, holdVars, listeners,
                   plugged>>

(* TIMED_OUT (nothing was sent), STALL, OVERFLOW (a payload was lost): the *)
(* transfer is submitted again.                                            *)
Retried(t) ==
    /\ EvAt("idle") /\ InFlight(t) /\ plugged
    /\ \/ UNCHANGED <<cam, lossRun>>
       \/ /\ \E eof \in BOOLEAN : CameraSends(eof)
          /\ lossRun < MaxLossRun /\ lossRun' = lossRun + 1
    /\ ev' = "decide" /\ cur' = t
    /\ xfer' = [xfer EXCEPT ![t] = "handled"]
    /\ UNCHANGED <<own, handle, running, payload, workVars, holdVars,
                   listeners, plugged>>

(* CANCELLED and ERROR: it is not submitted again.                         *)
GivenUp(t) ==
    /\ EvAt("idle") /\ InFlight(t)
    /\ \/ UNCHANGED <<cam, lossRun>>
       \/ /\ \E eof \in BOOLEAN : CameraSends(eof)
          /\ lossRun < MaxLossRun /\ lossRun' = lossRun + 1
    /\ ev' = "delete" /\ cur' = t
    /\ xfer' = [xfer EXCEPT ![t] = "handled"]
    /\ UNCHANGED <<own, handle, running, payload, workVars, holdVars,
                   listeners, plugged>>

(* NO_DEVICE: the stream is marked as not running.                         *)
DeviceGone(t) ==
    /\ EvAt("idle") /\ InFlight(t) /\ ~plugged
    /\ running' = FALSE
    /\ ev' = "delete" /\ cur' = t
    /\ xfer' = [xfer EXCEPT ![t] = "handled"]
    /\ UNCHANGED <<own, handle, payload, workVars, holdVars, listeners,
                   camera>>

(* Mistake: the sequence number is incremented twice.                      *)
SwapBuffersTwice ==
    /\ hold_seq' = seq + 1 /\ hold_bfh_err' = bfh_err /\ holdbuf' = outbuf
    /\ seq' = seq + 2 /\ bfh_err' = FALSE /\ outbuf' = {}
    /\ Broadcast

(* _uvc_swap_buffers: the part under cb_mutex and the reset after it, which *)
(* touches nothing another thread reads.                                   *)
SwapBuffers ==
    /\ hold_seq' = seq /\ hold_bfh_err' = bfh_err /\ holdbuf' = outbuf
    /\ seq' = seq + 1 /\ bfh_err' = FALSE /\ outbuf' = {}
    /\ Broadcast

(* Mistake: a frame is published without a look at the frame ID bit.       *)
FlippedIgnored == FALSE

Flipped == payload.kind \notin {"empty", "bogus"}
             /\ fid # Fid(payload.frame) /\ outbuf # {}

(* The frame ID bit was flipped: publish what is there first ...           *)
PublishOld ==
    /\ EvAt("payload") /\ Flipped
    /\ SwapBuffers
    /\ fid' = Fid(payload.frame) /\ ev' = "data"
    /\ UNCHANGED <<handle, running, xfer, cur, payload, last_seq,
                   last_polled_seq, frame, camera>>

(* ... then collect the payload, or count it as an error.                  *)
Collect ==
    /\ \/ EvAt("data")
       \/ EvAt("payload") /\ ~Flipped
    /\ fid' = IF payload.kind \in {"empty", "bogus"} THEN fid
                                                   ELSE Fid(payload.frame)
    /\ outbuf' = IF payload.kind = "data" THEN outbuf \cup {payload.frame}
                                        ELSE outbuf
    /\ bfh_err' = (bfh_err \/ payload.kind \in {"bogus", "overflow"})
    /\ ev' = IF payload.kind \in {"data", "overflow"} /\ payload.eof
               THEN "eof" ELSE "decide"
    /\ UNCHANGED <<own, handle, running, xfer, cur, payload, seq, holdVars,
                   listeners, camera>>

(* The EOF bit is set: publish the complete frame.                         *)
PublishComplete ==
    /\ EvAt("eof")
    /\ SwapBuffers
    /\ ev' = "decide"
    /\ UNCHANGED <<handle, running, xfer, cur, payload, fid, last_seq,
                   last_polled_seq, frame, camera>>

(* Mistake: transfers are submitted again although the stream was stopped. *)
DecideResubmits ==
    /\ EvAt("decide") /\ ev' = "resubmit"
    /\ UNCHANGED <<own, handle, running, xfer, cur, payload, workVars,
                   holdVars, listeners, camera>>

(* The end of _uvc_stream_callback reads running without a lock.           *)
Decide ==
    /\ EvAt("decide")
    /\ ev' = IF running THEN "resubmit" ELSE "delete"
    /\ UNCHANGED <<own, handle, running, xfer, cur, payload, workVars,
                   holdVars, listeners, camera>>

(* What libusb_submit_transfer returns is ignored.                         *)
Resubmit ==
    /\ EvAt("resubmit")
    /\ \/ plugged /\ xfer' = [xfer EXCEPT ![cur] = "submitted"]
       \/ /\ ~plugged \/ SubmitMayFail
          /\ xfer' = [xfer EXCEPT ![cur] = "stranded"]
    /\ ev' = "idle" /\ cur' = NoTransfer
    /\ UNCHANGED <<own, handle, running, payload, workVars, holdVars,
                   listeners, camera>>

(* Mistakes: the transfer is not found in transfers[]; nobody is told.     *)
DeleteTransferNotFound ==
    /\ EvAt("delete")
    /\ Broadcast
    /\ ev' = "idle" /\ cur' = NoTransfer
    /\ UNCHANGED <<handle, running, xfer, payload, workVars, holdVars, last_seq,
                   last_polled_seq, frame, camera>>

DeleteTransferSilent ==
    /\ EvAt("delete")
    /\ xfer' = [xfer EXCEPT ![cur] = "null"]
    /\ ev' = "idle" /\ cur' = NoTransfer
    /\ UNCHANGED <<own, handle, running, payload, workVars, holdVars, listeners,
                   camera>>

DeleteTransfer ==
    /\ EvAt("delete")
    /\ xfer' = [xfer EXCEPT ![cur] = "null"]
    /\ Broadcast
    /\ ev' = "idle" /\ cur' = NoTransfer
    /\ UNCHANGED <<handle, running, payload, workVars, holdVars, last_seq,
                   last_polled_seq, frame, camera>>

-----------------------------------------------------------------------------
(* The listeners: _uvc_user_caller and uvc_stream_get_frame                *)

UcAt(pc) == uc = pc /\ handle = "open"
PlAt(pc) == pl = pc /\ handle = "open"

(* _uvc_populate_frame copies the presented buffer, or marks it as empty.  *)
Populate ==
    frame' = [seq |-> hold_seq,
              content |-> IF hold_bfh_err THEN {} ELSE holdbuf]

CallerTest ==
    /\ UcAt("test")
    /\ \/ ~running /\ uc' = "ended" /\ UNCHANGED <<last_seq, frame>>
       \/ /\ running /\ last_seq = hold_seq /\ uc' = "waiting"
          /\ UNCHANGED <<last_seq, frame>>
       \/ /\ running /\ last_seq # hold_seq /\ uc' = "check"
          /\ last_seq' = hold_seq
          /\ IF hold_bfh_err THEN UNCHANGED frame ELSE Populate
    /\ UNCHANGED <<own, handle, running, xfer, eventVars, workVars, holdVars,
                   pl, last_polled_seq, camera>>

(* Mistake: the sequence number is read after the unlock, too.             *)
CallerCheckReadsSeq ==
    /\ UcAt("check")
    /\ uc' = IF hold_bfh_err THEN "test" ELSE "callback"
    /\ last_seq' = hold_seq
    /\ UNCHANGED <<own, handle, running, xfer, eventVars, workVars, holdVars,
                   pl, last_polled_seq, frame, camera>>

(* hold_bfh_err is read once more, after the unlock.                       *)
CallerCheck ==
    /\ UcAt("check")
    /\ uc' = IF hold_bfh_err THEN "test" ELSE "callback"
    /\ UNCHANGED <<own, handle, running, xfer, eventVars, workVars, holdVars,
                   last_seq, pl, last_polled_seq, frame, camera>>

CallbackReturns ==
    /\ UcAt("callback") /\ uc' = "test"
    /\ UNCHANGED <<own, handle, running, xfer, eventVars, workVars, holdVars,
                   last_seq, pl, last_polled_seq, frame, camera>>

TakePolled ==
    /\ Populate /\ last_polled_seq' = hold_seq /\ pl' = "idle"

(* uvc_stream_get_frame looks at running before it takes the lock ...      *)
Poll ==
    /\ PlAt("idle") /\ running /\ ~UseCallback
    /\ pl' = "locking"
    /\ UNCHANGED <<own, handle, running, xfer, eventVars, workVars, holdVars,
                   uc, last_seq, last_polled_seq, frame, camera>>

(* ... and then takes a frame, or waits, or returns without one.           *)
PollLocked ==
    /\ PlAt("locking")
    /\ \/ last_polled_seq < hold_seq /\ TakePolled
       \/ last_polled_seq >= hold_seq /\ pl' \in {"waiting", "idle"}
          /\ UNCHANGED <<last_polled_seq, frame>>
    /\ UNCHANGED <<own, handle, running, xfer, eventVars, workVars, holdVars,
                   uc, last_seq, camera>>

PollWoken ==
    /\ PlAt("woken")
    /\ \/ last_polled_seq < hold_seq /\ TakePolled
       \/ last_polled_seq >= hold_seq /\ pl' = "idle"
          /\ UNCHANGED <<last_polled_seq, frame>>
    /\ UNCHANGED <<own, handle, running, xfer, eventVars, workVars, holdVars,
                   uc, last_seq, camera>>

-----------------------------------------------------------------------------
(* The environment: a wait may end without a broadcast (in get_frame also  *)
(* by its timeout), and the cable may be pulled.                           *)
SpuriousWakeup ==
    /\ \/ own = "waiting" /\ own' = "woken" /\ UNCHANGED <<uc, pl>>
       \/ UcAt("waiting") /\ uc' = "test" /\ UNCHANGED <<own, pl>>
       \/ PlAt("waiting") /\ pl' = "woken" /\ UNCHANGED <<own, uc>>
    /\ UNCHANGED <<handle, running, xfer, eventVars, workVars, holdVars,
                   last_seq, last_polled_seq, frame, camera>>

Unplug ==
    /\ MayUnplug /\ plugged /\ plugged' = FALSE
    /\ UNCHANGED <<own, handle, running, xfer, eventVars, workVars, holdVars,
                   listeners, cam, lossRun>>

Starting == \/ OpenCtrl \/ StartStream \/ StartRefused
            \/ \E t \in Transfers : SubmitTransfer(t)
            \/ Submitted \/ StartFails
Stopping == CancelTransfers \/ StopWoken \/ JoinCaller \/ FreeHandle
Completion == \E t \in Transfers :
                Completed(t) \/ Retried(t) \/ GivenUp(t) \/ DeviceGone(t)
EventSteps == PublishOld \/ Collect \/ PublishComplete \/ Decide \/ Resubmit
                \/ DeleteTransfer
CallerSteps == CallerTest \/ CallerCheck \/ CallbackReturns
PollerSteps == Poll \/ PollLocked \/ PollWoken

Next == Starting \/ CloseStream \/ Stopping \/ Completion \/ EventSteps
          \/ CallerSteps \/ PollerSteps \/ SpuriousWakeup \/ Unplug

Spec == Init /\ [][Next]_vars

(* The threads are scheduled, user callbacks return, and a transfer in     *)
(* flight completes: with data, as cancelled, or after its timeout of 5 s. *)
Fairness == /\ WF_vars(Stopping) /\ WF_vars(Completion) /\ WF_vars(EventSteps)
            /\ WF_vars(CallerSteps)

LiveSpec == Spec /\ Fairness

-----------------------------------------------------------------------------
OwnPcs == {"idle", "setup", "submit", "startFailed", "streaming", "cancel",
           "waiting", "woken", "join", "free"}
EvPcs == {"idle", "payload", "data", "eof", "decide", "resubmit", "delete"}
XferStates == {"null", "allocated", "submitted", "cancelling", "handled",
               "stranded"}
Frames == 0..MaxCam

ThreadTypes ==
    /\ own \in OwnPcs /\ handle \in {"none", "open"} /\ running \in BOOLEAN
    /\ ev \in EvPcs /\ cur \in Transfers \cup {NoTransfer}
    /\ uc \in {"none", "test", "waiting", "check", "callback", "ended"}
    /\ pl \in {"idle", "locking", "waiting", "woken"}

TransferTypes ==
    /\ xfer \in [Transfers -> XferStates]
    /\ ev = "idle" <=> cur = NoTransfer
    /\ \A t \in Transfers : xfer[t] = "handled" <=> t = cur

DataTypes ==
    /\ payload \in [frame : Frames, eof : BOOLEAN,
                    kind : {"empty", "header", "data", "bogus", "overflow"}]
    /\ fid \in 0..1 /\ seq \in Nat /\ bfh_err \in BOOLEAN
    /\ outbuf \subseteq Frames
    /\ hold_seq \in Nat /\ hold_bfh_err \in BOOLEAN /\ holdbuf \subseteq Frames
    /\ last_seq \in Nat /\ last_polled_seq \in Nat
    /\ frame \in [seq : Nat, content : SUBSET Frames]
    /\ cam \in Frames /\ lossRun \in 0..MaxLossRun /\ plugged \in BOOLEAN

(* Types, and: the event thread handles one transfer at a time, the one    *)
(* whose callback it is in.                                                *)
TypeOK == ThreadTypes /\ TransferTypes /\ DataTypes

(* A listener never gets a picture put together from two camera frames, as *)
(* long as no more than one payload is lost in a row: the frame ID bit and *)
(* the end-of-frame bit of _uvc_process_payload make up for one loss.      *)
OneCameraFrame(buffer) == \A f, g \in buffer : f = g

WholeFrames == OneCameraFrame(frame.content) /\ OneCameraFrame(holdbuf)

(* "listeners may only access hold*, and only when holding a lock on       *)
(* cb_mutex" (libuvc_internal.h:264): what _uvc_user_caller hands to the   *)
(* callback is the frame it has just looked at under the lock.             *)
FreshFrames == uc = "callback" => frame.seq = last_seq

(* "Closes all streams, ends threads and cancels pollers" (stream.c:1769): *)
(* when the handle has been freed no transfer that points to it is left,   *)
(* the event thread is not in its callback and the callback thread ended.  *)
CloseQuiesces ==
    handle = "none" => AllDeleted /\ ev = "idle" /\ uc \in {"none", "ended"}

(* The same sentence about a thread in uvc_stream_get_frame.               *)
PollersCancelled == handle = "none" => pl = "idle"

(* Nobody sleeps on cb_cond although what it waits for has happened: the   *)
(* owner while no transfer is left, the callback thread after a new frame  *)
(* (or the end of the stream, unless the event that ended it is still to   *)
(* be announced), a poller after a new frame.                              *)
NoMissedNews ==
    /\ own = "waiting" => ~AllDeleted
    /\ uc = "waiting" /\ running => last_seq = hold_seq
    /\ uc = "waiting" => own # "join"
    /\ pl = "waiting" => last_polled_seq >= hold_seq

(* uvc_stream_stop returns: every transfer is deleted and the callback     *)
(* thread ends ("Stops stream, ends threads and cancels pollers",          *)
(* stream.c:1787).                                                         *)
StopReturns == own = "cancel" ~> own = "idle"

(* A stream is a mailbox that keeps the latest frame: see LatestFrame.     *)
Latest == INSTANCE LatestFrame WITH
    open <- handle = "open",
    published <- hold_seq,
    taken <- frame.seq

LatestSpec == Latest!Spec
=============================================================================
