-------------------------- MODULE UVCStream_proofs --------------------------
(***************************************************************************)
(* Proofs about UVCStream, for every set of transfers and every length of  *)
(* the camera's run: type correctness, that no thread misses a broadcast,  *)
(* that a stream implements the mailbox of LatestFrame, and, each under    *)
(* the condition on the camera that it needs, that closing a stream leaves *)
(* nothing behind, that the callback gets the frame it was woken for, and  *)
(* that no picture is put together from two frames.                        *)
(***************************************************************************)
EXTENDS UVCStream, TLAPS

(* A new handle has no transfers, and nobody is in a callback of one.      *)
SetupInv == own = "setup" => AllDeleted /\ ev = "idle"

(* The callback thread and a poller never share a stream.                  *)
CallerInv == /\ ~UseCallback => uc = "none"
             /\ UseCallback => pl = "idle"

TypeInv == TypeOK /\ SetupInv /\ CallerInv

(* Consecutive frames differ in their frame ID bit.                        *)
LEMMA FidFlips == \A f \in Nat : Fid(f) \in 0..1 /\ Fid(f) # Fid(f + 1)
  BY DEF Fid

(* The initial state has the right types.                                  *)
LEMMA InitType == Init => TypeInv
  <1> SUFFICES ASSUME Init PROVE TypeInv
    OBVIOUS
  <1>1. ThreadTypes
    BY DEF Init, ThreadTypes, OwnPcs, EvPcs
  <1>2. TransferTypes
    BY TransferAssumption DEF Init, TransferTypes, XferStates
  <1>3. DataTypes
    <2>1. 0 \in Frames /\ 0 \in 0..MaxLossRun
      BY BoundAssumption DEF Frames
    <2>2. payload \in [frame : Frames, eof : BOOLEAN,
                       kind : {"empty", "header", "data", "bogus", "overflow"}]
      BY <2>1 DEF Init
    <2>3. frame \in [seq : Nat, content : SUBSET Frames]
      BY DEF Init
    <2>4. outbuf \subseteq Frames /\ holdbuf \subseteq Frames
      BY DEF Init
    <2>5. /\ fid \in 0..1 /\ seq \in Nat /\ hold_seq \in Nat
          /\ last_seq \in Nat /\ last_polled_seq \in Nat
      BY DEF Init
    <2> QED BY <2>1, <2>2, <2>3, <2>4, <2>5 DEF Init, DataTypes
  <1> QED BY <1>1, <1>2, <1>3 DEF TypeInv, TypeOK, SetupInv, CallerInv, Init

(* Every action keeps the pcs and flags of the threads in their sets.      *)
LEMMA ThreadTypesStep == TypeInv /\ [Next]_vars => ThreadTypes'
  <1> SUFFICES ASSUME TypeInv, [Next]_vars PROVE ThreadTypes'
    OBVIOUS
  <1> USE DEF eventVars, workVars, holdVars, listeners, camera
  <1>1. CASE OpenCtrl
    BY <1>1 DEF OpenCtrl, Quiet, AllDeleted, TypeInv, TypeOK, ThreadTypes,
      OwnPcs, EvPcs
  <1>2. CASE StartStream
    BY <1>2 DEF StartStream, TypeInv, TypeOK, ThreadTypes, OwnPcs, EvPcs
  <1>3. CASE StartRefused
    BY <1>3 DEF StartRefused, TypeInv, TypeOK, ThreadTypes, OwnPcs, EvPcs
  <1>4. ASSUME NEW t \in Transfers, SubmitTransfer(t) PROVE ThreadTypes'
    BY <1>4 DEF SubmitTransfer, TypeInv, TypeOK, ThreadTypes, OwnPcs, EvPcs
  <1>5. CASE Submitted
    BY <1>5 DEF Submitted, TypeInv, TypeOK, ThreadTypes, OwnPcs, EvPcs
  <1>6. CASE StartFails
    BY <1>6 DEF StartFails, TypeInv, TypeOK, ThreadTypes, OwnPcs, EvPcs
  <1>7. CASE CloseStream
    BY <1>7 DEF CloseStream, TypeInv, TypeOK, ThreadTypes, OwnPcs, EvPcs
  <1>8. CASE CancelTransfers
    BY <1>8 DEF CancelTransfers, WaitForTransfers, TypeInv, TypeOK,
      ThreadTypes, OwnPcs, EvPcs
  <1>9. CASE StopWoken
    BY <1>9 DEF StopWoken, WaitForTransfers, TypeInv, TypeOK, ThreadTypes,
      OwnPcs, EvPcs
  <1>10. CASE JoinCaller
    BY <1>10 DEF JoinCaller, TypeInv, TypeOK, ThreadTypes, OwnPcs, EvPcs
  <1>11. CASE FreeHandle
    BY <1>11 DEF FreeHandle, TypeInv, TypeOK, ThreadTypes, OwnPcs, EvPcs
  <1>12. ASSUME NEW t \in Transfers, Completed(t) PROVE ThreadTypes'
    BY <1>12 DEF Completed, EvAt, InFlight, PayloadKinds, CameraSends,
      TypeInv, TypeOK, ThreadTypes, OwnPcs, EvPcs
  <1>13. ASSUME NEW t \in Transfers, Retried(t) PROVE ThreadTypes'
    BY <1>13 DEF Retried, EvAt, InFlight, CameraSends, TypeInv, TypeOK,
      ThreadTypes, OwnPcs, EvPcs
  <1>14. ASSUME NEW t \in Transfers, GivenUp(t) PROVE ThreadTypes'
    BY <1>14 DEF GivenUp, EvAt, InFlight, CameraSends, TypeInv, TypeOK,
      ThreadTypes, OwnPcs, EvPcs
  <1>15. ASSUME NEW t \in Transfers, DeviceGone(t) PROVE ThreadTypes'
    BY <1>15 DEF DeviceGone, EvAt, InFlight, TypeInv, TypeOK, ThreadTypes,
      OwnPcs, EvPcs
  <1>16. CASE PublishOld
    BY <1>16 DEF PublishOld, EvAt, SwapBuffers, Broadcast, TypeInv, TypeOK,
      ThreadTypes, OwnPcs, EvPcs
  <1>17. CASE Collect
    BY <1>17 DEF Collect, EvAt, TypeInv, TypeOK, ThreadTypes, OwnPcs, EvPcs
  <1>18. CASE PublishComplete
    BY <1>18 DEF PublishComplete, EvAt, SwapBuffers, Broadcast, TypeInv,
      TypeOK, ThreadTypes, OwnPcs, EvPcs
  <1>19. CASE Decide
    BY <1>19 DEF Decide, EvAt, TypeInv, TypeOK, ThreadTypes, OwnPcs, EvPcs
  <1>20. CASE Resubmit
    BY <1>20 DEF Resubmit, EvAt, TypeInv, TypeOK, ThreadTypes, OwnPcs, EvPcs
  <1>21. CASE DeleteTransfer
    BY <1>21 DEF DeleteTransfer, EvAt, Broadcast, TypeInv, TypeOK,
      ThreadTypes, OwnPcs, EvPcs
  <1>22. CASE CallerTest
    BY <1>22 DEF CallerTest, UcAt, Populate, TypeInv, TypeOK, ThreadTypes,
      OwnPcs, EvPcs
  <1>23. CASE CallerCheck
    BY <1>23 DEF CallerCheck, UcAt, TypeInv, TypeOK, ThreadTypes, OwnPcs,
      EvPcs
  <1>24. CASE CallbackReturns
    BY <1>24 DEF CallbackReturns, UcAt, TypeInv, TypeOK, ThreadTypes, OwnPcs,
      EvPcs
  <1>25. CASE Poll
    BY <1>25 DEF Poll, PlAt, TypeInv, TypeOK,
      ThreadTypes, OwnPcs, EvPcs
  <1>30. CASE PollLocked
    BY <1>30 DEF PollLocked, PlAt, TakePolled, Populate, TypeInv, TypeOK,
      ThreadTypes, OwnPcs, EvPcs
  <1>26. CASE PollWoken
    BY <1>26 DEF PollWoken, PlAt, TakePolled, Populate, TypeInv, TypeOK,
      ThreadTypes, OwnPcs, EvPcs
  <1>27. CASE SpuriousWakeup
    BY <1>27 DEF SpuriousWakeup, UcAt, PlAt, TypeInv, TypeOK, ThreadTypes,
      OwnPcs, EvPcs
  <1>28. CASE Unplug
    BY <1>28 DEF Unplug, TypeInv, TypeOK, ThreadTypes, OwnPcs, EvPcs
  <1>29. CASE UNCHANGED vars
    BY <1>29 DEF vars, TypeInv, TypeOK, ThreadTypes, OwnPcs, EvPcs
  <1> QED BY <1>1, <1>2, <1>3, <1>4, <1>5, <1>6, <1>7, <1>8, <1>9, <1>10,
    <1>11, <1>12, <1>13, <1>14, <1>15, <1>16, <1>17, <1>18, <1>19, <1>20,
    <1>21, <1>22, <1>23, <1>24, <1>25, <1>26, <1>27, <1>28, <1>29, <1>30 DEF Next,
    Starting, Stopping, Completion, EventSteps, CallerSteps, PollerSteps

(* Every action keeps the states of the transfers in their sets, and only   *)
(* the transfer the event thread is in is being handled.                   *)
LEMMA TransferTypesStep == TypeInv /\ [Next]_vars => TransferTypes'
  <1> SUFFICES ASSUME TypeInv, [Next]_vars PROVE TransferTypes'
    OBVIOUS
  <1> USE DEF eventVars, workVars, holdVars, listeners, camera
  <1>1. CASE OpenCtrl
    BY <1>1 DEF OpenCtrl, Quiet, AllDeleted, TypeInv, TypeOK, ThreadTypes,
      TransferTypes, XferStates
  <1>2. CASE StartStream
    BY <1>2, TransferAssumption DEF StartStream, TypeInv, TypeOK, ThreadTypes,
      TransferTypes, XferStates, SetupInv
  <1>3. CASE StartRefused
    BY <1>3 DEF StartRefused, TypeInv, TypeOK, ThreadTypes, TransferTypes,
      XferStates
  <1>4. ASSUME NEW t \in Transfers, SubmitTransfer(t) PROVE TransferTypes'
    BY <1>4 DEF SubmitTransfer, TypeInv, TypeOK, ThreadTypes, TransferTypes,
      XferStates
  <1>5. CASE Submitted
    BY <1>5 DEF Submitted, TypeInv, TypeOK, ThreadTypes, TransferTypes,
      XferStates
  <1>6. CASE StartFails
    BY <1>6 DEF StartFails, TypeInv, TypeOK, ThreadTypes, TransferTypes,
      XferStates
  <1>7. CASE CloseStream
    BY <1>7 DEF CloseStream, TypeInv, TypeOK, ThreadTypes, TransferTypes,
      XferStates
  <1>8. CASE CancelTransfers
    BY <1>8 DEF CancelTransfers, WaitForTransfers, TypeInv, TypeOK,
      ThreadTypes, TransferTypes, XferStates
  <1>9. CASE StopWoken
    BY <1>9 DEF StopWoken, WaitForTransfers, TypeInv, TypeOK, ThreadTypes,
      TransferTypes, XferStates
  <1>10. CASE JoinCaller
    BY <1>10 DEF JoinCaller, TypeInv, TypeOK, ThreadTypes, TransferTypes,
      XferStates
  <1>11. CASE FreeHandle
    BY <1>11 DEF FreeHandle, TypeInv, TypeOK, ThreadTypes, TransferTypes,
      XferStates
  <1>12. ASSUME NEW t \in Transfers, Completed(t) PROVE TransferTypes'
    BY <1>12, TransferAssumption DEF Completed, EvAt, InFlight, PayloadKinds,
      CameraSends, TypeInv, TypeOK, ThreadTypes, TransferTypes, XferStates
  <1>13. ASSUME NEW t \in Transfers, Retried(t) PROVE TransferTypes'
    BY <1>13, TransferAssumption DEF Retried, EvAt, InFlight, CameraSends,
      TypeInv, TypeOK, ThreadTypes, TransferTypes, XferStates
  <1>14. ASSUME NEW t \in Transfers, GivenUp(t) PROVE TransferTypes'
    BY <1>14, TransferAssumption DEF GivenUp, EvAt, InFlight, CameraSends,
      TypeInv, TypeOK, ThreadTypes, TransferTypes, XferStates
  <1>15. ASSUME NEW t \in Transfers, DeviceGone(t) PROVE TransferTypes'
    BY <1>15, TransferAssumption DEF DeviceGone, EvAt, InFlight, TypeInv,
      TypeOK, ThreadTypes, TransferTypes, XferStates
  <1>16. CASE PublishOld
    BY <1>16 DEF PublishOld, EvAt, SwapBuffers, Broadcast, TypeInv, TypeOK,
      ThreadTypes, TransferTypes, XferStates
  <1>17. CASE Collect
    BY <1>17 DEF Collect, EvAt, TypeInv, TypeOK, ThreadTypes, TransferTypes,
      XferStates
  <1>18. CASE PublishComplete
    BY <1>18 DEF PublishComplete, EvAt, SwapBuffers, Broadcast, TypeInv,
      TypeOK, ThreadTypes, TransferTypes, XferStates
  <1>19. CASE Decide
    BY <1>19 DEF Decide, EvAt, TypeInv, TypeOK, ThreadTypes, TransferTypes,
      XferStates
  <1>20. CASE Resubmit
    BY <1>20, TransferAssumption DEF Resubmit, EvAt, TypeInv, TypeOK,
      ThreadTypes, TransferTypes, XferStates
  <1>21. CASE DeleteTransfer
    BY <1>21, TransferAssumption DEF DeleteTransfer, EvAt, Broadcast, TypeInv,
      TypeOK, ThreadTypes, TransferTypes, XferStates
  <1>22. CASE CallerTest
    BY <1>22 DEF CallerTest, UcAt, Populate, TypeInv, TypeOK, ThreadTypes,
      TransferTypes, XferStates
  <1>23. CASE CallerCheck
    BY <1>23 DEF CallerCheck, UcAt, TypeInv, TypeOK, ThreadTypes,
      TransferTypes, XferStates
  <1>24. CASE CallbackReturns
    BY <1>24 DEF CallbackReturns, UcAt, TypeInv, TypeOK, ThreadTypes,
      TransferTypes, XferStates
  <1>25. CASE Poll
    BY <1>25 DEF Poll, PlAt, TypeInv, TypeOK,
      ThreadTypes, TransferTypes, XferStates
  <1>30. CASE PollLocked
    BY <1>30 DEF PollLocked, PlAt, TakePolled, Populate, TypeInv, TypeOK,
      ThreadTypes, TransferTypes, XferStates
  <1>26. CASE PollWoken
    BY <1>26 DEF PollWoken, PlAt, TakePolled, Populate, TypeInv, TypeOK,
      ThreadTypes, TransferTypes, XferStates
  <1>27. CASE SpuriousWakeup
    BY <1>27 DEF SpuriousWakeup, UcAt, PlAt, TypeInv, TypeOK, ThreadTypes,
      TransferTypes, XferStates
  <1>28. CASE Unplug
    BY <1>28 DEF Unplug, TypeInv, TypeOK, ThreadTypes, TransferTypes,
      XferStates
  <1>29. CASE UNCHANGED vars
    BY <1>29 DEF vars, TypeInv, TypeOK, ThreadTypes, TransferTypes, XferStates
  <1> QED BY <1>1, <1>2, <1>3, <1>4, <1>5, <1>6, <1>7, <1>8, <1>9, <1>10,
    <1>11, <1>12, <1>13, <1>14, <1>15, <1>16, <1>17, <1>18, <1>19, <1>20,
    <1>21, <1>22, <1>23, <1>24, <1>25, <1>26, <1>27, <1>28, <1>29, <1>30 DEF Next,
    Starting, Stopping, Completion, EventSteps, CallerSteps, PollerSteps

(* Every action keeps the payloads, buffers and sequence numbers in their  *)
(* sets.                                                                   *)
LEMMA DataTypesStep == TypeInv /\ [Next]_vars => DataTypes'
  <1> SUFFICES ASSUME TypeInv, [Next]_vars PROVE DataTypes'
    OBVIOUS
  <1> USE DEF eventVars, workVars, holdVars, listeners, camera
  <1>1. CASE OpenCtrl
    <2>1. frame' \in [seq : Nat, content : SUBSET Frames]
      BY <1>1 DEF OpenCtrl
    <2>2. outbuf' \subseteq Frames /\ holdbuf' \subseteq Frames
      BY <1>1 DEF OpenCtrl
    <2>3. /\ fid' \in 0..1 /\ seq' \in Nat /\ hold_seq' \in Nat
          /\ last_seq' \in Nat /\ last_polled_seq' \in Nat
      BY <1>1 DEF OpenCtrl
    <2>4. bfh_err' \in BOOLEAN /\ hold_bfh_err' \in BOOLEAN
      BY <1>1, Zenon DEF OpenCtrl
    <2>5. UNCHANGED <<payload, cam, lossRun, plugged>>
      BY <1>1 DEF OpenCtrl
    <2> QED BY <2>1, <2>2, <2>3, <2>4, <2>5 DEF TypeInv, TypeOK, DataTypes
  <1>2. CASE StartStream
    BY <1>2 DEF StartStream, TypeInv, TypeOK, DataTypes
  <1>3. CASE StartRefused
    BY <1>3 DEF StartRefused, TypeInv, TypeOK, DataTypes
  <1>4. ASSUME NEW t \in Transfers, SubmitTransfer(t) PROVE DataTypes'
    BY <1>4 DEF SubmitTransfer, TypeInv, TypeOK, DataTypes
  <1>5. CASE Submitted
    BY <1>5 DEF Submitted, TypeInv, TypeOK, DataTypes
  <1>6. CASE StartFails
    BY <1>6 DEF StartFails, TypeInv, TypeOK, DataTypes
  <1>7. CASE CloseStream
    BY <1>7 DEF CloseStream, TypeInv, TypeOK, DataTypes
  <1>8. CASE CancelTransfers
    BY <1>8 DEF CancelTransfers, WaitForTransfers, TypeInv, TypeOK, DataTypes
  <1>9. CASE StopWoken
    BY <1>9 DEF StopWoken, WaitForTransfers, TypeInv, TypeOK, DataTypes
  <1>10. CASE JoinCaller
    BY <1>10 DEF JoinCaller, TypeInv, TypeOK, DataTypes
  <1>11. CASE FreeHandle
    BY <1>11 DEF FreeHandle, TypeInv, TypeOK, DataTypes
  <1>12. ASSUME NEW t \in Transfers, Completed(t) PROVE DataTypes'
    BY <1>12, BoundAssumption DEF Completed, EvAt, InFlight, PayloadKinds,
      CameraSends, TypeInv, TypeOK, DataTypes, Frames
  <1>13. ASSUME NEW t \in Transfers, Retried(t) PROVE DataTypes'
    BY <1>13, BoundAssumption DEF Retried, EvAt, InFlight, CameraSends,
      TypeInv, TypeOK, DataTypes, Frames
  <1>14. ASSUME NEW t \in Transfers, GivenUp(t) PROVE DataTypes'
    BY <1>14, BoundAssumption DEF GivenUp, EvAt, InFlight, CameraSends,
      TypeInv, TypeOK, DataTypes, Frames
  <1>15. ASSUME NEW t \in Transfers, DeviceGone(t) PROVE DataTypes'
    BY <1>15 DEF DeviceGone, EvAt, InFlight, TypeInv, TypeOK, DataTypes
  <1>16. CASE PublishOld
    <2>1. outbuf' \subseteq Frames /\ holdbuf' \subseteq Frames
      BY <1>16 DEF PublishOld, SwapBuffers, TypeInv, TypeOK, DataTypes
    <2>2. fid' \in 0..1 /\ seq' \in Nat /\ hold_seq' \in Nat
      BY <1>16, FidFlips, BoundAssumption DEF PublishOld, SwapBuffers, TypeInv, TypeOK,
        DataTypes, Frames
    <2> QED BY <1>16, <2>1, <2>2 DEF PublishOld, SwapBuffers, TypeInv, TypeOK, DataTypes
  <1>17. CASE Collect
    <2>1. fid' \in 0..1
      BY <1>17, FidFlips, BoundAssumption DEF Collect, TypeInv, TypeOK, DataTypes,
        Frames
    <2>2. outbuf' \subseteq Frames
      BY <1>17 DEF Collect, TypeInv, TypeOK, DataTypes
    <2>3. bfh_err' \in BOOLEAN
      BY <1>17, Zenon DEF Collect, TypeInv, TypeOK, DataTypes
    <2> QED BY <1>17, <2>1, <2>2, <2>3 DEF Collect, TypeInv, TypeOK, DataTypes
  <1>18. CASE PublishComplete
    <2>1. outbuf' \subseteq Frames /\ holdbuf' \subseteq Frames
      BY <1>18 DEF PublishComplete, SwapBuffers, TypeInv, TypeOK, DataTypes
    <2>2. fid' \in 0..1 /\ seq' \in Nat /\ hold_seq' \in Nat
      BY <1>18, FidFlips, BoundAssumption DEF PublishComplete, SwapBuffers, TypeInv, TypeOK,
        DataTypes, Frames
    <2> QED BY <1>18, <2>1, <2>2 DEF PublishComplete, SwapBuffers, TypeInv, TypeOK, DataTypes
  <1>19. CASE Decide
    BY <1>19 DEF Decide, EvAt, TypeInv, TypeOK, DataTypes
  <1>20. CASE Resubmit
    BY <1>20 DEF Resubmit, EvAt, TypeInv, TypeOK, DataTypes
  <1>21. CASE DeleteTransfer
    BY <1>21 DEF DeleteTransfer, EvAt, Broadcast, TypeInv, TypeOK, DataTypes
  <1>22. CASE CallerTest
    <2>1. holdbuf \subseteq Frames /\ hold_seq \in Nat
      BY DEF TypeInv, TypeOK, DataTypes
    <2>2. frame' \in [seq : Nat, content : SUBSET Frames]
      <3>1. CASE UNCHANGED frame
        BY <3>1 DEF TypeInv, TypeOK, DataTypes
      <3>2. CASE Populate
        <4>1. (IF hold_bfh_err THEN {} ELSE holdbuf) \in SUBSET Frames
          BY <2>1
        <4> QED BY <2>1, <3>2, <4>1 DEF Populate
      <3> QED BY <1>22, <3>1, <3>2 DEF CallerTest
    <2>3. last_seq' \in Nat /\ last_polled_seq' \in Nat
      BY <1>22 DEF TypeInv, TypeOK, DataTypes, CallerTest
    <2> QED BY <1>22, <2>2, <2>3 DEF TypeInv, TypeOK, DataTypes, CallerTest
  <1>23. CASE CallerCheck
    BY <1>23 DEF CallerCheck, UcAt, TypeInv, TypeOK, DataTypes
  <1>24. CASE CallbackReturns
    BY <1>24 DEF CallbackReturns, UcAt, TypeInv, TypeOK, DataTypes
  <1>25. CASE Poll
    BY <1>25 DEF Poll, PlAt, TypeInv, TypeOK, DataTypes
  <1>30. CASE PollLocked
    <2>1. holdbuf \subseteq Frames /\ hold_seq \in Nat
      BY DEF TypeInv, TypeOK, DataTypes
    <2>2. frame' \in [seq : Nat, content : SUBSET Frames]
      <3>1. CASE UNCHANGED frame
        BY <3>1 DEF TypeInv, TypeOK, DataTypes
      <3>2. CASE Populate
        <4>1. (IF hold_bfh_err THEN {} ELSE holdbuf) \in SUBSET Frames
          BY <2>1
        <4> QED BY <2>1, <3>2, <4>1 DEF Populate
      <3> QED BY <1>30, <3>1, <3>2 DEF PollLocked, TakePolled
    <2>3. last_seq' \in Nat /\ last_polled_seq' \in Nat
      BY <1>30 DEF TypeInv, TypeOK, DataTypes, PollLocked, TakePolled
    <2> QED BY <1>30, <2>2, <2>3 DEF TypeInv, TypeOK, DataTypes, PollLocked, TakePolled
  <1>26. CASE PollWoken
    <2>1. holdbuf \subseteq Frames /\ hold_seq \in Nat
      BY DEF TypeInv, TypeOK, DataTypes
    <2>2. frame' \in [seq : Nat, content : SUBSET Frames]
      <3>1. CASE UNCHANGED frame
        BY <3>1 DEF TypeInv, TypeOK, DataTypes
      <3>2. CASE Populate
        <4>1. (IF hold_bfh_err THEN {} ELSE holdbuf) \in SUBSET Frames
          BY <2>1
        <4> QED BY <2>1, <3>2, <4>1 DEF Populate
      <3> QED BY <1>26, <3>1, <3>2 DEF PollWoken, TakePolled
    <2>3. last_seq' \in Nat /\ last_polled_seq' \in Nat
      BY <1>26 DEF TypeInv, TypeOK, DataTypes, PollWoken, TakePolled
    <2> QED BY <1>26, <2>2, <2>3 DEF TypeInv, TypeOK, DataTypes, PollWoken, TakePolled
  <1>27. CASE SpuriousWakeup
    BY <1>27 DEF SpuriousWakeup, UcAt, PlAt, TypeInv, TypeOK, DataTypes
  <1>28. CASE Unplug
    BY <1>28 DEF Unplug, TypeInv, TypeOK, DataTypes
  <1>29. CASE UNCHANGED vars
    BY <1>29 DEF vars, TypeInv, TypeOK, DataTypes
  <1> QED BY <1>1, <1>2, <1>3, <1>4, <1>5, <1>6, <1>7, <1>8, <1>9, <1>10,
    <1>11, <1>12, <1>13, <1>14, <1>15, <1>16, <1>17, <1>18, <1>19, <1>20,
    <1>21, <1>22, <1>23, <1>24, <1>25, <1>26, <1>27, <1>28, <1>29, <1>30 DEF Next,
    Starting, Stopping, Completion, EventSteps, CallerSteps, PollerSteps

(* Nothing gets in flight before StartStream.                              *)
LEMMA SetupInvStep == TypeInv /\ [Next]_vars => SetupInv'
  <1> SUFFICES ASSUME TypeInv, [Next]_vars PROVE SetupInv'
    OBVIOUS
  <1> USE DEF eventVars, workVars, holdVars, listeners, camera
  <1>1. CASE OpenCtrl
    BY <1>1 DEF OpenCtrl, Quiet, AllDeleted, TypeInv, TypeOK, ThreadTypes,
      TransferTypes, SetupInv
  <1>2. CASE StartStream
    BY <1>2 DEF StartStream, TypeInv, TypeOK, ThreadTypes, TransferTypes,
      SetupInv, AllDeleted
  <1>3. CASE StartRefused
    BY <1>3 DEF StartRefused, TypeInv, TypeOK, ThreadTypes, TransferTypes,
      SetupInv, AllDeleted
  <1>4. ASSUME NEW t \in Transfers, SubmitTransfer(t) PROVE SetupInv'
    BY <1>4 DEF SubmitTransfer, TypeInv, TypeOK, ThreadTypes, TransferTypes,
      SetupInv, AllDeleted
  <1>5. CASE Submitted
    BY <1>5 DEF Submitted, TypeInv, TypeOK, ThreadTypes, TransferTypes,
      SetupInv, AllDeleted
  <1>6. CASE StartFails
    BY <1>6 DEF StartFails, TypeInv, TypeOK, ThreadTypes, TransferTypes,
      SetupInv, AllDeleted
  <1>7. CASE CloseStream
    BY <1>7 DEF CloseStream, TypeInv, TypeOK, ThreadTypes, TransferTypes,
      SetupInv, AllDeleted
  <1>8. CASE CancelTransfers
    BY <1>8 DEF CancelTransfers, WaitForTransfers, TypeInv, TypeOK,
      ThreadTypes, TransferTypes, SetupInv, AllDeleted
  <1>9. CASE StopWoken
    BY <1>9 DEF StopWoken, WaitForTransfers, TypeInv, TypeOK, ThreadTypes,
      TransferTypes, SetupInv, AllDeleted
  <1>10. CASE JoinCaller
    BY <1>10 DEF JoinCaller, TypeInv, TypeOK, ThreadTypes, TransferTypes,
      SetupInv, AllDeleted
  <1>11. CASE FreeHandle
    BY <1>11 DEF FreeHandle, TypeInv, TypeOK, ThreadTypes, TransferTypes,
      SetupInv, AllDeleted
  <1>12. ASSUME NEW t \in Transfers, Completed(t) PROVE SetupInv'
    BY <1>12 DEF Completed, EvAt, InFlight, PayloadKinds, CameraSends,
      TypeInv, TypeOK, ThreadTypes, TransferTypes, SetupInv, AllDeleted
  <1>13. ASSUME NEW t \in Transfers, Retried(t) PROVE SetupInv'
    BY <1>13 DEF Retried, EvAt, InFlight, CameraSends, TypeInv, TypeOK,
      ThreadTypes, TransferTypes, SetupInv, AllDeleted
  <1>14. ASSUME NEW t \in Transfers, GivenUp(t) PROVE SetupInv'
    BY <1>14 DEF GivenUp, EvAt, InFlight, CameraSends, TypeInv, TypeOK,
      ThreadTypes, TransferTypes, SetupInv, AllDeleted
  <1>15. ASSUME NEW t \in Transfers, DeviceGone(t) PROVE SetupInv'
    BY <1>15 DEF DeviceGone, EvAt, InFlight, TypeInv, TypeOK, ThreadTypes,
      TransferTypes, SetupInv, AllDeleted
  <1>16. CASE PublishOld
    BY <1>16 DEF PublishOld, EvAt, SwapBuffers, Broadcast, TypeInv, TypeOK,
      ThreadTypes, TransferTypes, SetupInv, AllDeleted
  <1>17. CASE Collect
    BY <1>17 DEF Collect, EvAt, TypeInv, TypeOK, ThreadTypes, TransferTypes,
      SetupInv, AllDeleted
  <1>18. CASE PublishComplete
    BY <1>18 DEF PublishComplete, EvAt, SwapBuffers, Broadcast, TypeInv,
      TypeOK, ThreadTypes, TransferTypes, SetupInv, AllDeleted
  <1>19. CASE Decide
    BY <1>19 DEF Decide, EvAt, TypeInv, TypeOK, ThreadTypes, TransferTypes,
      SetupInv, AllDeleted
  <1>20. CASE Resubmit
    BY <1>20 DEF Resubmit, EvAt, TypeInv, TypeOK, ThreadTypes, TransferTypes,
      SetupInv, AllDeleted
  <1>21. CASE DeleteTransfer
    BY <1>21 DEF DeleteTransfer, EvAt, Broadcast, TypeInv, TypeOK,
      ThreadTypes, TransferTypes, SetupInv, AllDeleted
  <1>22. CASE CallerTest
    BY <1>22 DEF CallerTest, UcAt, Populate, TypeInv, TypeOK, ThreadTypes,
      TransferTypes, SetupInv, AllDeleted
  <1>23. CASE CallerCheck
    BY <1>23 DEF CallerCheck, UcAt, TypeInv, TypeOK, ThreadTypes,
      TransferTypes, SetupInv, AllDeleted
  <1>24. CASE CallbackReturns
    BY <1>24 DEF CallbackReturns, UcAt, TypeInv, TypeOK, ThreadTypes,
      TransferTypes, SetupInv, AllDeleted
  <1>25. CASE Poll
    BY <1>25 DEF Poll, PlAt, TypeInv, TypeOK,
      ThreadTypes, TransferTypes, SetupInv, AllDeleted
  <1>30. CASE PollLocked
    BY <1>30 DEF PollLocked, PlAt, TakePolled, Populate, TypeInv, TypeOK,
      ThreadTypes, TransferTypes, SetupInv, AllDeleted
  <1>26. CASE PollWoken
    BY <1>26 DEF PollWoken, PlAt, TakePolled, Populate, TypeInv, TypeOK,
      ThreadTypes, TransferTypes, SetupInv, AllDeleted
  <1>27. CASE SpuriousWakeup
    BY <1>27 DEF SpuriousWakeup, UcAt, PlAt, TypeInv, TypeOK, ThreadTypes,
      TransferTypes, SetupInv, AllDeleted
  <1>28. CASE Unplug
    BY <1>28 DEF Unplug, TypeInv, TypeOK, ThreadTypes, TransferTypes,
      SetupInv, AllDeleted
  <1>29. CASE UNCHANGED vars
    BY <1>29 DEF vars, TypeInv, TypeOK, ThreadTypes, TransferTypes, SetupInv,
      AllDeleted
  <1> QED BY <1>1, <1>2, <1>3, <1>4, <1>5, <1>6, <1>7, <1>8, <1>9, <1>10,
    <1>11, <1>12, <1>13, <1>14, <1>15, <1>16, <1>17, <1>18, <1>19, <1>20,
    <1>21, <1>22, <1>23, <1>24, <1>25, <1>26, <1>27, <1>28, <1>29, <1>30 DEF Next,
    Starting, Stopping, Completion, EventSteps, CallerSteps, PollerSteps

(* The callback thread exists only with a callback, a poller only without. *)
LEMMA CallerInvStep == TypeInv /\ [Next]_vars => CallerInv'
  <1> SUFFICES ASSUME TypeInv, [Next]_vars PROVE CallerInv'
    OBVIOUS
  <1> USE DEF eventVars, workVars, holdVars, listeners, camera
  <1>1. CASE OpenCtrl
    BY <1>1 DEF OpenCtrl, Quiet, AllDeleted, TypeInv, TypeOK, ThreadTypes,
      CallerInv
  <1>2. CASE StartStream
    BY <1>2 DEF StartStream, TypeInv, TypeOK, ThreadTypes, CallerInv
  <1>3. CASE StartRefused
    BY <1>3 DEF StartRefused, TypeInv, TypeOK, ThreadTypes, CallerInv
  <1>4. ASSUME NEW t \in Transfers, SubmitTransfer(t) PROVE CallerInv'
    BY <1>4 DEF SubmitTransfer, TypeInv, TypeOK, ThreadTypes, CallerInv
  <1>5. CASE Submitted
    BY <1>5 DEF Submitted, TypeInv, TypeOK, ThreadTypes, CallerInv
  <1>6. CASE StartFails
    BY <1>6 DEF StartFails, TypeInv, TypeOK, ThreadTypes, CallerInv
  <1>7. CASE CloseStream
    BY <1>7 DEF CloseStream, TypeInv, TypeOK, ThreadTypes, CallerInv
  <1>8. CASE CancelTransfers
    BY <1>8 DEF CancelTransfers, WaitForTransfers, TypeInv, TypeOK,
      ThreadTypes, CallerInv
  <1>9. CASE StopWoken
    BY <1>9 DEF StopWoken, WaitForTransfers, TypeInv, TypeOK, ThreadTypes,
      CallerInv
  <1>10. CASE JoinCaller
    BY <1>10 DEF JoinCaller, TypeInv, TypeOK, ThreadTypes, CallerInv
  <1>11. CASE FreeHandle
    BY <1>11 DEF FreeHandle, TypeInv, TypeOK, ThreadTypes, CallerInv
  <1>12. ASSUME NEW t \in Transfers, Completed(t) PROVE CallerInv'
    BY <1>12 DEF Completed, EvAt, InFlight, PayloadKinds, CameraSends,
      TypeInv, TypeOK, ThreadTypes, CallerInv
  <1>13. ASSUME NEW t \in Transfers, Retried(t) PROVE CallerInv'
    BY <1>13 DEF Retried, EvAt, InFlight, CameraSends, TypeInv, TypeOK,
      ThreadTypes, CallerInv
  <1>14. ASSUME NEW t \in Transfers, GivenUp(t) PROVE CallerInv'
    BY <1>14 DEF GivenUp, EvAt, InFlight, CameraSends, TypeInv, TypeOK,
      ThreadTypes, CallerInv
  <1>15. ASSUME NEW t \in Transfers, DeviceGone(t) PROVE CallerInv'
    BY <1>15 DEF DeviceGone, EvAt, InFlight, TypeInv, TypeOK, ThreadTypes,
      CallerInv
  <1>16. CASE PublishOld
    BY <1>16 DEF PublishOld, EvAt, SwapBuffers, Broadcast, TypeInv, TypeOK,
      ThreadTypes, CallerInv
  <1>17. CASE Collect
    BY <1>17 DEF Collect, EvAt, TypeInv, TypeOK, ThreadTypes, CallerInv
  <1>18. CASE PublishComplete
    BY <1>18 DEF PublishComplete, EvAt, SwapBuffers, Broadcast, TypeInv,
      TypeOK, ThreadTypes, CallerInv
  <1>19. CASE Decide
    BY <1>19 DEF Decide, EvAt, TypeInv, TypeOK, ThreadTypes, CallerInv
  <1>20. CASE Resubmit
    BY <1>20 DEF Resubmit, EvAt, TypeInv, TypeOK, ThreadTypes, CallerInv
  <1>21. CASE DeleteTransfer
    BY <1>21 DEF DeleteTransfer, EvAt, Broadcast, TypeInv, TypeOK,
      ThreadTypes, CallerInv
  <1>22. CASE CallerTest
    BY <1>22 DEF CallerTest, UcAt, Populate, TypeInv, TypeOK, ThreadTypes,
      CallerInv
  <1>23. CASE CallerCheck
    BY <1>23 DEF CallerCheck, UcAt, TypeInv, TypeOK, ThreadTypes, CallerInv
  <1>24. CASE CallbackReturns
    BY <1>24 DEF CallbackReturns, UcAt, TypeInv, TypeOK, ThreadTypes,
      CallerInv
  <1>25. CASE Poll
    BY <1>25 DEF Poll, PlAt, TypeInv, TypeOK,
      ThreadTypes, CallerInv
  <1>30. CASE PollLocked
    BY <1>30 DEF PollLocked, PlAt, TakePolled, Populate, TypeInv, TypeOK,
      ThreadTypes, CallerInv
  <1>26. CASE PollWoken
    BY <1>26 DEF PollWoken, PlAt, TakePolled, Populate, TypeInv, TypeOK,
      ThreadTypes, CallerInv
  <1>27. CASE SpuriousWakeup
    BY <1>27 DEF SpuriousWakeup, UcAt, PlAt, TypeInv, TypeOK, ThreadTypes,
      CallerInv
  <1>28. CASE Unplug
    BY <1>28 DEF Unplug, TypeInv, TypeOK, ThreadTypes, CallerInv
  <1>29. CASE UNCHANGED vars
    BY <1>29 DEF vars, TypeInv, TypeOK, ThreadTypes, CallerInv
  <1> QED BY <1>1, <1>2, <1>3, <1>4, <1>5, <1>6, <1>7, <1>8, <1>9, <1>10,
    <1>11, <1>12, <1>13, <1>14, <1>15, <1>16, <1>17, <1>18, <1>19, <1>20,
    <1>21, <1>22, <1>23, <1>24, <1>25, <1>26, <1>27, <1>28, <1>29, <1>30 DEF Next,
    Starting, Stopping, Completion, EventSteps, CallerSteps, PollerSteps

(* TypeInv is an invariant.                                                *)
LEMMA TypeInvariant == Spec => []TypeInv
  <1>1. TypeInv /\ [Next]_vars => TypeInv'
    BY ThreadTypesStep, TransferTypesStep, DataTypesStep, SetupInvStep,
      CallerInvStep DEF TypeInv, TypeOK
  <1> QED BY InitType, <1>1, PTL DEF Spec

(* Type correctness, and the event thread handles one transfer at a time.  *)
THEOREM TypeCorrect == Spec => []TypeOK
  <1>1. TypeInv => TypeOK
    BY DEF TypeInv
  <1> QED BY TypeInvariant, <1>1, PTL

-----------------------------------------------------------------------------
(* Nobody sleeps on cb_cond although what it waits for has happened.       *)

(* uvc_stream_close and uvc_stream_stop run after running was cleared.     *)
StoppingInv ==
    own \in {"cancel", "waiting", "woken", "join", "free"} => ~running

NewsInv == StoppingInv /\ NoMissedNews

(* Only StartStream sets running.                                          *)
LEMMA StoppingInvStep == TypeInv /\ StoppingInv /\ [Next]_vars => StoppingInv'
  <1> SUFFICES ASSUME TypeInv, StoppingInv, [Next]_vars PROVE StoppingInv'
    OBVIOUS
  <1> USE DEF eventVars, workVars, holdVars, listeners, camera
  <1>1. CASE OpenCtrl
    BY <1>1 DEF OpenCtrl, Quiet, AllDeleted, TypeInv, TypeOK, ThreadTypes,
      StoppingInv
  <1>2. CASE StartStream
    BY <1>2 DEF StartStream, TypeInv, TypeOK, ThreadTypes, StoppingInv
  <1>3. CASE StartRefused
    BY <1>3 DEF StartRefused, TypeInv, TypeOK, ThreadTypes, StoppingInv
  <1>4. ASSUME NEW t \in Transfers, SubmitTransfer(t) PROVE StoppingInv'
    BY <1>4 DEF SubmitTransfer, TypeInv, TypeOK, ThreadTypes, StoppingInv
  <1>5. CASE Submitted
    BY <1>5 DEF Submitted, TypeInv, TypeOK, ThreadTypes, StoppingInv
  <1>6. CASE StartFails
    BY <1>6 DEF StartFails, TypeInv, TypeOK, ThreadTypes, StoppingInv
  <1>7. CASE CloseStream
    BY <1>7 DEF CloseStream, TypeInv, TypeOK, ThreadTypes, StoppingInv
  <1>8. CASE CancelTransfers
    BY <1>8 DEF CancelTransfers, WaitForTransfers, TypeInv, TypeOK,
      ThreadTypes, StoppingInv
  <1>9. CASE StopWoken
    BY <1>9 DEF StopWoken, WaitForTransfers, TypeInv, TypeOK, ThreadTypes,
      StoppingInv
  <1>10. CASE JoinCaller
    BY <1>10 DEF JoinCaller, TypeInv, TypeOK, ThreadTypes, StoppingInv
  <1>11. CASE FreeHandle
    BY <1>11 DEF FreeHandle, TypeInv, TypeOK, ThreadTypes, StoppingInv
  <1>12. ASSUME NEW t \in Transfers, Completed(t) PROVE StoppingInv'
    BY <1>12 DEF Completed, EvAt, InFlight, PayloadKinds, CameraSends,
      TypeInv, TypeOK, ThreadTypes, StoppingInv
  <1>13. ASSUME NEW t \in Transfers, Retried(t) PROVE StoppingInv'
    BY <1>13 DEF Retried, EvAt, InFlight, CameraSends, TypeInv, TypeOK,
      ThreadTypes, StoppingInv
  <1>14. ASSUME NEW t \in Transfers, GivenUp(t) PROVE StoppingInv'
    BY <1>14 DEF GivenUp, EvAt, InFlight, CameraSends, TypeInv, TypeOK,
      ThreadTypes, StoppingInv
  <1>15. ASSUME NEW t \in Transfers, DeviceGone(t) PROVE StoppingInv'
    BY <1>15 DEF DeviceGone, EvAt, InFlight, TypeInv, TypeOK, ThreadTypes,
      StoppingInv
  <1>16. CASE PublishOld
    BY <1>16 DEF PublishOld, EvAt, SwapBuffers, Broadcast, TypeInv, TypeOK,
      ThreadTypes, StoppingInv
  <1>17. CASE Collect
    BY <1>17 DEF Collect, EvAt, TypeInv, TypeOK, ThreadTypes, StoppingInv
  <1>18. CASE PublishComplete
    BY <1>18 DEF PublishComplete, EvAt, SwapBuffers, Broadcast, TypeInv,
      TypeOK, ThreadTypes, StoppingInv
  <1>19. CASE Decide
    BY <1>19 DEF Decide, EvAt, TypeInv, TypeOK, ThreadTypes, StoppingInv
  <1>20. CASE Resubmit
    BY <1>20 DEF Resubmit, EvAt, TypeInv, TypeOK, ThreadTypes, StoppingInv
  <1>21. CASE DeleteTransfer
    BY <1>21 DEF DeleteTransfer, EvAt, Broadcast, TypeInv, TypeOK,
      ThreadTypes, StoppingInv
  <1>22. CASE CallerTest
    BY <1>22 DEF CallerTest, UcAt, Populate, TypeInv, TypeOK, ThreadTypes,
      StoppingInv
  <1>23. CASE CallerCheck
    BY <1>23 DEF CallerCheck, UcAt, TypeInv, TypeOK, ThreadTypes, StoppingInv
  <1>24. CASE CallbackReturns
    BY <1>24 DEF CallbackReturns, UcAt, TypeInv, TypeOK, ThreadTypes,
      StoppingInv
  <1>25. CASE Poll
    BY <1>25 DEF Poll, PlAt, TypeInv, TypeOK,
      ThreadTypes, StoppingInv
  <1>30. CASE PollLocked
    BY <1>30 DEF PollLocked, PlAt, TakePolled, Populate, TypeInv, TypeOK,
      ThreadTypes, StoppingInv
  <1>26. CASE PollWoken
    BY <1>26 DEF PollWoken, PlAt, TakePolled, Populate, TypeInv, TypeOK,
      ThreadTypes, StoppingInv
  <1>27. CASE SpuriousWakeup
    BY <1>27 DEF SpuriousWakeup, UcAt, PlAt, TypeInv, TypeOK, ThreadTypes,
      StoppingInv
  <1>28. CASE Unplug
    BY <1>28 DEF Unplug, TypeInv, TypeOK, ThreadTypes, StoppingInv
  <1>29. CASE UNCHANGED vars
    BY <1>29 DEF vars, TypeInv, TypeOK, ThreadTypes, StoppingInv
  <1> QED BY <1>1, <1>2, <1>3, <1>4, <1>5, <1>6, <1>7, <1>8, <1>9, <1>10,
    <1>11, <1>12, <1>13, <1>14, <1>15, <1>16, <1>17, <1>18, <1>19, <1>20,
    <1>21, <1>22, <1>23, <1>24, <1>25, <1>26, <1>27, <1>28, <1>29, <1>30 DEF Next,
    Starting, Stopping, Completion, EventSteps, CallerSteps, PollerSteps

(* Whoever changes what a sleeper waits for also wakes it.                 *)
LEMMA NoMissedNewsStep == TypeInv /\ NewsInv /\ [Next]_vars => NoMissedNews'
  <1> SUFFICES ASSUME TypeInv, NewsInv, [Next]_vars PROVE NoMissedNews'
    OBVIOUS
  <1> USE DEF eventVars, workVars, holdVars, listeners, camera
  <1>1. CASE OpenCtrl
    BY <1>1 DEF OpenCtrl, Quiet, AllDeleted, TypeInv, TypeOK, ThreadTypes,
      TransferTypes, DataTypes, NewsInv, StoppingInv, NoMissedNews
  <1>2. CASE StartStream
    BY <1>2 DEF StartStream, TypeInv, TypeOK, ThreadTypes, TransferTypes,
      DataTypes, NewsInv, StoppingInv, NoMissedNews, AllDeleted
  <1>3. CASE StartRefused
    BY <1>3 DEF StartRefused, TypeInv, TypeOK, ThreadTypes, TransferTypes,
      DataTypes, NewsInv, StoppingInv, NoMissedNews, AllDeleted
  <1>4. ASSUME NEW t \in Transfers, SubmitTransfer(t) PROVE NoMissedNews'
    BY <1>4 DEF SubmitTransfer, TypeInv, TypeOK, ThreadTypes, TransferTypes,
      DataTypes, NewsInv, StoppingInv, NoMissedNews, AllDeleted
  <1>5. CASE Submitted
    BY <1>5 DEF Submitted, TypeInv, TypeOK, ThreadTypes, TransferTypes,
      DataTypes, NewsInv, StoppingInv, NoMissedNews, AllDeleted
  <1>6. CASE StartFails
    BY <1>6 DEF StartFails, TypeInv, TypeOK, ThreadTypes, TransferTypes,
      DataTypes, NewsInv, StoppingInv, NoMissedNews, AllDeleted
  <1>7. CASE CloseStream
    BY <1>7 DEF CloseStream, TypeInv, TypeOK, ThreadTypes, TransferTypes,
      DataTypes, NewsInv, StoppingInv, NoMissedNews, AllDeleted
  <1>8. CASE CancelTransfers
    BY <1>8 DEF CancelTransfers, WaitForTransfers, TypeInv, TypeOK,
      ThreadTypes, TransferTypes, DataTypes, NewsInv, StoppingInv,
      NoMissedNews, AllDeleted
  <1>9. CASE StopWoken
    BY <1>9 DEF StopWoken, WaitForTransfers, TypeInv, TypeOK, ThreadTypes,
      TransferTypes, DataTypes, NewsInv, StoppingInv, NoMissedNews, AllDeleted
  <1>10. CASE JoinCaller
    BY <1>10 DEF JoinCaller, TypeInv, TypeOK, ThreadTypes, TransferTypes,
      DataTypes, NewsInv, StoppingInv, NoMissedNews, AllDeleted
  <1>11. CASE FreeHandle
    BY <1>11 DEF FreeHandle, TypeInv, TypeOK, ThreadTypes, TransferTypes,
      DataTypes, NewsInv, StoppingInv, NoMissedNews, AllDeleted
  <1>12. ASSUME NEW t \in Transfers, Completed(t) PROVE NoMissedNews'
    BY <1>12 DEF Completed, EvAt, InFlight, PayloadKinds, CameraSends,
      TypeInv, TypeOK, ThreadTypes, TransferTypes, DataTypes, NewsInv,
      StoppingInv, NoMissedNews, AllDeleted
  <1>13. ASSUME NEW t \in Transfers, Retried(t) PROVE NoMissedNews'
    BY <1>13 DEF Retried, EvAt, InFlight, CameraSends, TypeInv, TypeOK,
      ThreadTypes, TransferTypes, DataTypes, NewsInv, StoppingInv,
      NoMissedNews, AllDeleted
  <1>14. ASSUME NEW t \in Transfers, GivenUp(t) PROVE NoMissedNews'
    BY <1>14 DEF GivenUp, EvAt, InFlight, CameraSends, TypeInv, TypeOK,
      ThreadTypes, TransferTypes, DataTypes, NewsInv, StoppingInv,
      NoMissedNews, AllDeleted
  <1>15. ASSUME NEW t \in Transfers, DeviceGone(t) PROVE NoMissedNews'
    BY <1>15 DEF DeviceGone, EvAt, InFlight, TypeInv, TypeOK, ThreadTypes,
      TransferTypes, DataTypes, NewsInv, StoppingInv, NoMissedNews, AllDeleted
  <1>16. CASE PublishOld
    BY <1>16 DEF PublishOld, EvAt, SwapBuffers, Broadcast, TypeInv, TypeOK,
      ThreadTypes, TransferTypes, DataTypes, NewsInv, StoppingInv,
      NoMissedNews, AllDeleted
  <1>17. CASE Collect
    BY <1>17 DEF Collect, EvAt, TypeInv, TypeOK, ThreadTypes, TransferTypes,
      DataTypes, NewsInv, StoppingInv, NoMissedNews, AllDeleted
  <1>18. CASE PublishComplete
    BY <1>18 DEF PublishComplete, EvAt, SwapBuffers, Broadcast, TypeInv,
      TypeOK, ThreadTypes, TransferTypes, DataTypes, NewsInv, StoppingInv,
      NoMissedNews, AllDeleted
  <1>19. CASE Decide
    BY <1>19 DEF Decide, EvAt, TypeInv, TypeOK, ThreadTypes, TransferTypes,
      DataTypes, NewsInv, StoppingInv, NoMissedNews, AllDeleted
  <1>20. CASE Resubmit
    BY <1>20 DEF Resubmit, EvAt, TypeInv, TypeOK, ThreadTypes, TransferTypes,
      DataTypes, NewsInv, StoppingInv, NoMissedNews, AllDeleted
  <1>21. CASE DeleteTransfer
    BY <1>21 DEF DeleteTransfer, EvAt, Broadcast, TypeInv, TypeOK,
      ThreadTypes, TransferTypes, DataTypes, NewsInv, StoppingInv,
      NoMissedNews, AllDeleted
  <1>22. CASE CallerTest
    BY <1>22 DEF CallerTest, UcAt, Populate, TypeInv, TypeOK, ThreadTypes,
      TransferTypes, DataTypes, NewsInv, StoppingInv, NoMissedNews, AllDeleted
  <1>23. CASE CallerCheck
    BY <1>23 DEF CallerCheck, UcAt, TypeInv, TypeOK, ThreadTypes,
      TransferTypes, DataTypes, NewsInv, StoppingInv, NoMissedNews, AllDeleted
  <1>24. CASE CallbackReturns
    BY <1>24 DEF CallbackReturns, UcAt, TypeInv, TypeOK, ThreadTypes,
      TransferTypes, DataTypes, NewsInv, StoppingInv, NoMissedNews, AllDeleted
  <1>25. CASE Poll
    BY <1>25 DEF Poll, PlAt, TypeInv, TypeOK,
      ThreadTypes, TransferTypes, DataTypes, NewsInv, StoppingInv,
      NoMissedNews, AllDeleted
  <1>30. CASE PollLocked
    BY <1>30 DEF PollLocked, PlAt, TakePolled, Populate, TypeInv, TypeOK,
      ThreadTypes, TransferTypes, DataTypes, NewsInv, StoppingInv,
      NoMissedNews, AllDeleted
  <1>26. CASE PollWoken
    BY <1>26 DEF PollWoken, PlAt, TakePolled, Populate, TypeInv, TypeOK,
      ThreadTypes, TransferTypes, DataTypes, NewsInv, StoppingInv,
      NoMissedNews, AllDeleted
  <1>27. CASE SpuriousWakeup
    BY <1>27 DEF SpuriousWakeup, UcAt, PlAt, TypeInv, TypeOK, ThreadTypes,
      TransferTypes, DataTypes, NewsInv, StoppingInv, NoMissedNews, AllDeleted
  <1>28. CASE Unplug
    BY <1>28 DEF Unplug, TypeInv, TypeOK, ThreadTypes, TransferTypes,
      DataTypes, NewsInv, StoppingInv, NoMissedNews, AllDeleted
  <1>29. CASE UNCHANGED vars
    BY <1>29 DEF vars, TypeInv, TypeOK, ThreadTypes, TransferTypes, DataTypes,
      NewsInv, StoppingInv, NoMissedNews, AllDeleted
  <1> QED BY <1>1, <1>2, <1>3, <1>4, <1>5, <1>6, <1>7, <1>8, <1>9, <1>10,
    <1>11, <1>12, <1>13, <1>14, <1>15, <1>16, <1>17, <1>18, <1>19, <1>20,
    <1>21, <1>22, <1>23, <1>24, <1>25, <1>26, <1>27, <1>28, <1>29, <1>30 DEF Next,
    Starting, Stopping, Completion, EventSteps, CallerSteps, PollerSteps

(* The owner, the callback thread and a poller never miss a broadcast.     *)
THEOREM NewsHeard == Spec => []NoMissedNews
  <1>1. Init => NewsInv
    BY DEF Init, NewsInv, StoppingInv, NoMissedNews
  <1>2. TypeInv /\ NewsInv /\ [Next]_vars => NewsInv'
    BY StoppingInvStep, NoMissedNewsStep DEF NewsInv
  <1>3. NewsInv => NoMissedNews
    BY DEF NewsInv
  <1> QED BY TypeInvariant, <1>1, <1>2, <1>3, PTL DEF Spec

-----------------------------------------------------------------------------
(* A stream implements LatestFrame.                                        *)

(* The frames are numbered as they are published, and no listener is ahead *)
(* of the newest one.                                                      *)
SeqInv ==
    /\ hold_seq = IF seq = 0 THEN 0 ELSE seq - 1
    /\ last_seq <= hold_seq /\ last_polled_seq <= hold_seq
    /\ frame.seq <= IF UseCallback THEN last_seq ELSE last_polled_seq

(* Publishing adds one, and a listener copies the newest number.           *)
LEMMA SeqInvStep == TypeInv /\ SeqInv /\ [Next]_vars => SeqInv'
  <1> SUFFICES ASSUME TypeInv, SeqInv, [Next]_vars PROVE SeqInv'
    OBVIOUS
  <1> USE DEF eventVars, workVars, holdVars, listeners, camera
  <1>1. CASE OpenCtrl
    BY <1>1, SwitchAssumption DEF OpenCtrl, Quiet, AllDeleted, TypeInv,
      TypeOK, DataTypes, CallerInv, SeqInv
  <1>2. CASE StartStream
    BY <1>2, SwitchAssumption DEF StartStream, TypeInv, TypeOK, DataTypes,
      CallerInv, SeqInv
  <1>3. CASE StartRefused
    BY <1>3, SwitchAssumption DEF StartRefused, TypeInv, TypeOK, DataTypes,
      CallerInv, SeqInv
  <1>4. ASSUME NEW t \in Transfers, SubmitTransfer(t) PROVE SeqInv'
    BY <1>4, SwitchAssumption DEF SubmitTransfer, TypeInv, TypeOK, DataTypes,
      CallerInv, SeqInv
  <1>5. CASE Submitted
    BY <1>5, SwitchAssumption DEF Submitted, TypeInv, TypeOK, DataTypes,
      CallerInv, SeqInv
  <1>6. CASE StartFails
    BY <1>6, SwitchAssumption DEF StartFails, TypeInv, TypeOK, DataTypes,
      CallerInv, SeqInv
  <1>7. CASE CloseStream
    BY <1>7, SwitchAssumption DEF CloseStream, TypeInv, TypeOK, DataTypes,
      CallerInv, SeqInv
  <1>8. CASE CancelTransfers
    BY <1>8, SwitchAssumption DEF CancelTransfers, WaitForTransfers, TypeInv,
      TypeOK, DataTypes, CallerInv, SeqInv
  <1>9. CASE StopWoken
    BY <1>9, SwitchAssumption DEF StopWoken, WaitForTransfers, TypeInv,
      TypeOK, DataTypes, CallerInv, SeqInv
  <1>10. CASE JoinCaller
    BY <1>10, SwitchAssumption DEF JoinCaller, TypeInv, TypeOK, DataTypes,
      CallerInv, SeqInv
  <1>11. CASE FreeHandle
    BY <1>11, SwitchAssumption DEF FreeHandle, TypeInv, TypeOK, DataTypes,
      CallerInv, SeqInv
  <1>12. ASSUME NEW t \in Transfers, Completed(t) PROVE SeqInv'
    BY <1>12, SwitchAssumption DEF Completed, EvAt, InFlight, PayloadKinds,
      CameraSends, TypeInv, TypeOK, DataTypes, CallerInv, SeqInv
  <1>13. ASSUME NEW t \in Transfers, Retried(t) PROVE SeqInv'
    BY <1>13, SwitchAssumption DEF Retried, EvAt, InFlight, CameraSends,
      TypeInv, TypeOK, DataTypes, CallerInv, SeqInv
  <1>14. ASSUME NEW t \in Transfers, GivenUp(t) PROVE SeqInv'
    BY <1>14, SwitchAssumption DEF GivenUp, EvAt, InFlight, CameraSends,
      TypeInv, TypeOK, DataTypes, CallerInv, SeqInv
  <1>15. ASSUME NEW t \in Transfers, DeviceGone(t) PROVE SeqInv'
    BY <1>15, SwitchAssumption DEF DeviceGone, EvAt, InFlight, TypeInv,
      TypeOK, DataTypes, CallerInv, SeqInv
  <1>16. CASE PublishOld
    BY <1>16, SwitchAssumption DEF PublishOld, EvAt, SwapBuffers, Broadcast,
      TypeInv, TypeOK, DataTypes, CallerInv, SeqInv
  <1>17. CASE Collect
    BY <1>17, SwitchAssumption DEF Collect, EvAt, TypeInv, TypeOK, DataTypes,
      CallerInv, SeqInv
  <1>18. CASE PublishComplete
    BY <1>18, SwitchAssumption DEF PublishComplete, EvAt, SwapBuffers,
      Broadcast, TypeInv, TypeOK, DataTypes, CallerInv, SeqInv
  <1>19. CASE Decide
    BY <1>19, SwitchAssumption DEF Decide, EvAt, TypeInv, TypeOK, DataTypes,
      CallerInv, SeqInv
  <1>20. CASE Resubmit
    BY <1>20, SwitchAssumption DEF Resubmit, EvAt, TypeInv, TypeOK, DataTypes,
      CallerInv, SeqInv
  <1>21. CASE DeleteTransfer
    BY <1>21, SwitchAssumption DEF DeleteTransfer, EvAt, Broadcast, TypeInv,
      TypeOK, DataTypes, CallerInv, SeqInv
  <1>22. CASE CallerTest
    BY <1>22, SwitchAssumption DEF CallerTest, UcAt, Populate, TypeInv,
      TypeOK, DataTypes, CallerInv, SeqInv, ThreadTypes
  <1>23. CASE CallerCheck
    BY <1>23, SwitchAssumption DEF CallerCheck, UcAt, TypeInv, TypeOK,
      DataTypes, CallerInv, SeqInv
  <1>24. CASE CallbackReturns
    BY <1>24, SwitchAssumption DEF CallbackReturns, UcAt, TypeInv, TypeOK,
      DataTypes, CallerInv, SeqInv
  <1>25. CASE Poll
    BY <1>25, SwitchAssumption DEF Poll, PlAt, TypeInv,
      TypeOK, DataTypes, CallerInv, SeqInv, ThreadTypes
  <1>30. CASE PollLocked
    BY <1>30, SwitchAssumption DEF PollLocked, PlAt, TakePolled, Populate, TypeInv,
      TypeOK, DataTypes, CallerInv, SeqInv, ThreadTypes
  <1>26. CASE PollWoken
    BY <1>26, SwitchAssumption DEF PollWoken, PlAt, TakePolled, Populate,
      TypeInv, TypeOK, DataTypes, CallerInv, SeqInv, ThreadTypes
  <1>27. CASE SpuriousWakeup
    BY <1>27, SwitchAssumption DEF SpuriousWakeup, UcAt, PlAt, TypeInv,
      TypeOK, DataTypes, CallerInv, SeqInv
  <1>28. CASE Unplug
    BY <1>28, SwitchAssumption DEF Unplug, TypeInv, TypeOK, DataTypes,
      CallerInv, SeqInv
  <1>29. CASE UNCHANGED vars
    BY <1>29 DEF vars, TypeInv, TypeOK, DataTypes, CallerInv, SeqInv
  <1> QED BY <1>1, <1>2, <1>3, <1>4, <1>5, <1>6, <1>7, <1>8, <1>9, <1>10,
    <1>11, <1>12, <1>13, <1>14, <1>15, <1>16, <1>17, <1>18, <1>19, <1>20,
    <1>21, <1>22, <1>23, <1>24, <1>25, <1>26, <1>27, <1>28, <1>29, <1>30 DEF Next,
    Starting, Stopping, Completion, EventSteps, CallerSteps, PollerSteps

(* Every step of the stream is a step of the mailbox or leaves it alone.   *)
LEMMA MailboxStep ==
    TypeInv /\ SeqInv /\ [Next]_vars => [Latest!Next]_(Latest!vars)
  <1> SUFFICES ASSUME TypeInv, SeqInv, [Next]_vars PROVE [Latest!Next]_(Latest!vars)
    OBVIOUS
  <1> USE DEF eventVars, workVars, holdVars, listeners, camera, Latest!Next
  <1>1. CASE OpenCtrl
    BY <1>1, SwitchAssumption DEF OpenCtrl, Quiet, AllDeleted, TypeInv,
      TypeOK, DataTypes, CallerInv, SeqInv, Latest!vars, Latest!Open
  <1>2. CASE StartStream
    BY <1>2, SwitchAssumption DEF StartStream, TypeInv, TypeOK, DataTypes,
      CallerInv, SeqInv, Latest!vars
  <1>3. CASE StartRefused
    BY <1>3, SwitchAssumption DEF StartRefused, TypeInv, TypeOK, DataTypes,
      CallerInv, SeqInv, Latest!vars
  <1>4. ASSUME NEW t \in Transfers, SubmitTransfer(t) PROVE [Latest!Next]_(Latest!vars)
    BY <1>4, SwitchAssumption DEF SubmitTransfer, TypeInv, TypeOK, DataTypes,
      CallerInv, SeqInv, Latest!vars
  <1>5. CASE Submitted
    BY <1>5, SwitchAssumption DEF Submitted, TypeInv, TypeOK, DataTypes,
      CallerInv, SeqInv, Latest!vars
  <1>6. CASE StartFails
    BY <1>6, SwitchAssumption DEF StartFails, TypeInv, TypeOK, DataTypes,
      CallerInv, SeqInv, Latest!vars
  <1>7. CASE CloseStream
    BY <1>7, SwitchAssumption DEF CloseStream, TypeInv, TypeOK, DataTypes,
      CallerInv, SeqInv, Latest!vars
  <1>8. CASE CancelTransfers
    BY <1>8, SwitchAssumption DEF CancelTransfers, WaitForTransfers, TypeInv,
      TypeOK, DataTypes, CallerInv, SeqInv, Latest!vars
  <1>9. CASE StopWoken
    BY <1>9, SwitchAssumption DEF StopWoken, WaitForTransfers, TypeInv,
      TypeOK, DataTypes, CallerInv, SeqInv, Latest!vars
  <1>10. CASE JoinCaller
    BY <1>10, SwitchAssumption DEF JoinCaller, TypeInv, TypeOK, DataTypes,
      CallerInv, SeqInv, Latest!vars
  <1>11. CASE FreeHandle
    BY <1>11, SwitchAssumption DEF FreeHandle, TypeInv, TypeOK, DataTypes,
      CallerInv, SeqInv, Latest!vars, Latest!Close
  <1>12. ASSUME NEW t \in Transfers, Completed(t) PROVE [Latest!Next]_(Latest!vars)
    BY <1>12, SwitchAssumption DEF Completed, EvAt, InFlight, PayloadKinds,
      CameraSends, TypeInv, TypeOK, DataTypes, CallerInv, SeqInv, Latest!vars
  <1>13. ASSUME NEW t \in Transfers, Retried(t) PROVE [Latest!Next]_(Latest!vars)
    BY <1>13, SwitchAssumption DEF Retried, EvAt, InFlight, CameraSends,
      TypeInv, TypeOK, DataTypes, CallerInv, SeqInv, Latest!vars
  <1>14. ASSUME NEW t \in Transfers, GivenUp(t) PROVE [Latest!Next]_(Latest!vars)
    BY <1>14, SwitchAssumption DEF GivenUp, EvAt, InFlight, CameraSends,
      TypeInv, TypeOK, DataTypes, CallerInv, SeqInv, Latest!vars
  <1>15. ASSUME NEW t \in Transfers, DeviceGone(t) PROVE [Latest!Next]_(Latest!vars)
    BY <1>15, SwitchAssumption DEF DeviceGone, EvAt, InFlight, TypeInv,
      TypeOK, DataTypes, CallerInv, SeqInv, Latest!vars
  <1>16. CASE PublishOld
    BY <1>16, SwitchAssumption DEF PublishOld, EvAt, SwapBuffers, Broadcast,
      TypeInv, TypeOK, DataTypes, CallerInv, SeqInv, Latest!vars,
      Latest!Publish
  <1>17. CASE Collect
    BY <1>17, SwitchAssumption DEF Collect, EvAt, TypeInv, TypeOK, DataTypes,
      CallerInv, SeqInv, Latest!vars
  <1>18. CASE PublishComplete
    BY <1>18, SwitchAssumption DEF PublishComplete, EvAt, SwapBuffers,
      Broadcast, TypeInv, TypeOK, DataTypes, CallerInv, SeqInv, Latest!vars,
      Latest!Publish
  <1>19. CASE Decide
    BY <1>19, SwitchAssumption DEF Decide, EvAt, TypeInv, TypeOK, DataTypes,
      CallerInv, SeqInv, Latest!vars
  <1>20. CASE Resubmit
    BY <1>20, SwitchAssumption DEF Resubmit, EvAt, TypeInv, TypeOK, DataTypes,
      CallerInv, SeqInv, Latest!vars
  <1>21. CASE DeleteTransfer
    BY <1>21, SwitchAssumption DEF DeleteTransfer, EvAt, Broadcast, TypeInv,
      TypeOK, DataTypes, CallerInv, SeqInv, Latest!vars
  <1>22. CASE CallerTest
    BY <1>22, SwitchAssumption DEF CallerTest, UcAt, Populate, TypeInv,
      TypeOK, DataTypes, CallerInv, SeqInv, Latest!vars, ThreadTypes,
      Latest!Take
  <1>23. CASE CallerCheck
    BY <1>23, SwitchAssumption DEF CallerCheck, UcAt, TypeInv, TypeOK,
      DataTypes, CallerInv, SeqInv, Latest!vars
  <1>24. CASE CallbackReturns
    BY <1>24, SwitchAssumption DEF CallbackReturns, UcAt, TypeInv, TypeOK,
      DataTypes, CallerInv, SeqInv, Latest!vars
  <1>25. CASE Poll
    BY <1>25, SwitchAssumption DEF Poll, PlAt, TypeInv,
      TypeOK, DataTypes, CallerInv, SeqInv, Latest!vars, ThreadTypes,
      Latest!Take
  <1>30. CASE PollLocked
    BY <1>30, SwitchAssumption DEF PollLocked, PlAt, TakePolled, Populate, TypeInv,
      TypeOK, DataTypes, CallerInv, SeqInv, Latest!vars, ThreadTypes,
      Latest!Take
  <1>26. CASE PollWoken
    BY <1>26, SwitchAssumption DEF PollWoken, PlAt, TakePolled, Populate,
      TypeInv, TypeOK, DataTypes, CallerInv, SeqInv, Latest!vars, ThreadTypes,
      Latest!Take
  <1>27. CASE SpuriousWakeup
    BY <1>27, SwitchAssumption DEF SpuriousWakeup, UcAt, PlAt, TypeInv,
      TypeOK, DataTypes, CallerInv, SeqInv, Latest!vars
  <1>28. CASE Unplug
    BY <1>28, SwitchAssumption DEF Unplug, TypeInv, TypeOK, DataTypes,
      CallerInv, SeqInv, Latest!vars
  <1>29. CASE UNCHANGED vars
    BY <1>29 DEF vars, TypeInv, TypeOK, DataTypes, CallerInv, SeqInv,
      Latest!vars
  <1> QED BY <1>1, <1>2, <1>3, <1>4, <1>5, <1>6, <1>7, <1>8, <1>9, <1>10,
    <1>11, <1>12, <1>13, <1>14, <1>15, <1>16, <1>17, <1>18, <1>19, <1>20,
    <1>21, <1>22, <1>23, <1>24, <1>25, <1>26, <1>27, <1>28, <1>29, <1>30 DEF Next,
    Starting, Stopping, Completion, EventSteps, CallerSteps, PollerSteps

(* A stream is a mailbox: its one listener never gets a frame twice and    *)
(* never goes back to an older one.                                        *)
THEOREM ImplementsMailbox == Spec => LatestSpec
  <1>1. Init => SeqInv
    BY SwitchAssumption DEF Init, SeqInv
  <1>2. Init => Latest!Init
    BY DEF Init, Latest!Init
  <1> QED BY TypeInvariant, SeqInvStep, MailboxStep, <1>1, <1>2, PTL
        DEF Spec, LatestSpec, Latest!Spec

-----------------------------------------------------------------------------
(* Closing a stream whose device stays and accepts every transfer leaves   *)
(* nothing behind.                                                         *)
Reliable == ~MayUnplug /\ ~SubmitMayFail

LifeInv ==
    /\ plugged
    /\ handle = "none" <=> own = "idle"
    /\ own \in {"submit", "streaming"} => running
    /\ own \in {"idle", "setup", "startFailed", "join", "free"} => AllDeleted
    /\ own \in {"idle", "setup", "startFailed", "free"} =>
         uc \in {"none", "ended"}

(* Transfers and the callback thread exist from StartStream to JoinCaller. *)
LEMMA LifeInvStep == Reliable /\ TypeInv /\ LifeInv /\ [Next]_vars => LifeInv'
  <1> SUFFICES ASSUME Reliable, TypeInv, LifeInv, [Next]_vars PROVE LifeInv'
    OBVIOUS
  <1> USE DEF eventVars, workVars, holdVars, listeners, camera
  <1>1. CASE OpenCtrl
    BY <1>1 DEF OpenCtrl, Quiet, AllDeleted, Reliable, TypeInv, TypeOK,
      ThreadTypes, TransferTypes, CallerInv, SetupInv, LifeInv
  <1>2. CASE StartStream
    BY <1>2 DEF StartStream, Reliable, TypeInv, TypeOK, ThreadTypes,
      TransferTypes, CallerInv, SetupInv, LifeInv, AllDeleted
  <1>3. CASE StartRefused
    BY <1>3 DEF StartRefused, Reliable, TypeInv, TypeOK, ThreadTypes,
      TransferTypes, CallerInv, SetupInv, LifeInv, AllDeleted
  <1>4. ASSUME NEW t \in Transfers, SubmitTransfer(t) PROVE LifeInv'
    BY <1>4 DEF SubmitTransfer, Reliable, TypeInv, TypeOK, ThreadTypes,
      TransferTypes, CallerInv, SetupInv, LifeInv, AllDeleted
  <1>5. CASE Submitted
    BY <1>5 DEF Submitted, Reliable, TypeInv, TypeOK, ThreadTypes,
      TransferTypes, CallerInv, SetupInv, LifeInv, AllDeleted
  <1>6. CASE StartFails
    BY <1>6 DEF StartFails, Reliable, TypeInv, TypeOK, ThreadTypes,
      TransferTypes, CallerInv, SetupInv, LifeInv, AllDeleted
  <1>7. CASE CloseStream
    BY <1>7 DEF CloseStream, Reliable, TypeInv, TypeOK, ThreadTypes,
      TransferTypes, CallerInv, SetupInv, LifeInv, AllDeleted
  <1>8. CASE CancelTransfers
    BY <1>8 DEF CancelTransfers, WaitForTransfers, Reliable, TypeInv, TypeOK,
      ThreadTypes, TransferTypes, CallerInv, SetupInv, LifeInv, AllDeleted
  <1>9. CASE StopWoken
    BY <1>9 DEF StopWoken, WaitForTransfers, Reliable, TypeInv, TypeOK,
      ThreadTypes, TransferTypes, CallerInv, SetupInv, LifeInv, AllDeleted
  <1>10. CASE JoinCaller
    BY <1>10 DEF JoinCaller, Reliable, TypeInv, TypeOK, ThreadTypes,
      TransferTypes, CallerInv, SetupInv, LifeInv, AllDeleted
  <1>11. CASE FreeHandle
    BY <1>11 DEF FreeHandle, Reliable, TypeInv, TypeOK, ThreadTypes,
      TransferTypes, CallerInv, SetupInv, LifeInv, AllDeleted
  <1>12. ASSUME NEW t \in Transfers, Completed(t) PROVE LifeInv'
    BY <1>12 DEF Completed, EvAt, InFlight, PayloadKinds, CameraSends,
      Reliable, TypeInv, TypeOK, ThreadTypes, TransferTypes, CallerInv,
      SetupInv, LifeInv, AllDeleted
  <1>13. ASSUME NEW t \in Transfers, Retried(t) PROVE LifeInv'
    BY <1>13 DEF Retried, EvAt, InFlight, CameraSends, Reliable, TypeInv,
      TypeOK, ThreadTypes, TransferTypes, CallerInv, SetupInv, LifeInv,
      AllDeleted
  <1>14. ASSUME NEW t \in Transfers, GivenUp(t) PROVE LifeInv'
    BY <1>14 DEF GivenUp, EvAt, InFlight, CameraSends, Reliable, TypeInv,
      TypeOK, ThreadTypes, TransferTypes, CallerInv, SetupInv, LifeInv,
      AllDeleted
  <1>15. ASSUME NEW t \in Transfers, DeviceGone(t) PROVE LifeInv'
    BY <1>15 DEF DeviceGone, EvAt, InFlight, Reliable, TypeInv, TypeOK,
      ThreadTypes, TransferTypes, CallerInv, SetupInv, LifeInv, AllDeleted
  <1>16. CASE PublishOld
    BY <1>16 DEF PublishOld, EvAt, SwapBuffers, Broadcast, Reliable, TypeInv,
      TypeOK, ThreadTypes, TransferTypes, CallerInv, SetupInv, LifeInv,
      AllDeleted
  <1>17. CASE Collect
    BY <1>17 DEF Collect, EvAt, Reliable, TypeInv, TypeOK, ThreadTypes,
      TransferTypes, CallerInv, SetupInv, LifeInv, AllDeleted
  <1>18. CASE PublishComplete
    BY <1>18 DEF PublishComplete, EvAt, SwapBuffers, Broadcast, Reliable,
      TypeInv, TypeOK, ThreadTypes, TransferTypes, CallerInv, SetupInv,
      LifeInv, AllDeleted
  <1>19. CASE Decide
    BY <1>19 DEF Decide, EvAt, Reliable, TypeInv, TypeOK, ThreadTypes,
      TransferTypes, CallerInv, SetupInv, LifeInv, AllDeleted
  <1>20. CASE Resubmit
    BY <1>20 DEF Resubmit, EvAt, Reliable, TypeInv, TypeOK, ThreadTypes,
      TransferTypes, CallerInv, SetupInv, LifeInv, AllDeleted
  <1>21. CASE DeleteTransfer
    BY <1>21 DEF DeleteTransfer, EvAt, Broadcast, Reliable, TypeInv, TypeOK,
      ThreadTypes, TransferTypes, CallerInv, SetupInv, LifeInv, AllDeleted
  <1>22. CASE CallerTest
    BY <1>22 DEF CallerTest, UcAt, Populate, Reliable, TypeInv, TypeOK,
      ThreadTypes, TransferTypes, CallerInv, SetupInv, LifeInv, AllDeleted
  <1>23. CASE CallerCheck
    BY <1>23 DEF CallerCheck, UcAt, Reliable, TypeInv, TypeOK, ThreadTypes,
      TransferTypes, CallerInv, SetupInv, LifeInv, AllDeleted
  <1>24. CASE CallbackReturns
    BY <1>24 DEF CallbackReturns, UcAt, Reliable, TypeInv, TypeOK,
      ThreadTypes, TransferTypes, CallerInv, SetupInv, LifeInv, AllDeleted
  <1>25. CASE Poll
    BY <1>25 DEF Poll, PlAt, Reliable, TypeInv, TypeOK,
      ThreadTypes, TransferTypes, CallerInv, SetupInv, LifeInv, AllDeleted
  <1>30. CASE PollLocked
    BY <1>30 DEF PollLocked, PlAt, TakePolled, Populate, Reliable, TypeInv, TypeOK,
      ThreadTypes, TransferTypes, CallerInv, SetupInv, LifeInv, AllDeleted
  <1>26. CASE PollWoken
    BY <1>26 DEF PollWoken, PlAt, TakePolled, Populate, Reliable, TypeInv,
      TypeOK, ThreadTypes, TransferTypes, CallerInv, SetupInv, LifeInv,
      AllDeleted
  <1>27. CASE SpuriousWakeup
    BY <1>27 DEF SpuriousWakeup, UcAt, PlAt, Reliable, TypeInv, TypeOK,
      ThreadTypes, TransferTypes, CallerInv, SetupInv, LifeInv, AllDeleted
  <1>28. CASE Unplug
    BY <1>28 DEF Unplug, Reliable, TypeInv, TypeOK, ThreadTypes,
      TransferTypes, CallerInv, SetupInv, LifeInv, AllDeleted
  <1>29. CASE UNCHANGED vars
    BY <1>29 DEF vars, Reliable, TypeInv, TypeOK, ThreadTypes, TransferTypes,
      CallerInv, SetupInv, LifeInv, AllDeleted
  <1> QED BY <1>1, <1>2, <1>3, <1>4, <1>5, <1>6, <1>7, <1>8, <1>9, <1>10,
    <1>11, <1>12, <1>13, <1>14, <1>15, <1>16, <1>17, <1>18, <1>19, <1>20,
    <1>21, <1>22, <1>23, <1>24, <1>25, <1>26, <1>27, <1>28, <1>29, <1>30 DEF Next,
    Starting, Stopping, Completion, EventSteps, CallerSteps, PollerSteps

(* When the handle is freed no transfer, callback or callback thread that  *)
(* could use it is left.                                                   *)
THEOREM CloseLeavesNothing == Reliable => (Spec => []CloseQuiesces)
  <1> SUFFICES ASSUME Reliable PROVE Spec => []CloseQuiesces
    OBVIOUS
  <1>1. Init => LifeInv
    BY DEF Init, LifeInv, AllDeleted
  <1>2. TypeInv /\ LifeInv /\ [Next]_vars => LifeInv'
    BY LifeInvStep
  <1>3. TypeInv /\ LifeInv => CloseQuiesces
    BY DEF TypeInv, TypeOK, ThreadTypes, TransferTypes, LifeInv, AllDeleted,
      CloseQuiesces
  <1> QED BY TypeInvariant, <1>1, <1>2, <1>3, PTL DEF Spec

-----------------------------------------------------------------------------
(* With at most one payload lost in a row no picture mixes two frames.     *)

(* What has been collected is from the frame the camera is sending, or,    *)
(* after a loss, from the one before.                                      *)
NearCamera == \A o \in outbuf : o <= cam /\ cam <= o + lossRun

Ignored == payload.kind \in {"empty", "bogus"}

(* A payload that is looked at is from the frame that is being collected   *)
(* or the next one.                                                        *)
NearPayload ==
    /\ cam = payload.frame + (IF payload.eof THEN 1 ELSE 0)
    /\ \A o \in outbuf : o <= payload.frame /\ payload.frame <= o + 1
    /\ payload.eof /\ payload.kind = "header" =>
         lossRun = 1 /\ \A o \in outbuf : o = payload.frame

PayloadInv ==
    /\ \A o \in outbuf : fid = Fid(o)
    /\ ev \notin {"payload", "data", "eof"} => NearCamera
    /\ ev = "payload" => IF Ignored THEN NearCamera ELSE NearPayload
    /\ ev = "data" => ~Ignored /\ outbuf = {} /\ NearPayload
                        /\ fid = Fid(payload.frame)
    /\ OneCameraFrame(outbuf)

(* The frame ID bit tells the payloads of two frames apart.                *)
LEMMA PayloadInvStep == MaxLossRun <= 1 /\ TypeInv /\ PayloadInv /\ [Next]_vars => PayloadInv'
  <1> SUFFICES ASSUME MaxLossRun <= 1, TypeInv, PayloadInv, [Next]_vars PROVE
    PayloadInv'
    OBVIOUS
  <1> USE DEF eventVars, workVars, holdVars, listeners, camera
  <1>1. CASE OpenCtrl
    BY <1>1, BoundAssumption, FidFlips DEF OpenCtrl, Quiet, AllDeleted,
      TypeInv, TypeOK, ThreadTypes, DataTypes, Frames, PayloadInv, NearCamera,
      Ignored, NearPayload, OneCameraFrame
  <1>2. CASE StartStream
    BY <1>2, BoundAssumption, FidFlips DEF StartStream, TypeInv, TypeOK,
      ThreadTypes, DataTypes, Frames, PayloadInv, NearCamera, Ignored,
      NearPayload, OneCameraFrame
  <1>3. CASE StartRefused
    BY <1>3, BoundAssumption, FidFlips DEF StartRefused, TypeInv, TypeOK,
      ThreadTypes, DataTypes, Frames, PayloadInv, NearCamera, Ignored,
      NearPayload, OneCameraFrame
  <1>4. ASSUME NEW t \in Transfers, SubmitTransfer(t) PROVE PayloadInv'
    BY <1>4, BoundAssumption, FidFlips DEF SubmitTransfer, TypeInv, TypeOK,
      ThreadTypes, DataTypes, Frames, PayloadInv, NearCamera, Ignored,
      NearPayload, OneCameraFrame
  <1>5. CASE Submitted
    BY <1>5, BoundAssumption, FidFlips DEF Submitted, TypeInv, TypeOK,
      ThreadTypes, DataTypes, Frames, PayloadInv, NearCamera, Ignored,
      NearPayload, OneCameraFrame
  <1>6. CASE StartFails
    BY <1>6, BoundAssumption, FidFlips DEF StartFails, TypeInv, TypeOK,
      ThreadTypes, DataTypes, Frames, PayloadInv, NearCamera, Ignored,
      NearPayload, OneCameraFrame
  <1>7. CASE CloseStream
    BY <1>7, BoundAssumption, FidFlips DEF CloseStream, TypeInv, TypeOK,
      ThreadTypes, DataTypes, Frames, PayloadInv, NearCamera, Ignored,
      NearPayload, OneCameraFrame
  <1>8. CASE CancelTransfers
    BY <1>8, BoundAssumption, FidFlips DEF CancelTransfers, WaitForTransfers,
      TypeInv, TypeOK, ThreadTypes, DataTypes, Frames, PayloadInv, NearCamera,
      Ignored, NearPayload, OneCameraFrame
  <1>9. CASE StopWoken
    BY <1>9, BoundAssumption, FidFlips DEF StopWoken, WaitForTransfers,
      TypeInv, TypeOK, ThreadTypes, DataTypes, Frames, PayloadInv, NearCamera,
      Ignored, NearPayload, OneCameraFrame
  <1>10. CASE JoinCaller
    BY <1>10, BoundAssumption, FidFlips DEF JoinCaller, TypeInv, TypeOK,
      ThreadTypes, DataTypes, Frames, PayloadInv, NearCamera, Ignored,
      NearPayload, OneCameraFrame
  <1>11. CASE FreeHandle
    BY <1>11, BoundAssumption, FidFlips DEF FreeHandle, TypeInv, TypeOK,
      ThreadTypes, DataTypes, Frames, PayloadInv, NearCamera, Ignored,
      NearPayload, OneCameraFrame
  <1>12. ASSUME NEW t \in Transfers, Completed(t) PROVE PayloadInv'
    BY <1>12, BoundAssumption, FidFlips DEF Completed, EvAt, InFlight,
      PayloadKinds, CameraSends, TypeInv, TypeOK, ThreadTypes, DataTypes,
      Frames, PayloadInv, NearCamera, Ignored, NearPayload, OneCameraFrame
  <1>13. ASSUME NEW t \in Transfers, Retried(t) PROVE PayloadInv'
    BY <1>13, BoundAssumption, FidFlips DEF Retried, EvAt, InFlight,
      CameraSends, TypeInv, TypeOK, ThreadTypes, DataTypes, Frames,
      PayloadInv, NearCamera, Ignored, NearPayload, OneCameraFrame
  <1>14. ASSUME NEW t \in Transfers, GivenUp(t) PROVE PayloadInv'
    BY <1>14, BoundAssumption, FidFlips DEF GivenUp, EvAt, InFlight,
      CameraSends, TypeInv, TypeOK, ThreadTypes, DataTypes, Frames,
      PayloadInv, NearCamera, Ignored, NearPayload, OneCameraFrame
  <1>15. ASSUME NEW t \in Transfers, DeviceGone(t) PROVE PayloadInv'
    BY <1>15, BoundAssumption, FidFlips DEF DeviceGone, EvAt, InFlight,
      TypeInv, TypeOK, ThreadTypes, DataTypes, Frames, PayloadInv, NearCamera,
      Ignored, NearPayload, OneCameraFrame
  <1>16. CASE PublishOld
    BY <1>16, BoundAssumption, FidFlips DEF PublishOld, EvAt, SwapBuffers,
      Broadcast, TypeInv, TypeOK, ThreadTypes, DataTypes, Frames, PayloadInv,
      NearCamera, Ignored, NearPayload, OneCameraFrame, Flipped
  <1>17. CASE Collect
    BY <1>17, BoundAssumption, FidFlips DEF Collect, EvAt, TypeInv, TypeOK,
      ThreadTypes, DataTypes, Frames, PayloadInv, NearCamera, Ignored,
      NearPayload, OneCameraFrame, Flipped
  <1>18. CASE PublishComplete
    BY <1>18, BoundAssumption, FidFlips DEF PublishComplete, EvAt,
      SwapBuffers, Broadcast, TypeInv, TypeOK, ThreadTypes, DataTypes, Frames,
      PayloadInv, NearCamera, Ignored, NearPayload, OneCameraFrame
  <1>19. CASE Decide
    BY <1>19, BoundAssumption, FidFlips DEF Decide, EvAt, TypeInv, TypeOK,
      ThreadTypes, DataTypes, Frames, PayloadInv, NearCamera, Ignored,
      NearPayload, OneCameraFrame
  <1>20. CASE Resubmit
    BY <1>20, BoundAssumption, FidFlips DEF Resubmit, EvAt, TypeInv, TypeOK,
      ThreadTypes, DataTypes, Frames, PayloadInv, NearCamera, Ignored,
      NearPayload, OneCameraFrame
  <1>21. CASE DeleteTransfer
    BY <1>21, BoundAssumption, FidFlips DEF DeleteTransfer, EvAt, Broadcast,
      TypeInv, TypeOK, ThreadTypes, DataTypes, Frames, PayloadInv, NearCamera,
      Ignored, NearPayload, OneCameraFrame
  <1>22. CASE CallerTest
    BY <1>22, BoundAssumption, FidFlips DEF CallerTest, UcAt, Populate,
      TypeInv, TypeOK, ThreadTypes, DataTypes, Frames, PayloadInv, NearCamera,
      Ignored, NearPayload, OneCameraFrame
  <1>23. CASE CallerCheck
    BY <1>23, BoundAssumption, FidFlips DEF CallerCheck, UcAt, TypeInv,
      TypeOK, ThreadTypes, DataTypes, Frames, PayloadInv, NearCamera, Ignored,
      NearPayload, OneCameraFrame
  <1>24. CASE CallbackReturns
    BY <1>24, BoundAssumption, FidFlips DEF CallbackReturns, UcAt, TypeInv,
      TypeOK, ThreadTypes, DataTypes, Frames, PayloadInv, NearCamera, Ignored,
      NearPayload, OneCameraFrame
  <1>25. CASE Poll
    BY <1>25, BoundAssumption, FidFlips DEF Poll, PlAt,
      TypeInv, TypeOK, ThreadTypes, DataTypes, Frames, PayloadInv, NearCamera,
      Ignored, NearPayload, OneCameraFrame
  <1>30. CASE PollLocked
    BY <1>30, BoundAssumption, FidFlips DEF PollLocked, PlAt, TakePolled, Populate,
      TypeInv, TypeOK, ThreadTypes, DataTypes, Frames, PayloadInv, NearCamera,
      Ignored, NearPayload, OneCameraFrame
  <1>26. CASE PollWoken
    BY <1>26, BoundAssumption, FidFlips DEF PollWoken, PlAt, TakePolled,
      Populate, TypeInv, TypeOK, ThreadTypes, DataTypes, Frames, PayloadInv,
      NearCamera, Ignored, NearPayload, OneCameraFrame
  <1>27. CASE SpuriousWakeup
    BY <1>27, BoundAssumption, FidFlips DEF SpuriousWakeup, UcAt, PlAt,
      TypeInv, TypeOK, ThreadTypes, DataTypes, Frames, PayloadInv, NearCamera,
      Ignored, NearPayload, OneCameraFrame
  <1>28. CASE Unplug
    BY <1>28, BoundAssumption, FidFlips DEF Unplug, TypeInv, TypeOK,
      ThreadTypes, DataTypes, Frames, PayloadInv, NearCamera, Ignored,
      NearPayload, OneCameraFrame
  <1>29. CASE UNCHANGED vars
    BY <1>29 DEF vars, TypeInv, TypeOK, ThreadTypes, DataTypes, Frames,
      PayloadInv, NearCamera, Ignored, NearPayload, OneCameraFrame
  <1> QED BY <1>1, <1>2, <1>3, <1>4, <1>5, <1>6, <1>7, <1>8, <1>9, <1>10,
    <1>11, <1>12, <1>13, <1>14, <1>15, <1>16, <1>17, <1>18, <1>19, <1>20,
    <1>21, <1>22, <1>23, <1>24, <1>25, <1>26, <1>27, <1>28, <1>29, <1>30 DEF Next,
    Starting, Stopping, Completion, EventSteps, CallerSteps, PollerSteps

(* Buffers are only copied as a whole.                                     *)
LEMMA WholeFramesStep == TypeInv /\ PayloadInv /\ WholeFrames /\ [Next]_vars => WholeFrames'
  <1> SUFFICES ASSUME TypeInv, PayloadInv, WholeFrames, [Next]_vars PROVE
    WholeFrames'
    OBVIOUS
  <1> USE DEF eventVars, workVars, holdVars, listeners, camera
  <1>1. CASE OpenCtrl
    BY <1>1 DEF OpenCtrl, Quiet, AllDeleted, TypeInv, TypeOK, DataTypes,
      PayloadInv, WholeFrames, OneCameraFrame
  <1>2. CASE StartStream
    BY <1>2 DEF StartStream, TypeInv, TypeOK, DataTypes, PayloadInv,
      WholeFrames, OneCameraFrame
  <1>3. CASE StartRefused
    BY <1>3 DEF StartRefused, TypeInv, TypeOK, DataTypes, PayloadInv,
      WholeFrames, OneCameraFrame
  <1>4. ASSUME NEW t \in Transfers, SubmitTransfer(t) PROVE WholeFrames'
    BY <1>4 DEF SubmitTransfer, TypeInv, TypeOK, DataTypes, PayloadInv,
      WholeFrames, OneCameraFrame
  <1>5. CASE Submitted
    BY <1>5 DEF Submitted, TypeInv, TypeOK, DataTypes, PayloadInv,
      WholeFrames, OneCameraFrame
  <1>6. CASE StartFails
    BY <1>6 DEF StartFails, TypeInv, TypeOK, DataTypes, PayloadInv,
      WholeFrames, OneCameraFrame
  <1>7. CASE CloseStream
    BY <1>7 DEF CloseStream, TypeInv, TypeOK, DataTypes, PayloadInv,
      WholeFrames, OneCameraFrame
  <1>8. CASE CancelTransfers
    BY <1>8 DEF CancelTransfers, WaitForTransfers, TypeInv, TypeOK, DataTypes,
      PayloadInv, WholeFrames, OneCameraFrame
  <1>9. CASE StopWoken
    BY <1>9 DEF StopWoken, WaitForTransfers, TypeInv, TypeOK, DataTypes,
      PayloadInv, WholeFrames, OneCameraFrame
  <1>10. CASE JoinCaller
    BY <1>10 DEF JoinCaller, TypeInv, TypeOK, DataTypes, PayloadInv,
      WholeFrames, OneCameraFrame
  <1>11. CASE FreeHandle
    BY <1>11 DEF FreeHandle, TypeInv, TypeOK, DataTypes, PayloadInv,
      WholeFrames, OneCameraFrame
  <1>12. ASSUME NEW t \in Transfers, Completed(t) PROVE WholeFrames'
    BY <1>12 DEF Completed, EvAt, InFlight, PayloadKinds, CameraSends,
      TypeInv, TypeOK, DataTypes, PayloadInv, WholeFrames, OneCameraFrame
  <1>13. ASSUME NEW t \in Transfers, Retried(t) PROVE WholeFrames'
    BY <1>13 DEF Retried, EvAt, InFlight, CameraSends, TypeInv, TypeOK,
      DataTypes, PayloadInv, WholeFrames, OneCameraFrame
  <1>14. ASSUME NEW t \in Transfers, GivenUp(t) PROVE WholeFrames'
    BY <1>14 DEF GivenUp, EvAt, InFlight, CameraSends, TypeInv, TypeOK,
      DataTypes, PayloadInv, WholeFrames, OneCameraFrame
  <1>15. ASSUME NEW t \in Transfers, DeviceGone(t) PROVE WholeFrames'
    BY <1>15 DEF DeviceGone, EvAt, InFlight, TypeInv, TypeOK, DataTypes,
      PayloadInv, WholeFrames, OneCameraFrame
  <1>16. CASE PublishOld
    BY <1>16 DEF PublishOld, EvAt, SwapBuffers, Broadcast, TypeInv, TypeOK,
      DataTypes, PayloadInv, WholeFrames, OneCameraFrame
  <1>17. CASE Collect
    BY <1>17 DEF Collect, EvAt, TypeInv, TypeOK, DataTypes, PayloadInv,
      WholeFrames, OneCameraFrame
  <1>18. CASE PublishComplete
    BY <1>18 DEF PublishComplete, EvAt, SwapBuffers, Broadcast, TypeInv,
      TypeOK, DataTypes, PayloadInv, WholeFrames, OneCameraFrame
  <1>19. CASE Decide
    BY <1>19 DEF Decide, EvAt, TypeInv, TypeOK, DataTypes, PayloadInv,
      WholeFrames, OneCameraFrame
  <1>20. CASE Resubmit
    BY <1>20 DEF Resubmit, EvAt, TypeInv, TypeOK, DataTypes, PayloadInv,
      WholeFrames, OneCameraFrame
  <1>21. CASE DeleteTransfer
    BY <1>21 DEF DeleteTransfer, EvAt, Broadcast, TypeInv, TypeOK, DataTypes,
      PayloadInv, WholeFrames, OneCameraFrame
  <1>22. CASE CallerTest
    BY <1>22 DEF CallerTest, UcAt, Populate, TypeInv, TypeOK, DataTypes,
      PayloadInv, WholeFrames, OneCameraFrame
  <1>23. CASE CallerCheck
    BY <1>23 DEF CallerCheck, UcAt, TypeInv, TypeOK, DataTypes, PayloadInv,
      WholeFrames, OneCameraFrame
  <1>24. CASE CallbackReturns
    BY <1>24 DEF CallbackReturns, UcAt, TypeInv, TypeOK, DataTypes,
      PayloadInv, WholeFrames, OneCameraFrame
  <1>25. CASE Poll
    BY <1>25 DEF Poll, PlAt, TypeInv, TypeOK, DataTypes,
      PayloadInv, WholeFrames, OneCameraFrame
  <1>30. CASE PollLocked
    BY <1>30 DEF PollLocked, PlAt, TakePolled, Populate, TypeInv, TypeOK, DataTypes,
      PayloadInv, WholeFrames, OneCameraFrame
  <1>26. CASE PollWoken
    BY <1>26 DEF PollWoken, PlAt, TakePolled, Populate, TypeInv, TypeOK,
      DataTypes, PayloadInv, WholeFrames, OneCameraFrame
  <1>27. CASE SpuriousWakeup
    BY <1>27 DEF SpuriousWakeup, UcAt, PlAt, TypeInv, TypeOK, DataTypes,
      PayloadInv, WholeFrames, OneCameraFrame
  <1>28. CASE Unplug
    BY <1>28 DEF Unplug, TypeInv, TypeOK, DataTypes, PayloadInv, WholeFrames,
      OneCameraFrame
  <1>29. CASE UNCHANGED vars
    BY <1>29 DEF vars, TypeInv, TypeOK, DataTypes, PayloadInv, WholeFrames,
      OneCameraFrame
  <1> QED BY <1>1, <1>2, <1>3, <1>4, <1>5, <1>6, <1>7, <1>8, <1>9, <1>10,
    <1>11, <1>12, <1>13, <1>14, <1>15, <1>16, <1>17, <1>18, <1>19, <1>20,
    <1>21, <1>22, <1>23, <1>24, <1>25, <1>26, <1>27, <1>28, <1>29, <1>30 DEF Next,
    Starting, Stopping, Completion, EventSteps, CallerSteps, PollerSteps

(* No listener gets a picture that mixes two camera frames.                *)
THEOREM FramesAreWhole == MaxLossRun <= 1 => (Spec => []WholeFrames)
  <1> SUFFICES ASSUME MaxLossRun <= 1 PROVE Spec => []WholeFrames
    OBVIOUS
  <1>1. Init => PayloadInv /\ WholeFrames
    BY DEF Init, PayloadInv, NearCamera, WholeFrames, OneCameraFrame
  <1>2. TypeInv /\ PayloadInv /\ WholeFrames /\ [Next]_vars
          => PayloadInv' /\ WholeFrames'
    BY PayloadInvStep, WholeFramesStep
  <1> QED BY TypeInvariant, <1>1, <1>2, PTL DEF Spec
=============================================================================
