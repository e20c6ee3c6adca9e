-------------------------- MODULE UVCPreview_proofs --------------------------
(***************************************************************************)
(* Proofs about UVCPreview, for every set of frames, capture threads,      *)
(* callbacks and windows, every queue capacity and every environment:      *)
(* type correctness, the ownership of frames, that no thread sleeps while  *)
(* its frame is there, that stopPreview leaves the preview quiet, and that *)
(* it loses at most one frame.                                             *)
(***************************************************************************)
EXTENDS UVCPreview, SequenceTheorems, FiniteSetTheorems, TLAPS

(* The frames that must be there for the next step of a thread: the copy   *)
(* of the USB callback and the frame the preview thread draws.             *)
HoldInv ==
    /\ usb \in {"duplicate", "add"} => hold[<<"usb", "copy">>] \in Frames
    /\ pv \in {"draw", "copy", "addCapture"} => hold[<<"pv", "frame">>] \in Frames

(* The local variables of the threads are slots.                           *)
LEMMA SlotsInSlots ==
    /\ <<"usb", "copy">> \in Slots /\ <<"pv", "frame">> \in Slots
    /\ <<"pv", "frame_mjpeg">> \in Slots /\ <<"pv", "converted">> \in Slots
    /\ \A c \in CaptureThreads : /\ <<c, "frame">> \in Slots
                                 /\ <<c, "converted">> \in Slots
                                 /\ <<c, "callback_frame">> \in Slots
    /\ PvSlot \in Slots
  BY DEF Slots, LocalSlots, CaptureSlots, PvSlot

(* recycle_frame only adds frames it was given to the pool.                *)
LEMMA RecyclePool ==
    ASSUME NEW F, Recycle(F)
    PROVE  \E K \in SUBSET (F \ {NoFrame}) : mFramePool' = mFramePool \cup K
  BY DEF Recycle

(* recycle_frame leaves only frames in the pool.                           *)
LEMMA RecycleType ==
    ASSUME NEW F, Recycle(F), mFramePool \subseteq Frames,
           F \subseteq Frames \cup {NoFrame}
    PROVE  mFramePool' \subseteq Frames
  BY RecyclePool

(* get_frame returns a frame or NULL, and only takes from the pool.        *)
LEMMA GetFrameType ==
    ASSUME NEW f, GetFrame(f), mFramePool \subseteq Frames
    PROVE  f \in Frames \cup {NoFrame} /\ mFramePool' \subseteq mFramePool
  BY DEF GetFrame

(* A signal or broadcast moves the client, if it moves it at all, from the *)
(* wait it is in to the end of that wait.                                  *)
WokenClient ==
    \/ client' = client
    \/ client = "callbackWaiting" /\ client' = "callbackWoken"
    \/ client = "displayWaiting" /\ client' = "displayWoken"

(* Waking changes the pcs of the capture threads as the waking action      *)
(* says, and lets a paused setter go on.                                   *)
LEMMA WakeResult ==
    ASSUME NEW W \in SUBSET CaptureWaiters, NEW pcs \in [CaptureThreads -> CpPcs],
           Wake(W, pcs), ThreadTypes
    PROVE  cp' \in [CaptureThreads -> CpPcs] /\ WokenClient
  <1>1. cp' \in [CaptureThreads -> CpPcs]
    BY DEF Wake, CpPcs
  <1>2. CASE "client" \in W
    <2>1. client \in {"callbackWaiting", "displayWaiting"}
      BY <1>2, ThreadAssumption DEF CaptureWaiters
    <2> QED BY <1>1, <1>2, <2>1 DEF Wake, WokenClient
  <1>3. CASE "client" \notin W
    BY <1>1, <1>3 DEF Wake, WokenClient
  <1> QED BY <1>2, <1>3

(* The steps that wake threads from capture_sync: pthread_cond_signal and  *)
(* pthread_cond_broadcast move a sleeper to the pc after its wait.         *)
LEMMA WakingAction ==
    ASSUME ThreadTypes, \/ AddCaptureFrame \/ PvSignalCapture \/ SpuriousWakeup
                        \/ \E c \in CaptureThreads : CpBroadcast(c)
    PROVE  cp' \in [CaptureThreads -> CpPcs] /\ WokenClient
  <1>0. cp \in [CaptureThreads -> CpPcs]
    BY DEF ThreadTypes
  <1>1. CASE AddCaptureFrame
    <2>1. CASE mIsRunning
      <3>1. Wake(CaptureWaiters, cp)
        BY <1>1, <2>1 DEF AddCaptureFrame
      <3> QED BY <1>0, <3>1, WakeResult
    <2>2. CASE ~mIsRunning
      BY <1>0, <1>1, <2>2 DEF AddCaptureFrame, WokenClient
    <2> QED BY <2>1, <2>2
  <1>2. CASE PvSignalCapture
    <2>1. \E W \in SUBSET CaptureWaiters : Wake(W, cp)
      BY <1>2 DEF PvSignalCapture, SignalCaptureSync
    <2> QED BY <1>0, <2>1, WakeResult
  <1>3. CASE SpuriousWakeup
    <2>1. \/ \E W \in SUBSET CaptureWaiters : Wake(W, cp)
          \/ UNCHANGED <<cp, client>>
      BY <1>3 DEF SpuriousWakeup
    <2> QED BY <1>0, <2>1, WakeResult DEF WokenClient
  <1>4. ASSUME NEW c \in CaptureThreads, CpBroadcast(c)
        PROVE  cp' \in [CaptureThreads -> CpPcs] /\ WokenClient
    <2>1. [cp EXCEPT ![c] = "loop"] \in [CaptureThreads -> CpPcs]
      BY <1>0 DEF CpPcs
    <2>2. Wake(CaptureWaiters, [cp EXCEPT ![c] = "loop"])
      BY <1>4 DEF CpBroadcast
    <2> QED BY <2>1, <2>2, WakeResult
  <1> QED BY <1>1, <1>2, <1>3, <1>4

(* The constructor's state has the right types, and no thread holds a frame. *)
LEMMA InitType == Init => TypeOK /\ HoldInv
  <1> SUFFICES ASSUME Init PROVE TypeOK /\ HoldInv
    OBVIOUS
  <1>1. ThreadTypes
    BY BoundAssumption DEF Init, ThreadTypes, ClientPcs, PvPcs, CpPcs
  <1>2. FlagTypes
    BY Zenon DEF Init, FlagTypes
  <1>3. FrameTypes
    BY MaxFrameAssumption DEF Init, FrameTypes
  <1>4. SettingTypes
    BY DEF Init, SettingTypes
  <1>5. HoldInv
    BY DEF Init, HoldInv
  <1> QED BY <1>1, <1>2, <1>3, <1>4, <1>5 DEF TypeOK

(* Every action keeps the pcs of the threads and the ids in their sets.    *)
LEMMA ThreadTypesStep == TypeOK /\ [Next]_vars => ThreadTypes'
  <1> SUFFICES ASSUME TypeOK, [Next]_vars PROVE ThreadTypes'
    OBVIOUS
  <1> USE DEF clientVars, captureVars, threads, runVars, queues, windowVars,
    callbackVars, modeVars, settings, shared, frameVars
  <1>1. CASE SetPreviewSize
    BY <1>1 DEF SetPreviewSize, ClientIdle, TypeOK, ThreadTypes, ClientPcs,
      PvPcs, CpPcs
  <1>2. CASE SetPreviewDisplay
    BY <1>2 DEF SetPreviewDisplay, ClientIdle, TypeOK, ThreadTypes,
      ClientPcs, PvPcs, CpPcs
  <1>3. CASE StartPreview
    BY <1>3 DEF StartPreview, ClientIdle, TypeOK, ThreadTypes, ClientPcs,
      PvPcs, CpPcs
  <1>4. CASE StopPreview
    BY <1>4 DEF StopPreview, ClientIdle, TypeOK, ThreadTypes, ClientPcs,
      PvPcs, CpPcs
  <1>5. CASE SetFrameCallback
    BY <1>5 DEF SetFrameCallback, SwapCallback, MustPause, ClientIdle,
      TypeOK, ThreadTypes, ClientPcs, PvPcs, CpPcs
  <1>6. CASE SetCaptureDisplay
    BY <1>6 DEF SetCaptureDisplay, MustPause, ClientIdle, TypeOK,
      ThreadTypes, ClientPcs, PvPcs, CpPcs
  <1>7. CASE Destroy
    BY <1>7 DEF Destroy, ClientIdle, TypeOK, ThreadTypes, ClientPcs, PvPcs,
      CpPcs
  <1>8. CASE CreatePreviewThread
    BY <1>8, BoundAssumption DEF CreatePreviewThread, TypeOK, ThreadTypes,
      ClientPcs, PvPcs, CpPcs
  <1>9. CASE StartPreviewFails
    BY <1>9 DEF StartPreviewFails, TypeOK, ThreadTypes, ClientPcs, PvPcs,
      CpPcs
  <1>10. CASE SignalPreview
    BY <1>10 DEF SignalPreview, TypeOK, ThreadTypes, ClientPcs, PvPcs, CpPcs
  <1>11. CASE SignalCapture
    BY <1>11 DEF SignalCapture, TypeOK, ThreadTypes, ClientPcs, PvPcs, CpPcs
  <1>12. CASE JoinCapture
    BY <1>12 DEF JoinCapture, TypeOK, ThreadTypes, ClientPcs, PvPcs, CpPcs
  <1>13. CASE JoinPreview
    BY <1>13 DEF JoinPreview, TypeOK, ThreadTypes, ClientPcs, PvPcs, CpPcs
  <1>14. CASE ClearPreview
    BY <1>14 DEF ClearPreview, TypeOK, ThreadTypes, ClientPcs, PvPcs, CpPcs
  <1>15. CASE ClearCapture
    BY <1>15 DEF ClearCapture, TypeOK, ThreadTypes, ClientPcs, PvPcs, CpPcs
  <1>16. CASE SetterWait
    BY <1>16 DEF SetterWait, TypeOK, ThreadTypes, ClientPcs, PvPcs, CpPcs
  <1>17. CASE SwapCallbackAfterWait
    BY <1>17 DEF SwapCallbackAfterWait, SwapCallback, TypeOK, ThreadTypes,
      ClientPcs, PvPcs, CpPcs
  <1>18. CASE SwapWindowAfterWait
    BY <1>18 DEF SwapWindowAfterWait, SwapWindow, TypeOK, ThreadTypes,
      ClientPcs, PvPcs, CpPcs
  <1>19. CASE UsbFrame
    BY <1>19 DEF UsbFrame, UsbUsesFrames, TypeOK, ThreadTypes, ClientPcs,
      PvPcs, CpPcs
  <1>20. CASE UsbDuplicate
    BY <1>20 DEF UsbDuplicate, UsbUsesFrames, TypeOK, ThreadTypes,
      ClientPcs, PvPcs, CpPcs
  <1>21. CASE UsbDuplicateFails
    BY <1>21 DEF UsbDuplicateFails, UsbUsesFrames, TypeOK, ThreadTypes,
      ClientPcs, PvPcs, CpPcs
  <1>22. CASE AddPreviewFrame
    BY <1>22 DEF AddPreviewFrame, TypeOK, ThreadTypes, ClientPcs, PvPcs,
      CpPcs
  <1>23. CASE PvNegotiate
    BY <1>23 DEF PvNegotiate, TypeOK, ThreadTypes, ClientPcs, PvPcs, CpPcs
  <1>24. CASE PvPrepare
    BY <1>24 DEF PvPrepare, TypeOK, ThreadTypes, ClientPcs, PvPcs, CpPcs
  <1>25. CASE PvStartStream
    BY <1>25 DEF PvStartStream, TypeOK, ThreadTypes, ClientPcs, PvPcs, CpPcs
  <1>26. CASE PvClearPreviewFrame
    BY <1>26 DEF PvClearPreviewFrame, TypeOK, ThreadTypes, ClientPcs, PvPcs,
      CpPcs
  <1>27. CASE PvCreateCapture
    BY <1>27 DEF PvCreateCapture, TypeOK, ThreadTypes, ClientPcs, PvPcs,
      CpPcs
  <1>28. CASE PvLoop
    BY <1>28 DEF PvLoop, TakePreviewFrame, TypeOK, ThreadTypes, ClientPcs,
      PvPcs, CpPcs
  <1>29. CASE PvWait
    BY <1>29 DEF PvWait, TypeOK, ThreadTypes, ClientPcs, PvPcs, CpPcs
  <1>30. CASE PvWoken
    BY <1>30 DEF PvWoken, TakePreviewFrame, TypeOK, ThreadTypes, ClientPcs,
      PvPcs, CpPcs
  <1>31. CASE PvGetYuyv
    BY <1>31 DEF PvGetYuyv, PvUsesFrames, TypeOK, ThreadTypes, ClientPcs,
      PvPcs, CpPcs
  <1>32. CASE PvDecode
    BY <1>32 DEF PvDecode, PvUsesFrames, TypeOK, ThreadTypes, ClientPcs,
      PvPcs, CpPcs
  <1>33. CASE PvConvert
    BY <1>33 DEF PvConvert, PvUsesFrames, TypeOK, ThreadTypes, ClientPcs,
      PvPcs, CpPcs
  <1>34. CASE PvCopyToSurface
    BY <1>34 DEF PvCopyToSurface, PvUsesFrames, TypeOK, ThreadTypes,
      ClientPcs, PvPcs, CpPcs
  <1>35. CASE AddCaptureFrame
    <2>1. cp' \in [CaptureThreads -> CpPcs] /\ WokenClient
      BY <1>35, WakingAction DEF TypeOK
    <2> QED BY <1>35, <2>1 DEF WokenClient, TypeOK, ThreadTypes, ClientPcs,
      PvPcs, AddCaptureFrame
  <1>36. CASE PvSignalCapture
    <2>1. cp' \in [CaptureThreads -> CpPcs] /\ WokenClient
      BY <1>36, WakingAction DEF TypeOK
    <2> QED BY <1>36, <2>1 DEF WokenClient, TypeOK, ThreadTypes, ClientPcs,
      PvPcs, PvSignalCapture
  <1>37. CASE PvStopStream
    BY <1>37 DEF PvStopStream, TypeOK, ThreadTypes, ClientPcs, PvPcs, CpPcs
  <1>38. CASE SpuriousWakeup
    <2>1. cp' \in [CaptureThreads -> CpPcs] /\ WokenClient
      BY <1>38, WakingAction DEF TypeOK
    <2> QED BY <1>38, <2>1 DEF WokenClient, TypeOK, ThreadTypes, ClientPcs,
      PvPcs, SpuriousWakeup
  <1>39. ASSUME NEW c \in CaptureThreads, CpInit(c) PROVE ThreadTypes'
    BY <1>39 DEF CpInit, CpUnchanged, TypeOK, ThreadTypes, ClientPcs, PvPcs,
      CpPcs
  <1>40. ASSUME NEW c \in CaptureThreads, CpLoop(c) PROVE ThreadTypes'
    BY <1>40 DEF CpLoop, CpOnly, CpUnchanged, TypeOK, ThreadTypes,
      ClientPcs, PvPcs, CpPcs
  <1>41. ASSUME NEW c \in CaptureThreads, CpTest(c) PROVE ThreadTypes'
    BY <1>41 DEF CpTest, CpUnchanged, CpOnly, TypeOK, ThreadTypes,
      ClientPcs, PvPcs, CpPcs
  <1>42. ASSUME NEW c \in CaptureThreads, CpTake(c) PROVE ThreadTypes'
    BY <1>42 DEF CpTake, CpUnchanged, TakeCaptureFrame, NoCaptureFrame,
      TypeOK, ThreadTypes, ClientPcs, PvPcs, CpPcs
  <1>43. ASSUME NEW c \in CaptureThreads, CpWait(c) PROVE ThreadTypes'
    BY <1>43 DEF CpWait, CpUnchanged, CpOnly, TypeOK, ThreadTypes,
      ClientPcs, PvPcs, CpPcs
  <1>44. ASSUME NEW c \in CaptureThreads, CpWoken(c) PROVE ThreadTypes'
    BY <1>44 DEF CpWoken, CpUnchanged, TakeCaptureFrame, NoCaptureFrame,
      TypeOK, ThreadTypes, ClientPcs, PvPcs, CpPcs
  <1>45. ASSUME NEW c \in CaptureThreads, CpConvert(c) PROVE ThreadTypes'
    BY <1>45 DEF CpConvert, CpUnchanged, CpUsesFrames, TypeOK, ThreadTypes,
      ClientPcs, PvPcs, CpPcs
  <1>46. ASSUME NEW c \in CaptureThreads, CpCopy(c) PROVE ThreadTypes'
    BY <1>46 DEF CpCopy, CpUnchanged, CpOnly, TypeOK, ThreadTypes,
      ClientPcs, PvPcs, CpPcs
  <1>47. ASSUME NEW c \in CaptureThreads, CpCallback(c) PROVE ThreadTypes'
    BY <1>47 DEF CpCallback, CpUnchanged, CpUsesFrames, TypeOK, ThreadTypes,
      ClientPcs, PvPcs, CpPcs
  <1>48. ASSUME NEW c \in CaptureThreads, CpConvertCallback(c) PROVE ThreadTypes'
    BY <1>48 DEF CpConvertCallback, CpUnchanged, CpUsesFrames, TypeOK,
      ThreadTypes, ClientPcs, PvPcs, CpPcs
  <1>49. ASSUME NEW c \in CaptureThreads, CpCall(c) PROVE ThreadTypes'
    BY <1>49 DEF CpCall, CpUnchanged, CpUsesFrames, TypeOK, ThreadTypes,
      ClientPcs, PvPcs, CpPcs
  <1>50. ASSUME NEW c \in CaptureThreads, CpLeaveSurface(c) PROVE ThreadTypes'
    BY <1>50 DEF CpLeaveSurface, CpUnchanged, CpUsesFrames, TypeOK,
      ThreadTypes, ClientPcs, PvPcs, CpPcs
  <1>51. ASSUME NEW c \in CaptureThreads, CpReleaseWindow(c) PROVE ThreadTypes'
    BY <1>51 DEF CpReleaseWindow, CpUnchanged, TypeOK, ThreadTypes,
      ClientPcs, PvPcs, CpPcs
  <1>52. ASSUME NEW c \in CaptureThreads, CpForgetWindow(c) PROVE ThreadTypes'
    BY <1>52 DEF CpForgetWindow, CpUnchanged, TypeOK, ThreadTypes,
      ClientPcs, PvPcs, CpPcs
  <1>53. ASSUME NEW c \in CaptureThreads, CpBroadcast(c) PROVE ThreadTypes'
    <2>1. cp' \in [CaptureThreads -> CpPcs] /\ WokenClient
      BY <1>53, WakingAction DEF TypeOK
    <2> QED BY <1>53, <2>1 DEF WokenClient, TypeOK, ThreadTypes, ClientPcs,
      PvPcs, CpBroadcast
  <1>54. CASE UNCHANGED vars
    BY <1>54 DEF vars, TypeOK, ThreadTypes
  <1>55. CASE ReleasePreviewWindow
    BY <1>55 DEF ReleasePreviewWindow, TypeOK, ThreadTypes,
      ClientPcs, PvPcs, CpPcs
  <1>56. CASE ReleaseCaptureWindow
    BY <1>56 DEF ReleaseCaptureWindow, TypeOK, ThreadTypes,
      ClientPcs, PvPcs, CpPcs
  <1>57. ASSUME NEW c \in CaptureThreads, CpCapture(c) PROVE ThreadTypes'
    BY <1>57 DEF CpCapture, CpUnchanged, TypeOK, ThreadTypes,
      ClientPcs, PvPcs, CpPcs
  <1>58. ASSUME NEW c \in CaptureThreads, CpChoose(c) PROVE ThreadTypes'
    BY <1>58 DEF CpChoose, CpUnchanged, TypeOK, ThreadTypes,
      ClientPcs, PvPcs, CpPcs
  <1> QED BY <1>1, <1>2, <1>3, <1>4, <1>5, <1>6, <1>7, <1>8, <1>9, <1>10,
    <1>11, <1>12, <1>13, <1>14, <1>15, <1>16, <1>17, <1>18, <1>19, <1>20,
    <1>21, <1>22, <1>23, <1>24, <1>25, <1>26, <1>27, <1>28, <1>29, <1>30,
    <1>31, <1>32, <1>33, <1>34, <1>35, <1>36, <1>37, <1>38, <1>39, <1>40,
    <1>41, <1>42, <1>43, <1>44, <1>45, <1>46, <1>47, <1>48, <1>49, <1>50,
    <1>51, <1>52, <1>53, <1>54, <1>55, <1>56, <1>57, <1>58
    DEF Next, ClientCall, ClientContinue,
    UsbNext, PvNext, CpNext

(* Every action keeps the Boolean fields Boolean.                          *)
LEMMA FlagTypesStep == TypeOK /\ [Next]_vars => FlagTypes'
  <1> SUFFICES ASSUME TypeOK, [Next]_vars PROVE FlagTypes'
    OBVIOUS
  <1> USE DEF TypeOK, FlagTypes, clientVars, captureVars, threads, runVars,
    queues, windowVars, callbackVars, modeVars, settings, shared, frameVars
  <1>1. CASE SetPreviewSize
    BY <1>1 DEF SetPreviewSize, ClientIdle
  <1>2. CASE SetPreviewDisplay
    BY <1>2 DEF SetPreviewDisplay, ClientIdle
  <1>3. CASE StartPreview
    BY <1>3 DEF StartPreview, ClientIdle
  <1>4. CASE StopPreview
    BY <1>4 DEF StopPreview, ClientIdle
  <1>5. CASE SetFrameCallback
    BY <1>5 DEF SetFrameCallback, SwapCallback, MustPause, ClientIdle
  <1>6. CASE SetCaptureDisplay
    BY <1>6 DEF SetCaptureDisplay, MustPause, ClientIdle
  <1>7. CASE Destroy
    BY <1>7 DEF Destroy, ClientIdle
  <1>8. CASE CreatePreviewThread
    BY <1>8 DEF CreatePreviewThread
  <1>9. CASE StartPreviewFails
    BY <1>9 DEF StartPreviewFails
  <1>10. CASE SignalPreview
    BY <1>10 DEF SignalPreview
  <1>11. CASE SignalCapture
    BY <1>11 DEF SignalCapture
  <1>12. CASE JoinCapture
    BY <1>12 DEF JoinCapture
  <1>13. CASE JoinPreview
    BY <1>13 DEF JoinPreview
  <1>14. CASE ClearPreview
    BY <1>14 DEF ClearPreview
  <1>15. CASE ClearCapture
    BY <1>15 DEF ClearCapture
  <1>16. CASE SetterWait
    BY <1>16 DEF SetterWait
  <1>17. CASE SwapCallbackAfterWait
    BY <1>17 DEF SwapCallbackAfterWait, SwapCallback
  <1>18. CASE SwapWindowAfterWait
    BY <1>18 DEF SwapWindowAfterWait, SwapWindow
  <1>19. CASE UsbFrame
    BY <1>19 DEF UsbFrame, UsbUsesFrames
  <1>20. CASE UsbDuplicate
    BY <1>20 DEF UsbDuplicate, UsbUsesFrames
  <1>21. CASE UsbDuplicateFails
    BY <1>21 DEF UsbDuplicateFails, UsbUsesFrames
  <1>22. CASE AddPreviewFrame
    BY <1>22 DEF AddPreviewFrame
  <1>23. CASE PvNegotiate
    BY <1>23 DEF PvNegotiate
  <1>24. CASE PvPrepare
    BY <1>24 DEF PvPrepare
  <1>25. CASE PvStartStream
    BY <1>25 DEF PvStartStream
  <1>26. CASE PvClearPreviewFrame
    BY <1>26 DEF PvClearPreviewFrame
  <1>27. CASE PvCreateCapture
    BY <1>27 DEF PvCreateCapture
  <1>28. CASE PvLoop
    BY <1>28 DEF PvLoop, TakePreviewFrame
  <1>29. CASE PvWait
    BY <1>29 DEF PvWait
  <1>30. CASE PvWoken
    BY <1>30 DEF PvWoken, TakePreviewFrame
  <1>31. CASE PvGetYuyv
    BY <1>31 DEF PvGetYuyv, PvUsesFrames
  <1>32. CASE PvDecode
    BY <1>32 DEF PvDecode, PvUsesFrames
  <1>33. CASE PvConvert
    BY <1>33 DEF PvConvert, PvUsesFrames
  <1>34. CASE PvCopyToSurface
    BY <1>34 DEF PvCopyToSurface, PvUsesFrames
  <1>35. CASE AddCaptureFrame
    BY <1>35 DEF AddCaptureFrame
  <1>36. CASE PvSignalCapture
    BY <1>36 DEF PvSignalCapture, SignalCaptureSync
  <1>37. CASE PvStopStream
    BY <1>37 DEF PvStopStream
  <1>38. CASE SpuriousWakeup
    BY <1>38 DEF SpuriousWakeup
  <1>39. ASSUME NEW c \in CaptureThreads, CpInit(c) PROVE FlagTypes'
    BY <1>39 DEF CpInit, CpUnchanged
  <1>40. ASSUME NEW c \in CaptureThreads, CpLoop(c) PROVE FlagTypes'
    BY <1>40 DEF CpLoop, CpOnly, CpUnchanged
  <1>41. ASSUME NEW c \in CaptureThreads, CpTest(c) PROVE FlagTypes'
    BY <1>41 DEF CpTest, CpUnchanged, CpOnly
  <1>42. ASSUME NEW c \in CaptureThreads, CpTake(c) PROVE FlagTypes'
    BY <1>42 DEF CpTake, CpUnchanged, TakeCaptureFrame, NoCaptureFrame
  <1>43. ASSUME NEW c \in CaptureThreads, CpWait(c) PROVE FlagTypes'
    BY <1>43 DEF CpWait, CpUnchanged, CpOnly
  <1>44. ASSUME NEW c \in CaptureThreads, CpWoken(c) PROVE FlagTypes'
    BY <1>44 DEF CpWoken, CpUnchanged, TakeCaptureFrame, NoCaptureFrame
  <1>45. ASSUME NEW c \in CaptureThreads, CpConvert(c) PROVE FlagTypes'
    BY <1>45 DEF CpConvert, CpUnchanged, CpUsesFrames
  <1>46. ASSUME NEW c \in CaptureThreads, CpCopy(c) PROVE FlagTypes'
    BY <1>46 DEF CpCopy, CpUnchanged, CpOnly
  <1>47. ASSUME NEW c \in CaptureThreads, CpCallback(c) PROVE FlagTypes'
    BY <1>47 DEF CpCallback, CpUnchanged, CpUsesFrames
  <1>48. ASSUME NEW c \in CaptureThreads, CpConvertCallback(c) PROVE FlagTypes'
    BY <1>48 DEF CpConvertCallback, CpUnchanged, CpUsesFrames
  <1>49. ASSUME NEW c \in CaptureThreads, CpCall(c) PROVE FlagTypes'
    BY <1>49 DEF CpCall, CpUnchanged, CpUsesFrames
  <1>50. ASSUME NEW c \in CaptureThreads, CpLeaveSurface(c) PROVE FlagTypes'
    BY <1>50 DEF CpLeaveSurface, CpUnchanged, CpUsesFrames
  <1>51. ASSUME NEW c \in CaptureThreads, CpReleaseWindow(c) PROVE FlagTypes'
    BY <1>51 DEF CpReleaseWindow, CpUnchanged
  <1>52. ASSUME NEW c \in CaptureThreads, CpForgetWindow(c) PROVE FlagTypes'
    BY <1>52 DEF CpForgetWindow, CpUnchanged
  <1>53. ASSUME NEW c \in CaptureThreads, CpBroadcast(c) PROVE FlagTypes'
    BY <1>53 DEF CpBroadcast, CpUnchanged
  <1>54. CASE UNCHANGED vars
    BY <1>54 DEF vars
  <1>55. CASE ReleasePreviewWindow
    BY <1>55 DEF ReleasePreviewWindow
  <1>56. CASE ReleaseCaptureWindow
    BY <1>56 DEF ReleaseCaptureWindow
  <1>57. ASSUME NEW c \in CaptureThreads, CpCapture(c) PROVE FlagTypes'
    BY <1>57 DEF CpCapture, CpUnchanged
  <1>58. ASSUME NEW c \in CaptureThreads, CpChoose(c) PROVE FlagTypes'
    BY <1>58 DEF CpChoose, CpUnchanged
  <1> QED BY <1>1, <1>2, <1>3, <1>4, <1>5, <1>6, <1>7, <1>8, <1>9, <1>10,
    <1>11, <1>12, <1>13, <1>14, <1>15, <1>16, <1>17, <1>18, <1>19, <1>20,
    <1>21, <1>22, <1>23, <1>24, <1>25, <1>26, <1>27, <1>28, <1>29, <1>30,
    <1>31, <1>32, <1>33, <1>34, <1>35, <1>36, <1>37, <1>38, <1>39, <1>40,
    <1>41, <1>42, <1>43, <1>44, <1>45, <1>46, <1>47, <1>48, <1>49, <1>50,
    <1>51, <1>52, <1>53, <1>54, <1>55, <1>56, <1>57, <1>58
    DEF Next, ClientCall, ClientContinue,
    UsbNext, PvNext, CpNext

(* Every action keeps the settings in their sets.                          *)
LEMMA SettingTypesStep == TypeOK /\ [Next]_vars => SettingTypes'
  <1> SUFFICES ASSUME TypeOK, [Next]_vars PROVE SettingTypes'
    OBVIOUS
  <1> USE DEF TypeOK, SettingTypes, clientVars, captureVars, threads,
    runVars, queues, windowVars, callbackVars, modeVars, settings, shared,
    frameVars
  <1>1. CASE SetPreviewSize
    BY <1>1, ModeAssumption DEF SetPreviewSize, ClientIdle
  <1>2. CASE SetPreviewDisplay
    BY <1>2 DEF SetPreviewDisplay, ClientIdle
  <1>3. CASE StartPreview
    BY <1>3 DEF StartPreview, ClientIdle
  <1>4. CASE StopPreview
    BY <1>4 DEF StopPreview, ClientIdle
  <1>5. CASE SetFrameCallback
    BY <1>5 DEF SetFrameCallback, SwapCallback, MustPause, ClientIdle
  <1>6. CASE SetCaptureDisplay
    BY <1>6 DEF SetCaptureDisplay, MustPause, ClientIdle, RefsAfter
  <1>7. CASE Destroy
    BY <1>7 DEF Destroy, ClientIdle, RefsAfter
  <1>8. CASE CreatePreviewThread
    BY <1>8 DEF CreatePreviewThread
  <1>9. CASE StartPreviewFails
    BY <1>9 DEF StartPreviewFails
  <1>10. CASE SignalPreview
    BY <1>10 DEF SignalPreview
  <1>11. CASE SignalCapture
    BY <1>11 DEF SignalCapture
  <1>12. CASE JoinCapture
    BY <1>12 DEF JoinCapture
  <1>13. CASE JoinPreview
    BY <1>13 DEF JoinPreview
  <1>14. CASE ClearPreview
    BY <1>14 DEF ClearPreview
  <1>15. CASE ClearCapture
    BY <1>15 DEF ClearCapture
  <1>16. CASE SetterWait
    BY <1>16 DEF SetterWait
  <1>17. CASE SwapCallbackAfterWait
    BY <1>17 DEF SwapCallbackAfterWait, SwapCallback
  <1>18. CASE SwapWindowAfterWait
    BY <1>18 DEF SwapWindowAfterWait, SwapWindow, RefsAfter
  <1>19. CASE UsbFrame
    BY <1>19 DEF UsbFrame, UsbUsesFrames
  <1>20. CASE UsbDuplicate
    BY <1>20 DEF UsbDuplicate, UsbUsesFrames
  <1>21. CASE UsbDuplicateFails
    BY <1>21 DEF UsbDuplicateFails, UsbUsesFrames
  <1>22. CASE AddPreviewFrame
    BY <1>22 DEF AddPreviewFrame
  <1>23. CASE PvNegotiate
    BY <1>23 DEF PvNegotiate
  <1>24. CASE PvPrepare
    BY <1>24 DEF PvPrepare
  <1>25. CASE PvStartStream
    BY <1>25 DEF PvStartStream
  <1>26. CASE PvClearPreviewFrame
    BY <1>26 DEF PvClearPreviewFrame
  <1>27. CASE PvCreateCapture
    BY <1>27 DEF PvCreateCapture
  <1>28. CASE PvLoop
    BY <1>28 DEF PvLoop, TakePreviewFrame
  <1>29. CASE PvWait
    BY <1>29 DEF PvWait
  <1>30. CASE PvWoken
    BY <1>30 DEF PvWoken, TakePreviewFrame
  <1>31. CASE PvGetYuyv
    BY <1>31 DEF PvGetYuyv, PvUsesFrames
  <1>32. CASE PvDecode
    BY <1>32 DEF PvDecode, PvUsesFrames
  <1>33. CASE PvConvert
    BY <1>33 DEF PvConvert, PvUsesFrames
  <1>34. CASE PvCopyToSurface
    BY <1>34 DEF PvCopyToSurface, PvUsesFrames
  <1>35. CASE AddCaptureFrame
    <2>1. cp' \in [CaptureThreads -> CpPcs] /\ WokenClient
      BY <1>35, WakingAction DEF TypeOK
    <2> QED BY <1>35, <2>1 DEF WokenClient, AddCaptureFrame
  <1>36. CASE PvSignalCapture
    <2>1. cp' \in [CaptureThreads -> CpPcs] /\ WokenClient
      BY <1>36, WakingAction DEF TypeOK
    <2> QED BY <1>36, <2>1 DEF WokenClient, PvSignalCapture
  <1>37. CASE PvStopStream
    BY <1>37 DEF PvStopStream
  <1>38. CASE SpuriousWakeup
    <2>1. cp' \in [CaptureThreads -> CpPcs] /\ WokenClient
      BY <1>38, WakingAction DEF TypeOK
    <2> QED BY <1>38, <2>1 DEF WokenClient, SpuriousWakeup
  <1>39. ASSUME NEW c \in CaptureThreads, CpInit(c) PROVE SettingTypes'
    BY <1>39 DEF CpInit, CpUnchanged
  <1>40. ASSUME NEW c \in CaptureThreads, CpLoop(c) PROVE SettingTypes'
    BY <1>40 DEF CpLoop, CpOnly, CpUnchanged
  <1>41. ASSUME NEW c \in CaptureThreads, CpTest(c) PROVE SettingTypes'
    BY <1>41 DEF CpTest, CpUnchanged, CpOnly
  <1>42. ASSUME NEW c \in CaptureThreads, CpTake(c) PROVE SettingTypes'
    BY <1>42 DEF CpTake, CpUnchanged, TakeCaptureFrame, NoCaptureFrame
  <1>43. ASSUME NEW c \in CaptureThreads, CpWait(c) PROVE SettingTypes'
    BY <1>43 DEF CpWait, CpUnchanged, CpOnly
  <1>44. ASSUME NEW c \in CaptureThreads, CpWoken(c) PROVE SettingTypes'
    BY <1>44 DEF CpWoken, CpUnchanged, TakeCaptureFrame, NoCaptureFrame
  <1>45. ASSUME NEW c \in CaptureThreads, CpConvert(c) PROVE SettingTypes'
    BY <1>45 DEF CpConvert, CpUnchanged, CpUsesFrames
  <1>46. ASSUME NEW c \in CaptureThreads, CpCopy(c) PROVE SettingTypes'
    BY <1>46 DEF CpCopy, CpUnchanged, CpOnly
  <1>47. ASSUME NEW c \in CaptureThreads, CpCallback(c) PROVE SettingTypes'
    BY <1>47 DEF CpCallback, CpUnchanged, CpUsesFrames
  <1>48. ASSUME NEW c \in CaptureThreads, CpConvertCallback(c) PROVE SettingTypes'
    BY <1>48 DEF CpConvertCallback, CpUnchanged, CpUsesFrames
  <1>49. ASSUME NEW c \in CaptureThreads, CpCall(c) PROVE SettingTypes'
    BY <1>49 DEF CpCall, CpUnchanged, CpUsesFrames
  <1>50. ASSUME NEW c \in CaptureThreads, CpLeaveSurface(c) PROVE SettingTypes'
    BY <1>50 DEF CpLeaveSurface, CpUnchanged, CpUsesFrames
  <1>51. ASSUME NEW c \in CaptureThreads, CpReleaseWindow(c) PROVE SettingTypes'
    BY <1>51 DEF CpReleaseWindow, CpUnchanged, RefsAfter
  <1>52. ASSUME NEW c \in CaptureThreads, CpForgetWindow(c) PROVE SettingTypes'
    BY <1>52 DEF CpForgetWindow, CpUnchanged
  <1>53. ASSUME NEW c \in CaptureThreads, CpBroadcast(c) PROVE SettingTypes'
    <2>1. cp' \in [CaptureThreads -> CpPcs] /\ WokenClient
      BY <1>53, WakingAction DEF TypeOK
    <2> QED BY <1>53, <2>1 DEF WokenClient, CpBroadcast
  <1>54. CASE UNCHANGED vars
    BY <1>54 DEF vars
  <1>55. CASE ReleasePreviewWindow
    BY <1>55 DEF ReleasePreviewWindow
  <1>56. CASE ReleaseCaptureWindow
    BY <1>56 DEF ReleaseCaptureWindow, RefsAfter
  <1>57. ASSUME NEW c \in CaptureThreads, CpCapture(c) PROVE SettingTypes'
    BY <1>57 DEF CpCapture, CpUnchanged
  <1>58. ASSUME NEW c \in CaptureThreads, CpChoose(c) PROVE SettingTypes'
    BY <1>58 DEF CpChoose, CpUnchanged
  <1> QED BY <1>1, <1>2, <1>3, <1>4, <1>5, <1>6, <1>7, <1>8, <1>9, <1>10,
    <1>11, <1>12, <1>13, <1>14, <1>15, <1>16, <1>17, <1>18, <1>19, <1>20,
    <1>21, <1>22, <1>23, <1>24, <1>25, <1>26, <1>27, <1>28, <1>29, <1>30,
    <1>31, <1>32, <1>33, <1>34, <1>35, <1>36, <1>37, <1>38, <1>39, <1>40,
    <1>41, <1>42, <1>43, <1>44, <1>45, <1>46, <1>47, <1>48, <1>49, <1>50,
    <1>51, <1>52, <1>53, <1>54, <1>55, <1>56, <1>57, <1>58
    DEF Next, ClientCall, ClientContinue,
    UsbNext, PvNext, CpNext

(* What is in a sequence of frames is frames.                               *)
LEMMA QueuedFrames ==
    ASSUME previewFrames \in Seq(Frames) PROVE Range(previewFrames) \subseteq Frames
  <1>1. DOMAIN previewFrames = 1..Len(previewFrames)
    OBVIOUS
  <1>2. \A i \in 1..Len(previewFrames) : previewFrames[i] \in Frames
    OBVIOUS
  <1> QED BY <1>1, <1>2, Zenon DEF Range

(* waitPreviewFrame takes the first frame of a non-empty queue.            *)
LEMMA TakeHead ==
    ASSUME FrameTypes, previewFrames # <<>>, TakePreviewFrame
    PROVE  /\ Head(previewFrames) \in Frames
           /\ hold' = [hold EXCEPT ![PvSlot] = Head(previewFrames)]
           /\ previewFrames' = Tail(previewFrames)
           /\ previewFrames' \in Seq(Frames) /\ Len(previewFrames') <= MaxFrame
  <1>1. previewFrames \in Seq(Frames) /\ previewFrames # <<>>
    BY DEF FrameTypes
  <1>2. /\ Head(previewFrames) \in Frames /\ Tail(previewFrames) \in Seq(Frames)
        /\ Len(Tail(previewFrames)) = Len(previewFrames) - 1
    BY <1>1, HeadTailProperties, Zenon
  <1>3. Len(Tail(previewFrames)) <= MaxFrame
    BY <1>1, <1>2, MaxFrameAssumption DEF FrameTypes
  <1> QED BY <1>2, <1>3 DEF TakePreviewFrame

(* Every action keeps the frames in their queues, the pool and the slots.  *)
LEMMA FrameTypesStep == TypeOK /\ HoldInv /\ [Next]_vars => FrameTypes'
  <1> SUFFICES ASSUME TypeOK, HoldInv, [Next]_vars PROVE FrameTypes'
    OBVIOUS
  <1> USE DEF TypeOK, FrameTypes, HoldInv, clientVars, captureVars, threads,
    runVars, queues, windowVars, callbackVars, modeVars, settings, shared,
    frameVars
  <1>1. CASE SetPreviewSize
    BY <1>1 DEF SetPreviewSize, ClientIdle
  <1>2. CASE SetPreviewDisplay
    BY <1>2 DEF SetPreviewDisplay, ClientIdle
  <1>3. CASE StartPreview
    BY <1>3 DEF StartPreview, ClientIdle
  <1>4. CASE StopPreview
    BY <1>4 DEF StopPreview, ClientIdle
  <1>5. CASE SetFrameCallback
    BY <1>5 DEF SetFrameCallback, SwapCallback, MustPause, ClientIdle
  <1>6. CASE SetCaptureDisplay
    BY <1>6 DEF SetCaptureDisplay, MustPause, ClientIdle
  <1>7. CASE Destroy
    BY <1>7, MaxFrameAssumption DEF Destroy, ClientIdle
  <1>8. CASE CreatePreviewThread
    BY <1>8 DEF CreatePreviewThread
  <1>9. CASE StartPreviewFails
    BY <1>9 DEF StartPreviewFails
  <1>10. CASE SignalPreview
    BY <1>10 DEF SignalPreview
  <1>11. CASE SignalCapture
    BY <1>11 DEF SignalCapture
  <1>12. CASE JoinCapture
    BY <1>12 DEF JoinCapture
  <1>13. CASE JoinPreview
    BY <1>13 DEF JoinPreview
  <1>14. CASE ClearPreview
    BY <1>14, RecycleType, QueuedFrames, MaxFrameAssumption DEF ClearPreview
  <1>15. CASE ClearCapture
    BY <1>15, RecycleType, SlotsInSlots DEF ClearCapture
  <1>16. CASE SetterWait
    BY <1>16 DEF SetterWait
  <1>17. CASE SwapCallbackAfterWait
    BY <1>17 DEF SwapCallbackAfterWait, SwapCallback
  <1>18. CASE SwapWindowAfterWait
    BY <1>18 DEF SwapWindowAfterWait, SwapWindow
  <1>19. CASE UsbFrame
    BY <1>19, GetFrameType, SlotsInSlots DEF UsbFrame, UsbUsesFrames
  <1>20. CASE UsbDuplicate
    BY <1>20 DEF UsbDuplicate, UsbUsesFrames
  <1>21. CASE UsbDuplicateFails
    BY <1>21, RecycleType, SlotsInSlots DEF UsbDuplicateFails, UsbUsesFrames
  <1>22. CASE AddPreviewFrame
    <2>1. hold[<<"usb", "copy">>] \in Frames
      BY <1>22 DEF AddPreviewFrame
    <2>2. mFramePool' \subseteq Frames
      BY <1>22, <2>1, RecycleType DEF AddPreviewFrame
    <2>3. previewFrames' \in Seq(Frames) /\ Len(previewFrames') <= MaxFrame
      <3>1. CASE UNCHANGED previewFrames
        BY <3>1
      <3>2. CASE /\ Len(previewFrames) < MaxFrame
                 /\ previewFrames' = Append(previewFrames, hold[<<"usb", "copy">>])
        BY <2>1, <3>2, MaxFrameAssumption
      <3> QED BY <1>22, <3>1, <3>2 DEF AddPreviewFrame
    <2>4. hold' \in [Slots -> Frames \cup {NoFrame}]
      BY <1>22 DEF AddPreviewFrame
    <2> QED BY <1>22, <2>2, <2>3, <2>4 DEF AddPreviewFrame
  <1>23. CASE PvNegotiate
    BY <1>23 DEF PvNegotiate
  <1>24. CASE PvPrepare
    BY <1>24 DEF PvPrepare
  <1>25. CASE PvStartStream
    BY <1>25 DEF PvStartStream
  <1>26. CASE PvClearPreviewFrame
    BY <1>26, RecycleType, QueuedFrames, MaxFrameAssumption DEF
      PvClearPreviewFrame
  <1>27. CASE PvCreateCapture
    BY <1>27 DEF PvCreateCapture
  <1>28. CASE PvLoop
    <2>1. CASE TakePreviewFrame /\ previewFrames # <<>>
      BY <1>28, <2>1, TakeHead, SlotsInSlots DEF PvLoop
    <2>2. CASE UNCHANGED <<hold, previewFrames>>
      BY <1>28, <2>2 DEF PvLoop
    <2> QED BY <1>28, <2>1, <2>2 DEF PvLoop
  <1>29. CASE PvWait
    BY <1>29 DEF PvWait
  <1>30. CASE PvWoken
    <2>1. CASE TakePreviewFrame /\ previewFrames # <<>>
      BY <1>30, <2>1, TakeHead, SlotsInSlots DEF PvWoken
    <2>2. CASE UNCHANGED <<hold, previewFrames>>
      BY <1>30, <2>2 DEF PvWoken
    <2> QED BY <1>30, <2>1, <2>2 DEF PvWoken
  <1>31. CASE PvGetYuyv
    BY <1>31, GetFrameType, SlotsInSlots DEF PvGetYuyv, PvUsesFrames
  <1>32. CASE PvDecode
    BY <1>32, RecycleType, SlotsInSlots DEF PvDecode, PvUsesFrames
  <1>33. CASE PvConvert
    BY <1>33, GetFrameType, SlotsInSlots DEF PvConvert, PvUsesFrames
  <1>34. CASE PvCopyToSurface
    BY <1>34, RecycleType, SlotsInSlots DEF PvCopyToSurface, PvUsesFrames
  <1>35. CASE AddCaptureFrame
    BY <1>35, RecycleType, SlotsInSlots DEF AddCaptureFrame
  <1>36. CASE PvSignalCapture
    BY <1>36 DEF PvSignalCapture, SignalCaptureSync
  <1>37. CASE PvStopStream
    BY <1>37 DEF PvStopStream
  <1>38. CASE SpuriousWakeup
    BY <1>38 DEF SpuriousWakeup
  <1>39. ASSUME NEW c \in CaptureThreads, CpInit(c) PROVE FrameTypes'
    BY <1>39, RecycleType, SlotsInSlots DEF CpInit, CpUnchanged
  <1>40. ASSUME NEW c \in CaptureThreads, CpLoop(c) PROVE FrameTypes'
    BY <1>40 DEF CpLoop, CpOnly, CpUnchanged
  <1>41. ASSUME NEW c \in CaptureThreads, CpTest(c) PROVE FrameTypes'
    BY <1>41 DEF CpTest, CpUnchanged, CpOnly
  <1>42. ASSUME NEW c \in CaptureThreads, CpTake(c) PROVE FrameTypes'
    BY <1>42, SlotsInSlots DEF CpTake, CpUnchanged, TakeCaptureFrame,
      NoCaptureFrame
  <1>43. ASSUME NEW c \in CaptureThreads, CpWait(c) PROVE FrameTypes'
    BY <1>43 DEF CpWait, CpUnchanged, CpOnly
  <1>44. ASSUME NEW c \in CaptureThreads, CpWoken(c) PROVE FrameTypes'
    BY <1>44, SlotsInSlots DEF CpWoken, CpUnchanged, TakeCaptureFrame,
      NoCaptureFrame
  <1>45. ASSUME NEW c \in CaptureThreads, CpConvert(c) PROVE FrameTypes'
    BY <1>45, GetFrameType, SlotsInSlots DEF CpConvert, CpUnchanged,
      CpUsesFrames
  <1>46. ASSUME NEW c \in CaptureThreads, CpCopy(c) PROVE FrameTypes'
    BY <1>46 DEF CpCopy, CpUnchanged, CpOnly
  <1>47. ASSUME NEW c \in CaptureThreads, CpCallback(c) PROVE FrameTypes'
    BY <1>47, RecycleType, GetFrameType, SlotsInSlots DEF CpCallback,
      CpUnchanged, CpUsesFrames
  <1>48. ASSUME NEW c \in CaptureThreads, CpConvertCallback(c) PROVE FrameTypes'
    BY <1>48, RecycleType, SlotsInSlots DEF CpConvertCallback, CpUnchanged,
      CpUsesFrames
  <1>49. ASSUME NEW c \in CaptureThreads, CpCall(c) PROVE FrameTypes'
    BY <1>49, RecycleType, SlotsInSlots DEF CpCall, CpUnchanged,
      CpUsesFrames
  <1>50. ASSUME NEW c \in CaptureThreads, CpLeaveSurface(c) PROVE FrameTypes'
    BY <1>50, RecycleType, SlotsInSlots DEF CpLeaveSurface, CpUnchanged,
      CpUsesFrames
  <1>51. ASSUME NEW c \in CaptureThreads, CpReleaseWindow(c) PROVE FrameTypes'
    BY <1>51 DEF CpReleaseWindow, CpUnchanged
  <1>52. ASSUME NEW c \in CaptureThreads, CpForgetWindow(c) PROVE FrameTypes'
    BY <1>52 DEF CpForgetWindow, CpUnchanged
  <1>53. ASSUME NEW c \in CaptureThreads, CpBroadcast(c) PROVE FrameTypes'
    BY <1>53 DEF CpBroadcast, CpUnchanged
  <1>54. CASE UNCHANGED vars
    BY <1>54 DEF vars
  <1>55. CASE ReleasePreviewWindow
    BY <1>55 DEF ReleasePreviewWindow
  <1>56. CASE ReleaseCaptureWindow
    BY <1>56 DEF ReleaseCaptureWindow
  <1>57. ASSUME NEW c \in CaptureThreads, CpCapture(c) PROVE FrameTypes'
    BY <1>57 DEF CpCapture, CpUnchanged
  <1>58. ASSUME NEW c \in CaptureThreads, CpChoose(c) PROVE FrameTypes'
    BY <1>58 DEF CpChoose, CpUnchanged
  <1> QED BY <1>1, <1>2, <1>3, <1>4, <1>5, <1>6, <1>7, <1>8, <1>9, <1>10,
    <1>11, <1>12, <1>13, <1>14, <1>15, <1>16, <1>17, <1>18, <1>19, <1>20,
    <1>21, <1>22, <1>23, <1>24, <1>25, <1>26, <1>27, <1>28, <1>29, <1>30,
    <1>31, <1>32, <1>33, <1>34, <1>35, <1>36, <1>37, <1>38, <1>39, <1>40,
    <1>41, <1>42, <1>43, <1>44, <1>45, <1>46, <1>47, <1>48, <1>49, <1>50,
    <1>51, <1>52, <1>53, <1>54, <1>55, <1>56, <1>57, <1>58
    DEF Next, ClientCall, ClientContinue,
    UsbNext, PvNext, CpNext

(* Between two steps a thread keeps the frame its next step works on.       *)
LEMMA HoldInvStep == TypeOK /\ HoldInv /\ [Next]_vars => HoldInv'
  <1> SUFFICES ASSUME TypeOK, HoldInv, [Next]_vars PROVE HoldInv'
    OBVIOUS
  <1> USE DEF TypeOK, FrameTypes, HoldInv, clientVars, captureVars, threads,
    runVars, queues, windowVars, callbackVars, modeVars, settings, shared,
    frameVars
  <1>1. CASE SetPreviewSize
    BY <1>1 DEF SetPreviewSize, ClientIdle
  <1>2. CASE SetPreviewDisplay
    BY <1>2 DEF SetPreviewDisplay, ClientIdle
  <1>3. CASE StartPreview
    BY <1>3 DEF StartPreview, ClientIdle
  <1>4. CASE StopPreview
    BY <1>4 DEF StopPreview, ClientIdle
  <1>5. CASE SetFrameCallback
    BY <1>5 DEF SetFrameCallback, SwapCallback, MustPause, ClientIdle
  <1>6. CASE SetCaptureDisplay
    BY <1>6 DEF SetCaptureDisplay, MustPause, ClientIdle
  <1>7. CASE Destroy
    BY <1>7 DEF Destroy, ClientIdle
  <1>8. CASE CreatePreviewThread
    BY <1>8 DEF CreatePreviewThread
  <1>9. CASE StartPreviewFails
    BY <1>9 DEF StartPreviewFails
  <1>10. CASE SignalPreview
    BY <1>10 DEF SignalPreview
  <1>11. CASE SignalCapture
    BY <1>11 DEF SignalCapture
  <1>12. CASE JoinCapture
    BY <1>12 DEF JoinCapture
  <1>13. CASE JoinPreview
    BY <1>13 DEF JoinPreview
  <1>14. CASE ClearPreview
    BY <1>14 DEF ClearPreview
  <1>15. CASE ClearCapture
    BY <1>15 DEF ClearCapture
  <1>16. CASE SetterWait
    BY <1>16 DEF SetterWait
  <1>17. CASE SwapCallbackAfterWait
    BY <1>17 DEF SwapCallbackAfterWait, SwapCallback
  <1>18. CASE SwapWindowAfterWait
    BY <1>18 DEF SwapWindowAfterWait, SwapWindow
  <1>19. CASE UsbFrame
    BY <1>19, GetFrameType, SlotsInSlots DEF UsbFrame, UsbUsesFrames
  <1>20. CASE UsbDuplicate
    BY <1>20 DEF UsbDuplicate, UsbUsesFrames
  <1>21. CASE UsbDuplicateFails
    BY <1>21 DEF UsbDuplicateFails, UsbUsesFrames
  <1>22. CASE AddPreviewFrame
    BY <1>22 DEF AddPreviewFrame
  <1>23. CASE PvNegotiate
    BY <1>23 DEF PvNegotiate
  <1>24. CASE PvPrepare
    BY <1>24 DEF PvPrepare
  <1>25. CASE PvStartStream
    BY <1>25 DEF PvStartStream
  <1>26. CASE PvClearPreviewFrame
    BY <1>26 DEF PvClearPreviewFrame
  <1>27. CASE PvCreateCapture
    BY <1>27 DEF PvCreateCapture
  <1>28. CASE PvLoop
    <2>1. CASE TakePreviewFrame /\ previewFrames # <<>>
      BY <1>28, <2>1, TakeHead, SlotsInSlots DEF PvLoop, TakePreviewFrame, PvSlot
    <2>2. CASE UNCHANGED <<hold, previewFrames>> /\ pv' \in {"loop", "enterWait", "signal"}
      BY <1>28, <2>2 DEF PvLoop
    <2> QED BY <1>28, <2>1, <2>2 DEF PvLoop
  <1>29. CASE PvWait
    BY <1>29 DEF PvWait
  <1>30. CASE PvWoken
    <2>1. CASE TakePreviewFrame /\ previewFrames # <<>>
      BY <1>30, <2>1, TakeHead, SlotsInSlots DEF PvWoken, TakePreviewFrame, PvSlot
    <2>2. CASE UNCHANGED <<hold, previewFrames>> /\ pv' \in {"loop", "enterWait", "signal"}
      BY <1>30, <2>2 DEF PvWoken
    <2> QED BY <1>30, <2>1, <2>2 DEF PvWoken
  <1>31. CASE PvGetYuyv
    BY <1>31, GetFrameType, SlotsInSlots DEF PvGetYuyv, PvUsesFrames
  <1>32. CASE PvDecode
    <2>1. CASE /\ hold[<<"pv", "frame">>] # NoFrame
                /\ hold' = [hold EXCEPT ![<<"pv", "frame_mjpeg">>] = NoFrame]
      BY <1>32, <2>1, SlotsInSlots DEF PvDecode, PvUsesFrames
    <2>2. CASE /\ pv' \in {"loop", "crashed"}
               /\ hold'[<<"usb", "copy">>] = hold[<<"usb", "copy">>]
      BY <1>32, <2>2 DEF PvDecode, PvUsesFrames
    <2> QED BY <1>32, <2>1, <2>2, SlotsInSlots DEF PvDecode
  <1>33. CASE PvConvert
    BY <1>33, SlotsInSlots DEF PvConvert, PvUsesFrames
  <1>34. CASE PvCopyToSurface
    BY <1>34 DEF PvCopyToSurface, PvUsesFrames
  <1>35. CASE AddCaptureFrame
    BY <1>35 DEF AddCaptureFrame
  <1>36. CASE PvSignalCapture
    BY <1>36 DEF PvSignalCapture, SignalCaptureSync
  <1>37. CASE PvStopStream
    BY <1>37 DEF PvStopStream
  <1>38. CASE SpuriousWakeup
    BY <1>38 DEF SpuriousWakeup
  <1>39. ASSUME NEW c \in CaptureThreads, CpInit(c) PROVE HoldInv'
    BY <1>39 DEF CpInit, CpUnchanged
  <1>40. ASSUME NEW c \in CaptureThreads, CpLoop(c) PROVE HoldInv'
    BY <1>40 DEF CpLoop, CpOnly, CpUnchanged
  <1>41. ASSUME NEW c \in CaptureThreads, CpTest(c) PROVE HoldInv'
    BY <1>41 DEF CpTest, CpUnchanged, CpOnly
  <1>42. ASSUME NEW c \in CaptureThreads, CpTake(c) PROVE HoldInv'
    BY <1>42, SlotsInSlots, ThreadAssumption DEF CpTake, CpUnchanged,
      TakeCaptureFrame, NoCaptureFrame
  <1>43. ASSUME NEW c \in CaptureThreads, CpWait(c) PROVE HoldInv'
    BY <1>43 DEF CpWait, CpUnchanged, CpOnly
  <1>44. ASSUME NEW c \in CaptureThreads, CpWoken(c) PROVE HoldInv'
    BY <1>44, SlotsInSlots, ThreadAssumption DEF CpWoken, CpUnchanged,
      TakeCaptureFrame, NoCaptureFrame
  <1>45. ASSUME NEW c \in CaptureThreads, CpConvert(c) PROVE HoldInv'
    BY <1>45, SlotsInSlots, ThreadAssumption DEF CpConvert, CpUnchanged,
      CpUsesFrames
  <1>46. ASSUME NEW c \in CaptureThreads, CpCopy(c) PROVE HoldInv'
    BY <1>46 DEF CpCopy, CpUnchanged, CpOnly
  <1>47. ASSUME NEW c \in CaptureThreads, CpCallback(c) PROVE HoldInv'
    BY <1>47, SlotsInSlots, ThreadAssumption DEF CpCallback, CpUnchanged,
      CpUsesFrames
  <1>48. ASSUME NEW c \in CaptureThreads, CpConvertCallback(c) PROVE HoldInv'
    BY <1>48, SlotsInSlots, ThreadAssumption DEF CpConvertCallback,
      CpUnchanged, CpUsesFrames
  <1>49. ASSUME NEW c \in CaptureThreads, CpCall(c) PROVE HoldInv'
    BY <1>49, SlotsInSlots, ThreadAssumption DEF CpCall, CpUnchanged,
      CpUsesFrames
  <1>50. ASSUME NEW c \in CaptureThreads, CpLeaveSurface(c) PROVE HoldInv'
    BY <1>50, SlotsInSlots, ThreadAssumption DEF CpLeaveSurface,
      CpUnchanged, CpUsesFrames
  <1>51. ASSUME NEW c \in CaptureThreads, CpReleaseWindow(c) PROVE HoldInv'
    BY <1>51 DEF CpReleaseWindow, CpUnchanged
  <1>52. ASSUME NEW c \in CaptureThreads, CpForgetWindow(c) PROVE HoldInv'
    BY <1>52 DEF CpForgetWindow, CpUnchanged
  <1>53. ASSUME NEW c \in CaptureThreads, CpBroadcast(c) PROVE HoldInv'
    BY <1>53 DEF CpBroadcast, CpUnchanged
  <1>54. CASE UNCHANGED vars
    BY <1>54 DEF vars
  <1>55. CASE ReleasePreviewWindow
    BY <1>55 DEF ReleasePreviewWindow
  <1>56. CASE ReleaseCaptureWindow
    BY <1>56 DEF ReleaseCaptureWindow
  <1>57. ASSUME NEW c \in CaptureThreads, CpCapture(c) PROVE HoldInv'
    BY <1>57 DEF CpCapture, CpUnchanged
  <1>58. ASSUME NEW c \in CaptureThreads, CpChoose(c) PROVE HoldInv'
    BY <1>58 DEF CpChoose, CpUnchanged
  <1> QED BY <1>1, <1>2, <1>3, <1>4, <1>5, <1>6, <1>7, <1>8, <1>9, <1>10,
    <1>11, <1>12, <1>13, <1>14, <1>15, <1>16, <1>17, <1>18, <1>19, <1>20,
    <1>21, <1>22, <1>23, <1>24, <1>25, <1>26, <1>27, <1>28, <1>29, <1>30,
    <1>31, <1>32, <1>33, <1>34, <1>35, <1>36, <1>37, <1>38, <1>39, <1>40,
    <1>41, <1>42, <1>43, <1>44, <1>45, <1>46, <1>47, <1>48, <1>49, <1>50,
    <1>51, <1>52, <1>53, <1>54, <1>55, <1>56, <1>57, <1>58
    DEF Next, ClientCall, ClientContinue,
    UsbNext, PvNext, CpNext

(* A frame that comes out of get_frame belongs to nobody else.             *)
LEMMA TakeFrame ==
    ASSUME FrameTypes, FrameOwnership, NEW s \in Slots, NEW f, GetFrame(f),
           hold' = [hold EXCEPT ![s] = f], UNCHANGED queues
    PROVE  FrameOwnership'
  <1>1. \/ f \in mFramePool /\ mFramePool' = mFramePool \ {f}
        \/ f \in Frames \ InUse /\ UNCHANGED mFramePool
        \/ f = NoFrame /\ UNCHANGED mFramePool
    BY DEF GetFrame
  <1>2. /\ \A i \in DOMAIN previewFrames : previewFrames[i] # f
        /\ \A t \in Slots : hold[t] = f => f = NoFrame
        /\ f = captureQueu => f = NoFrame
        /\ f \notin leaked /\ f \notin mFramePool'
    BY <1>1, FrameAssumption DEF InUse, FrameTypes, FrameOwnership, Range
  <1>3. mFramePool' \subseteq mFramePool
    BY <1>1
  <1>4. \A t \in Slots : hold'[t] = IF t = s THEN f ELSE hold[t]
    BY DEF FrameTypes
  <1>5. /\ \A i \in DOMAIN previewFrames, t \in Slots : previewFrames[i] # hold'[t]
        /\ \A t, u \in Slots : hold'[t] = hold'[u] /\ hold'[t] # NoFrame => t = u
    BY <1>2, <1>4 DEF FrameOwnership
  <1>6. \A t \in Slots : /\ hold'[t] = captureQueu => captureQueu = NoFrame
                         /\ hold'[t] \notin mFramePool' \cup leaked
    BY <1>2, <1>3, <1>4 DEF FrameOwnership
  <1> QED BY <1>3, <1>5, <1>6 DEF FrameOwnership, queues

(* Slots that give their frames to recycle_frame keep none of them.        *)
LEMMA GiveFrames ==
    ASSUME FrameTypes, FrameOwnership, NEW S \in SUBSET Slots,
           Recycle({hold[s] : s \in S}), UNCHANGED queues,
           hold' \in [Slots -> Frames \cup {NoFrame}],
           \A t \in Slots : hold'[t] = IF t \in S THEN NoFrame ELSE hold[t]
    PROVE  FrameOwnership'
  <1>1. PICK K \in SUBSET ({hold[s] : s \in S} \ {NoFrame}) :
               mFramePool' = mFramePool \cup K
    BY RecyclePool
  <1>2. \A f \in K : f # NoFrame /\ \E s \in S : hold[s] = f
    OBVIOUS
  <1>3. /\ \A f \in K, i \in DOMAIN previewFrames : previewFrames[i] # f
        /\ \A f \in K : f # captureQueu /\ f \notin leaked
        /\ \A f \in K, t \in Slots : hold'[t] # f
    BY <1>2 DEF FrameOwnership
  <1>4. NoFrame \notin mFramePool \cup leaked /\ \A i \in DOMAIN previewFrames : previewFrames[i] # NoFrame
    BY FrameAssumption DEF FrameTypes
  <1>5. \A t \in Slots : hold'[t] \in {hold[t], NoFrame}
    OBVIOUS
  <1>6. \A t \in Slots : hold'[t] \notin mFramePool' \cup leaked
    BY <1>1, <1>2, <1>3, <1>4, <1>5 DEF FrameOwnership
  <1>7. /\ \A i \in DOMAIN previewFrames, t \in Slots : previewFrames[i] # hold'[t]
        /\ \A t, u \in Slots : hold'[t] = hold'[u] /\ hold'[t] # NoFrame => t = u
        /\ \A t \in Slots : hold'[t] = captureQueu => captureQueu = NoFrame
    BY <1>4, <1>5 DEF FrameOwnership
  <1>8. /\ \A i \in DOMAIN previewFrames : previewFrames[i] \notin mFramePool' \cup leaked
        /\ captureQueu \notin mFramePool' \cup leaked
        /\ mFramePool' \cap leaked = {}
    BY <1>1, <1>3 DEF FrameOwnership
  <1> QED BY <1>6, <1>7, <1>8 DEF FrameOwnership, queues

(* A thread that recycles the frame of one of its local variables ...      *)
LEMMA GiveOne ==
    ASSUME FrameTypes, FrameOwnership, NEW s \in Slots, Recycle({hold[s]}),
           hold' = [hold EXCEPT ![s] = NoFrame], UNCHANGED queues
    PROVE  FrameOwnership'
  <1>1. {hold[t] : t \in {s}} = {hold[s]}
    OBVIOUS
  <1>2. hold' \in [Slots -> Frames \cup {NoFrame}]
    BY DEF FrameTypes
  <1>3. \A t \in Slots : hold'[t] = IF t \in {s} THEN NoFrame ELSE hold[t]
    BY DEF FrameTypes
  <1>4. Recycle({hold[t] : t \in {s}})
    BY <1>1
  <1> QED BY <1>2, <1>3, <1>4, GiveFrames

(* ... or those of two of them, as the capture thread does.                *)
LEMMA GiveTwo ==
    ASSUME FrameTypes, FrameOwnership, NEW s \in Slots, NEW t \in Slots,
           Recycle({hold[s], hold[t]}), UNCHANGED queues,
           hold' = [hold EXCEPT ![s] = NoFrame, ![t] = NoFrame]
    PROVE  FrameOwnership'
  <1>1. {hold[u] : u \in {s, t}} = {hold[s], hold[t]}
    OBVIOUS
  <1>2. hold' \in [Slots -> Frames \cup {NoFrame}]
    BY DEF FrameTypes
  <1>3. \A u \in Slots : hold'[u] = IF u \in {s, t} THEN NoFrame ELSE hold[u]
    BY DEF FrameTypes
  <1>4. Recycle({hold[u] : u \in {s, t}})
    BY <1>1
  <1> QED BY <1>2, <1>3, <1>4, GiveFrames

(* A frame may move from a slot to the end of previewFrames ...            *)
LEMMA EnqueueFrame ==
    ASSUME FrameTypes, FrameOwnership, NEW s \in Slots, hold[s] \in Frames,
           previewFrames' = Append(previewFrames, hold[s]),
           hold' = [hold EXCEPT ![s] = NoFrame],
           UNCHANGED <<captureQueu, mFramePool, leaked>>
    PROVE  FrameOwnership'
  <1> DEFINE n == Len(previewFrames)
  <1>1. /\ DOMAIN previewFrames = 1..n /\ DOMAIN previewFrames' = 1..(n + 1)
        /\ n \in Nat
        /\ \A i \in 1..n : previewFrames'[i] = previewFrames[i]
        /\ previewFrames'[n + 1] = hold[s]
    BY DEF FrameTypes
  <1> HIDE DEF n
  <1>2. \A i \in DOMAIN previewFrames' :
           \/ i \in DOMAIN previewFrames /\ previewFrames'[i] = previewFrames[i]
           \/ i = n + 1 /\ previewFrames'[i] = hold[s]
    BY <1>1
  <1>3. \A t \in Slots : hold'[t] = IF t = s THEN NoFrame ELSE hold[t]
    BY DEF FrameTypes
  <1>4. /\ NoFrame \notin Frames /\ NoFrame \notin mFramePool \cup leaked
        /\ \A i \in DOMAIN previewFrames : previewFrames[i] # NoFrame
    BY FrameAssumption DEF FrameTypes
  <1>5. \A i, j \in DOMAIN previewFrames' : previewFrames'[i] = previewFrames'[j] => i = j
    BY <1>2 DEF FrameOwnership
  <1>6. \A i \in DOMAIN previewFrames', t \in Slots : previewFrames'[i] # hold'[t]
    BY <1>2, <1>3, <1>4 DEF FrameOwnership
  <1>7. \A i \in DOMAIN previewFrames' :
          /\ previewFrames'[i] # captureQueu
          /\ previewFrames'[i] \notin mFramePool \cup leaked
    BY <1>2, <1>4 DEF FrameOwnership
  <1>8. \A t, u \in Slots : hold'[t] = hold'[u] /\ hold'[t] # NoFrame => t = u
    BY <1>3 DEF FrameOwnership
  <1>9. \A t \in Slots : /\ hold'[t] = captureQueu => captureQueu = NoFrame
                         /\ hold'[t] \notin mFramePool \cup leaked
    BY <1>3, <1>4 DEF FrameOwnership
  <1> QED BY <1>5, <1>6, <1>7, <1>8, <1>9 DEF FrameOwnership

(* ... and from its head to a slot.                                        *)
LEMMA DequeueFrame ==
    ASSUME FrameTypes, FrameOwnership, previewFrames # <<>>, TakePreviewFrame,
           UNCHANGED <<captureQueu, mFramePool, leaked>>
    PROVE  FrameOwnership'
  <1> DEFINE n == Len(previewFrames)
  <1>1. /\ DOMAIN previewFrames = 1..n /\ n \in Nat \ {0}
        /\ Head(previewFrames) = previewFrames[1]
        /\ Len(Tail(previewFrames)) = n - 1
        /\ DOMAIN Tail(previewFrames) = 1..(n - 1)
        /\ \A i \in 1..(n - 1) : Tail(previewFrames)[i] = previewFrames[i + 1]
    BY DEF FrameTypes
  <1>2. /\ 1 \in DOMAIN previewFrames
        /\ \A i \in DOMAIN previewFrames' :
             /\ i + 1 \in DOMAIN previewFrames /\ i + 1 # 1
             /\ previewFrames'[i] = previewFrames[i + 1]
    BY <1>1 DEF TakePreviewFrame
  <1>3. \A i, j \in DOMAIN previewFrames' : previewFrames'[i] = previewFrames'[j] => i = j
    <2> SUFFICES ASSUME NEW i \in DOMAIN previewFrames', NEW j \in DOMAIN previewFrames',
                        previewFrames'[i] = previewFrames'[j]
                 PROVE  i = j
      OBVIOUS
    <2>1. i + 1 = j + 1
      BY <1>2 DEF FrameOwnership
    <2>2. i \in Int /\ j \in Int
      BY <1>1 DEF TakePreviewFrame
    <2> QED BY <2>1, <2>2
  <1> HIDE DEF n
  <1>4. \A t \in Slots : hold'[t] = IF t = PvSlot THEN previewFrames[1] ELSE hold[t]
    BY <1>1 DEF FrameTypes, TakePreviewFrame
  <1>5. \A i \in DOMAIN previewFrames' :
          /\ previewFrames'[i] # previewFrames[1]
          /\ \A t \in Slots : previewFrames'[i] # hold'[t]
          /\ previewFrames'[i] # captureQueu
          /\ previewFrames'[i] \notin mFramePool \cup leaked
    BY <1>2, <1>4 DEF FrameOwnership
  <1>6. \A t, u \in Slots : hold'[t] = hold'[u] /\ hold'[t] # NoFrame => t = u
    BY <1>2, <1>4 DEF FrameOwnership
  <1>7. \A t \in Slots : /\ hold'[t] = captureQueu => captureQueu = NoFrame
                         /\ hold'[t] \notin mFramePool \cup leaked
    BY <1>2, <1>4 DEF FrameOwnership
  <1> QED BY <1>3, <1>5, <1>6, <1>7 DEF FrameOwnership

(* clearPreviewFrame gives the whole queue to recycle_frame.               *)
LEMMA ClearQueue ==
    ASSUME FrameTypes, FrameOwnership, Recycle(Range(previewFrames)),
           previewFrames' = <<>>, UNCHANGED <<captureQueu, hold, leaked>>
    PROVE  FrameOwnership'
  <1>1. PICK K \in SUBSET (Range(previewFrames) \ {NoFrame}) :
               mFramePool' = mFramePool \cup K
    BY RecyclePool
  <1>2. \A f \in K : \E i \in DOMAIN previewFrames : f = previewFrames[i]
    BY DEF Range
  <1>3. DOMAIN previewFrames' = {}
    OBVIOUS
  <1>4. /\ \A s \in Slots : hold[s] \notin K
        /\ captureQueu \notin K /\ K \cap leaked = {}
    BY <1>2 DEF FrameOwnership
  <1> QED BY <1>1, <1>3, <1>4 DEF FrameOwnership

(* clearCaptureFrame, and addCaptureFrame on the frame it replaces.        *)
LEMMA RecycleCaptureQueue ==
    ASSUME FrameTypes, FrameOwnership, Recycle({captureQueu})
    PROVE  /\ \A i \in DOMAIN previewFrames : previewFrames[i] \notin mFramePool'
           /\ \A s \in Slots : hold[s] \notin mFramePool'
           /\ mFramePool' \cap leaked = {} /\ NoFrame \notin mFramePool'
  <1>1. PICK K \in SUBSET ({captureQueu} \ {NoFrame}) :
               mFramePool' = mFramePool \cup K
    BY RecyclePool
  <1>2. \A f \in K : f = captureQueu /\ f # NoFrame
    OBVIOUS
  <1> QED BY <1>1, <1>2, FrameAssumption DEF FrameOwnership, FrameTypes

(* clearCaptureFrame empties captureQueu.                                  *)
LEMMA ClearCaptureQueue ==
    ASSUME FrameTypes, FrameOwnership, Recycle({captureQueu}),
           captureQueu' = NoFrame, UNCHANGED <<previewFrames, hold, leaked>>
    PROVE  FrameOwnership'
  <1>1. NoFrame \notin leaked /\ \A i \in DOMAIN previewFrames : previewFrames[i] # NoFrame
    BY FrameAssumption DEF FrameTypes
  <1> QED BY <1>1, RecycleCaptureQueue DEF FrameOwnership

(* addCaptureFrame moves a frame from a slot to captureQueu.               *)
LEMMA EnqueueCapture ==
    ASSUME FrameTypes, FrameOwnership, NEW s \in Slots, hold[s] \in Frames,
           Recycle({captureQueu}), captureQueu' = hold[s],
           hold' = [hold EXCEPT ![s] = NoFrame],
           UNCHANGED <<previewFrames, leaked>>
    PROVE  FrameOwnership'
  <1>1. NoFrame \notin leaked /\ \A i \in DOMAIN previewFrames : previewFrames[i] # NoFrame
    BY FrameAssumption DEF FrameTypes
  <1>2. \A t \in Slots : hold'[t] = IF t = s THEN NoFrame ELSE hold[t]
    BY DEF FrameTypes
  <1>3. hold[s] # NoFrame
    BY FrameAssumption
  <1>4. \A t \in Slots : /\ hold'[t] = captureQueu' => captureQueu' = NoFrame
                         /\ hold'[t] \notin mFramePool' \cup leaked
    BY <1>1, <1>2, <1>3, RecycleCaptureQueue DEF FrameOwnership
  <1>5. \A i \in DOMAIN previewFrames, t \in Slots : previewFrames[i] # hold'[t]
    BY <1>1, <1>2 DEF FrameOwnership
  <1>6. \A t, u \in Slots : hold'[t] = hold'[u] /\ hold'[t] # NoFrame => t = u
    BY <1>2 DEF FrameOwnership
  <1>7. \A i \in DOMAIN previewFrames :
          /\ previewFrames[i] # captureQueu'
          /\ previewFrames[i] \notin mFramePool' \cup leaked
    BY RecycleCaptureQueue DEF FrameOwnership
  <1> QED BY <1>4, <1>5, <1>6, <1>7, RecycleCaptureQueue DEF FrameOwnership

(* waitCaptureFrame moves captureQueu to a slot.                           *)
LEMMA DequeueCapture ==
    ASSUME FrameTypes, FrameOwnership, NEW c \in CaptureThreads,
           TakeCaptureFrame(c), UNCHANGED <<previewFrames, mFramePool, leaked>>
    PROVE  FrameOwnership'
  <1>1. /\ NoFrame \notin leaked \cup mFramePool
        /\ \A i \in DOMAIN previewFrames : previewFrames[i] # NoFrame
    BY FrameAssumption DEF FrameTypes
  <1>2. \A t \in Slots : hold'[t] = IF t = <<c, "frame">> THEN captureQueu ELSE hold[t]
    BY SlotsInSlots DEF FrameTypes, TakeCaptureFrame
  <1>3. captureQueu' = NoFrame
    BY DEF TakeCaptureFrame
  <1>4. \A t, u \in Slots : hold'[t] = hold'[u] /\ hold'[t] # NoFrame => t = u
    BY <1>2 DEF FrameOwnership
  <1>5. \A i \in DOMAIN previewFrames, t \in Slots : previewFrames[i] # hold'[t]
    BY <1>2 DEF FrameOwnership
  <1>6. \A t \in Slots : hold'[t] \notin mFramePool \cup leaked
    BY <1>2 DEF FrameOwnership
  <1> QED BY <1>1, <1>3, <1>4, <1>5, <1>6 DEF FrameOwnership

(* addCaptureFrame after the stop: the frame leaves its slot for nowhere.  *)
LEMMA LeakFrame ==
    ASSUME FrameTypes, FrameOwnership, NEW s \in Slots, hold[s] \in Frames,
           leaked' = leaked \cup {hold[s]},
           hold' = [hold EXCEPT ![s] = NoFrame],
           UNCHANGED <<previewFrames, captureQueu, mFramePool>>
    PROVE  FrameOwnership'
  <1>1. /\ NoFrame \notin leaked' \cup mFramePool
        /\ \A i \in DOMAIN previewFrames : previewFrames[i] # NoFrame
    BY FrameAssumption DEF FrameTypes
  <1>2. \A t \in Slots : hold'[t] = IF t = s THEN NoFrame ELSE hold[t]
    BY DEF FrameTypes
  <1>3. \A t \in Slots : /\ hold'[t] = captureQueu => captureQueu = NoFrame
                         /\ hold'[t] \notin mFramePool \cup leaked'
    BY <1>1, <1>2, FrameAssumption DEF FrameOwnership
  <1>4. \A t, u \in Slots : hold'[t] = hold'[u] /\ hold'[t] # NoFrame => t = u
    BY <1>2 DEF FrameOwnership
  <1>5. \A i \in DOMAIN previewFrames, t \in Slots : previewFrames[i] # hold'[t]
    BY <1>1, <1>2 DEF FrameOwnership
  <1>6. /\ captureQueu \notin leaked' /\ mFramePool \cap leaked' = {}
        /\ \A i \in DOMAIN previewFrames : previewFrames[i] \notin leaked'
    BY FrameAssumption DEF FrameOwnership
  <1> QED BY <1>3, <1>4, <1>5, <1>6 DEF FrameOwnership

(* Every action keeps one owner per frame.                                  *)
LEMMA FrameOwnershipStep == TypeOK /\ HoldInv /\ FrameOwnership /\ [Next]_vars => FrameOwnership'
  <1> SUFFICES ASSUME TypeOK, HoldInv, FrameOwnership, [Next]_vars PROVE FrameOwnership'
    OBVIOUS
  <1> USE DEF TypeOK, clientVars, captureVars, threads, runVars, queues,
    windowVars, callbackVars, modeVars, settings, shared, frameVars
  <1>1. CASE SetPreviewSize
    BY <1>1 DEF SetPreviewSize, ClientIdle, FrameOwnership
  <1>2. CASE SetPreviewDisplay
    BY <1>2 DEF SetPreviewDisplay, ClientIdle, FrameOwnership
  <1>3. CASE StartPreview
    BY <1>3 DEF StartPreview, ClientIdle, FrameOwnership
  <1>4. CASE StopPreview
    BY <1>4 DEF StopPreview, ClientIdle, FrameOwnership
  <1>5. CASE SetFrameCallback
    BY <1>5 DEF SetFrameCallback, SwapCallback, MustPause, ClientIdle,
      FrameOwnership
  <1>6. CASE SetCaptureDisplay
    BY <1>6 DEF SetCaptureDisplay, MustPause, ClientIdle, FrameOwnership
  <1>7. CASE Destroy
    <2>1. DOMAIN previewFrames' = {}
      BY <1>7 DEF Destroy
    <2>2. NoFrame \notin leaked
      BY FrameAssumption DEF FrameTypes
    <2> QED BY <1>7, <2>1, <2>2 DEF Destroy, FrameOwnership
  <1>8. CASE CreatePreviewThread
    BY <1>8 DEF CreatePreviewThread, FrameOwnership
  <1>9. CASE StartPreviewFails
    BY <1>9 DEF StartPreviewFails, FrameOwnership
  <1>10. CASE SignalPreview
    BY <1>10 DEF SignalPreview, FrameOwnership
  <1>11. CASE SignalCapture
    BY <1>11 DEF SignalCapture, FrameOwnership
  <1>12. CASE JoinCapture
    BY <1>12 DEF JoinCapture, FrameOwnership
  <1>13. CASE JoinPreview
    BY <1>13 DEF JoinPreview, FrameOwnership
  <1>14. CASE ClearPreview
    BY <1>14, ClearQueue DEF ClearPreview
  <1>15. CASE ClearCapture
    BY <1>15, ClearCaptureQueue DEF ClearCapture
  <1>16. CASE SetterWait
    BY <1>16 DEF SetterWait, FrameOwnership
  <1>17. CASE SwapCallbackAfterWait
    BY <1>17 DEF SwapCallbackAfterWait, SwapCallback, FrameOwnership
  <1>18. CASE SwapWindowAfterWait
    BY <1>18 DEF SwapWindowAfterWait, SwapWindow, FrameOwnership
  <1>19. CASE UsbFrame
    BY <1>19, TakeFrame, SlotsInSlots DEF UsbFrame, UsbUsesFrames
  <1>20. CASE UsbDuplicate
    BY <1>20 DEF UsbDuplicate, UsbUsesFrames, FrameOwnership
  <1>21. CASE UsbDuplicateFails
    BY <1>21, GiveOne, SlotsInSlots DEF UsbDuplicateFails, UsbUsesFrames
  <1>22. CASE AddPreviewFrame
    <2>1. hold[<<"usb", "copy">>] \in Frames
      BY <1>22 DEF AddPreviewFrame, HoldInv
    <2>2. CASE mIsRunning /\ Len(previewFrames) < MaxFrame
      BY <1>22, <2>1, <2>2, EnqueueFrame, SlotsInSlots DEF AddPreviewFrame
    <2>3. CASE ~(mIsRunning /\ Len(previewFrames) < MaxFrame)
      BY <1>22, <2>3, GiveOne, SlotsInSlots DEF AddPreviewFrame
    <2> QED BY <2>2, <2>3
  <1>23. CASE PvNegotiate
    BY <1>23 DEF PvNegotiate, FrameOwnership
  <1>24. CASE PvPrepare
    BY <1>24 DEF PvPrepare, FrameOwnership
  <1>25. CASE PvStartStream
    BY <1>25 DEF PvStartStream, FrameOwnership
  <1>26. CASE PvClearPreviewFrame
    BY <1>26, ClearQueue DEF PvClearPreviewFrame
  <1>27. CASE PvCreateCapture
    BY <1>27 DEF PvCreateCapture, FrameOwnership
  <1>28. CASE PvLoop
    <2>1. CASE TakePreviewFrame /\ previewFrames # <<>>
      BY <1>28, <2>1, DequeueFrame DEF PvLoop
    <2>2. CASE UNCHANGED <<hold, previewFrames>>
      BY <1>28, <2>2 DEF PvLoop, FrameOwnership
    <2> QED BY <1>28, <2>1, <2>2 DEF PvLoop
  <1>29. CASE PvWait
    BY <1>29 DEF PvWait, FrameOwnership
  <1>30. CASE PvWoken
    <2>1. CASE TakePreviewFrame /\ previewFrames # <<>>
      BY <1>30, <2>1, DequeueFrame DEF PvWoken
    <2>2. CASE UNCHANGED <<hold, previewFrames>>
      BY <1>30, <2>2 DEF PvWoken, FrameOwnership
    <2> QED BY <1>30, <2>1, <2>2 DEF PvWoken
  <1>31. CASE PvGetYuyv
    BY <1>31, TakeFrame, SlotsInSlots DEF PvGetYuyv, PvUsesFrames
  <1>32. CASE PvDecode
    BY <1>32, GiveOne, GiveTwo, SlotsInSlots DEF PvDecode, PvUsesFrames,
      FrameOwnership
  <1>33. CASE PvConvert
    BY <1>33, TakeFrame, SlotsInSlots DEF PvConvert, PvUsesFrames,
      FrameOwnership
  <1>34. CASE PvCopyToSurface
    BY <1>34, GiveOne, SlotsInSlots DEF PvCopyToSurface, PvUsesFrames
  <1>35. CASE AddCaptureFrame
    <2>1. hold[<<"pv", "frame">>] \in Frames
      BY <1>35 DEF AddCaptureFrame, HoldInv
    <2>2. CASE mIsRunning
      BY <1>35, <2>1, <2>2, EnqueueCapture, SlotsInSlots DEF AddCaptureFrame
    <2>3. CASE ~mIsRunning
      BY <1>35, <2>1, <2>3, LeakFrame, SlotsInSlots DEF AddCaptureFrame
    <2> QED BY <2>2, <2>3
  <1>36. CASE PvSignalCapture
    BY <1>36 DEF PvSignalCapture, SignalCaptureSync, FrameOwnership
  <1>37. CASE PvStopStream
    BY <1>37 DEF PvStopStream, FrameOwnership
  <1>38. CASE SpuriousWakeup
    BY <1>38 DEF SpuriousWakeup, FrameOwnership
  <1>39. ASSUME NEW c \in CaptureThreads, CpInit(c) PROVE FrameOwnership'
    BY <1>39, ClearCaptureQueue DEF CpInit, CpUnchanged
  <1>40. ASSUME NEW c \in CaptureThreads, CpLoop(c) PROVE FrameOwnership'
    BY <1>40 DEF CpLoop, CpOnly, CpUnchanged, FrameOwnership
  <1>41. ASSUME NEW c \in CaptureThreads, CpTest(c) PROVE FrameOwnership'
    BY <1>41 DEF CpTest, CpUnchanged, CpOnly, FrameOwnership
  <1>42. ASSUME NEW c \in CaptureThreads, CpTake(c) PROVE FrameOwnership'
    <2>1. CASE TakeCaptureFrame(c)
      BY <1>42, <2>1, DequeueCapture DEF CpTake
    <2>2. CASE UNCHANGED <<hold, captureQueu>>
      BY <1>42, <2>2 DEF CpTake, FrameOwnership
    <2> QED BY <1>42, <2>1, <2>2 DEF CpTake, NoCaptureFrame
  <1>43. ASSUME NEW c \in CaptureThreads, CpWait(c) PROVE FrameOwnership'
    BY <1>43 DEF CpWait, CpUnchanged, CpOnly, FrameOwnership
  <1>44. ASSUME NEW c \in CaptureThreads, CpWoken(c) PROVE FrameOwnership'
    <2>1. CASE TakeCaptureFrame(c)
      BY <1>44, <2>1, DequeueCapture DEF CpWoken
    <2>2. CASE UNCHANGED <<hold, captureQueu>>
      BY <1>44, <2>2 DEF CpWoken, FrameOwnership
    <2> QED BY <1>44, <2>1, <2>2 DEF CpWoken, NoCaptureFrame
  <1>45. ASSUME NEW c \in CaptureThreads, CpConvert(c) PROVE FrameOwnership'
    BY <1>45, TakeFrame, SlotsInSlots DEF CpConvert, CpUnchanged,
      CpUsesFrames, FrameOwnership
  <1>46. ASSUME NEW c \in CaptureThreads, CpCopy(c) PROVE FrameOwnership'
    BY <1>46 DEF CpCopy, CpUnchanged, CpOnly, FrameOwnership
  <1>47. ASSUME NEW c \in CaptureThreads, CpCallback(c) PROVE FrameOwnership'
    BY <1>47, GiveOne, TakeFrame, SlotsInSlots DEF CpCallback, CpUnchanged,
      CpUsesFrames, FrameOwnership
  <1>48. ASSUME NEW c \in CaptureThreads, CpConvertCallback(c) PROVE FrameOwnership'
    BY <1>48, GiveOne, GiveTwo, SlotsInSlots DEF CpConvertCallback,
      CpUnchanged, CpUsesFrames
  <1>49. ASSUME NEW c \in CaptureThreads, CpCall(c) PROVE FrameOwnership'
    BY <1>49, GiveTwo, SlotsInSlots DEF CpCall, CpUnchanged, CpUsesFrames,
      FrameOwnership
  <1>50. ASSUME NEW c \in CaptureThreads, CpLeaveSurface(c) PROVE FrameOwnership'
    BY <1>50, GiveOne, SlotsInSlots DEF CpLeaveSurface, CpUnchanged,
      CpUsesFrames
  <1>51. ASSUME NEW c \in CaptureThreads, CpReleaseWindow(c) PROVE FrameOwnership'
    BY <1>51 DEF CpReleaseWindow, CpUnchanged, FrameOwnership
  <1>52. ASSUME NEW c \in CaptureThreads, CpForgetWindow(c) PROVE FrameOwnership'
    BY <1>52 DEF CpForgetWindow, CpUnchanged, FrameOwnership
  <1>53. ASSUME NEW c \in CaptureThreads, CpBroadcast(c) PROVE FrameOwnership'
    BY <1>53 DEF CpBroadcast, CpUnchanged, FrameOwnership
  <1>54. CASE UNCHANGED vars
    BY <1>54 DEF vars, FrameOwnership
  <1>55. CASE ReleasePreviewWindow
    BY <1>55 DEF ReleasePreviewWindow, FrameOwnership
  <1>56. CASE ReleaseCaptureWindow
    BY <1>56 DEF ReleaseCaptureWindow, FrameOwnership
  <1>57. ASSUME NEW c \in CaptureThreads, CpCapture(c) PROVE FrameOwnership'
    BY <1>57 DEF CpCapture, CpUnchanged, FrameOwnership
  <1>58. ASSUME NEW c \in CaptureThreads, CpChoose(c) PROVE FrameOwnership'
    BY <1>58 DEF CpChoose, CpUnchanged, FrameOwnership
  <1> QED BY <1>1, <1>2, <1>3, <1>4, <1>5, <1>6, <1>7, <1>8, <1>9, <1>10,
    <1>11, <1>12, <1>13, <1>14, <1>15, <1>16, <1>17, <1>18, <1>19, <1>20,
    <1>21, <1>22, <1>23, <1>24, <1>25, <1>26, <1>27, <1>28, <1>29, <1>30,
    <1>31, <1>32, <1>33, <1>34, <1>35, <1>36, <1>37, <1>38, <1>39, <1>40,
    <1>41, <1>42, <1>43, <1>44, <1>45, <1>46, <1>47, <1>48, <1>49, <1>50,
    <1>51, <1>52, <1>53, <1>54, <1>55, <1>56, <1>57, <1>58
    DEF Next, ClientCall, ClientContinue,
    UsbNext, PvNext, CpNext

(* What the induction is about: types, the frames in hand, and ownership.  *)
FrameInv == TypeOK /\ HoldInv /\ FrameOwnership

(* The inductive invariant holds in every reachable state.                 *)
LEMMA FrameInvariant == Spec => []FrameInv
  <1>1. Init => FrameInv
    <2> SUFFICES ASSUME Init PROVE FrameOwnership
      BY InitType DEF FrameInv
    <2>1. DOMAIN previewFrames = {}
      BY DEF Init
    <2> QED BY <2>1 DEF Init, FrameOwnership
  <1>2. FrameInv /\ [Next]_vars => FrameInv'
    BY ThreadTypesStep, FlagTypesStep, SettingTypesStep, FrameTypesStep,
       HoldInvStep, FrameOwnershipStep DEF FrameInv, TypeOK
  <1> QED BY <1>1, <1>2, PTL DEF Spec

(* Type correctness, for every instance.                                   *)
THEOREM TypeCorrect == Spec => []TypeOK
  <1>1. FrameInv => TypeOK
    BY DEF FrameInv
  <1> QED BY <1>1, FrameInvariant, PTL

(* Every frame has one owner, in every interleaving of the USB callback,   *)
(* the preview thread, any number of capture threads and the client.       *)
THEOREM FramesOwned == Spec => []FrameOwnership
  <1>1. FrameInv => FrameOwnership
    BY DEF FrameInv
  <1> QED BY <1>1, FrameInvariant, PTL

(* No thread sleeps on a condition variable while its frame is there.      *)
LEMMA NoSleepStep == TypeOK /\ NoSleepOnFrame /\ [Next]_vars => NoSleepOnFrame'
  <1> SUFFICES ASSUME TypeOK, NoSleepOnFrame, [Next]_vars PROVE NoSleepOnFrame'
    OBVIOUS
  <1> USE DEF TypeOK, ThreadTypes, NoSleepOnFrame, clientVars, captureVars,
    threads, runVars, queues, windowVars, callbackVars, modeVars, settings,
    shared, frameVars
  <1>1. CASE SetPreviewSize
    BY <1>1 DEF SetPreviewSize, ClientIdle
  <1>2. CASE SetPreviewDisplay
    BY <1>2 DEF SetPreviewDisplay, ClientIdle
  <1>3. CASE StartPreview
    BY <1>3 DEF StartPreview, ClientIdle
  <1>4. CASE StopPreview
    BY <1>4 DEF StopPreview, ClientIdle
  <1>5. CASE SetFrameCallback
    BY <1>5 DEF SetFrameCallback, SwapCallback, MustPause, ClientIdle
  <1>6. CASE SetCaptureDisplay
    BY <1>6 DEF SetCaptureDisplay, MustPause, ClientIdle
  <1>7. CASE Destroy
    BY <1>7 DEF Destroy, ClientIdle
  <1>8. CASE CreatePreviewThread
    BY <1>8 DEF CreatePreviewThread
  <1>9. CASE StartPreviewFails
    BY <1>9 DEF StartPreviewFails
  <1>10. CASE SignalPreview
    BY <1>10 DEF SignalPreview
  <1>11. CASE SignalCapture
    BY <1>11 DEF SignalCapture
  <1>12. CASE JoinCapture
    BY <1>12 DEF JoinCapture
  <1>13. CASE JoinPreview
    BY <1>13 DEF JoinPreview
  <1>14. CASE ClearPreview
    BY <1>14 DEF ClearPreview, PreviewMutexFree
  <1>15. CASE ClearCapture
    BY <1>15 DEF ClearCapture
  <1>16. CASE SetterWait
    BY <1>16 DEF SetterWait
  <1>17. CASE SwapCallbackAfterWait
    BY <1>17 DEF SwapCallbackAfterWait, SwapCallback
  <1>18. CASE SwapWindowAfterWait
    BY <1>18 DEF SwapWindowAfterWait, SwapWindow
  <1>19. CASE UsbFrame
    BY <1>19 DEF UsbFrame, UsbUsesFrames
  <1>20. CASE UsbDuplicate
    BY <1>20 DEF UsbDuplicate, UsbUsesFrames
  <1>21. CASE UsbDuplicateFails
    BY <1>21 DEF UsbDuplicateFails, UsbUsesFrames
  <1>22. CASE AddPreviewFrame
    BY <1>22 DEF AddPreviewFrame, PreviewMutexFree
  <1>23. CASE PvNegotiate
    BY <1>23 DEF PvNegotiate
  <1>24. CASE PvPrepare
    BY <1>24 DEF PvPrepare
  <1>25. CASE PvStartStream
    BY <1>25 DEF PvStartStream
  <1>26. CASE PvClearPreviewFrame
    BY <1>26 DEF PvClearPreviewFrame, PreviewMutexFree
  <1>27. CASE PvCreateCapture
    BY <1>27 DEF PvCreateCapture
  <1>28. CASE PvLoop
    BY <1>28 DEF PvLoop, TakePreviewFrame
  <1>29. CASE PvWait
    BY <1>29 DEF PvWait
  <1>30. CASE PvWoken
    BY <1>30 DEF PvWoken, TakePreviewFrame
  <1>31. CASE PvGetYuyv
    BY <1>31 DEF PvGetYuyv, PvUsesFrames
  <1>32. CASE PvDecode
    BY <1>32 DEF PvDecode, PvUsesFrames
  <1>33. CASE PvConvert
    BY <1>33 DEF PvConvert, PvUsesFrames
  <1>34. CASE PvCopyToSurface
    BY <1>34 DEF PvCopyToSurface, PvUsesFrames
  <1>35. CASE AddCaptureFrame
    <2>1. CASE mIsRunning
      <3>1. \A d \in CaptureThreads : cp'[d] \notin {"enterWait", "waiting"}
        BY <1>35, <2>1 DEF AddCaptureFrame, Wake, CaptureWaiters, CaptureMutexFree
      <3> QED BY <1>35, <3>1 DEF AddCaptureFrame
    <2>2. CASE ~mIsRunning
      BY <1>35, <2>2 DEF AddCaptureFrame
    <2> QED BY <2>1, <2>2
  <1>36. CASE PvSignalCapture
    <2>1. \A d \in CaptureThreads : cp'[d] \in {cp[d], "woken"}
      BY <1>36 DEF PvSignalCapture, SignalCaptureSync, Wake
    <2> QED BY <1>36, <2>1 DEF PvSignalCapture
  <1>37. CASE PvStopStream
    BY <1>37 DEF PvStopStream
  <1>38. CASE SpuriousWakeup
    <2>1. \A d \in CaptureThreads : cp'[d] \in {cp[d], "woken"}
      BY <1>38 DEF SpuriousWakeup, Wake
    <2> QED BY <1>38, <2>1 DEF SpuriousWakeup
  <1>39. ASSUME NEW c \in CaptureThreads, CpInit(c) PROVE NoSleepOnFrame'
    BY <1>39 DEF CpInit, CpUnchanged
  <1>40. ASSUME NEW c \in CaptureThreads, CpLoop(c) PROVE NoSleepOnFrame'
    BY <1>40 DEF CpLoop, CpOnly, CpUnchanged
  <1>41. ASSUME NEW c \in CaptureThreads, CpTest(c) PROVE NoSleepOnFrame'
    BY <1>41 DEF CpTest, CpUnchanged, CpOnly
  <1>42. ASSUME NEW c \in CaptureThreads, CpTake(c) PROVE NoSleepOnFrame'
    BY <1>42 DEF CpTake, CpUnchanged, TakeCaptureFrame, NoCaptureFrame
  <1>43. ASSUME NEW c \in CaptureThreads, CpWait(c) PROVE NoSleepOnFrame'
    BY <1>43 DEF CpWait, CpUnchanged, CpOnly
  <1>44. ASSUME NEW c \in CaptureThreads, CpWoken(c) PROVE NoSleepOnFrame'
    BY <1>44 DEF CpWoken, CpUnchanged, TakeCaptureFrame, NoCaptureFrame
  <1>45. ASSUME NEW c \in CaptureThreads, CpConvert(c) PROVE NoSleepOnFrame'
    BY <1>45 DEF CpConvert, CpUnchanged, CpUsesFrames
  <1>46. ASSUME NEW c \in CaptureThreads, CpCopy(c) PROVE NoSleepOnFrame'
    BY <1>46 DEF CpCopy, CpUnchanged, CpOnly
  <1>47. ASSUME NEW c \in CaptureThreads, CpCallback(c) PROVE NoSleepOnFrame'
    BY <1>47 DEF CpCallback, CpUnchanged, CpUsesFrames
  <1>48. ASSUME NEW c \in CaptureThreads, CpConvertCallback(c) PROVE NoSleepOnFrame'
    BY <1>48 DEF CpConvertCallback, CpUnchanged, CpUsesFrames
  <1>49. ASSUME NEW c \in CaptureThreads, CpCall(c) PROVE NoSleepOnFrame'
    BY <1>49 DEF CpCall, CpUnchanged, CpUsesFrames
  <1>50. ASSUME NEW c \in CaptureThreads, CpLeaveSurface(c) PROVE NoSleepOnFrame'
    BY <1>50 DEF CpLeaveSurface, CpUnchanged, CpUsesFrames
  <1>51. ASSUME NEW c \in CaptureThreads, CpReleaseWindow(c) PROVE NoSleepOnFrame'
    BY <1>51 DEF CpReleaseWindow, CpUnchanged
  <1>52. ASSUME NEW c \in CaptureThreads, CpForgetWindow(c) PROVE NoSleepOnFrame'
    BY <1>52 DEF CpForgetWindow, CpUnchanged
  <1>53. ASSUME NEW c \in CaptureThreads, CpBroadcast(c) PROVE NoSleepOnFrame'
    <2>1. \A d \in CaptureThreads : cp'[d] \in {cp[d], "woken", "loop"}
      BY <1>53 DEF CpBroadcast, Wake
    <2> QED BY <1>53, <2>1 DEF CpBroadcast
  <1>54. CASE UNCHANGED vars
    BY <1>54 DEF vars
  <1>55. CASE ReleasePreviewWindow
    BY <1>55 DEF ReleasePreviewWindow
  <1>56. CASE ReleaseCaptureWindow
    BY <1>56 DEF ReleaseCaptureWindow
  <1>57. ASSUME NEW c \in CaptureThreads, CpCapture(c) PROVE NoSleepOnFrame'
    BY <1>57 DEF CpCapture, CpUnchanged
  <1>58. ASSUME NEW c \in CaptureThreads, CpChoose(c) PROVE NoSleepOnFrame'
    BY <1>58 DEF CpChoose, CpUnchanged
  <1> QED BY <1>1, <1>2, <1>3, <1>4, <1>5, <1>6, <1>7, <1>8, <1>9, <1>10,
    <1>11, <1>12, <1>13, <1>14, <1>15, <1>16, <1>17, <1>18, <1>19, <1>20,
    <1>21, <1>22, <1>23, <1>24, <1>25, <1>26, <1>27, <1>28, <1>29, <1>30,
    <1>31, <1>32, <1>33, <1>34, <1>35, <1>36, <1>37, <1>38, <1>39, <1>40,
    <1>41, <1>42, <1>43, <1>44, <1>45, <1>46, <1>47, <1>48, <1>49, <1>50,
    <1>51, <1>52, <1>53, <1>54, <1>55, <1>56, <1>57, <1>58
    DEF Next, ClientCall, ClientContinue,
    UsbNext, PvNext, CpNext

(* The data path loses no wakeup: whoever waits for a frame is woken by    *)
(* the frame, whatever the other threads did in between.                   *)
THEOREM NoFrameSleepsUnseen == Spec => []NoSleepOnFrame
  <1>1. Init => NoSleepOnFrame
    BY DEF Init, NoSleepOnFrame
  <1>2. TypeOK /\ NoSleepOnFrame /\ [Next]_vars => NoSleepOnFrame'
    BY NoSleepStep
  <1> QED BY <1>1, <1>2, TypeCorrect, PTL DEF Spec

(* What makes stopPreview leave the preview quiet: the preview thread lives *)
(* only while mIsRunning or a stopPreview that will join it, the stream    *)
(* only inside the preview thread, and queued frames are cleared after the *)
(* joins.                                                                  *)
Stopping == {"signalPreview", "signalCapture", "joinCapture", "joinPreview"}

StopInv ==
    /\ pv \notin {"none", "done"} => mIsRunning \/ client \in Stopping
    /\ usb # "off" => pv \notin {"none", "negotiate", "prepare", "startStream", "done"}
    /\ client = "starting" =>
         mIsRunning /\ pv \in {"none", "done"} /\ previewFrames = <<>> /\ captureQueu = NoFrame
    /\ previewFrames # <<>> => mIsRunning \/ client \in Stopping \cup {"clearPreview"}
    /\ captureQueu # NoFrame =>
         mIsRunning \/ client \in Stopping \cup {"clearPreview", "clearCapture"}

(* Every action keeps the stop discipline.                                 *)
LEMMA StopInvStep == TypeOK /\ StopInv /\ [Next]_vars => StopInv'
  <1> SUFFICES ASSUME TypeOK, StopInv, [Next]_vars PROVE StopInv'
    OBVIOUS
  <1> USE DEF TypeOK, ThreadTypes, StopInv, Stopping, clientVars,
    captureVars, threads, runVars, queues, windowVars, callbackVars,
    modeVars, settings, shared, frameVars
  <1>1. CASE SetPreviewSize
    BY <1>1 DEF SetPreviewSize, ClientIdle
  <1>2. CASE SetPreviewDisplay
    BY <1>2 DEF SetPreviewDisplay, ClientIdle
  <1>3. CASE StartPreview
    BY <1>3 DEF StartPreview, ClientIdle
  <1>4. CASE StopPreview
    BY <1>4 DEF StopPreview, ClientIdle
  <1>5. CASE SetFrameCallback
    BY <1>5 DEF SetFrameCallback, SwapCallback, MustPause, ClientIdle
  <1>6. CASE SetCaptureDisplay
    BY <1>6 DEF SetCaptureDisplay, MustPause, ClientIdle
  <1>7. CASE Destroy
    BY <1>7 DEF Destroy, ClientIdle
  <1>8. CASE CreatePreviewThread
    BY <1>8 DEF CreatePreviewThread
  <1>9. CASE StartPreviewFails
    BY <1>9 DEF StartPreviewFails
  <1>10. CASE SignalPreview
    BY <1>10 DEF SignalPreview
  <1>11. CASE SignalCapture
    BY <1>11 DEF SignalCapture
  <1>12. CASE JoinCapture
    BY <1>12 DEF JoinCapture
  <1>13. CASE JoinPreview
    BY <1>13 DEF JoinPreview
  <1>14. CASE ClearPreview
    BY <1>14 DEF ClearPreview
  <1>15. CASE ClearCapture
    BY <1>15 DEF ClearCapture
  <1>16. CASE SetterWait
    BY <1>16 DEF SetterWait
  <1>17. CASE SwapCallbackAfterWait
    BY <1>17 DEF SwapCallbackAfterWait, SwapCallback
  <1>18. CASE SwapWindowAfterWait
    BY <1>18 DEF SwapWindowAfterWait, SwapWindow
  <1>19. CASE UsbFrame
    BY <1>19 DEF UsbFrame, UsbUsesFrames
  <1>20. CASE UsbDuplicate
    BY <1>20 DEF UsbDuplicate, UsbUsesFrames
  <1>21. CASE UsbDuplicateFails
    BY <1>21 DEF UsbDuplicateFails, UsbUsesFrames
  <1>22. CASE AddPreviewFrame
    BY <1>22 DEF AddPreviewFrame
  <1>23. CASE PvNegotiate
    BY <1>23 DEF PvNegotiate
  <1>24. CASE PvPrepare
    BY <1>24 DEF PvPrepare
  <1>25. CASE PvStartStream
    BY <1>25 DEF PvStartStream
  <1>26. CASE PvClearPreviewFrame
    BY <1>26 DEF PvClearPreviewFrame
  <1>27. CASE PvCreateCapture
    BY <1>27 DEF PvCreateCapture
  <1>28. CASE PvLoop
    BY <1>28 DEF PvLoop, TakePreviewFrame
  <1>29. CASE PvWait
    BY <1>29 DEF PvWait
  <1>30. CASE PvWoken
    BY <1>30 DEF PvWoken, TakePreviewFrame
  <1>31. CASE PvGetYuyv
    BY <1>31 DEF PvGetYuyv, PvUsesFrames
  <1>32. CASE PvDecode
    BY <1>32 DEF PvDecode, PvUsesFrames
  <1>33. CASE PvConvert
    BY <1>33 DEF PvConvert, PvUsesFrames
  <1>34. CASE PvCopyToSurface
    BY <1>34 DEF PvCopyToSurface, PvUsesFrames
  <1>35. CASE AddCaptureFrame
    <2>1. WokenClient
      BY <1>35, WakingAction DEF TypeOK
    <2> QED BY <1>35, <2>1 DEF WokenClient, AddCaptureFrame
  <1>36. CASE PvSignalCapture
    <2>1. WokenClient
      BY <1>36, WakingAction DEF TypeOK
    <2> QED BY <1>36, <2>1 DEF WokenClient, PvSignalCapture
  <1>37. CASE PvStopStream
    BY <1>37 DEF PvStopStream
  <1>38. CASE SpuriousWakeup
    <2>1. WokenClient
      BY <1>38, WakingAction DEF TypeOK
    <2> QED BY <1>38, <2>1 DEF WokenClient, SpuriousWakeup
  <1>39. ASSUME NEW c \in CaptureThreads, CpInit(c) PROVE StopInv'
    BY <1>39 DEF CpInit, CpUnchanged
  <1>40. ASSUME NEW c \in CaptureThreads, CpLoop(c) PROVE StopInv'
    BY <1>40 DEF CpLoop, CpOnly, CpUnchanged
  <1>41. ASSUME NEW c \in CaptureThreads, CpTest(c) PROVE StopInv'
    BY <1>41 DEF CpTest, CpUnchanged, CpOnly
  <1>42. ASSUME NEW c \in CaptureThreads, CpTake(c) PROVE StopInv'
    BY <1>42 DEF CpTake, CpUnchanged, TakeCaptureFrame, NoCaptureFrame
  <1>43. ASSUME NEW c \in CaptureThreads, CpWait(c) PROVE StopInv'
    BY <1>43 DEF CpWait, CpUnchanged, CpOnly
  <1>44. ASSUME NEW c \in CaptureThreads, CpWoken(c) PROVE StopInv'
    BY <1>44 DEF CpWoken, CpUnchanged, TakeCaptureFrame, NoCaptureFrame
  <1>45. ASSUME NEW c \in CaptureThreads, CpConvert(c) PROVE StopInv'
    BY <1>45 DEF CpConvert, CpUnchanged, CpUsesFrames
  <1>46. ASSUME NEW c \in CaptureThreads, CpCopy(c) PROVE StopInv'
    BY <1>46 DEF CpCopy, CpUnchanged, CpOnly
  <1>47. ASSUME NEW c \in CaptureThreads, CpCallback(c) PROVE StopInv'
    BY <1>47 DEF CpCallback, CpUnchanged, CpUsesFrames
  <1>48. ASSUME NEW c \in CaptureThreads, CpConvertCallback(c) PROVE StopInv'
    BY <1>48 DEF CpConvertCallback, CpUnchanged, CpUsesFrames
  <1>49. ASSUME NEW c \in CaptureThreads, CpCall(c) PROVE StopInv'
    BY <1>49 DEF CpCall, CpUnchanged, CpUsesFrames
  <1>50. ASSUME NEW c \in CaptureThreads, CpLeaveSurface(c) PROVE StopInv'
    BY <1>50 DEF CpLeaveSurface, CpUnchanged, CpUsesFrames
  <1>51. ASSUME NEW c \in CaptureThreads, CpReleaseWindow(c) PROVE StopInv'
    BY <1>51 DEF CpReleaseWindow, CpUnchanged
  <1>52. ASSUME NEW c \in CaptureThreads, CpForgetWindow(c) PROVE StopInv'
    BY <1>52 DEF CpForgetWindow, CpUnchanged
  <1>53. ASSUME NEW c \in CaptureThreads, CpBroadcast(c) PROVE StopInv'
    <2>1. WokenClient
      BY <1>53, WakingAction DEF TypeOK
    <2> QED BY <1>53, <2>1 DEF WokenClient, CpBroadcast
  <1>54. CASE UNCHANGED vars
    BY <1>54 DEF vars
  <1>55. CASE ReleasePreviewWindow
    BY <1>55 DEF ReleasePreviewWindow
  <1>56. CASE ReleaseCaptureWindow
    BY <1>56 DEF ReleaseCaptureWindow
  <1>57. ASSUME NEW c \in CaptureThreads, CpCapture(c) PROVE StopInv'
    BY <1>57 DEF CpCapture, CpUnchanged
  <1>58. ASSUME NEW c \in CaptureThreads, CpChoose(c) PROVE StopInv'
    BY <1>58 DEF CpChoose, CpUnchanged
  <1> QED BY <1>1, <1>2, <1>3, <1>4, <1>5, <1>6, <1>7, <1>8, <1>9, <1>10,
    <1>11, <1>12, <1>13, <1>14, <1>15, <1>16, <1>17, <1>18, <1>19, <1>20,
    <1>21, <1>22, <1>23, <1>24, <1>25, <1>26, <1>27, <1>28, <1>29, <1>30,
    <1>31, <1>32, <1>33, <1>34, <1>35, <1>36, <1>37, <1>38, <1>39, <1>40,
    <1>41, <1>42, <1>43, <1>44, <1>45, <1>46, <1>47, <1>48, <1>49, <1>50,
    <1>51, <1>52, <1>53, <1>54, <1>55, <1>56, <1>57, <1>58
    DEF Next, ClientCall, ClientContinue,
    UsbNext, PvNext, CpNext

(* After stopPreview there is no preview thread, no stream, no frame left  *)
(* in a queue: neither an early stop nor a failed start breaks this.       *)
THEOREM StopLeavesQuiet == Spec => []StoppedQuiet
  <1>1. Init => StopInv
    BY DEF Init, StopInv
  <1>2. TypeOK /\ StopInv /\ [Next]_vars => StopInv'
    BY StopInvStep
  <1>3. TypeOK /\ StopInv => StoppedQuiet
    BY DEF TypeOK, ThreadTypes, StopInv, StoppedQuiet, Stopping
  <1> QED BY <1>1, <1>2, <1>3, TypeCorrect, PTL DEF Spec

(* The preview thread can still lose a frame: it runs, or has been stopped *)
(* with a frame in its hands.                                              *)
CanLeak == /\ pv \notin {"none", "done"}
           /\ mIsRunning \/ pv \in {"getYuyv", "decode", "draw", "copy",
                                   "addCapture"}

(* Every frame that was lost has a preview of its own that can lose no     *)
(* other.                                                                  *)
LeakInv == /\ IsFiniteSet(leaked)
           /\ LeakBounded
           /\ CanLeak => Cardinality(leaked) < starts

KeepsLeaks == UNCHANGED <<leaked, starts>> /\ (CanLeak' => CanLeak)

(* No action but two changes what is lost, or makes a thread able to lose  *)
(* a frame: mIsRunning is set only while there is no preview thread.       *)
LEMMA LeakStep ==
    ASSUME TypeOK, StopInv, [Next]_vars, ~CreatePreviewThread,
           ~(AddCaptureFrame /\ ~mIsRunning)
    PROVE  KeepsLeaks
  <1> USE DEF KeepsLeaks, CanLeak, clientVars,
    captureVars, threads, runVars, queues, windowVars, callbackVars,
    modeVars, settings, shared, frameVars
  <1>1. CASE SetPreviewSize
    BY <1>1 DEF SetPreviewSize, ClientIdle
  <1>2. CASE SetPreviewDisplay
    BY <1>2 DEF SetPreviewDisplay, ClientIdle
  <1>3. CASE StartPreview
    BY <1>3 DEF StartPreview, ClientIdle, StopInv, Stopping
  <1>4. CASE StopPreview
    BY <1>4 DEF StopPreview, ClientIdle
  <1>5. CASE SetFrameCallback
    BY <1>5 DEF SetFrameCallback, SwapCallback, MustPause, ClientIdle
  <1>6. CASE SetCaptureDisplay
    BY <1>6 DEF SetCaptureDisplay, MustPause, ClientIdle
  <1>7. CASE Destroy
    BY <1>7 DEF Destroy, ClientIdle
  <1>9. CASE StartPreviewFails
    BY <1>9 DEF StartPreviewFails
  <1>10. CASE SignalPreview
    BY <1>10 DEF SignalPreview
  <1>11. CASE SignalCapture
    BY <1>11 DEF SignalCapture
  <1>12. CASE JoinCapture
    BY <1>12 DEF JoinCapture
  <1>13. CASE JoinPreview
    BY <1>13 DEF JoinPreview
  <1>14. CASE ClearPreview
    BY <1>14 DEF ClearPreview
  <1>15. CASE ClearCapture
    BY <1>15 DEF ClearCapture
  <1>16. CASE SetterWait
    BY <1>16 DEF SetterWait
  <1>17. CASE SwapCallbackAfterWait
    BY <1>17 DEF SwapCallbackAfterWait, SwapCallback
  <1>18. CASE SwapWindowAfterWait
    BY <1>18 DEF SwapWindowAfterWait, SwapWindow
  <1>19. CASE UsbFrame
    BY <1>19 DEF UsbFrame, UsbUsesFrames
  <1>20. CASE UsbDuplicate
    BY <1>20 DEF UsbDuplicate, UsbUsesFrames
  <1>21. CASE UsbDuplicateFails
    BY <1>21 DEF UsbDuplicateFails, UsbUsesFrames
  <1>22. CASE AddPreviewFrame
    BY <1>22 DEF AddPreviewFrame
  <1>23. CASE PvNegotiate
    BY <1>23 DEF PvNegotiate
  <1>24. CASE PvPrepare
    BY <1>24 DEF PvPrepare
  <1>25. CASE PvStartStream
    BY <1>25 DEF PvStartStream
  <1>26. CASE PvClearPreviewFrame
    BY <1>26 DEF PvClearPreviewFrame
  <1>27. CASE PvCreateCapture
    BY <1>27 DEF PvCreateCapture
  <1>28. CASE PvLoop
    BY <1>28 DEF PvLoop, TakePreviewFrame
  <1>29. CASE PvWait
    BY <1>29 DEF PvWait
  <1>30. CASE PvWoken
    BY <1>30 DEF PvWoken, TakePreviewFrame
  <1>31. CASE PvGetYuyv
    BY <1>31 DEF PvGetYuyv, PvUsesFrames
  <1>32. CASE PvDecode
    BY <1>32 DEF PvDecode, PvUsesFrames
  <1>33. CASE PvConvert
    BY <1>33 DEF PvConvert, PvUsesFrames
  <1>34. CASE PvCopyToSurface
    BY <1>34 DEF PvCopyToSurface, PvUsesFrames
  <1>35. CASE AddCaptureFrame
    BY <1>35 DEF AddCaptureFrame
  <1>36. CASE PvSignalCapture
    BY <1>36 DEF PvSignalCapture
  <1>37. CASE PvStopStream
    BY <1>37 DEF PvStopStream
  <1>38. CASE SpuriousWakeup
    BY <1>38 DEF SpuriousWakeup
  <1>39. ASSUME NEW c \in CaptureThreads, CpInit(c) PROVE KeepsLeaks
    BY <1>39 DEF CpInit, CpUnchanged
  <1>40. ASSUME NEW c \in CaptureThreads, CpLoop(c) PROVE KeepsLeaks
    BY <1>40 DEF CpLoop, CpOnly, CpUnchanged
  <1>41. ASSUME NEW c \in CaptureThreads, CpTest(c) PROVE KeepsLeaks
    BY <1>41 DEF CpTest, CpUnchanged, CpOnly
  <1>42. ASSUME NEW c \in CaptureThreads, CpTake(c) PROVE KeepsLeaks
    BY <1>42 DEF CpTake, CpUnchanged, TakeCaptureFrame, NoCaptureFrame
  <1>43. ASSUME NEW c \in CaptureThreads, CpWait(c) PROVE KeepsLeaks
    BY <1>43 DEF CpWait, CpUnchanged, CpOnly
  <1>44. ASSUME NEW c \in CaptureThreads, CpWoken(c) PROVE KeepsLeaks
    BY <1>44 DEF CpWoken, CpUnchanged, TakeCaptureFrame, NoCaptureFrame
  <1>45. ASSUME NEW c \in CaptureThreads, CpConvert(c) PROVE KeepsLeaks
    BY <1>45 DEF CpConvert, CpUnchanged, CpUsesFrames
  <1>46. ASSUME NEW c \in CaptureThreads, CpCopy(c) PROVE KeepsLeaks
    BY <1>46 DEF CpCopy, CpUnchanged, CpOnly
  <1>47. ASSUME NEW c \in CaptureThreads, CpCallback(c) PROVE KeepsLeaks
    BY <1>47 DEF CpCallback, CpUnchanged, CpUsesFrames
  <1>48. ASSUME NEW c \in CaptureThreads, CpConvertCallback(c) PROVE KeepsLeaks
    BY <1>48 DEF CpConvertCallback, CpUnchanged, CpUsesFrames
  <1>49. ASSUME NEW c \in CaptureThreads, CpCall(c) PROVE KeepsLeaks
    BY <1>49 DEF CpCall, CpUnchanged, CpUsesFrames
  <1>50. ASSUME NEW c \in CaptureThreads, CpLeaveSurface(c) PROVE KeepsLeaks
    BY <1>50 DEF CpLeaveSurface, CpUnchanged, CpUsesFrames
  <1>51. ASSUME NEW c \in CaptureThreads, CpReleaseWindow(c) PROVE KeepsLeaks
    BY <1>51 DEF CpReleaseWindow, CpUnchanged
  <1>52. ASSUME NEW c \in CaptureThreads, CpForgetWindow(c) PROVE KeepsLeaks
    BY <1>52 DEF CpForgetWindow, CpUnchanged
  <1>53. ASSUME NEW c \in CaptureThreads, CpBroadcast(c) PROVE KeepsLeaks
    BY <1>53 DEF CpBroadcast
  <1>54. CASE UNCHANGED vars
    BY <1>54 DEF vars
  <1>55. CASE ReleasePreviewWindow
    BY <1>55 DEF ReleasePreviewWindow
  <1>56. CASE ReleaseCaptureWindow
    BY <1>56 DEF ReleaseCaptureWindow
  <1>57. ASSUME NEW c \in CaptureThreads, CpCapture(c) PROVE KeepsLeaks
    BY <1>57 DEF CpCapture, CpUnchanged
  <1>58. ASSUME NEW c \in CaptureThreads, CpChoose(c) PROVE KeepsLeaks
    BY <1>58 DEF CpChoose, CpUnchanged
  <1> QED BY <1>1, <1>2, <1>3, <1>4, <1>5, <1>6, <1>7, <1>9, <1>10,
    <1>11, <1>12, <1>13, <1>14, <1>15, <1>16, <1>17, <1>18, <1>19, <1>20,
    <1>21, <1>22, <1>23, <1>24, <1>25, <1>26, <1>27, <1>28, <1>29, <1>30,
    <1>31, <1>32, <1>33, <1>34, <1>35, <1>36, <1>37, <1>38, <1>39, <1>40,
    <1>41, <1>42, <1>43, <1>44, <1>45, <1>46, <1>47, <1>48, <1>49, <1>50,
    <1>51, <1>52, <1>53, <1>54, <1>55, <1>56, <1>57, <1>58
    DEF Next, ClientCall, ClientContinue,
    UsbNext, PvNext, CpNext

(* The two actions, and with them every action, keep the bound.            *)
LEMMA LeakInvStep == TypeOK /\ StopInv /\ LeakInv /\ [Next]_vars => LeakInv'
  <1> SUFFICES ASSUME TypeOK, StopInv, LeakInv, [Next]_vars PROVE LeakInv'
    OBVIOUS
  <1>1. starts \in Nat /\ IsFiniteSet(leaked) /\ Cardinality(leaked) \in Nat
    BY BoundAssumption, FS_CardinalityType DEF TypeOK, ThreadTypes, LeakInv
  <1>2. CASE CreatePreviewThread
    <2>1. leaked' = leaked /\ starts' = starts + 1
      BY <1>2 DEF CreatePreviewThread, frameVars
    <2> QED BY <1>1, <2>1 DEF LeakInv, LeakBounded
  <1>3. CASE AddCaptureFrame /\ ~mIsRunning
    <2> DEFINE frame == hold[<<"pv", "frame">>]
    <2>1. /\ leaked' = leaked \cup {frame} /\ starts' = starts
          /\ pv' = "loop" /\ mIsRunning' = mIsRunning /\ CanLeak
      BY <1>3 DEF AddCaptureFrame, shared, runVars, CanLeak
    <2>2. IsFiniteSet(leaked') /\ Cardinality(leaked') <= Cardinality(leaked) + 1
      BY <1>1, <2>1, FS_AddElement
    <2>3. Cardinality(leaked') \in Nat
      BY <2>2, FS_CardinalityType
    <2>4. ~CanLeak'
      BY <1>3, <2>1 DEF CanLeak
    <2>5. Cardinality(leaked) < starts
      BY <2>1 DEF LeakInv
    <2>6. Cardinality(leaked') <= starts
      BY <1>1, <2>2, <2>3, <2>5
    <2> QED BY <2>1, <2>2, <2>4, <2>6 DEF LeakInv, LeakBounded
  <1>4. CASE KeepsLeaks
    BY <1>4 DEF KeepsLeaks, LeakInv, LeakBounded
  <1> QED BY <1>2, <1>3, <1>4, LeakStep

(* Stopping a preview loses at most one frame, although addCaptureFrame    *)
(* forgets whatever frame it is given then.                                *)
THEOREM LeaksAreBounded == Spec => []LeakBounded
  <1>1. Init => StopInv /\ LeakInv
    <2> SUFFICES ASSUME Init PROVE StopInv /\ LeakInv
      OBVIOUS
    <2>1. StopInv
      BY DEF Init, StopInv
    <2>2. leaked = {} /\ starts = 0 /\ pv = "none"
      BY DEF Init
    <2>3. IsFiniteSet(leaked) /\ Cardinality(leaked) = 0
      BY <2>2, FS_EmptySet
    <2> QED BY <2>1, <2>2, <2>3 DEF LeakInv, LeakBounded, CanLeak
  <1>2. TypeOK /\ StopInv /\ LeakInv /\ [Next]_vars => StopInv' /\ LeakInv'
    BY StopInvStep, LeakInvStep
  <1>3. LeakInv => LeakBounded
    BY DEF LeakInv
  <1> QED BY <1>1, <1>2, <1>3, TypeCorrect, PTL DEF Spec
=============================================================================
