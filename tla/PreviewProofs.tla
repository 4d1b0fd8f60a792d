---------------------------- MODULE PreviewProofs ----------------------------
(***************************************************************************)
(* Theorems about Preview, for any number of frames, capture threads,      *)
(* windows and callbacks, any capacity of the queue and any bound.         *)
(***************************************************************************)
EXTENDS Preview, FramePoolProofs

USE PreviewAssumption DEF controlVars

\* The slots the actions name are slots, and different ones.
LEMMA SlotFacts ==
  /\ CaptureQueu \in Slots /\ Copy \in Slots /\ Mjpeg \in Slots
  /\ Frame \in Slots /\ Converted \in Slots
  /\ CaptureQueu # Copy /\ CaptureQueu # Mjpeg /\ CaptureQueu # Frame
  /\ CaptureQueu # Converted /\ Copy # Mjpeg /\ Copy # Frame /\ Copy # Converted
BY DEF PreviewSlots, CaptureQueu, Copy, Mjpeg, Frame, Converted

LEMMA CaptureSlotFacts ==
  ASSUME NEW c \in CaptureThreads
  PROVE  /\ CapFrame(c) \in Slots /\ CapConverted(c) \in Slots
         /\ CapCallback(c) \in Slots
         /\ CapFrame(c) # CaptureQueu /\ CapFrame(c) # CapCallback(c)
         /\ Copy \notin {CapFrame(c), CapConverted(c), CapCallback(c)}
         /\ CaptureQueu \notin {CapFrame(c), CapConverted(c), CapCallback(c)}
BY DEF PreviewSlots, CaptureQueu, Copy, CapFrame, CapConverted, CapCallback

\* The callback thread hands over a copy that nobody else has.
LEMMA UvcFrames ==
  ASSUME FrameInv, Lifecycle, Uvc
  PROVE  FrameInv'
<1> USE SlotFacts
<1>1. CASE UvcDeliver
  BY <1>1, GetKeeps DEF UvcDeliver
<1>2. CASE UvcLose
  <2>1. CASE GetInto(Copy)
    BY <1>2, <2>1, GetKeeps DEF UvcLose
  <2>2. CASE NoFrame /\ UNCHANGED hold
    BY <1>2, <2>2, UnchangedKeeps DEF UvcLose, NoFrame, frameVars
  <2> QED
    BY <1>2, <2>1, <2>2 DEF UvcLose
<1>3. CASE UvcAdd
  <2>1. CASE Goto("uvc", "add", "idle") /\ PutFrom(Copy)
    BY <2>1, PutKeeps DEF Lifecycle, Goto
  <2>2. CASE UNCHANGED frameVars
    BY <2>2, UnchangedKeeps
  <2> QED
    BY <1>3, <2>1, <2>2 DEF UvcAdd, frameVars
<1>4. CASE UvcDrop
  BY <1>4, RecycleKeeps DEF UvcDrop
<1> QED
  BY <1>1, <1>2, <1>3, <1>4 DEF Uvc

\* waitPreviewFrame takes the oldest frame or none.
LEMMA TakePreviewFrames ==
  ASSUME FrameInv, TakePreviewFrame
  PROVE  FrameInv'
<1> USE SlotFacts
<1>1. CASE TakeInto(Mjpeg)
  BY <1>1, TakeKeeps
<1>2. CASE TakeInto(Frame)
  BY <1>2, TakeKeeps
<1>3. CASE UNCHANGED frameVars
  BY <1>3, UnchangedKeeps
<1> QED
  BY <1>1, <1>2, <1>3 DEF TakePreviewFrame

\* The preview thread.
LEMMA PreviewThreadFrames ==
  ASSUME FrameInv, PreviewThread
  PROVE  FrameInv'
<1> USE SlotFacts
<1>1. CASE UNCHANGED frameVars
  BY <1>1, UnchangedKeeps
<1>2. CASE PreviewClear
  BY <1>2, ClearKeeps DEF PreviewClear
<1>3. CASE WaitPreviewFrame
  BY <1>1, <1>3, TakePreviewFrames DEF WaitPreviewFrame
<1>4. CASE PreviewResume
  BY <1>4, TakePreviewFrames DEF PreviewResume
<1>5. CASE Decode
  BY <1>5, GetKeeps DEF Decode
<1>6. CASE RecycleMjpeg
  BY <1>6, RecycleKeeps DEF RecycleMjpeg
<1>7. CASE DrawConvert
  <2>1. CASE GetInto(Converted)
    BY <1>7, <2>1, GetKeeps DEF DrawConvert
  <2>2. CASE UNCHANGED <<heap, mFramePool, hold>>
    BY <1>1, <1>7, <2>2 DEF DrawConvert, frameVars
  <2> QED
    BY <1>7, <2>1, <2>2 DEF DrawConvert, NoFrame
<1>8. CASE DrawRecycle
  BY <1>8, RecycleKeeps DEF DrawRecycle
<1>9. CASE Offer
  <2>0. UNCHANGED previewFrames
    BY <1>9 DEF Offer
  <2>1. CASE /\ Recycle(FrameOf(CaptureQueu))
             /\ hold' = [hold EXCEPT ![CaptureQueu] = hold[Frame], ![Frame] = NULL]
    BY <2>0, <2>1, ExchangeKeeps
  <2>2. CASE /\ hold' = [hold EXCEPT ![Frame] = NULL]
             /\ UNCHANGED <<heap, mFramePool>>
    BY <2>0, <2>2, DropKeeps
  <2>3. CASE RecycleSlot(Frame)
    BY <2>0, <2>3, RecycleKeeps
  <2> QED
    BY <1>9, <2>1, <2>2, <2>3 DEF Offer
<1> QED
  BY <1>1, <1>2, <1>3, <1>4, <1>5, <1>6, <1>7, <1>8, <1>9
     DEF PreviewThread, Prepare, StartStreaming, CreateCapture, PreviewTest,
         PreviewSignal, StopStreaming

\* waitCaptureFrame takes the latest frame or none.
LEMMA TakeCaptureFrames ==
  ASSUME FrameInv, NEW c \in CaptureThreads, TakeCaptureFrame(c),
         UNCHANGED previewFrames
  PROVE  FrameInv'
<1> USE SlotFacts, CaptureSlotFacts
<1>1. CASE MoveFrame(CaptureQueu, CapFrame(c))
  BY <1>1, MoveKeeps
<1>2. CASE UNCHANGED <<heap, mFramePool, hold>>
  BY <1>2, UnchangedKeeps DEF frameVars
<1> QED
  BY <1>1, <1>2 DEF TakeCaptureFrame

\* A capture thread.
LEMMA CaptureThreadFrames ==
  ASSUME FrameInv, NEW c \in CaptureThreads, CaptureThread(c)
  PROVE  FrameInv'
<1> USE SlotFacts, CaptureSlotFacts
<1>1. CASE UNCHANGED frameVars
  BY <1>1, UnchangedKeeps
<1>2. CASE CaptureClear(c)
  BY <1>2, RecycleKeeps DEF CaptureClear
<1>3. CASE WaitCaptureFrame(c)
  BY <1>1, <1>3, TakeCaptureFrames DEF WaitCaptureFrame, frameVars
<1>4. CASE CaptureResume(c)
  BY <1>4, TakeCaptureFrames DEF CaptureResume
<1>5. CASE CaptureConvert(c)
  <2>1. CASE GetInto(CapConverted(c))
    BY <1>5, <2>1, GetKeeps DEF CaptureConvert
  <2>2. CASE UNCHANGED <<heap, mFramePool, hold>>
    BY <1>1, <1>5, <2>2 DEF CaptureConvert, frameVars
  <2> QED
    BY <1>5, <2>1, <2>2 DEF CaptureConvert
<1>6. CASE CallbackFrame(c)
  <2>0. UNCHANGED previewFrames
    BY <1>6 DEF CallbackFrame
  <2>1. CASE MoveFrame(CapFrame(c), CapCallback(c))
    BY <2>0, <2>1, MoveKeeps
  <2>2. CASE GetInto(CapCallback(c))
    BY <2>0, <2>2, GetKeeps
  <2> QED
    BY <1>6, <2>1, <2>2 DEF CallbackFrame
<1>7. CASE CallbackConverted(c)
  BY <1>7, RecycleKeeps DEF CallbackConverted
<1>8. CASE CallbackRecycle(c)
  BY <1>8, RecycleKeeps DEF CallbackRecycle
<1>9. CASE LeaveRelease(c)
  BY <1>9, RecycleKeeps DEF LeaveRelease
<1> QED
  BY <1>1, <1>2, <1>3, <1>4, <1>5, <1>6, <1>7, <1>8, <1>9
     DEF CaptureThread, CaptureRunning, CaptureMark, CaptureChoose, CaptureTest,
         CopyBegin, CopyEnd, CallBegin, CallEnd, LeaveForget, CaptureBroadcast

\* The steps of the callers, and the wakeups nobody asked for.
Caller ==
  Replace \/ Start \/ Stop \/ SpuriousWakeup
    \/ \E w \in Windows \cup {NULL} : SetPreviewDisplay(w)

\* The callers: stopPreview alone touches frames.
LEMMA CallerFrames ==
  ASSUME FrameInv, Caller
  PROVE  FrameInv'
<1> USE SlotFacts
<1>1. CASE UNCHANGED frameVars
  BY <1>1, UnchangedKeeps
<1>2. CASE StopClearPreview
  BY <1>2, ClearKeeps DEF StopClearPreview
<1>3. CASE StopClearCapture
  BY <1>3, RecycleKeeps DEF StopClearCapture
<1>4. CASE Replace
  BY <1>1, <1>4 DEF Replace, SetFrameCallback, SetCaptureDisplay, ReplaceBegin,
       ReplaceResume, ReplaceDrop, CallbackAssign, WindowInstall
<1> QED
  BY <1>1, <1>2, <1>3, <1>4
     DEF Start, StartBegin, StartCreate, Stop, StopCall, StopBegin, StopSignal,
         StopJoinCapture, StopJoinPreview, StopReleasePreview,
         StopReleaseCapture, SpuriousWakeup, SetPreviewDisplay, Caller

\* One step, whoever takes it.
LEMMA FrameStep ==
  ASSUME FrameInv, Lifecycle, [Next]_vars
  PROVE  FrameInv'
<1>1. CASE UNCHANGED vars
  BY <1>1, UnchangedKeeps DEF vars
<1>2. CASE \E c \in CaptureThreads : CaptureThread(c)
  BY <1>2, CaptureThreadFrames
<1> QED
  BY <1>1, <1>2, UvcFrames, PreviewThreadFrames, CallerFrames DEF Next, Caller

\* The control states, one by one.
LEMMA StateFacts ==
  /\ {"main", "setter", "uvc", "preview"} \subseteq Threads
  /\ CaptureThreads \subseteq Threads
  /\ CallerStates \subseteq States
  /\ PreviewStates \subseteq States
  /\ CaptureStates \subseteq States
  /\ {"add", "drop"} \subseteq States
BY DEF Threads, Callers, States

LEMMA GotoKeeps ==
  ASSUME PcTypeOK, NEW t \in Threads, NEW from, NEW to \in States,
         Goto(t, from, to)
  PROVE  PcTypeOK'
BY DEF PcTypeOK, Goto

\* Every action leads every thread to one of its states.
LEMMA UvcPc ==
  ASSUME PcTypeOK, Uvc
  PROVE  PcTypeOK'
<1>1. {"idle", "add", "drop"} \subseteq States /\ "uvc" \in Threads
  BY StateFacts DEF CallerStates
<1> QED
  BY <1>1, GotoKeeps DEF Uvc, UvcDeliver, UvcLose, UvcAdd, UvcDrop

LEMMA PreviewPc ==
  ASSUME PcTypeOK, PreviewThread
  PROVE  PcTypeOK'
<1>1. PreviewStates \subseteq States /\ "preview" \in Threads
  BY StateFacts
<1>2. "clear" \in States /\ CaptureThreads \subseteq Threads
  BY StateFacts DEF CaptureStates
<1> USE <1>1 DEF PreviewStates
<1>3. CASE Prepare \/ StartStreaming \/ PreviewClear \/ PreviewTest
  BY <1>3, GotoKeeps DEF Prepare, StartStreaming, PreviewClear, PreviewTest
<1>4. CASE CreateCapture
  BY <1>2, <1>4 DEF CreateCapture, PcTypeOK
<1>5. CASE WaitPreviewFrame \/ PreviewResume
  BY <1>5 DEF WaitPreviewFrame, PreviewResume, TakePreviewFrame, PcTypeOK
<1>6. CASE Decode \/ RecycleMjpeg \/ DrawConvert
  BY <1>6, GotoKeeps DEF Decode, RecycleMjpeg, DrawConvert
<1>7. CASE DrawRecycle \/ Offer \/ PreviewSignal \/ StopStreaming
  BY <1>7, GotoKeeps DEF DrawRecycle, Offer, PreviewSignal, StopStreaming
<1> QED
  BY <1>3, <1>4, <1>5, <1>6, <1>7 DEF PreviewThread

LEMMA CapturePc ==
  ASSUME PcTypeOK, NEW c \in CaptureThreads, CaptureThread(c)
  PROVE  PcTypeOK'
<1>1. CaptureStates \subseteq States /\ c \in Threads
  BY StateFacts
<1> USE <1>1 DEF CaptureStates
<1>2. CASE \/ CaptureClear(c) \/ CaptureRunning(c) \/ CaptureMark(c)
           \/ CaptureChoose(c)
  BY <1>2, GotoKeeps DEF CaptureClear, CaptureRunning, CaptureMark, CaptureChoose
<1>3. CASE CaptureTest(c) \/ CaptureConvert(c) \/ CopyBegin(c) \/ CopyEnd(c)
  BY <1>3, GotoKeeps DEF CaptureTest, CaptureConvert, CopyBegin, CopyEnd
<1>4. CASE WaitCaptureFrame(c) \/ CaptureResume(c)
  BY <1>4 DEF WaitCaptureFrame, CaptureResume, TakeCaptureFrame, PcTypeOK
<1>5. CASE CallbackFrame(c) \/ CallbackConverted(c) \/ CallBegin(c)
  BY <1>5, GotoKeeps DEF CallbackFrame, CallbackConverted, CallBegin
<1>6. CASE CallEnd(c) \/ CallbackRecycle(c) \/ LeaveRelease(c)
  BY <1>6, GotoKeeps DEF CallEnd, CallbackRecycle, LeaveRelease
<1>7. CASE LeaveForget(c) \/ CaptureBroadcast(c)
  BY <1>7, GotoKeeps DEF LeaveForget, CaptureBroadcast
<1> QED
  BY <1>2, <1>3, <1>4, <1>5, <1>6, <1>7 DEF CaptureThread

LEMMA CallerPc ==
  ASSUME PcTypeOK, Caller
  PROVE  PcTypeOK'
<1>1. CallerStates \subseteq States /\ Callers \subseteq Threads
  BY StateFacts DEF Callers
<1>2. {"none", "prepare"} \subseteq States /\ CaptureThreads \subseteq Threads
        /\ {"main", "setter", "preview"} \subseteq Threads
  BY StateFacts DEF PreviewStates
<1> USE <1>1, <1>2 DEF CallerStates, AfterCallback
<1>3. CASE Replace
  <2>1. ASSUME NEW t \in Callers, NEW o, SetFrameCallback(t, o)
        PROVE  PcTypeOK'
    BY <2>1, GotoKeeps DEF SetFrameCallback, ReplaceBegin
  <2>2. ASSUME NEW t \in Callers, NEW s, NEW d \in States, ReplaceResume(t, s, d)
        PROVE  PcTypeOK'
    BY <2>2, GotoKeeps DEF ReplaceResume
  <2>3. ASSUME NEW t \in Callers, NEW x, NEW s, NEW d \in States,
               NEW e \in States, ReplaceDrop(t, x, s, d, e)
        PROVE  PcTypeOK'
    BY <2>3, GotoKeeps DEF ReplaceDrop
  <2>4. ASSUME NEW t \in Callers, CallbackAssign(t)
        PROVE  PcTypeOK'
    BY <2>4, GotoKeeps DEF CallbackAssign
  <2>5. ASSUME NEW w, SetCaptureDisplay(w)
        PROVE  PcTypeOK'
    BY <2>5, GotoKeeps DEF SetCaptureDisplay, ReplaceBegin
  <2>6. CASE WindowInstall
    BY <2>6, GotoKeeps DEF WindowInstall
  <2>7. "setter" \in Callers
    BY DEF Callers
  <2> QED
    BY <1>3, <2>1, <2>2, <2>3, <2>4, <2>5, <2>6, <2>7 DEF Replace
<1>4. CASE Start
  BY <1>4, GotoKeeps DEF Start, StartBegin, StartCreate, PcTypeOK
<1>5. CASE StopCall \/ StopBegin \/ StopSignal \/ StopClearPreview
             \/ StopClearCapture \/ StopReleasePreview \/ StopReleaseCapture
  BY <1>5, GotoKeeps DEF StopCall, StopBegin, StopSignal, StopClearPreview,
       StopClearCapture, StopReleasePreview, StopReleaseCapture
<1>6. CASE StopJoinCapture
  BY <1>6 DEF StopJoinCapture, PcTypeOK
<1>7. CASE StopJoinPreview
  BY <1>7 DEF StopJoinPreview, PcTypeOK
<1>8. CASE SpuriousWakeup \/ \E w \in Windows \cup {NULL} : SetPreviewDisplay(w)
  BY <1>8 DEF SpuriousWakeup, SetPreviewDisplay, PcTypeOK
<1> QED
  BY <1>3, <1>4, <1>5, <1>6, <1>7, <1>8 DEF Stop, Caller

\* What the steps of each thread leave alone.
LEMMA UvcLeaves ==
  Uvc => UNCHANGED <<mIsRunning, mIsCapturing, targetVars, capture_sync,
                     sessionVars, captureVars, callVars>>
BY DEF Uvc, UvcDeliver, UvcLose, UvcAdd, UvcDrop, flagVars, syncVars

LEMMA PreviewLeaves ==
  PreviewThread => UNCHANGED <<mIsRunning, mIsCapturing, targetVars, captureVars,
                               callVars>>
BY DEF PreviewThread, Prepare, StartStreaming, PreviewClear, CreateCapture,
       PreviewTest, WaitPreviewFrame, PreviewResume, Decode, RecycleMjpeg,
       DrawConvert, DrawRecycle, Offer, PreviewSignal, StopStreaming,
       flagVars

LEMMA CaptureLeaves ==
  ASSUME NEW c \in CaptureThreads, CaptureThread(c)
  PROVE  UNCHANGED <<mIsRunning, mPreviewWindow, mFrameCallbackObj, preview_sync,
                     capture_thread, frameMode, streaming, callVars, previewFrames>>
BY DEF CaptureThread, CaptureClear, CaptureRunning, CaptureMark, CaptureChoose,
       CaptureTest, WaitCaptureFrame, CaptureResume, CaptureConvert, CopyBegin,
       CopyEnd, CallbackFrame, CallbackConverted, CallBegin, CallEnd,
       CallbackRecycle, LeaveRelease, LeaveForget, CaptureBroadcast,
       flagVars, targetVars, syncVars, sessionVars, frameVars

LEMMA CallerLeaves ==
  Caller => UNCHANGED <<capture_thread, frameMode, streaming, captureVars>>
<1>1. Replace => UNCHANGED <<sessionVars, captureVars>>
  BY DEF Replace, SetFrameCallback, SetCaptureDisplay, ReplaceBegin,
         ReplaceResume, ReplaceDrop, CallbackAssign, WindowInstall
<1>2. Start \/ Stop => UNCHANGED <<sessionVars, captureVars>>
  BY DEF Start, StartBegin, StartCreate, Stop, StopCall, StopBegin, StopSignal,
         StopJoinCapture, StopJoinPreview, StopClearPreview, StopClearCapture,
         StopReleasePreview, StopReleaseCapture
<1> QED
  BY <1>1, <1>2 DEF Caller, SpuriousWakeup, SetPreviewDisplay, sessionVars

\* A signal takes a thread out of a set of waiting threads, or does nothing.
LEMMA SignalKeeps ==
  (Signal(preview_sync) => preview_sync' \subseteq preview_sync)
    /\ (Signal(capture_sync) => capture_sync' \subseteq capture_sync)
BY DEF Signal

\* Every variable keeps its type, one group of variables at a time.
LEMMA FlagType ==
  ASSUME FlagTypeOK, [Next]_vars
  PROVE  FlagTypeOK'
<1> USE DEF FlagTypeOK
<1>1. CASE UNCHANGED flagVars
  BY <1>1 DEF flagVars
<1>2. CASE Uvc \/ PreviewThread
  BY <1>1, <1>2, UvcLeaves, PreviewLeaves DEF flagVars
<1>3. ASSUME NEW c \in CaptureThreads, CaptureThread(c) PROVE FlagTypeOK'
  <2>1. mIsCapturing' \in BOOLEAN
    BY <1>3 DEF CaptureThread, CaptureClear, CaptureRunning, CaptureMark,
       CaptureChoose, CaptureTest, WaitCaptureFrame, CaptureResume,
       CaptureConvert, CopyBegin, CopyEnd, CallbackFrame, CallbackConverted,
       CallBegin, CallEnd, CallbackRecycle, LeaveRelease, LeaveForget,
       CaptureBroadcast, flagVars
  <2> QED
    BY <1>3, <2>1, CaptureLeaves
<1>4. CASE Replace
  BY <1>4 DEF Replace, SetFrameCallback, SetCaptureDisplay, ReplaceBegin,
       ReplaceResume, ReplaceDrop, CallbackAssign, WindowInstall, flagVars
<1>5. CASE Start \/ Stop
  BY <1>5 DEF Start, StartBegin, StartCreate, Stop, StopCall, StopBegin,
       StopSignal, StopJoinCapture, StopJoinPreview, StopClearPreview,
       StopClearCapture, StopReleasePreview, StopReleaseCapture, flagVars
<1> QED
  BY <1>1, <1>2, <1>3, <1>4, <1>5 DEF Next, SpuriousWakeup, SetPreviewDisplay, vars

LEMMA SyncType ==
  ASSUME SyncTypeOK, [Next]_vars
  PROVE  SyncTypeOK'
<1> USE SignalKeeps DEF SyncTypeOK
<1>1. CASE UNCHANGED syncVars
  BY <1>1 DEF syncVars
<1>2. CASE Uvc
  BY <1>2, UvcLeaves DEF Uvc, UvcDeliver, UvcLose, UvcAdd, UvcDrop, syncVars
<1>3. CASE PreviewThread
  BY <1>3 DEF PreviewThread, Prepare, StartStreaming, PreviewClear,
       CreateCapture, PreviewTest, WaitPreviewFrame, PreviewResume, Decode,
       RecycleMjpeg, DrawConvert, DrawRecycle, Offer, PreviewSignal,
       StopStreaming, syncVars
<1>4. ASSUME NEW c \in CaptureThreads, CaptureThread(c) PROVE SyncTypeOK'
  <2>1. capture_sync' \in SUBSET (Callers \cup CaptureThreads)
    BY <1>4 DEF CaptureThread, CaptureClear, CaptureRunning, CaptureMark,
       CaptureChoose, CaptureTest, WaitCaptureFrame, CaptureResume,
       CaptureConvert, CopyBegin, CopyEnd, CallbackFrame, CallbackConverted,
       CallBegin, CallEnd, CallbackRecycle, LeaveRelease, LeaveForget,
       CaptureBroadcast, syncVars
  <2> QED
    BY <1>4, <2>1, CaptureLeaves
<1>5. CASE Replace
  BY <1>5 DEF Replace, SetFrameCallback, SetCaptureDisplay, ReplaceBegin,
       ReplaceResume, ReplaceDrop, CallbackAssign, WindowInstall, syncVars, Callers
<1>6. CASE Start \/ Stop
  BY <1>6 DEF Start, StartBegin, StartCreate, Stop, StopCall, StopBegin,
       StopSignal, StopJoinCapture, StopJoinPreview, StopClearPreview,
       StopClearCapture, StopReleasePreview, StopReleaseCapture, syncVars
<1> QED
  BY <1>1, <1>2, <1>3, <1>4, <1>5, <1>6
     DEF Next, SpuriousWakeup, SetPreviewDisplay, vars

LEMMA SessionType ==
  ASSUME SessionTypeOK, [Next]_vars
  PROVE  SessionTypeOK'
<1> USE DEF SessionTypeOK
<1>1. CASE UNCHANGED sessionVars
  BY <1>1 DEF sessionVars
<1>2. CASE PreviewThread
  BY <1>2 DEF PreviewThread, Prepare, StartStreaming, PreviewClear,
       CreateCapture, PreviewTest, WaitPreviewFrame, PreviewResume, Decode,
       RecycleMjpeg, DrawConvert, DrawRecycle, Offer, PreviewSignal,
       StopStreaming, sessionVars
<1>3. CASE Uvc \/ Caller
  BY <1>1, <1>3, UvcLeaves, CallerLeaves DEF sessionVars
<1>4. CASE \E c \in CaptureThreads : CaptureThread(c)
  BY <1>1, <1>4, CaptureLeaves DEF sessionVars
<1> QED
  BY <1>1, <1>2, <1>3, <1>4 DEF Next, Caller, vars

LEMMA CaptureType ==
  ASSUME CaptureTypeOK, TargetTypeOK, [Next]_vars
  PROVE  CaptureTypeOK'
<1> USE DEF CaptureTypeOK
<1>1. CASE UNCHANGED captureVars
  BY <1>1 DEF captureVars
<1>2. CASE Uvc \/ PreviewThread \/ Caller
  BY <1>1, <1>2, UvcLeaves, PreviewLeaves, CallerLeaves
<1>3. ASSUME NEW c \in CaptureThreads, CaptureThread(c) PROVE CaptureTypeOK'
  <2>1. CASE CaptureChoose(c)
    <3>1. (mCaptureWindow # NULL) \in BOOLEAN
      OBVIOUS
    <3> QED
      BY <2>1, <3>1 DEF CaptureChoose
  <2>2. CASE CopyBegin(c) \/ CopyEnd(c)
    BY <2>2 DEF CopyBegin, CopyEnd, TargetTypeOK
  <2>3. CASE CallBegin(c) \/ CallEnd(c)
    BY <2>3 DEF CallBegin, CallEnd, TargetTypeOK
  <2> QED
    BY <1>1, <1>3, <2>1, <2>2, <2>3 DEF CaptureThread, CaptureClear, CaptureRunning,
       CaptureMark, CaptureTest, WaitCaptureFrame, CaptureResume, CaptureConvert,
       CallbackFrame, CallbackConverted, CallbackRecycle, LeaveRelease,
       LeaveForget, CaptureBroadcast
<1> QED
  BY <1>1, <1>2, <1>3 DEF Next, Caller, vars

LEMMA CallType ==
  ASSUME CallTypeOK, [Next]_vars
  PROVE  CallTypeOK'
<1> USE DEF CallTypeOK
<1>1. CASE UNCHANGED callVars
  BY <1>1 DEF callVars
<1>2. CASE Uvc \/ PreviewThread
  BY <1>1, <1>2, UvcLeaves, PreviewLeaves
<1>3. CASE \E c \in CaptureThreads : CaptureThread(c)
  BY <1>1, <1>3, CaptureLeaves
<1>4. CASE Replace
  <2>1. ASSUME NEW t \in Callers, NEW o \in Callbacks \cup {NULL},
               SetFrameCallback(t, o)
        PROVE  CallTypeOK'
    BY <2>1 DEF SetFrameCallback, ReplaceBegin
  <2>2. ASSUME NEW w \in Windows \cup {NULL}, SetCaptureDisplay(w)
        PROVE  CallTypeOK'
    <3>1. /\ sets' = sets + 1 /\ sessions' = sessions
          /\ arg' = [arg EXCEPT !["setter"] = w]
      BY <2>2 DEF SetCaptureDisplay, ReplaceBegin
    <3> QED
      BY <3>1 DEF Callers
  <2> QED
    BY <1>1, <1>4, <2>1, <2>2
       DEF Replace, ReplaceResume, ReplaceDrop, CallbackAssign, WindowInstall
<1>5. CASE Start
  BY <1>5 DEF Start, StartBegin, StartCreate, callVars
<1>6. CASE Stop
  BY <1>1, <1>6 DEF Stop, StopCall, StopBegin, StopSignal, StopJoinCapture,
       StopJoinPreview, StopClearPreview, StopClearCapture, StopReleasePreview,
       StopReleaseCapture
<1>7. ASSUME NEW w \in Windows \cup {NULL}, SetPreviewDisplay(w)
      PROVE  CallTypeOK'
  BY <1>7 DEF SetPreviewDisplay
<1> QED
  BY <1>1, <1>2, <1>3, <1>4, <1>5, <1>6, <1>7 DEF Next, SpuriousWakeup, vars

LEMMA AcquireKeeps ==
  ASSUME TargetTypeOK, NEW x \in Windows \cup Callbacks \cup {NULL},
         Acquire(x) \/ Release(x)
  PROVE  refs' \in [Windows \cup Callbacks -> Int]
BY DEF TargetTypeOK, Acquire, Release

LEMMA TargetType ==
  ASSUME TargetTypeOK, ArgTypeOK, [Next]_vars
  PROVE  TargetTypeOK'
<1> USE DEF TargetTypeOK
<1>1. CASE UNCHANGED targetVars
  BY <1>1 DEF targetVars
<1>2. CASE Uvc \/ PreviewThread
  BY <1>1, <1>2, UvcLeaves, PreviewLeaves
<1>3. ASSUME NEW c \in CaptureThreads, CaptureThread(c) PROVE TargetTypeOK'
  <2>1. CASE LeaveRelease(c)
    BY <2>1 DEF LeaveRelease
  <2>2. CASE LeaveForget(c)
    BY <2>2 DEF LeaveForget
  <2> QED
    BY <1>1, <1>3, <2>1, <2>2 DEF CaptureThread, CaptureClear, CaptureRunning,
       CaptureMark, CaptureChoose, CaptureTest, WaitCaptureFrame, CaptureResume,
       CaptureConvert, CopyBegin, CopyEnd, CallbackFrame, CallbackConverted,
       CallBegin, CallEnd, CallbackRecycle, CaptureBroadcast
<1>4. CASE Replace
  <2>1. ASSUME NEW t \in Callers, NEW o \in Callbacks \cup {NULL},
               SetFrameCallback(t, o)
        PROVE  TargetTypeOK'
    BY <2>1, AcquireKeeps DEF SetFrameCallback, ReplaceBegin
  <2>2. ASSUME NEW w \in Windows \cup {NULL}, SetCaptureDisplay(w)
        PROVE  TargetTypeOK'
    BY <2>2, AcquireKeeps DEF SetCaptureDisplay, ReplaceBegin
  <2>3. ASSUME NEW t, NEW x \in Windows \cup Callbacks \cup {NULL}, NEW a, NEW b,
               NEW d, ReplaceDrop(t, x, a, b, d)
        PROVE  TargetTypeOK'
    BY <2>3, AcquireKeeps DEF ReplaceDrop
  <2>4. ASSUME NEW t \in Callers, CallbackAssign(t)
        PROVE  TargetTypeOK'
    BY <2>4 DEF CallbackAssign, ArgTypeOK, Goto
  <2>5. CASE WindowInstall
    BY <2>5 DEF WindowInstall, ArgTypeOK, Callers, Goto
  <2> QED
    BY <1>1, <1>4, <2>1, <2>2, <2>3, <2>4, <2>5 DEF Replace, ReplaceResume
<1>5. CASE Start
  BY <1>1, <1>5 DEF Start, StartBegin, StartCreate
<1>6. CASE Stop
  <2>1. CASE StopReleasePreview
    BY <2>1, AcquireKeeps DEF StopReleasePreview
  <2>2. CASE StopReleaseCapture
    BY <2>2, AcquireKeeps DEF StopReleaseCapture
  <2> QED
    BY <1>1, <1>6, <2>1, <2>2 DEF Stop, StopCall, StopBegin, StopSignal,
       StopJoinCapture, StopJoinPreview, StopClearPreview, StopClearCapture
<1>7. ASSUME NEW w \in Windows \cup {NULL}, SetPreviewDisplay(w)
      PROVE  TargetTypeOK'
  BY <1>7, AcquireKeeps DEF SetPreviewDisplay
<1> QED
  BY <1>1, <1>2, <1>3, <1>4, <1>5, <1>6, <1>7 DEF Next, SpuriousWakeup, vars

\* The call that is going on keeps its argument.
LEMMA ArgType ==
  ASSUME ArgTypeOK, CallTypeOK, SessionTypeOK, PcTypeOK, [Next]_vars
  PROVE  ArgTypeOK'
<1> USE DEF ArgTypeOK
<1>0. /\ Callers = {"main", "setter"} /\ Callers \subseteq Threads
      /\ Callers \cap CaptureThreads = {}
      /\ {"uvc", "preview"} \cap Callers = {}
  BY DEF Callers, Threads
<1>1. CASE UNCHANGED <<arg, pc>>
  BY <1>1
<1>2. ASSUME UNCHANGED arg, \A t \in Callers : pc'[t] = pc[t]
      PROVE  ArgTypeOK'
  BY <1>2
<1>3. CASE Uvc
  BY <1>0, <1>2, <1>3, UvcLeaves
     DEF Uvc, UvcDeliver, UvcLose, UvcAdd, UvcDrop, Goto, PcTypeOK, callVars
<1>4. CASE PreviewThread
  <2>1. \A t \in Callers : pc'[t] = pc[t]
    BY <1>0, <1>4 DEF PreviewThread, Prepare, StartStreaming, PreviewClear,
       CreateCapture, PreviewTest, WaitPreviewFrame, PreviewResume, Decode,
       RecycleMjpeg, DrawConvert, DrawRecycle, Offer, PreviewSignal,
       StopStreaming, TakePreviewFrame, Goto, PcTypeOK
  <2> QED
    BY <1>2, <1>4, <2>1, PreviewLeaves DEF callVars
<1>5. ASSUME NEW c \in CaptureThreads, CaptureThread(c) PROVE ArgTypeOK'
  <2>1. \A t \in Callers : pc'[t] = pc[t]
    BY <1>0, <1>5 DEF CaptureThread, CaptureClear, CaptureRunning, CaptureMark,
       CaptureChoose, CaptureTest, WaitCaptureFrame, CaptureResume,
       CaptureConvert, CopyBegin, CopyEnd, CallbackFrame, CallbackConverted,
       CallBegin, CallEnd, CallbackRecycle, LeaveRelease, LeaveForget,
       CaptureBroadcast, TakeCaptureFrame, Goto, PcTypeOK
  <2> QED
    BY <1>2, <1>5, <2>1, CaptureLeaves DEF callVars
<1>6. CASE Replace
  <2>1. ASSUME NEW t \in Callers, NEW o \in Callbacks \cup {NULL},
               SetFrameCallback(t, o)
        PROVE  ArgTypeOK'
    <3>1. /\ \E to \in {"waitCallback", "delete"} : pc' = [pc EXCEPT ![t] = to]
          /\ arg' = [arg EXCEPT ![t] = o]
      BY <2>1 DEF SetFrameCallback, ReplaceBegin, Goto
    <3> QED
      BY <1>0, <3>1 DEF PcTypeOK, CallTypeOK
  <2>2. ASSUME NEW w \in Windows \cup {NULL}, SetCaptureDisplay(w)
        PROVE  ArgTypeOK'
    <3>1. /\ \E to \in {"waitWindow", "release"} :
               pc' = [pc EXCEPT !["setter"] = to]
          /\ arg' = [arg EXCEPT !["setter"] = w]
      BY <2>2 DEF SetCaptureDisplay, ReplaceBegin, Goto
    <3> QED
      BY <1>0, <3>1 DEF PcTypeOK, CallTypeOK
  <2>3. ASSUME NEW t \in Callers,
               \/ ReplaceResume(t, "waitCallback", "delete")
               \/ ReplaceDrop(t, mFrameCallbackObj, "delete", "assign",
                              AfterCallback(t))
               \/ CallbackAssign(t)
        PROVE  ArgTypeOK'
    <3>1. UNCHANGED arg
      BY <2>3 DEF ReplaceResume, ReplaceDrop, CallbackAssign, callVars
    <3>2. /\ pc[t] \in {"waitCallback", "delete", "assign"}
          /\ \E to \in {"delete", "assign", "idle", "stop"} :
               pc' = [pc EXCEPT ![t] = to]
      BY <2>3 DEF ReplaceResume, ReplaceDrop, CallbackAssign, AfterCallback, Goto
    <3> QED
      BY <1>0, <3>1, <3>2 DEF PcTypeOK
  <2>4. ASSUME \/ ReplaceResume("setter", "waitWindow", "release")
               \/ ReplaceDrop("setter", mCaptureWindow, "release", "install", "idle")
               \/ WindowInstall
        PROVE  ArgTypeOK'
    <3>1. UNCHANGED arg
      BY <2>4 DEF ReplaceResume, ReplaceDrop, WindowInstall, callVars
    <3>2. /\ pc["setter"] \in {"waitWindow", "release", "install"}
          /\ \E to \in {"release", "install", "idle"} :
               pc' = [pc EXCEPT !["setter"] = to]
      BY <2>4 DEF ReplaceResume, ReplaceDrop, WindowInstall, Goto
    <3> QED
      BY <1>0, <3>1, <3>2 DEF PcTypeOK
  <2> QED
    BY <1>6, <2>1, <2>2, <2>3, <2>4 DEF Replace
<1>7. CASE Start \/ Stop
  <2>1. UNCHANGED arg
    BY <1>7 DEF Start, StartBegin, StartCreate, Stop, StopCall, StopBegin,
       StopSignal, StopJoinCapture, StopJoinPreview, StopClearPreview,
       StopClearCapture, StopReleasePreview, StopReleaseCapture, callVars
  <2>2. /\ pc'["setter"] = pc["setter"]
        /\ pc'["main"] \notin {"waitCallback", "delete", "assign",
                              "waitWindow", "release", "install"}
    BY <1>0, <1>7 DEF Start, StartBegin, StartCreate, Stop, StopCall, StopBegin,
       StopSignal, StopJoinCapture, StopJoinPreview, StopClearPreview,
       StopClearCapture, StopReleasePreview, StopReleaseCapture, Goto, PcTypeOK,
       SessionTypeOK
  <2> QED
    BY <1>0, <2>1, <2>2
<1> QED
  BY <1>1, <1>3, <1>4, <1>5, <1>6, <1>7
     DEF Next, SpuriousWakeup, SetPreviewDisplay, vars, callVars

\* Lifecycle, one component at a time.
LEMMA UvcLifecycle ==
  ASSUME TypeOK, Lifecycle, Uvc
  PROVE  Lifecycle'
<1> USE SlotFacts
<1>0. /\ "main" \in Threads /\ "preview" \in Threads /\ "uvc" \in Threads
      /\ NULL \notin Frames
      /\ PcTypeOK /\ FrameTypeOK
  BY StateFacts, FramePoolAssumption DEF TypeOK
<1>1. /\ UNCHANGED <<mIsRunning, streaming>>
      /\ pc'["main"] = pc["main"] /\ pc'["preview"] = pc["preview"]
      /\ hold'[CaptureQueu] = hold[CaptureQueu]
  BY <1>0, UvcLeaves DEF Uvc, UvcDeliver, UvcLose, UvcAdd, UvcDrop, Goto,
     GetInto, RecycleSlot, PutFrom, FrameTypeOK, PcTypeOK, sessionVars, frameVars
<1>2. streaming
  BY DEF Lifecycle, Uvc, UvcDeliver, UvcLose, UvcAdd, UvcDrop, Goto
<1>3. pc["preview"] # "none"
  BY <1>2 DEF Lifecycle, StreamingStates
<1>4. pc'["uvc"] = "add" => hold'[Copy] # NULL
  BY <1>0 DEF Uvc, UvcDeliver, UvcLose, UvcAdd, UvcDrop, Goto, GetInto, GetFrame,
     FrameTypeOK, PcTypeOK
<1> QED
  BY <1>1, <1>2, <1>3, <1>4 DEF Lifecycle

LEMMA PreviewLifecycle ==
  ASSUME TypeOK, Lifecycle, PreviewThread
  PROVE  Lifecycle'
<1> USE SlotFacts
<1>0. /\ "main" \in Threads /\ "preview" \in Threads /\ "uvc" \in Threads
      /\ {"main", "preview", "uvc"} \cap CaptureThreads = {}
      /\ PcTypeOK /\ FrameTypeOK
  BY StateFacts DEF TypeOK
<1>1. /\ UNCHANGED mIsRunning
      /\ pc'["main"] = pc["main"] /\ pc'["uvc"] = pc["uvc"]
      /\ pc["preview"] # "none"
      /\ pc'["preview"] # "none"
  BY <1>0, PreviewLeaves DEF PreviewThread, Prepare, StartStreaming, PreviewClear,
     CreateCapture, PreviewTest, WaitPreviewFrame, PreviewResume, TakePreviewFrame,
     Decode, RecycleMjpeg, DrawConvert, DrawRecycle, Offer,
     PreviewSignal, StopStreaming, Goto, PcTypeOK
<1>2. hold'[Copy] = hold[Copy]
  BY <1>0 DEF PreviewThread, Prepare, StartStreaming, PreviewClear,
     CreateCapture, PreviewTest, WaitPreviewFrame, PreviewResume, TakePreviewFrame,
     Decode, RecycleMjpeg, DrawConvert, DrawRecycle, Offer, GetInto,
     RecycleSlot, TakeInto, ClearQueue, PreviewSignal, StopStreaming,
     FrameTypeOK, frameVars
<1>3. CASE StartStreaming \/ StopStreaming
  BY <1>0, <1>1, <1>2, <1>3
     DEF Lifecycle, StartStreaming, StopStreaming, StreamingStates, Goto, PcTypeOK
<1>4. CASE ~StartStreaming /\ ~StopStreaming
  <2>1. UNCHANGED streaming
    BY <1>4 DEF PreviewThread, Prepare, PreviewClear, CreateCapture, PreviewTest,
       WaitPreviewFrame, PreviewResume, Decode, RecycleMjpeg, DrawConvert,
       DrawRecycle, Offer, PreviewSignal, sessionVars
  <2>2. pc["preview"] \in StreamingStates => pc'["preview"] \in StreamingStates
    BY <1>0, <1>4 DEF PreviewThread, Prepare, PreviewClear,
       CreateCapture, PreviewTest, WaitPreviewFrame, PreviewResume,
       TakePreviewFrame, Decode, RecycleMjpeg, DrawConvert, DrawRecycle,
       Offer, PreviewSignal, Goto, PcTypeOK, StreamingStates
  <2> QED
    BY <1>1, <1>2, <2>1, <2>2 DEF Lifecycle
<1> QED
  BY <1>3, <1>4

LEMMA CaptureLifecycle ==
  ASSUME TypeOK, Lifecycle, NEW c \in CaptureThreads, CaptureThread(c)
  PROVE  Lifecycle'
<1> USE SlotFacts, CaptureSlotFacts
<1>0. /\ "main" \in Threads /\ "preview" \in Threads /\ "uvc" \in Threads
      /\ {"main", "preview", "uvc"} \cap CaptureThreads = {}
      /\ PcTypeOK /\ FrameTypeOK
  BY StateFacts DEF TypeOK
<1>1. \A t \in {"main", "preview", "uvc"} : pc'[t] = pc[t]
  BY <1>0 DEF CaptureThread, CaptureClear, CaptureRunning, CaptureMark,
     CaptureChoose, CaptureTest, WaitCaptureFrame, CaptureResume, CaptureConvert,
     CopyBegin, CopyEnd, CallbackFrame, CallbackConverted, CallBegin, CallEnd,
     CallbackRecycle, LeaveRelease, LeaveForget, CaptureBroadcast,
     TakeCaptureFrame, Goto, PcTypeOK
<1>2. hold'[Copy] = hold[Copy] /\ hold'[CaptureQueu] \in {NULL, hold[CaptureQueu]}
  BY <1>0 DEF CaptureThread, CaptureClear, CaptureRunning, CaptureMark,
     CaptureChoose, CaptureTest, WaitCaptureFrame, CaptureResume, CaptureConvert,
     CopyBegin, CopyEnd, CallbackFrame, CallbackConverted, CallBegin, CallEnd,
     CallbackRecycle, LeaveRelease, LeaveForget, CaptureBroadcast,
     TakeCaptureFrame, GetInto, RecycleSlot, MoveFrame, FrameTypeOK, frameVars
<1> QED
  BY <1>1, <1>2, CaptureLeaves DEF Lifecycle

LEMMA CallerLifecycle ==
  ASSUME TypeOK, Lifecycle, Caller
  PROVE  Lifecycle'
<1> USE SlotFacts
<1>0. /\ {"main", "setter", "preview", "uvc"} \subseteq Threads
      /\ {"main", "setter", "preview", "uvc"} \cap CaptureThreads = {}
      /\ PcTypeOK /\ FrameTypeOK /\ SessionTypeOK
      /\ Callers = {"main", "setter"}
  BY StateFacts DEF TypeOK, Callers
<1>1. CASE UNCHANGED <<mIsRunning, streaming, frameVars, pc>>
  BY <1>1 DEF Lifecycle, frameVars
<1>2. CASE Replace
  <2>1. UNCHANGED <<mIsRunning, streaming, frameVars>>
    BY <1>2 DEF Replace, SetFrameCallback, SetCaptureDisplay, ReplaceBegin,
       ReplaceResume, ReplaceDrop, CallbackAssign, WindowInstall, flagVars,
       sessionVars
  <2>2. pc'["preview"] = pc["preview"] /\ pc'["uvc"] = pc["uvc"]
    BY <1>0, <1>2 DEF Replace, SetFrameCallback, SetCaptureDisplay, ReplaceBegin,
       ReplaceResume, ReplaceDrop, CallbackAssign, WindowInstall, Goto, PcTypeOK
  <2>3. \/ pc'["main"] = pc["main"]
        \/ /\ pc["main"] \in {"unset", "waitCallback", "delete", "assign"}
           /\ pc'["main"] \in {"waitCallback", "delete", "assign", "stop"}
    BY <1>0, <1>2 DEF Replace, SetFrameCallback, SetCaptureDisplay, ReplaceBegin,
       ReplaceResume, ReplaceDrop, CallbackAssign, WindowInstall, AfterCallback,
       Goto, PcTypeOK
  <2> QED
    BY <2>1, <2>2, <2>3 DEF Lifecycle, Joining, Clearing, frameVars
<1>3. CASE Start
  <2>1. UNCHANGED <<streaming, frameVars>>
    BY <1>3 DEF Start, StartBegin, StartCreate, sessionVars
  <2>2. pc["preview"] = "none"
    BY <1>3 DEF Start, StartBegin, StartCreate, Lifecycle, Joining, Goto
  <2>3. ~streaming /\ pc["uvc"] = "idle" /\ previewFrames = <<>>
          /\ hold[CaptureQueu] = NULL
    BY <1>3, <2>2
       DEF Start, StartBegin, StartCreate, Lifecycle, StreamingStates, Goto
  <2>4. CASE StartBegin
    BY <1>0, <2>1, <2>2, <2>3, <2>4
       DEF StartBegin, Lifecycle, Joining, Clearing, Goto, PcTypeOK, frameVars
  <2>5. CASE StartCreate
    <3>1. pc'["uvc"] = "idle" /\ pc'["main"] = "idle"
            /\ (pc'["preview"] # "none" => mIsRunning')
      BY <1>0, <2>2, <2>3, <2>5 DEF StartCreate, Goto, PcTypeOK, Lifecycle, Clearing
    <3> QED
      BY <2>1, <2>2, <2>3, <3>1 DEF Lifecycle, Joining, Clearing, frameVars
  <2> QED
    BY <1>3, <2>4, <2>5 DEF Start
<1>4. CASE StopCall \/ StopBegin \/ StopSignal \/ StopReleasePreview
             \/ StopReleaseCapture
  BY <1>0, <1>4 DEF StopCall, StopBegin, StopSignal, StopReleasePreview,
     StopReleaseCapture, Lifecycle, Joining, Clearing, Goto, PcTypeOK, flagVars,
     sessionVars, frameVars
<1>5. CASE StopJoinCapture \/ StopJoinPreview
  BY <1>0, <1>5 DEF StopJoinCapture, StopJoinPreview, Lifecycle, Joining, Clearing,
     StreamingStates, SessionTypeOK, Goto, PcTypeOK, flagVars, sessionVars,
     frameVars
<1>6. CASE StopClearPreview \/ StopClearCapture
  BY <1>0, <1>6 DEF StopClearPreview, StopClearCapture, ClearQueue, RecycleSlot,
     Lifecycle, Joining, Clearing, Goto, PcTypeOK, FrameTypeOK, flagVars,
     sessionVars, frameVars
<1> QED
  BY <1>1, <1>2, <1>3, <1>4, <1>5, <1>6
     DEF Caller, Stop, SpuriousWakeup, SetPreviewDisplay, flagVars, sessionVars

(***************************************************************************)
(* The inductive invariant, and what follows from it.                      *)
(***************************************************************************)

\* Ownership of the frames needs the life cycle (the copy that is queued
\* exists), which needs the types.
IInv == TypeOK /\ FrameOwnership /\ Lifecycle

LEMMA InitIInv == Init => IInv
<1> SUFFICES ASSUME Init PROVE IInv
  OBVIOUS
<1> USE DEF Init
<1>1. FrameInv
  BY InitKeeps
<1>2. FlagTypeOK /\ SyncTypeOK /\ SessionTypeOK /\ CaptureTypeOK
  BY DEF FlagTypeOK, SyncTypeOK, SessionTypeOK, CaptureTypeOK
<1>3. CallTypeOK /\ TargetTypeOK
  BY DEF CallTypeOK, TargetTypeOK
<1>4. PcTypeOK
  <2>1. "idle" \in States /\ "none" \in States
    BY DEF States, CallerStates, PreviewStates
  <2> QED
    BY <2>1 DEF PcTypeOK
<1>5. pc["main"] = "idle" /\ pc["setter"] = "idle" /\ pc["uvc"] = "idle"
        /\ pc["preview"] = "none"
  BY DEF Threads, Callers
<1>6. ArgTypeOK
  BY <1>5 DEF ArgTypeOK, Callers
<1>7. hold[CaptureQueu] = NULL /\ previewFrames = <<>>
  BY SlotFacts DEF InitFrames
<1>8. Lifecycle
  BY <1>5, <1>7 DEF Lifecycle, Joining, Clearing
<1> QED
  BY <1>1, <1>2, <1>3, <1>4, <1>6, <1>8 DEF IInv, TypeOK, FrameInv

LEMMA NextIInv == IInv /\ [Next]_vars => IInv'
<1> SUFFICES ASSUME IInv, [Next]_vars PROVE IInv'
  OBVIOUS
<1> USE DEF IInv
<1>1. FrameInv'
  BY FrameStep DEF FrameInv, TypeOK
<1>2. PcTypeOK'
  <2>1. CASE UNCHANGED vars
    BY <2>1 DEF TypeOK, PcTypeOK, vars
  <2> QED
    BY <2>1, UvcPc, PreviewPc, CapturePc, CallerPc DEF TypeOK, Next, Caller
<1>3. TypeOK'
  BY <1>1, <1>2, FlagType, TargetType, SyncType, SessionType, CaptureType, CallType,
     ArgType DEF TypeOK, FrameInv
<1>4. Lifecycle'
  <2>1. CASE UNCHANGED vars
    BY <2>1 DEF Lifecycle, vars, flagVars, sessionVars, frameVars
  <2> QED
    BY <2>1, UvcLifecycle, PreviewLifecycle, CaptureLifecycle, CallerLifecycle
       DEF Next, Caller
<1> QED
  BY <1>1, <1>3, <1>4 DEF FrameInv

LEMMA InvariantIInv == Spec => []IInv
BY InitIInv, NextIInv, PTL DEF Spec

\* Every variable of the preview has its type, whatever the callers do and
\* however the threads interleave.
THEOREM TypeCorrect == Spec => []TypeOK
BY InvariantIInv, PTL DEF IInv

\* No frame buffer is ever reachable from two places: no thread writes a frame
\* another one reads, and recycle_frame never gets the same frame twice.
THEOREM FramesAreOwned == Spec => []FrameOwnership
BY InvariantIInv, PTL DEF IInv

\* When stopPreview has returned and nothing was started since, the preview
\* thread is joined, the stream is stopped and both queues are empty.
THEOREM StopIsComplete == Spec => []StoppedIsQuiescent
<1>1. Lifecycle => StoppedIsQuiescent
  BY DEF Lifecycle, StoppedIsQuiescent, Joining, Clearing, StreamingStates
<1> QED
  BY <1>1, InvariantIInv, PTL DEF IInv

(***************************************************************************)
(* The limits of the queue and of the pool.                                *)
(***************************************************************************)

\* Every action treats the pool and the queue in one of the ways BoundsKept
\* allows.
LEMMA SlotsRecycle ==
  ASSUME FrameTypeOK
  PROVE  /\ \A s \in Slots : FrameOf(s) \in SUBSET Frames
         /\ \A s \in Slots : RecycleSlot(s) => PoolStep
         /\ \A s \in Slots : GetInto(s) => PoolStep
         /\ ClearQueue => PoolStep
<1>1. \A s \in Slots : FrameOf(s) \in SUBSET Frames
  BY DEF FrameTypeOK, FrameOf
<1>2. Queued \in SUBSET Frames
  BY DEF FrameTypeOK, Queued
<1>3. \A s : GetInto(s) => mFramePool' \subseteq mFramePool
  BY DEF GetInto, GetFrame
<1> QED
  BY <1>1, <1>2, <1>3 DEF RecycleSlot, ClearQueue, PoolStep

LEMMA BoundsStep ==
  ASSUME FrameTypeOK, Lifecycle, FrameBounds, [Next]_vars
  PROVE  FrameBounds'
<1> USE SlotFacts, SlotsRecycle
<1>1. CASE UNCHANGED <<mFramePool, previewFrames>>
  BY <1>1, BoundsKept DEF PoolStep, QueueStep
<1>2. CASE Uvc
  <2>1. PoolStep
    BY <1>2 DEF Uvc, UvcDeliver, UvcLose, UvcAdd, UvcDrop, PutFrom, NoFrame,
       PoolStep, frameVars
  <2>2. QueueStep
    BY <1>2 DEF Uvc, UvcDeliver, UvcLose, UvcAdd, UvcDrop, PutFrom, QueueStep,
       Lifecycle, FrameTypeOK, Goto, frameVars
  <2> QED
    BY <2>1, <2>2, BoundsKept
<1>3. CASE PreviewThread
  <2>1. PoolStep
    <3>1. CASE mFramePool' \subseteq mFramePool
      BY <3>1 DEF PoolStep
    <3>2. CASE Offer
      BY <3>2 DEF Offer, PoolStep
    <3> QED
      BY <1>3, <3>1, <3>2 DEF PreviewThread, Prepare, StartStreaming, PreviewClear,
         CreateCapture, PreviewTest, WaitPreviewFrame, PreviewResume,
         TakePreviewFrame, TakeInto, Decode, RecycleMjpeg, DrawConvert,
         NoFrame, DrawRecycle, PreviewSignal, StopStreaming, frameVars
  <2>2. QueueStep
    BY <1>3 DEF PreviewThread, Prepare, StartStreaming, PreviewClear, CreateCapture,
       PreviewTest, WaitPreviewFrame, PreviewResume, TakePreviewFrame, TakeInto,
       Decode, RecycleMjpeg, DrawConvert, DrawRecycle, Offer, ClearQueue,
       PreviewSignal, StopStreaming, QueueStep, frameVars
  <2> QED
    BY <2>1, <2>2, BoundsKept
<1>4. ASSUME NEW c \in CaptureThreads, CaptureThread(c) PROVE FrameBounds'
  <2>1. PoolStep
    <3>1. CASE mFramePool' \subseteq mFramePool
      BY <3>1 DEF PoolStep
    <3> QED
      BY <1>4, <3>1, CaptureSlotFacts DEF CaptureThread, CaptureClear,
         CaptureRunning, CaptureMark, CaptureChoose, CaptureTest, WaitCaptureFrame,
         CaptureResume, CaptureConvert, CopyBegin, CopyEnd, CallbackFrame,
         CallbackConverted, CallBegin, CallEnd, CallbackRecycle, LeaveRelease,
         LeaveForget, CaptureBroadcast, TakeCaptureFrame, MoveFrame, NoFrame,
         frameVars
  <2> QED
    BY <1>4, <2>1, CaptureLeaves, BoundsKept DEF QueueStep
<1>5. CASE Caller
  <2>1. CASE StopClearPreview \/ StopClearCapture
    BY <2>1, BoundsKept DEF StopClearPreview, StopClearCapture, ClearQueue,
       QueueStep
  <2>2. CASE Replace
    BY <1>1, <2>2 DEF Replace, SetFrameCallback, SetCaptureDisplay, ReplaceBegin,
       ReplaceResume, ReplaceDrop, CallbackAssign, WindowInstall, frameVars
  <2> QED
    BY <1>1, <1>5, <2>1, <2>2 DEF Caller, Start, StartBegin, StartCreate, Stop,
       StopCall, StopBegin, StopSignal, StopJoinCapture, StopJoinPreview,
       StopReleasePreview, StopReleaseCapture, SpuriousWakeup, SetPreviewDisplay,
       frameVars
<1> QED
  BY <1>1, <1>2, <1>3, <1>4, <1>5 DEF Next, Caller, vars, frameVars

\* The queue never holds more than MAX_FRAME frames and the pool never more
\* than FRAME_POOL_SZ: the frames beyond are recycled or freed.
THEOREM FramesAreBounded == Spec => []FrameBounds
<1>1. Init => FrameBounds
  BY FS_EmptySet, FramePoolAssumption
     DEF Init, InitFrames, FrameBounds, FRAME_POOL_SZ
<1>2. IInv /\ FrameBounds /\ [Next]_vars => FrameBounds'
  BY BoundsStep DEF IInv, TypeOK
<1> QED
  BY <1>1, <1>2, InvariantIInv, PTL DEF Spec

(***************************************************************************)
(* The frames that are lost.                                               *)
(***************************************************************************)

\* Which slots are empty, thread by thread: a slot is only filled when its
\* frame was passed on, so that no frame is lost by overwriting.
UvcVacant == pc["uvc"] = "idle" => hold[Copy] = NULL

PreviewVacant ==
  /\ pc["preview"] \notin {"decode", "decoded"} => hold[Mjpeg] = NULL
  /\ pc["preview"] \notin {"decoded", "draw", "copy", "offer"} =>
       hold[Frame] = NULL
  /\ pc["preview"] # "copy" => hold[Converted] = NULL

CaptureVacant(c) ==
  /\ pc[c] \notin {"convert", "copy", "copied", "callback", "converted"} =>
       hold[CapFrame(c)] = NULL
  /\ pc[c] \notin {"converted", "call", "return", "recycle"} =>
       hold[CapCallback(c)] = NULL

Vacant ==
  UvcVacant /\ PreviewVacant /\ \A c \in CaptureThreads : CaptureVacant(c)

\* The slots of different threads are different.
LEMMA OwnSlots ==
  /\ {Copy, CaptureQueu} \cap {Mjpeg, Frame, Converted} = {}
  /\ Mjpeg # Frame /\ Mjpeg # Converted /\ Frame # Converted
  /\ \A c \in CaptureThreads :
       /\ {CapFrame(c), CapConverted(c), CapCallback(c)}
            \cap {Copy, CaptureQueu, Mjpeg, Frame, Converted} = {}
       /\ CapFrame(c) # CapConverted(c) /\ CapFrame(c) # CapCallback(c)
       /\ CapConverted(c) # CapCallback(c)
       /\ \A d \in CaptureThreads \ {c} :
            {CapFrame(c), CapConverted(c), CapCallback(c)}
              \cap {CapFrame(d), CapConverted(d), CapCallback(d)} = {}
BY DEF CaptureQueu, Copy, Mjpeg, Frame, Converted, CapFrame, CapConverted,
   CapCallback

LEMMA UvcVacates ==
  ASSUME TypeOK, Vacant, Uvc
  PROVE  Vacant'
<1> USE SlotFacts, CaptureSlotFacts, OwnSlots
<1>0. /\ {"uvc", "preview"} \subseteq Threads /\ CaptureThreads \subseteq Threads
      /\ "uvc" \notin CaptureThreads
      /\ PcTypeOK /\ FrameTypeOK
  BY StateFacts DEF TypeOK
<1>1. /\ \A s \in Slots \ {Copy} : hold'[s] = hold[s]
      /\ \A t \in Threads \ {"uvc"} : pc'[t] = pc[t]
  BY <1>0 DEF Uvc, UvcDeliver, UvcLose, UvcAdd, UvcDrop, Goto, GetInto,
     RecycleSlot, PutFrom, FrameTypeOK, PcTypeOK, frameVars
<1>2. UvcVacant'
  BY <1>0 DEF Uvc, UvcDeliver, UvcLose, UvcAdd, UvcDrop, Goto, RecycleSlot,
     PutFrom, FrameTypeOK, PcTypeOK, Vacant, UvcVacant
<1>3. PreviewVacant'
  BY <1>0, <1>1 DEF Vacant, PreviewVacant
<1>4. ASSUME NEW c \in CaptureThreads PROVE CaptureVacant(c)'
  BY <1>0, <1>1 DEF Vacant, CaptureVacant
<1> QED
  BY <1>2, <1>3, <1>4 DEF Vacant

LEMMA PreviewVacates ==
  ASSUME TypeOK, Vacant, PreviewThread
  PROVE  Vacant'
<1> USE SlotFacts, CaptureSlotFacts, OwnSlots
<1>0. /\ {"uvc", "preview"} \subseteq Threads /\ CaptureThreads \subseteq Threads
      /\ {"uvc", "preview"} \cap CaptureThreads = {}
      /\ PcTypeOK /\ FrameTypeOK
  BY StateFacts DEF TypeOK
<1>1. \A s \in Slots \ {CaptureQueu, Mjpeg, Frame, Converted} :
        hold'[s] = hold[s]
  BY <1>0 DEF PreviewThread, Prepare, StartStreaming, PreviewClear,
     CreateCapture, PreviewTest, WaitPreviewFrame, PreviewResume,
     TakePreviewFrame, TakeInto, Decode, RecycleMjpeg, DrawConvert,
     DrawRecycle, Offer, PreviewSignal, StopStreaming, ClearQueue, GetInto,
     RecycleSlot, FrameTypeOK, frameVars
<1>2. \A t \in Threads \ {"preview"} :
        pc'[t] = pc[t] \/ (t \in CaptureThreads /\ pc[t] = "none")
  BY <1>0 DEF PreviewThread, Prepare, StartStreaming, PreviewClear,
     CreateCapture, PreviewTest, WaitPreviewFrame, PreviewResume,
     TakePreviewFrame, Decode, RecycleMjpeg, DrawConvert, DrawRecycle, Offer,
     PreviewSignal, StopStreaming, Goto, PcTypeOK
<1>3. UvcVacant'
  BY <1>0, <1>1, <1>2 DEF Vacant, UvcVacant
<1>4. PreviewVacant'
  <2> USE DEF Vacant, PreviewVacant, Goto, PcTypeOK, FrameTypeOK
  <2>1. CASE \/ Prepare \/ StartStreaming \/ PreviewTest \/ PreviewClear
             \/ PreviewSignal \/ StopStreaming
    BY <1>0, <2>1 DEF Prepare, StartStreaming, PreviewTest, PreviewClear,
       ClearQueue, PreviewSignal, StopStreaming, frameVars
  <2>2. CASE CreateCapture
    BY <1>0, <2>2 DEF CreateCapture, frameVars
  <2>3. CASE WaitPreviewFrame \/ PreviewResume
    BY <1>0, <2>3 DEF WaitPreviewFrame, PreviewResume, TakePreviewFrame,
       TakeInto, frameVars
  <2>4. CASE Decode \/ RecycleMjpeg
    BY <1>0, <2>4 DEF Decode, RecycleMjpeg, GetInto, RecycleSlot
  <2>5. CASE DrawConvert \/ DrawRecycle
    BY <1>0, <2>5 DEF DrawConvert, DrawRecycle, GetInto, RecycleSlot
  <2>6. CASE Offer
    BY <1>0, <2>6 DEF Offer, RecycleSlot
  <2> QED
    BY <2>1, <2>2, <2>3, <2>4, <2>5, <2>6 DEF PreviewThread
<1>5. ASSUME NEW c \in CaptureThreads PROVE CaptureVacant(c)'
  BY <1>0, <1>1, <1>2 DEF Vacant, CaptureVacant
<1> QED
  BY <1>3, <1>4, <1>5 DEF Vacant

LEMMA CaptureVacates ==
  ASSUME TypeOK, Vacant, NEW c \in CaptureThreads, CaptureThread(c)
  PROVE  Vacant'
<1> USE SlotFacts, CaptureSlotFacts, OwnSlots
<1>0. /\ {"uvc", "preview"} \subseteq Threads /\ CaptureThreads \subseteq Threads
      /\ {"uvc", "preview"} \cap CaptureThreads = {}
      /\ PcTypeOK /\ FrameTypeOK
  BY StateFacts DEF TypeOK
<1>1. \A s \in Slots \ {CaptureQueu, CapFrame(c), CapConverted(c),
                        CapCallback(c)} : hold'[s] = hold[s]
  BY <1>0 DEF CaptureThread, CaptureClear, CaptureRunning, CaptureMark,
     CaptureChoose, CaptureTest, WaitCaptureFrame, CaptureResume,
     TakeCaptureFrame, CaptureConvert, CopyBegin, CopyEnd, CallbackFrame,
     CallbackConverted, CallBegin, CallEnd, CallbackRecycle, LeaveRelease,
     LeaveForget, CaptureBroadcast, GetInto, RecycleSlot, MoveFrame,
     FrameTypeOK, frameVars
<1>2. \A t \in Threads \ {c} : pc'[t] = pc[t]
  BY <1>0 DEF CaptureThread, CaptureClear, CaptureRunning, CaptureMark,
     CaptureChoose, CaptureTest, WaitCaptureFrame, CaptureResume,
     TakeCaptureFrame, CaptureConvert, CopyBegin, CopyEnd, CallbackFrame,
     CallbackConverted, CallBegin, CallEnd, CallbackRecycle, LeaveRelease,
     LeaveForget, CaptureBroadcast, Goto, PcTypeOK
<1>3. UvcVacant' /\ PreviewVacant'
  BY <1>0, <1>1, <1>2 DEF Vacant, UvcVacant, PreviewVacant
<1>4. CaptureVacant(c)'
  <2> USE DEF Vacant, CaptureVacant, Goto, PcTypeOK, FrameTypeOK
  <2>1. CASE \/ CaptureRunning(c) \/ CaptureMark(c) \/ CaptureChoose(c)
             \/ CaptureTest(c) \/ LeaveForget(c) \/ CaptureBroadcast(c)
    BY <1>0, <2>1 DEF CaptureRunning, CaptureMark, CaptureChoose, CaptureTest,
       LeaveForget, CaptureBroadcast, frameVars
  <2>2. CASE CopyBegin(c) \/ CopyEnd(c) \/ CallBegin(c) \/ CallEnd(c)
    BY <1>0, <2>2 DEF CopyBegin, CopyEnd, CallBegin, CallEnd, frameVars
  <2>3. CASE WaitCaptureFrame(c) \/ CaptureResume(c)
    BY <1>0, <2>3 DEF WaitCaptureFrame, CaptureResume, TakeCaptureFrame,
       MoveFrame
  <2>4. CASE CaptureConvert(c)
    BY <1>0, <2>4 DEF CaptureConvert, GetInto
  <2>5. CASE CallbackFrame(c)
    BY <1>0, <2>5 DEF CallbackFrame, MoveFrame, GetInto
  <2>6. CASE \/ CaptureClear(c) \/ CallbackConverted(c) \/ CallbackRecycle(c)
             \/ LeaveRelease(c)
    BY <1>0, <2>6 DEF CaptureClear, CallbackConverted, CallbackRecycle,
       LeaveRelease, RecycleSlot
  <2> QED
    BY <2>1, <2>2, <2>3, <2>4, <2>5, <2>6 DEF CaptureThread
<1>5. ASSUME NEW d \in CaptureThreads \ {c} PROVE CaptureVacant(d)'
  BY <1>0, <1>1, <1>2 DEF Vacant, CaptureVacant
<1> QED
  BY <1>3, <1>4, <1>5 DEF Vacant

LEMMA CallerVacates ==
  ASSUME TypeOK, Lifecycle, Vacant, Caller
  PROVE  Vacant'
<1> USE SlotFacts, CaptureSlotFacts, OwnSlots
<1>0. /\ {"main", "setter", "uvc", "preview"} \subseteq Threads
      /\ {"main", "setter", "uvc", "preview"} \cap CaptureThreads = {}
      /\ CaptureThreads \subseteq Threads /\ Callers = {"main", "setter"}
      /\ PcTypeOK /\ FrameTypeOK /\ SessionTypeOK
  BY StateFacts DEF TypeOK, Callers
<1>1. \A s \in Slots \ {CaptureQueu} : hold'[s] = hold[s]
  <2>1. CASE Replace
    BY <2>1 DEF Replace, SetFrameCallback, SetCaptureDisplay, ReplaceBegin,
       ReplaceResume, ReplaceDrop, CallbackAssign, WindowInstall, frameVars
  <2>2. CASE Start \/ Stop
    BY <1>0, <2>2 DEF Start, StartBegin, StartCreate, Stop, StopCall, StopBegin,
       StopSignal, StopJoinCapture, StopJoinPreview, StopClearPreview,
       StopClearCapture, StopReleasePreview, StopReleaseCapture, ClearQueue,
       RecycleSlot, FrameTypeOK, frameVars
  <2> QED
    BY <2>1, <2>2 DEF Caller, SpuriousWakeup, SetPreviewDisplay, frameVars
<1>2. /\ pc'["uvc"] = pc["uvc"]
      /\ \A t \in {"preview"} \cup CaptureThreads :
           pc'[t] # pc[t] => /\ pc[t] \in {"none", "ended"}
                             /\ pc'[t] \in {"none", "prepare"}
  <2>1. CASE Replace
    BY <1>0, <2>1 DEF Replace, SetFrameCallback, SetCaptureDisplay, ReplaceBegin,
       ReplaceResume, ReplaceDrop, CallbackAssign, WindowInstall, Goto,
       PcTypeOK
  <2>2. CASE Start
    BY <1>0, <2>2 DEF Start, StartBegin, StartCreate, Goto, PcTypeOK, Lifecycle,
       Clearing
  <2>3. CASE Stop
    BY <1>0, <2>3 DEF Stop, StopCall, StopBegin, StopSignal, StopJoinCapture,
       StopJoinPreview, StopClearPreview, StopClearCapture,
       StopReleasePreview, StopReleaseCapture, Goto, PcTypeOK, SessionTypeOK
  <2> QED
    BY <2>1, <2>2, <2>3 DEF Caller, SpuriousWakeup, SetPreviewDisplay
<1> QED
  BY <1>0, <1>1, <1>2 DEF Vacant, UvcVacant, PreviewVacant, CaptureVacant


LEMMA VacantStep ==
  ASSUME IInv, Vacant, [Next]_vars
  PROVE  Vacant'
<1>1. CASE UNCHANGED vars
  BY <1>1 DEF Vacant, UvcVacant, PreviewVacant, CaptureVacant, vars, frameVars
<1> QED
  BY <1>1, UvcVacates, PreviewVacates, CaptureVacates, CallerVacates
     DEF IInv, Next, Caller

\* The one step that loses a frame: addCaptureFrame, once the session is over.
OfferDropped ==
  /\ Offer
  /\ frameMode = "YUYV" /\ ~mIsRunning
  /\ Leaked' \subseteq Leaked \cup {hold[Frame]}

LEMMA UvcLoses ==
  ASSUME IInv, Vacant, Uvc
  PROVE  Leaked' \subseteq Leaked
<1> USE SlotFacts
<1>0. FrameInv
  BY DEF IInv, TypeOK, FrameInv
<1>1. CASE UNCHANGED frameVars
  BY <1>1, UnchangedLoses
<1>2. ASSUME pc["uvc"] = "idle", GetInto(Copy), UNCHANGED previewFrames
      PROVE  Leaked' \subseteq Leaked
  BY <1>0, <1>2, GetLoses DEF Vacant, UvcVacant
<1>3. CASE pc["uvc"] = "add" /\ PutFrom(Copy)
  BY <1>0, <1>3, PutLoses DEF IInv, Lifecycle
<1>4. CASE UvcDrop
  BY <1>0, <1>4, RecycleLoses DEF UvcDrop
<1> QED
  BY <1>1, <1>2, <1>3, <1>4 DEF Uvc, UvcDeliver, UvcLose, UvcAdd, NoFrame,
     Goto, frameVars

LEMMA PreviewLoses ==
  ASSUME IInv, Vacant, PreviewThread
  PROVE  Leaked' \subseteq Leaked \/ OfferDropped
<1> USE SlotFacts
<1>0. FrameInv /\ PreviewVacant
  BY DEF IInv, TypeOK, FrameInv, Vacant
<1>1. CASE UNCHANGED frameVars
  BY <1>1, UnchangedLoses
<1>2. CASE PreviewClear
  BY <1>0, <1>2, ClearLoses DEF PreviewClear
<1>3. ASSUME pc["preview"] \in {"wait", "blocked"}, TakePreviewFrame
      PROVE  Leaked' \subseteq Leaked
  BY <1>0, <1>3, TakeLoses, UnchangedLoses DEF TakePreviewFrame, PreviewVacant
<1>4. CASE Decode
  BY <1>0, <1>4, GetLoses DEF Decode, PreviewVacant, Goto
<1>5. CASE RecycleMjpeg \/ DrawRecycle
  BY <1>0, <1>5, RecycleLoses DEF RecycleMjpeg, DrawRecycle
<1>6. CASE DrawConvert
  BY <1>0, <1>1, <1>6, GetLoses DEF DrawConvert, PreviewVacant, NoFrame, Goto,
     frameVars
<1>7. CASE Offer
  BY <1>0, <1>7, ExchangeLoses, RecycleLoses, DropLoses DEF Offer, OfferDropped
<1> QED
  BY <1>1, <1>2, <1>3, <1>4, <1>5, <1>6, <1>7 DEF PreviewThread, Prepare,
     StartStreaming, CreateCapture, PreviewTest, WaitPreviewFrame,
     PreviewResume, PreviewSignal, StopStreaming

LEMMA CaptureLoses ==
  ASSUME IInv, Vacant, NEW c \in CaptureThreads, CaptureThread(c)
  PROVE  Leaked' \subseteq Leaked
<1> USE SlotFacts, CaptureSlotFacts
<1>0. FrameInv /\ CaptureVacant(c)
  BY DEF IInv, TypeOK, FrameInv, Vacant
<1>1. CASE UNCHANGED frameVars
  BY <1>1, UnchangedLoses
<1>2. UNCHANGED previewFrames
  BY CaptureLeaves
<1>3. CASE CaptureClear(c)
  BY <1>0, <1>2, <1>3, RecycleLoses DEF CaptureClear
<1>4. ASSUME pc[c] \in {"wait", "blocked"}, TakeCaptureFrame(c)
      PROVE  Leaked' \subseteq Leaked
  BY <1>0, <1>1, <1>2, <1>4, MoveLoses DEF TakeCaptureFrame, CaptureVacant,
     frameVars
<1>5. CASE CaptureConvert(c)
  BY <1>0, <1>1, <1>2, <1>5, GetLoses DEF CaptureConvert, frameVars
<1>6. CASE CallbackFrame(c)
  BY <1>0, <1>2, <1>6, MoveLoses, GetLoses DEF CallbackFrame, CaptureVacant,
     Goto
<1>7. CASE CallbackConverted(c) \/ CallbackRecycle(c) \/ LeaveRelease(c)
  BY <1>0, <1>2, <1>7, RecycleLoses DEF CallbackConverted, CallbackRecycle,
     LeaveRelease
<1>8. CASE WaitCaptureFrame(c) \/ CaptureResume(c)
  BY <1>1, <1>2, <1>4, <1>8 DEF WaitCaptureFrame, CaptureResume, frameVars
<1> QED
  BY <1>1, <1>3, <1>5, <1>6, <1>7, <1>8 DEF CaptureThread, CaptureRunning,
     CaptureMark, CaptureChoose, CaptureTest, CopyBegin, CopyEnd, CallBegin,
     CallEnd, LeaveForget, CaptureBroadcast

LEMMA CallerLoses ==
  ASSUME IInv, Caller
  PROVE  Leaked' \subseteq Leaked
<1> USE SlotFacts
<1>0. FrameInv
  BY DEF IInv, TypeOK, FrameInv
<1>1. CASE UNCHANGED frameVars
  BY <1>1, UnchangedLoses
<1>2. CASE StopClearPreview
  BY <1>0, <1>2, ClearLoses DEF StopClearPreview
<1>3. CASE StopClearCapture
  BY <1>0, <1>3, RecycleLoses DEF StopClearCapture
<1>4. CASE Replace
  BY <1>1, <1>4 DEF Replace, SetFrameCallback, SetCaptureDisplay, ReplaceBegin,
       ReplaceResume, ReplaceDrop, CallbackAssign, WindowInstall
<1> QED
  BY <1>1, <1>2, <1>3, <1>4
     DEF Start, StartBegin, StartCreate, Stop, StopCall, StopBegin, StopSignal,
         StopJoinCapture, StopJoinPreview, StopReleasePreview,
         StopReleaseCapture, SpuriousWakeup, SetPreviewDisplay, Caller

LEMMA NextLoses ==
  ASSUME IInv, Vacant, [Next]_vars
  PROVE  Leaked' \subseteq Leaked \/ OfferDropped
<1>1. CASE UNCHANGED vars
  BY <1>1, UnchangedLoses DEF vars
<1> QED
  BY <1>1, UvcLoses, PreviewLoses, CaptureLoses, CallerLoses DEF Next, Caller

LEMMA InvariantVacant == Spec => []Vacant
<1>1. Init => Vacant
  BY SlotFacts, CaptureSlotFacts DEF Init, InitFrames, Vacant, UvcVacant,
     PreviewVacant, CaptureVacant
<1>2. IInv /\ Vacant /\ [Next]_vars => Vacant'
  BY VacantStep
<1> QED
  BY <1>1, <1>2, InvariantIInv, PTL DEF Spec

\* In MJPEG mode no step loses a frame: the decoded frame never goes to
\* addCaptureFrame, and every other path gives its frame back.
THEOREM MjpegLosesNone == Spec => MjpegReturnsFrames
<1>1. IInv /\ Vacant /\ [Next]_vars
        => [frameMode = "MJPEG" => Leaked' \subseteq Leaked]_vars
  <2>1. "MJPEG" # "YUYV"
    OBVIOUS
  <2> QED
    BY <2>1, NextLoses DEF OfferDropped
<1> QED
  BY <1>1, InvariantIInv, InvariantVacant, PTL DEF Spec, MjpegReturnsFrames

\* The session going on may still lose its frame.
MayLeak ==
  /\ pc["preview"] \notin {"none", "signal", "stopStream", "ended"}
  /\ pc["preview"] = "test" => mIsRunning

\* Every session lost one frame at most, and the one going on none as long as
\* it may still lose its frame.
LeakInv == Cardinality(Leaked) + (IF MayLeak THEN 1 ELSE 0) <= sessions

\* A new session may lose a frame, and the step that loses it ends this.
LEMMA MayLeakStep ==
  ASSUME IInv, [Next]_vars
  PROVE  /\ sessions \in Nat /\ sessions' \in Nat /\ sessions <= sessions'
         /\ MayLeak' /\ ~MayLeak => sessions' = sessions + 1
         /\ OfferDropped => MayLeak /\ ~MayLeak'
<1>0. /\ PcTypeOK /\ FlagTypeOK /\ CallTypeOK
      /\ {"main", "preview"} \subseteq Threads
      /\ CaptureThreads \subseteq Threads
  BY StateFacts DEF IInv, TypeOK
<1>1. CASE UNCHANGED vars
  BY <1>0, <1>1 DEF vars, flagVars, callVars, MayLeak, CallTypeOK, OfferDropped,
     Offer, Goto, PcTypeOK
<1>2. CASE Uvc
  BY <1>0, <1>2, UvcLeaves DEF callVars, Uvc, UvcDeliver, UvcLose, UvcAdd,
     UvcDrop, Goto, PcTypeOK, MayLeak, CallTypeOK, OfferDropped, Offer
<1>3. CASE PreviewThread
  <2>1. UNCHANGED <<mIsRunning, sessions>>
    BY <1>3, PreviewLeaves DEF callVars
  <2>2. OfferDropped => MayLeak /\ ~MayLeak'
    BY <1>0, <2>1 DEF OfferDropped, Offer, Goto, PcTypeOK, MayLeak
  <2>3. MayLeak' => MayLeak
    BY <1>0, <1>3, <2>1 DEF PreviewThread, Prepare, StartStreaming,
       PreviewClear, CreateCapture, PreviewTest, WaitPreviewFrame,
       PreviewResume, TakePreviewFrame, Decode, RecycleMjpeg, DrawConvert,
       DrawRecycle, Offer, PreviewSignal, StopStreaming, Goto, PcTypeOK,
       MayLeak
  <2> QED
    BY <1>0, <2>1, <2>2, <2>3 DEF CallTypeOK
<1>4. ASSUME NEW c \in CaptureThreads, CaptureThread(c)
      PROVE  UNCHANGED <<mIsRunning, sessions, pc["preview"]>>
  <2>1. UNCHANGED <<mIsRunning, sessions>>
    BY <1>4, CaptureLeaves DEF callVars
  <2>2. UNCHANGED pc["preview"]
    BY <1>0, <1>4 DEF CaptureThread, CaptureClear, CaptureRunning, CaptureMark,
       CaptureChoose, CaptureTest, WaitCaptureFrame, CaptureResume,
       TakeCaptureFrame, CaptureConvert, CopyBegin, CopyEnd, CallbackFrame,
       CallbackConverted, CallBegin, CallEnd, CallbackRecycle, LeaveRelease,
       LeaveForget, CaptureBroadcast, Goto, PcTypeOK
  <2> QED
    BY <2>1, <2>2
<1>5. CASE \E c \in CaptureThreads : CaptureThread(c)
  BY <1>0, <1>4, <1>5 DEF MayLeak, CallTypeOK, OfferDropped, Offer, Goto,
     PcTypeOK
<1>6. CASE Caller
  <2> USE <1>0 DEF Goto, PcTypeOK, MayLeak, CallTypeOK, OfferDropped, Offer
  <2>1. CASE Replace
    BY <2>1 DEF Replace, SetFrameCallback, SetCaptureDisplay, ReplaceBegin,
       ReplaceResume, ReplaceDrop, CallbackAssign, WindowInstall, Callers,
       callVars, flagVars
  <2>2. CASE Start
    BY <2>2 DEF Start, StartBegin, StartCreate, IInv, Lifecycle, Joining,
       callVars
  <2>3. CASE Stop
    BY <2>3 DEF Stop, StopCall, StopBegin, StopSignal, StopJoinCapture,
       StopJoinPreview, StopClearPreview, StopClearCapture,
       StopReleasePreview, StopReleaseCapture, IInv, TypeOK, SessionTypeOK,
       callVars, flagVars
  <2> QED
    BY <1>6, <2>1, <2>2, <2>3 DEF Caller, SpuriousWakeup, SetPreviewDisplay,
       callVars, flagVars
<1> QED
  BY <1>1, <1>2, <1>3, <1>5, <1>6 DEF Next, Caller

LEMMA LeakStep ==
  ASSUME IInv, Vacant, LeakInv, [Next]_vars
  PROVE  LeakInv'
<1> HIDE DEF MayLeak
<1>1. CASE OfferDropped
  <2>1. /\ Cardinality(Leaked) \in Nat /\ Cardinality(Leaked') \in Nat
        /\ Cardinality(Leaked') <= Cardinality(Leaked) + 1
    BY <1>1, LeakedGrows DEF OfferDropped
  <2>2. Cardinality(Leaked)' = Cardinality(Leaked')
    OBVIOUS
  <2> QED
    BY <1>1, <2>1, <2>2, MayLeakStep DEF LeakInv
<1>2. CASE Leaked' \subseteq Leaked
  <2>1. /\ Cardinality(Leaked) \in Nat /\ Cardinality(Leaked') \in Nat
        /\ Cardinality(Leaked') <= Cardinality(Leaked)
    BY <1>2, LeakedGrows
  <2> QED
    BY <2>1, MayLeakStep DEF LeakInv
<1> QED
  BY <1>1, <1>2, NextLoses

\* A session loses one frame at most, and only the one that is on its way to
\* the capture thread when the preview is stopped.
THEOREM LeaksAreBounded == Spec => []LeakBound
<1>1. Init => LeakInv
  <2> SUFFICES ASSUME Init PROVE LeakInv
    OBVIOUS
  <2>1. Leaked = {} /\ sessions = 0
    BY DEF Init, InitFrames, Leaked
  <2>2. ~MayLeak
    BY DEF Init, MayLeak, Threads, Callers
  <2> QED
    BY <2>1, <2>2, FS_EmptySet DEF LeakInv
<1>2. IInv /\ Vacant /\ LeakInv /\ [Next]_vars => LeakInv'
  BY LeakStep
<1>3. LeakInv /\ IInv => LeakBound
  <2>1. Cardinality(Leaked) \in Nat
    BY FramePoolAssumption, FS_Subset, FS_CardinalityType DEF Leaked
  <2> QED
    BY <2>1 DEF LeakInv, LeakBound, IInv, TypeOK, CallTypeOK
<1> QED
  BY <1>1, <1>2, <1>3, InvariantIInv, InvariantVacant, PTL DEF Spec

(***************************************************************************)
(* The references to the callback.                                         *)
(***************************************************************************)

\* capture_mutex: one caller at a time replaces a target.
Replacing == {"release", "install", "delete", "assign"}

Exclusive == pc["main"] \notin Replacing \/ pc["setter"] \notin Replacing

\* The references to object o that the JNI layer took for a call that is
\* going on, and the one of the callback in force.
Due(t, o) ==
  IF pc[t] \in {"waitCallback", "delete", "assign"} /\ arg[t] = o THEN 1 ELSE 0

InForce(o) ==
  IF mFrameCallbackObj = o /\ pc["main"] # "assign" /\ pc["setter"] # "assign"
  THEN 1 ELSE 0

Referenced ==
  \A o \in Callbacks :
    refs[o] >= InForce(o) + Due("main", o) + Due("setter", o)

\* What a step of another thread does to the callers.
LEMMA OthersLeaveCallers ==
  ASSUME IInv, Uvc \/ PreviewThread \/ \E c \in CaptureThreads : CaptureThread(c)
  PROVE  /\ UNCHANGED <<pc["main"], pc["setter"], arg, mFrameCallbackObj>>
         /\ \A o \in Callbacks : refs'[o] = refs[o]
<1>0. /\ PcTypeOK /\ TargetTypeOK
      /\ {"main", "setter", "uvc", "preview"} \subseteq Threads
      /\ CaptureThreads \subseteq Threads
      /\ {"main", "setter"} \cap CaptureThreads = {}
  BY StateFacts DEF IInv, TypeOK
<1>1. CASE Uvc
  <2>1. UNCHANGED <<targetVars, arg>>
    BY <1>1, UvcLeaves DEF callVars
  <2>2. UNCHANGED <<pc["main"], pc["setter"]>>
    BY <1>0, <1>1 DEF Uvc, UvcDeliver, UvcLose, UvcAdd, UvcDrop, Goto, PcTypeOK
  <2> QED
    BY <2>1, <2>2 DEF targetVars
<1>2. CASE PreviewThread
  <2>1. UNCHANGED <<targetVars, arg>>
    BY <1>2, PreviewLeaves DEF callVars
  <2>2. UNCHANGED <<pc["main"], pc["setter"]>>
    BY <1>0, <1>2 DEF PreviewThread, Prepare, StartStreaming, PreviewClear,
       CreateCapture, PreviewTest, WaitPreviewFrame, PreviewResume,
       TakePreviewFrame, Decode, RecycleMjpeg, DrawConvert, DrawRecycle, Offer,
       PreviewSignal, StopStreaming, Goto, PcTypeOK
  <2> QED
    BY <2>1, <2>2 DEF targetVars
<1>3. ASSUME NEW c \in CaptureThreads, CaptureThread(c)
      PROVE  /\ UNCHANGED <<pc["main"], pc["setter"], arg, mFrameCallbackObj>>
             /\ \A o \in Callbacks : refs'[o] = refs[o]
  <2>1. UNCHANGED <<arg, mFrameCallbackObj>>
    BY <1>3, CaptureLeaves DEF callVars
  <2>2. UNCHANGED <<pc["main"], pc["setter"]>>
    BY <1>0, <1>3 DEF CaptureThread, CaptureClear, CaptureRunning, CaptureMark,
       CaptureChoose, CaptureTest, WaitCaptureFrame, CaptureResume,
       TakeCaptureFrame, CaptureConvert, CopyBegin, CopyEnd, CallbackFrame,
       CallbackConverted, CallBegin, CallEnd, CallbackRecycle, LeaveRelease,
       LeaveForget, CaptureBroadcast, Goto, PcTypeOK
  <2>3. CASE LeaveRelease(c)
    BY <1>0, <2>1, <2>2, <2>3 DEF LeaveRelease, TargetTypeOK
  <2>4. ~LeaveRelease(c) => UNCHANGED refs
    BY <1>3 DEF CaptureThread, CaptureClear, CaptureRunning, CaptureMark,
       CaptureChoose, CaptureTest, WaitCaptureFrame, CaptureResume,
       CaptureConvert, CopyBegin, CopyEnd, CallbackFrame, CallbackConverted,
       CallBegin, CallEnd, CallbackRecycle, LeaveForget, CaptureBroadcast,
       targetVars
  <2> QED
    BY <2>1, <2>2, <2>3, <2>4
<1> QED
  BY <1>1, <1>2, <1>3

\* The steps of a caller, without the replacing of a target.
LEMMA StartStopLeaves ==
  ASSUME IInv, Start \/ Stop \/ SpuriousWakeup
                 \/ \E w \in Windows \cup {NULL} : SetPreviewDisplay(w)
  PROVE  /\ UNCHANGED <<pc["setter"], arg, mFrameCallbackObj>>
         /\ \A o \in Callbacks : refs'[o] = refs[o]
         /\ \/ {pc["main"], pc["main"]'}
                 \cap (Replacing \cup {"waitCallback", "waitWindow"}) = {}
            \/ UNCHANGED pc["main"]
<1>0. /\ PcTypeOK /\ TargetTypeOK /\ SessionTypeOK
      /\ {"main", "setter", "preview"} \subseteq Threads
      /\ CaptureThreads \subseteq Threads
      /\ {"main", "setter", "preview"} \cap CaptureThreads = {}
  BY StateFacts DEF IInv, TypeOK
<1> USE <1>0 DEF Goto, PcTypeOK, Replacing
<1>1. CASE Start
  BY <1>1 DEF Start, StartBegin, StartCreate, targetVars, callVars
<1>2. CASE Stop
  <2>1. CASE StopReleasePreview \/ StopReleaseCapture
    BY <2>1 DEF StopReleasePreview, StopReleaseCapture, Release, TargetTypeOK,
       callVars
  <2>2. CASE StopJoinCapture \/ StopJoinPreview
    BY <2>2 DEF StopJoinCapture, StopJoinPreview, SessionTypeOK, targetVars,
       callVars
  <2> QED
    BY <1>2, <2>1, <2>2 DEF Stop, StopCall, StopBegin, StopSignal,
       StopClearPreview, StopClearCapture, targetVars, callVars
<1>3. ASSUME NEW w \in Windows \cup {NULL}, SetPreviewDisplay(w)
      PROVE  \A o \in Callbacks : refs'[o] = refs[o]
  <2>1. CASE w = mPreviewWindow
    BY <1>3, <2>1 DEF SetPreviewDisplay, Acquire, TargetTypeOK
  <2>2. CASE w # mPreviewWindow
    <3>1. ASSUME NEW o \in Callbacks
          PROVE  refs'[o] = refs[o] + (IF o = w THEN 1 ELSE 0)
                                    - (IF o = mPreviewWindow THEN 1 ELSE 0)
      BY <1>3, <2>2 DEF SetPreviewDisplay, TargetTypeOK
    <3> QED
      BY <3>1 DEF TargetTypeOK
  <2> QED
    BY <2>1, <2>2
<1> QED
  BY <1>1, <1>2, <1>3 DEF SpuriousWakeup, SetPreviewDisplay, targetVars, callVars

LEMMA ExclusiveStep ==
  ASSUME IInv, Exclusive, [Next]_vars
  PROVE  Exclusive'
<1>0. PcTypeOK /\ {"main", "setter"} \subseteq Threads
  BY StateFacts DEF IInv, TypeOK
<1>1. CASE UNCHANGED vars
  BY <1>1 DEF vars, Exclusive
<1>2. CASE Uvc \/ PreviewThread \/ \E c \in CaptureThreads : CaptureThread(c)
  BY <1>2, OthersLeaveCallers DEF Exclusive
<1>3. CASE Start \/ Stop \/ SpuriousWakeup
             \/ \E w \in Windows \cup {NULL} : SetPreviewDisplay(w)
  BY <1>3, StartStopLeaves DEF Exclusive
<1>4. CASE Replace
  BY <1>0, <1>4 DEF Replace, SetFrameCallback, SetCaptureDisplay, ReplaceBegin,
     ReplaceResume, ReplaceDrop, CallbackAssign, WindowInstall, CaptureMutexFree,
     AfterCallback, Callers, Goto, PcTypeOK, Exclusive, Replacing
<1> QED
  BY <1>1, <1>2, <1>3, <1>4 DEF Next

\* Every reference that is deleted is the one of the callback it replaces.
LEMMA ReplaceReferenced ==
  ASSUME IInv, Exclusive, Referenced, Replace
  PROVE  Referenced'
<1>0. /\ PcTypeOK /\ TargetTypeOK /\ ArgTypeOK
      /\ arg \in [Callers -> Windows \cup Callbacks \cup {NULL}]
      /\ {"main", "setter"} \subseteq Threads /\ Callers = {"main", "setter"}
  BY StateFacts DEF IInv, TypeOK, CallTypeOK, Callers
<1> USE <1>0 DEF Goto, PcTypeOK, TargetTypeOK, Referenced, Due, InForce
<1>1. ASSUME NEW t \in Callers, NEW o \in Callbacks \cup {NULL},
             SetFrameCallback(t, o)
      PROVE  Referenced'
  <2>1. /\ mFrameCallbackObj' = mFrameCallbackObj
        /\ pc[t] \in {"idle", "unset"} /\ arg' = [arg EXCEPT ![t] = o]
        /\ \E s \in {"waitCallback", "delete"} : pc' = [pc EXCEPT ![t] = s]
        /\ Acquire(o)
    BY <1>1 DEF SetFrameCallback, ReplaceBegin
  <2>2. \A x \in Callbacks : refs'[x] = refs[x] + (IF x = o THEN 1 ELSE 0)
    BY <2>1 DEF Acquire
  <2> QED
    BY <2>1, <2>2
<1>2. ASSUME NEW w \in Windows \cup {NULL}, SetCaptureDisplay(w)
      PROVE  Referenced'
  <2>1. /\ mFrameCallbackObj' = mFrameCallbackObj
        /\ pc["setter"] = "idle" /\ arg' = [arg EXCEPT !["setter"] = w]
        /\ \E s \in {"waitWindow", "release"} :
             pc' = [pc EXCEPT !["setter"] = s]
        /\ Acquire(w)
    BY <1>2 DEF SetCaptureDisplay, ReplaceBegin
  <2>2. \A x \in Callbacks : refs'[x] = refs[x]
    BY <2>1 DEF Acquire
  <2> QED
    BY <2>1, <2>2
<1>3. ASSUME NEW t \in Callers, ReplaceResume(t, "waitCallback", "delete")
      PROVE  Referenced'
  BY <1>3 DEF ReplaceResume, targetVars, callVars
<1>4. CASE ReplaceResume("setter", "waitWindow", "release")
  BY <1>4 DEF ReplaceResume, targetVars, callVars
<1>5. ASSUME NEW t \in Callers,
             ReplaceDrop(t, mFrameCallbackObj, "delete", "assign",
                         AfterCallback(t))
      PROVE  Referenced'
  <2>1. UNCHANGED <<mFrameCallbackObj, arg>> /\ pc[t] = "delete"
    BY <1>5 DEF ReplaceDrop, callVars
  <2>2. pc["main"] # "assign" /\ pc["setter"] # "assign"
    BY <2>1 DEF Exclusive, Replacing
  <2>3. CASE mFrameCallbackObj # arg[t]
    <3>1. pc' = [pc EXCEPT ![t] = "assign"] /\ Release(mFrameCallbackObj)
      BY <1>5, <2>3 DEF ReplaceDrop
    <3>2. \A x \in Callbacks :
            refs'[x] = refs[x] - (IF x = mFrameCallbackObj THEN 1 ELSE 0)
      BY <3>1 DEF Release
    <3> QED
      BY <2>1, <2>2, <3>1, <3>2
  <2>4. CASE mFrameCallbackObj = arg[t]
    <3>1. pc' = [pc EXCEPT ![t] = AfterCallback(t)] /\ UNCHANGED refs
      BY <1>5, <2>4 DEF ReplaceDrop
    <3> QED
      BY <2>1, <2>2, <3>1 DEF AfterCallback
  <2> QED
    BY <2>3, <2>4
<1>6. CASE ReplaceDrop("setter", mCaptureWindow, "release", "install", "idle")
  <2>1. /\ UNCHANGED <<mFrameCallbackObj, arg>>
        /\ \E s \in {"install", "idle"} : pc' = [pc EXCEPT !["setter"] = s]
        /\ pc["setter"] = "release"
        /\ UNCHANGED refs \/ Release(mCaptureWindow)
    BY <1>6 DEF ReplaceDrop, callVars
  <2>2. \A x \in Callbacks : refs'[x] = refs[x]
    BY <2>1 DEF Release
  <2> QED
    BY <2>1, <2>2
<1>7. ASSUME NEW t \in Callers, CallbackAssign(t) PROVE Referenced'
  <2>1. /\ mFrameCallbackObj' = arg[t] /\ UNCHANGED <<refs, arg>>
        /\ pc[t] = "assign" /\ pc' = [pc EXCEPT ![t] = AfterCallback(t)]
    BY <1>7 DEF CallbackAssign, callVars
  <2> QED
    BY <2>1 DEF AfterCallback
<1>8. CASE WindowInstall
  BY <1>8 DEF WindowInstall, callVars
<1> QED
  BY <1>1, <1>2, <1>3, <1>4, <1>5, <1>6, <1>7, <1>8 DEF Replace

LEMMA ReferencedStep ==
  ASSUME IInv, Exclusive, Referenced, [Next]_vars
  PROVE  Referenced'
<1> USE DEF Referenced, Due, InForce
<1>1. CASE UNCHANGED vars
  BY <1>1 DEF vars, targetVars, callVars
<1>2. CASE Uvc \/ PreviewThread \/ \E c \in CaptureThreads : CaptureThread(c)
  BY <1>2, OthersLeaveCallers
<1>3. CASE Start \/ Stop \/ SpuriousWakeup
             \/ \E w \in Windows \cup {NULL} : SetPreviewDisplay(w)
  BY <1>3, StartStopLeaves DEF Replacing
<1> QED
  BY <1>1, <1>2, <1>3, ReplaceReferenced DEF Next

\* Two threads that set the callback, and stopPreview which unsets it, delete
\* the reference of the callback they replace, once, and never the one in force.
THEOREM CallbackIsReferenced == Spec => []CallbackReferenced
<1>1. Init => Exclusive /\ Referenced
  BY DEF Init, Exclusive, Replacing, Referenced, Due, InForce, Threads, Callers
<1>2. IInv /\ Exclusive /\ Referenced /\ [Next]_vars
        => Exclusive' /\ Referenced'
  BY ExclusiveStep, ReferencedStep
<1>3. ASSUME IInv, Referenced PROVE CallbackReferenced
  <2>1. ASSUME NEW o \in Callbacks
        PROVE  refs[o] \in Int /\ refs[o] >= InForce(o)
    <3>1. refs[o] \in Int
      BY <1>3 DEF IInv, TypeOK, TargetTypeOK
    <3>2. /\ InForce(o) \in Nat
          /\ Due("main", o) \in Nat /\ Due("setter", o) \in Nat
      BY DEF InForce, Due
    <3>3. refs[o] >= InForce(o) + Due("main", o) + Due("setter", o)
      BY <1>3 DEF Referenced
    <3> QED
      BY <3>1, <3>2, <3>3
  <2>2. \A o \in Callbacks : refs[o] >= 0
    BY <2>1 DEF InForce
  <2> QED
    BY <1>3, <2>1, <2>2 DEF IInv, TypeOK, TargetTypeOK, InForce, Callers,
       CallbackReferenced
<1> QED
  BY <1>1, <1>2, <1>3, InvariantIInv, PTL DEF Spec

(***************************************************************************)
(* The frames and the waits for them.                                      *)
(***************************************************************************)

\* A frame is only added together with a signal to its queue's only thread.
LEMMA UvcWakes ==
  ASSUME IInv, SleepsWithoutFrame, Uvc
  PROVE  SleepsWithoutFrame'
<1> USE SlotFacts
<1>0. FrameTypeOK /\ SyncTypeOK
  BY DEF IInv, TypeOK
<1>1. hold'[CaptureQueu] = hold[CaptureQueu]
  BY <1>0 DEF Uvc, UvcDeliver, UvcLose, UvcAdd, UvcDrop, GetInto, RecycleSlot,
     PutFrom, FrameTypeOK, frameVars
<1>2. /\ UNCHANGED capture_sync
      /\ \/ UNCHANGED <<preview_sync, previewFrames>>
         \/ Signal(preview_sync)
  <2>1. CASE UvcDeliver \/ UvcLose \/ UvcDrop
    BY <2>1 DEF UvcDeliver, UvcLose, UvcDrop, syncVars
  <2>2. CASE UvcAdd
    BY <2>2 DEF UvcAdd, frameVars
  <2> QED
    BY <2>1, <2>2 DEF Uvc
<1>3. Signal(preview_sync) => "preview" \notin preview_sync'
  BY <1>0 DEF Signal, SyncTypeOK
<1> QED
  BY <1>1, <1>2, <1>3 DEF SleepsWithoutFrame

\* The preview thread looks at the queue before it sleeps, and tells all who
\* wait of a frame to capture.
LEMMA PreviewWakes ==
  ASSUME IInv, SleepsWithoutFrame, PreviewThread
  PROVE  SleepsWithoutFrame'
<1> USE SlotFacts
<1>0. FrameTypeOK /\ SyncTypeOK
  BY DEF IInv, TypeOK
<1>1. CASE WaitPreviewFrame \/ PreviewResume
  <2>1. /\ UNCHANGED capture_sync /\ hold'[CaptureQueu] = hold[CaptureQueu]
        /\ "preview" \in preview_sync' => previewFrames' = <<>>
    <3>1. TakePreviewFrame => hold'[CaptureQueu] = hold[CaptureQueu]
      BY <1>0 DEF TakePreviewFrame, TakeInto, FrameTypeOK, frameVars
    <3>2. CASE WaitPreviewFrame
      BY <3>1, <3>2 DEF WaitPreviewFrame, SleepsWithoutFrame, frameVars
    <3>3. CASE PreviewResume
      BY <3>1, <3>3 DEF PreviewResume, syncVars
    <3> QED
      BY <1>1, <3>2, <3>3
  <2> QED
    BY <2>1 DEF SleepsWithoutFrame
<1>2. CASE Offer
  <2>1. UNCHANGED <<preview_sync, previewFrames>>
    BY <1>2 DEF Offer
  <2>2. capture_sync' = {} \/ /\ UNCHANGED capture_sync
                              /\ hold'[CaptureQueu] = hold[CaptureQueu]
    BY <1>0, <1>2 DEF Offer, RecycleSlot, FrameTypeOK
  <2> QED
    BY <2>1, <2>2 DEF SleepsWithoutFrame
<1>3. CASE PreviewSignal
  <2>1. capture_sync' \subseteq capture_sync
        /\ UNCHANGED <<preview_sync, frameVars>>
    BY <1>3, SignalKeeps DEF PreviewSignal
  <2> QED
    BY <2>1 DEF SleepsWithoutFrame, frameVars
<1>4. CASE ~WaitPreviewFrame /\ ~PreviewResume /\ ~Offer /\ ~PreviewSignal
  <2>1. UNCHANGED syncVars /\ hold'[CaptureQueu] = hold[CaptureQueu]
    BY <1>0, <1>4 DEF PreviewThread, Prepare, StartStreaming, PreviewClear,
       CreateCapture, PreviewTest, Decode, RecycleMjpeg, DrawConvert,
       DrawRecycle, StopStreaming, GetInto, RecycleSlot, ClearQueue,
       FrameTypeOK, frameVars
  <2>2. previewFrames' \in {previewFrames, <<>>}
    BY <1>4 DEF PreviewThread, Prepare, StartStreaming, PreviewClear,
       CreateCapture, PreviewTest, Decode, RecycleMjpeg, DrawConvert,
       DrawRecycle, StopStreaming, ClearQueue, frameVars
  <2> QED
    BY <2>1, <2>2 DEF SleepsWithoutFrame, syncVars
<1> QED
  BY <1>1, <1>2, <1>3, <1>4

\* A capture thread sleeps only if it finds no frame.
LEMMA CaptureWakes ==
  ASSUME IInv, SleepsWithoutFrame, NEW c \in CaptureThreads, CaptureThread(c)
  PROVE  SleepsWithoutFrame'
<1> USE SlotFacts, CaptureSlotFacts
<1>0. FrameTypeOK
  BY DEF IInv, TypeOK
<1>1. UNCHANGED <<preview_sync, previewFrames>>
  BY DEF CaptureThread, CaptureClear, CaptureRunning, CaptureMark,
     CaptureChoose, CaptureTest, WaitCaptureFrame, CaptureResume,
     CaptureConvert, CopyBegin, CopyEnd, CallbackFrame, CallbackConverted,
     CallBegin, CallEnd, CallbackRecycle, LeaveRelease, LeaveForget,
     CaptureBroadcast, syncVars, frameVars
<1>2. \/ capture_sync' \subseteq capture_sync
      \/ hold[CaptureQueu] = NULL
  BY DEF CaptureThread, CaptureClear, CaptureRunning, CaptureMark,
     CaptureChoose, CaptureTest, WaitCaptureFrame, CaptureResume,
     CaptureConvert, CopyBegin, CopyEnd, CallbackFrame, CallbackConverted,
     CallBegin, CallEnd, CallbackRecycle, LeaveRelease, LeaveForget,
     CaptureBroadcast, syncVars
<1>3. hold'[CaptureQueu] \in {NULL, hold[CaptureQueu]}
  BY <1>0 DEF CaptureThread, CaptureClear, CaptureRunning, CaptureMark,
     CaptureChoose, CaptureTest, WaitCaptureFrame, CaptureResume,
     CaptureConvert, CopyBegin, CopyEnd, CallbackFrame, CallbackConverted,
     CallBegin, CallEnd, CallbackRecycle, LeaveRelease, LeaveForget,
     CaptureBroadcast, TakeCaptureFrame, GetInto, RecycleSlot, MoveFrame,
     FrameTypeOK, frameVars
<1> QED
  BY <1>1, <1>2, <1>3 DEF SleepsWithoutFrame

\* A caller that begins to wait takes a signal that another may have needed,
\* and adds no frame.
LEMMA CallerWakes ==
  ASSUME IInv, SleepsWithoutFrame, Caller
  PROVE  SleepsWithoutFrame'
<1> USE SlotFacts
<1>0. FrameTypeOK /\ Callers \cap CaptureThreads = {}
  BY StateFacts DEF IInv, TypeOK, Callers
<1>1. \/ UNCHANGED frameVars
      \/ previewFrames' = <<>> /\ hold' = hold
      \/ previewFrames' = previewFrames /\ hold'[CaptureQueu] = NULL
  BY <1>0 DEF Caller, Replace, SetFrameCallback, SetCaptureDisplay,
     ReplaceBegin, ReplaceResume, ReplaceDrop, CallbackAssign, WindowInstall,
     SetPreviewDisplay, Start, StartBegin, StartCreate, Stop, StopCall,
     StopBegin, StopSignal, StopJoinCapture, StopJoinPreview,
     StopClearPreview, StopClearCapture, StopReleasePreview,
     StopReleaseCapture, SpuriousWakeup, RecycleSlot, ClearQueue, FrameTypeOK,
     frameVars
<1>2. preview_sync' \subseteq preview_sync
  BY SignalKeeps DEF Caller, Replace, SetFrameCallback, SetCaptureDisplay,
     ReplaceBegin, ReplaceResume, ReplaceDrop, CallbackAssign, WindowInstall,
     SetPreviewDisplay, Start, StartBegin, StartCreate, Stop, StopCall,
     StopBegin, StopSignal, StopJoinCapture, StopJoinPreview,
     StopClearPreview, StopClearCapture, StopReleasePreview,
     StopReleaseCapture, SpuriousWakeup, syncVars
<1>3. capture_sync' \subseteq capture_sync \cup Callers
  BY SignalKeeps DEF Caller, Replace, SetFrameCallback, SetCaptureDisplay,
     ReplaceBegin, ReplaceResume, ReplaceDrop, CallbackAssign, WindowInstall,
     SetPreviewDisplay, Start, StartBegin, StartCreate, Stop, StopCall,
     StopBegin, StopSignal, StopJoinCapture, StopJoinPreview,
     StopClearPreview, StopClearCapture, StopReleasePreview,
     StopReleaseCapture, SpuriousWakeup, syncVars, Callers
<1> QED
  BY <1>0, <1>1, <1>2, <1>3 DEF SleepsWithoutFrame, frameVars

\* No frame is left to a thread that sleeps, in either queue, for any number
\* of capture threads, any callers and spurious wakeups.
THEOREM FramesWakeThreads == Spec => []SleepsWithoutFrame
<1>1. Init => SleepsWithoutFrame
  BY DEF Init, SleepsWithoutFrame
<1>2. IInv /\ SleepsWithoutFrame /\ [Next]_vars => SleepsWithoutFrame'
  <2>1. UNCHANGED vars /\ SleepsWithoutFrame => SleepsWithoutFrame'
    BY DEF SleepsWithoutFrame, vars, frameVars, syncVars
  <2> QED
    BY <2>1, UvcWakes, PreviewWakes, CaptureWakes, CallerWakes
       DEF Next, Caller
<1> QED
  BY <1>1, <1>2, InvariantIInv, PTL DEF Spec
=============================================================================
