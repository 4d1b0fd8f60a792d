---------------------------- MODULE PreviewCapture ----------------------------
(***************************************************************************)
(* The capture threads: do_capture chooses between the window and the      *)
(* idle loop, do_capture_surface draws on the window, do_capture_callback  *)
(* calls IFrameCallback.onFrame.  They read mCaptureWindow,                *)
(* mFrameCallbackObj and the flags without a lock.                         *)
(***************************************************************************)
EXTENDS PreviewState

\* clearCaptureFrame, under capture_mutex.
CaptureClear(c) ==
  /\ Goto(c, "clear", "running")
  /\ CaptureMutexFree
  /\ RecycleSlot(CaptureQueu)
  /\ UNCHANGED <<previewFrames, controlVars>>

\* do_capture: the outer loop.
CaptureRunning(c) ==
  /\ IF mIsRunning THEN Goto(c, "running", "mark") ELSE Goto(c, "running", "ended")
  /\ UNCHANGED <<frameVars, controlVars>>

CaptureMark(c) ==
  /\ Goto(c, "mark", "choose")
  /\ mIsCapturing' = TRUE
  /\ UNCHANGED <<frameVars, mIsRunning, targetVars, syncVars, sessionVars,
                 captureVars, callVars>>

\* mCaptureWindow is read without capture_mutex.
CaptureChoose(c) ==
  /\ Goto(c, "choose", "test")
  /\ surface' = [surface EXCEPT ![c] = mCaptureWindow # NULL]
  /\ UNCHANGED <<frameVars, flagVars, targetVars, syncVars, sessionVars,
                 using, calling, callVars>>

\* The condition of the inner loops, read without a lock.
CaptureTest(c) ==
  /\ \/ mIsRunning /\ mIsCapturing /\ Goto(c, "test", "wait")
     \/ /\ ~(mIsRunning /\ mIsCapturing)
        /\ Goto(c, "test", IF surface[c] THEN "leave" ELSE "broadcast")
  /\ UNCHANGED <<frameVars, controlVars>>

\* Faulty variant: captureQueu is not reset.
TakeCaptureFrameAgain(c) ==
  IF mIsRunning /\ hold[CaptureQueu] # NULL
  THEN /\ pc' = [pc EXCEPT ![c] = IF surface[c] THEN "convert" ELSE "callback"]
       /\ hold' = [hold EXCEPT ![CapFrame(c)] = hold[CaptureQueu]]
       /\ UNCHANGED <<heap, mFramePool>>
  ELSE /\ pc' = [pc EXCEPT ![c] = "test"]
       /\ UNCHANGED <<heap, mFramePool, hold>>

\* What waitCaptureFrame does once it does not have to wait.
TakeCaptureFrame(c) ==
  IF mIsRunning /\ hold[CaptureQueu] # NULL
  THEN /\ pc' = [pc EXCEPT ![c] = IF surface[c] THEN "convert" ELSE "callback"]
       /\ MoveFrame(CaptureQueu, CapFrame(c))
  ELSE /\ pc' = [pc EXCEPT ![c] = "test"]
       /\ UNCHANGED <<heap, mFramePool, hold>>

\* Faulty variant: the capture thread waits on preview_sync.
WaitCaptureFrameElsewhere(c) ==
  /\ pc[c] = "wait"
  /\ CaptureMutexFree
  /\ IF hold[CaptureQueu] = NULL
     THEN /\ pc' = [pc EXCEPT ![c] = "blocked"]
          /\ preview_sync' = preview_sync \cup {c}
          /\ UNCHANGED <<heap, mFramePool, hold>>
     ELSE /\ TakeCaptureFrame(c)
          /\ UNCHANGED preview_sync
  /\ UNCHANGED <<previewFrames, flagVars, targetVars, capture_sync,
                 sessionVars, captureVars, callVars>>

\* waitCaptureFrame up to the wait, under capture_mutex.
WaitCaptureFrame(c) ==
  /\ pc[c] = "wait"
  /\ CaptureMutexFree
  /\ IF hold[CaptureQueu] = NULL
     THEN /\ pc' = [pc EXCEPT ![c] = "blocked"]
          /\ capture_sync' = capture_sync \cup {c}
          /\ UNCHANGED <<heap, mFramePool, hold>>
     ELSE /\ TakeCaptureFrame(c)
          /\ UNCHANGED capture_sync
  /\ UNCHANGED <<previewFrames, flagVars, targetVars, preview_sync,
                 sessionVars, captureVars, callVars>>

CaptureResume(c) ==
  /\ pc[c] = "blocked"
  /\ c \notin capture_sync
  /\ CaptureMutexFree
  /\ TakeCaptureFrame(c)
  /\ UNCHANGED <<previewFrames, controlVars>>

\* do_capture_surface: the frame kept for the converted picture, and the
\* conversion, which may fail.
CaptureConvert(c) ==
  /\ \/ /\ mIsCapturing
        /\ \/ Goto(c, "convert", "copy") \/ Goto(c, "convert", "callback")
        /\ IF hold[CapConverted(c)] = NULL THEN GetInto(CapConverted(c))
           ELSE UNCHANGED <<heap, mFramePool, hold>>
     \/ /\ Goto(c, "convert", "callback")
        /\ \/ ~mIsCapturing
           \/ hold[CapConverted(c)] = NULL /\ NoFrame
        /\ UNCHANGED <<heap, mFramePool, hold>>
  /\ UNCHANGED <<previewFrames, controlVars>>

\* copyToSurface starts on the window of this moment, without a lock ...
CopyBegin(c) ==
  /\ \/ /\ mCaptureWindow # NULL
        /\ Goto(c, "copy", "copied")
        /\ using' = [using EXCEPT ![c] = mCaptureWindow]
     \/ /\ mCaptureWindow = NULL
        /\ Goto(c, "copy", "callback")
        /\ UNCHANGED using
  /\ UNCHANGED <<frameVars, flagVars, targetVars, syncVars, sessionVars,
                 surface, calling, callVars>>

\* ... and ends.
CopyEnd(c) ==
  /\ Goto(c, "copied", "callback")
  /\ using' = [using EXCEPT ![c] = NULL]
  /\ UNCHANGED <<frameVars, flagVars, targetVars, syncVars, sessionVars,
                 surface, calling, callVars>>

\* do_capture_callback up to the conversion.  The conversion function may be
\* NULL; the frame to pass on is in the slot callback_frame.
CallbackFrame(c) ==
  /\ \/ /\ mFrameCallbackObj = NULL
        /\ Goto(c, "callback", "recycle")
        /\ MoveFrame(CapFrame(c), CapCallback(c))
     \/ /\ mFrameCallbackObj # NULL
        /\ Goto(c, "callback", "call")
        /\ MoveFrame(CapFrame(c), CapCallback(c))
     \/ /\ mFrameCallbackObj # NULL
        /\ Goto(c, "callback", "recycle")
        /\ NoFrame
        /\ MoveFrame(CapFrame(c), CapCallback(c))
     \/ /\ mFrameCallbackObj # NULL
        /\ Goto(c, "callback", "converted")
        /\ GetInto(CapCallback(c))
  /\ UNCHANGED <<previewFrames, controlVars>>

\* The conversion succeeds ("call") or fails.
CallbackConverted(c) ==
  /\ Goto(c, "converted", "call") \/ Goto(c, "converted", "recycle")
  /\ RecycleSlot(CapFrame(c))
  /\ UNCHANGED <<previewFrames, controlVars>>

\* CallVoidMethod reads mFrameCallbackObj once more ...
CallBegin(c) ==
  /\ Goto(c, "call", "return")
  /\ calling' = [calling EXCEPT ![c] = mFrameCallbackObj]
  /\ UNCHANGED <<frameVars, flagVars, targetVars, syncVars, sessionVars,
                 surface, using, callVars>>

\* ... and onFrame returns.
CallEnd(c) ==
  /\ Goto(c, "return", "recycle")
  /\ calling' = [calling EXCEPT ![c] = NULL]
  /\ UNCHANGED <<frameVars, flagVars, targetVars, syncVars, sessionVars,
                 surface, using, callVars>>

CallbackRecycle(c) ==
  /\ Goto(c, "recycle", "test")
  /\ RecycleSlot(CapCallback(c))
  /\ UNCHANGED <<previewFrames, controlVars>>

\* Faulty variant: the frame of the converted picture is not recycled.
LeaveForgetsConverted(c) ==
  /\ hold' = [hold EXCEPT ![CapConverted(c)] = NULL]
  /\ IF mCaptureWindow # NULL
     THEN /\ Goto(c, "leave", "forget")
          /\ refs' = [refs EXCEPT ![mCaptureWindow] = @ - 1]
     ELSE /\ Goto(c, "leave", "broadcast")
          /\ UNCHANGED refs
  /\ UNCHANGED <<heap, mFramePool, previewFrames, flagVars, mPreviewWindow,
                 mCaptureWindow, mFrameCallbackObj, syncVars, sessionVars,
                 captureVars, callVars>>

\* The end of do_capture_surface: the window is released and then forgotten,
\* both without capture_mutex.
LeaveRelease(c) ==
  /\ RecycleSlot(CapConverted(c))
  /\ IF mCaptureWindow # NULL
     THEN /\ Goto(c, "leave", "forget")
          /\ refs' = [refs EXCEPT ![mCaptureWindow] = @ - 1]
     ELSE /\ Goto(c, "leave", "broadcast")
          /\ UNCHANGED refs
  /\ UNCHANGED <<previewFrames, flagVars, mPreviewWindow, mCaptureWindow,
                 mFrameCallbackObj, syncVars, sessionVars, captureVars, callVars>>

LeaveForget(c) ==
  /\ Goto(c, "forget", "broadcast")
  /\ mCaptureWindow' = NULL
  /\ UNCHANGED <<frameVars, flagVars, mPreviewWindow, mFrameCallbackObj, refs,
                 syncVars, sessionVars, captureVars, callVars>>

CaptureBroadcast(c) ==
  /\ Goto(c, "broadcast", "running")
  /\ capture_sync' = {}
  /\ UNCHANGED <<frameVars, flagVars, targetVars, preview_sync, sessionVars,
                 captureVars, callVars>>

CaptureThread(c) ==
  \/ CaptureClear(c) \/ CaptureRunning(c) \/ CaptureMark(c) \/ CaptureChoose(c)
  \/ CaptureTest(c) \/ WaitCaptureFrame(c) \/ CaptureResume(c)
  \/ CaptureConvert(c) \/ CopyBegin(c) \/ CopyEnd(c)
  \/ CallbackFrame(c) \/ CallbackConverted(c) \/ CallBegin(c) \/ CallEnd(c)
  \/ CallbackRecycle(c) \/ LeaveRelease(c) \/ LeaveForget(c)
  \/ CaptureBroadcast(c)
=============================================================================
