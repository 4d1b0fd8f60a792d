----------------------------- MODULE PreviewCalls -----------------------------
(***************************************************************************)
(* The calls of the application, as UVCCamera.java and the JNI layer make  *)
(* them: setFrameCallback, setCaptureDisplay (startCapture, stopCapture),  *)
(* setPreviewDisplay, startPreview and stopPreview.                        *)
(***************************************************************************)
EXTENDS PreviewState

(***************************************************************************)
(* setFrameCallback and setCaptureDisplay: the same shape for the callback *)
(* object and for the capture window.  The JNI layer takes a reference to  *)
(* the new target first.  When a capture is going on the caller stops it   *)
(* and, if there was a target, waits once on capture_sync.                 *)
(***************************************************************************)
Acquire(x) == refs' = IF x = NULL THEN refs ELSE [refs EXCEPT ![x] = @ + 1]
Release(x) == refs' = IF x = NULL THEN refs ELSE [refs EXCEPT ![x] = @ - 1]

\* Under capture_mutex: caller t asks to replace the target old by new.
ReplaceBegin(t, from, old, new, waiting, replacing) ==
  /\ CaptureMutexFree
  /\ Acquire(new)
  /\ arg' = [arg EXCEPT ![t] = new]
  /\ mIsCapturing' = (mIsCapturing /\ ~mIsRunning)
  /\ IF mIsRunning /\ mIsCapturing /\ old # NULL
     THEN /\ Goto(t, from, waiting)
          /\ \E rest \in SUBSET capture_sync :
               /\ Cardinality(capture_sync \ rest) = IF capture_sync = {} THEN 0 ELSE 1
               /\ capture_sync' = rest \cup {t}
     ELSE /\ Goto(t, from, replacing)
          /\ UNCHANGED capture_sync
  /\ UNCHANGED <<frameVars, mIsRunning, mPreviewWindow, mCaptureWindow,
                 mFrameCallbackObj, preview_sync, sessionVars, captureVars,
                 sessions>>

\* Faulty variant: capture_mutex is not taken again at the end of the wait.
ReplaceResumeUnlocked(t, waiting, replacing) ==
  /\ Goto(t, waiting, replacing)
  /\ t \notin capture_sync
  /\ UNCHANGED <<frameVars, controlVars>>

\* The wait is over: there is no loop around it.
ReplaceResume(t, waiting, replacing) ==
  /\ Goto(t, waiting, replacing)
  /\ t \notin capture_sync
  /\ CaptureMutexFree
  /\ UNCHANGED <<frameVars, controlVars>>

\* The target current is dropped when it is not the new one.
ReplaceDrop(t, current, replacing, setting, done) ==
  /\ IF current # arg[t]
     THEN Goto(t, replacing, setting) /\ Release(current)
     ELSE Goto(t, replacing, done) /\ UNCHANGED refs
  /\ UNCHANGED <<frameVars, flagVars, mPreviewWindow, mCaptureWindow,
                 mFrameCallbackObj, syncVars, sessionVars, captureVars, callVars>>

AfterCallback(t) == IF t = "main" THEN "stop" ELSE "idle"

SetFrameCallback(t, o) ==
  /\ IF t = "main" THEN o = NULL /\ UNCHANGED sets
     ELSE "setFrameCallback" \in Calls /\ sets < MaxSets /\ sets' = sets + 1
  /\ ReplaceBegin(t, IF t = "main" THEN "unset" ELSE "idle",
                  mFrameCallbackObj, o, "waitCallback", "delete")

\* Every IFrameCallback has onFrame, so the method is always found.
CallbackAssign(t) ==
  /\ Goto(t, "assign", AfterCallback(t))
  /\ mFrameCallbackObj' = arg[t]
  /\ UNCHANGED <<frameVars, flagVars, mPreviewWindow, mCaptureWindow, refs,
                 syncVars, sessionVars, captureVars, callVars>>

SetCaptureDisplay(w) ==
  /\ "setCaptureDisplay" \in Calls
  /\ sets < MaxSets
  /\ sets' = sets + 1
  /\ ReplaceBegin("setter", "idle", mCaptureWindow, w, "waitWindow", "release")

\* previewFormat is always WINDOW_FORMAT_RGBA_8888, so the format of the new
\* window is never found to mismatch.
WindowInstall ==
  /\ Goto("setter", "install", "idle")
  /\ mCaptureWindow' = arg["setter"]
  /\ UNCHANGED <<frameVars, flagVars, mPreviewWindow, mFrameCallbackObj, refs,
                 syncVars, sessionVars, captureVars, callVars>>

Replace ==
  \/ \E t \in Callers :
       \/ \E o \in Callbacks \cup {NULL} : SetFrameCallback(t, o)
       \/ ReplaceResume(t, "waitCallback", "delete")
       \/ ReplaceDrop(t, mFrameCallbackObj, "delete", "assign", AfterCallback(t))
       \/ CallbackAssign(t)
  \/ \E w \in Windows \cup {NULL} : SetCaptureDisplay(w)
  \/ ReplaceResume("setter", "waitWindow", "release")
  \/ ReplaceDrop("setter", mCaptureWindow, "release", "install", "idle")
  \/ WindowInstall

(***************************************************************************)
(* setPreviewDisplay, startPreview and stopPreview.                        *)
(***************************************************************************)

\* One section under preview_mutex.  The reference to the same window set
\* again is not given back.
SetPreviewDisplay(w) ==
  /\ "setPreviewDisplay" \in Calls
  /\ pc["main"] = "idle"
  /\ sets < MaxSets
  /\ sets' = sets + 1
  /\ IF w = mPreviewWindow
     THEN Acquire(w)
     ELSE refs' = [x \in DOMAIN refs |->
                     refs[x] + (IF x = w THEN 1 ELSE 0)
                             - (IF x = mPreviewWindow THEN 1 ELSE 0)]
  /\ mPreviewWindow' = w
  /\ UNCHANGED <<frameVars, flagVars, mCaptureWindow, mFrameCallbackObj,
                 syncVars, sessionVars, captureVars, arg, sessions, pc>>

StartBegin ==
  /\ "start" \in Calls
  /\ Goto("main", "idle", "start")
  /\ sessions < MaxSessions
  /\ ~mIsRunning
  /\ mIsRunning' = TRUE
  /\ UNCHANGED <<frameVars, mIsCapturing, targetVars, syncVars, sessionVars,
                 captureVars, callVars>>

\* pthread_create of the preview thread, under preview_mutex, when there is a
\* window; without a window, or when the creation fails, the start is undone.
StartCreate ==
  /\ \/ /\ pc["main"] = "start"
        /\ mPreviewWindow # NULL
        /\ pc' = [pc EXCEPT !["main"] = "idle", !["preview"] = "prepare"]
        /\ sessions' = sessions + 1
        /\ UNCHANGED <<mIsRunning, preview_sync>>
     \/ /\ Goto("main", "start", "idle")
        /\ mIsRunning' = FALSE
        /\ Signal(preview_sync)
        /\ UNCHANGED sessions
  /\ UNCHANGED <<frameVars, mIsCapturing, targetVars, capture_sync, sessionVars,
                 captureVars, arg, sets>>

\* UVCCamera.stopPreview calls setFrameCallback(null, 0) first.
StopCall ==
  /\ "stop" \in Calls
  /\ Goto("main", "idle", "unset")
  /\ UNCHANGED <<frameVars, controlVars>>

StopBegin ==
  /\ IF mIsRunning THEN Goto("main", "stop", "signal")
                   ELSE Goto("main", "stop", "clearPreview")
  /\ mIsRunning' = FALSE
  /\ UNCHANGED <<frameVars, mIsCapturing, targetVars, syncVars, sessionVars,
                 captureVars, callVars>>

\* Both signals are sent without the mutex of their condition.
StopSignal ==
  /\ Goto("main", "signal", "joinCapture")
  /\ Signal(preview_sync)
  /\ Signal(capture_sync)
  /\ UNCHANGED <<frameVars, flagVars, targetVars, sessionVars, captureVars,
                 callVars>>

\* pthread_join(capture_thread): fails at once for a thread that was never
\* created or is joined already.
StopJoinCapture ==
  /\ pc["main"] = "joinCapture"
  /\ \/ /\ \/ capture_thread = NULL
           \/ capture_thread # NULL /\ pc[capture_thread] = "none"
        /\ pc' = [pc EXCEPT !["main"] = "joinPreview"]
     \/ /\ capture_thread # NULL
        /\ pc[capture_thread] = "ended"
        /\ pc' = [pc EXCEPT !["main"] = "joinPreview", ![capture_thread] = "none"]
  /\ UNCHANGED <<frameVars, controlVars>>

\* pthread_join(preview_thread), then clearDisplay, which changes only pixels.
StopJoinPreview ==
  /\ pc["main"] = "joinPreview"
  /\ pc["preview"] = "ended"
  /\ pc' = [pc EXCEPT !["main"] = "clearPreview", !["preview"] = "none"]
  /\ UNCHANGED <<frameVars, controlVars>>

\* Faulty variant: the queue is left as it is.
StopClearPreviewNot ==
  /\ Goto("main", "clearPreview", "clearCapture")
  /\ UNCHANGED <<frameVars, controlVars>>

\* clearPreviewFrame, under preview_mutex.
StopClearPreview ==
  /\ Goto("main", "clearPreview", "clearCapture")
  /\ ClearQueue
  /\ UNCHANGED controlVars

StopClearCapture ==
  /\ Goto("main", "clearCapture", "releasePreview")
  /\ CaptureMutexFree
  /\ RecycleSlot(CaptureQueu)
  /\ UNCHANGED <<previewFrames, controlVars>>

StopReleasePreview ==
  /\ Goto("main", "releasePreview", "releaseCapture")
  /\ Release(mPreviewWindow)
  /\ mPreviewWindow' = NULL
  /\ UNCHANGED <<frameVars, flagVars, mCaptureWindow, mFrameCallbackObj,
                 syncVars, sessionVars, captureVars, callVars>>

StopReleaseCapture ==
  /\ Goto("main", "releaseCapture", "idle")
  /\ CaptureMutexFree
  /\ Release(mCaptureWindow)
  /\ mCaptureWindow' = NULL
  /\ UNCHANGED <<frameVars, flagVars, mPreviewWindow, mFrameCallbackObj,
                 syncVars, sessionVars, captureVars, callVars>>

Start == StartBegin \/ StartCreate

Stop ==
  \/ StopCall \/ StopBegin \/ StopSignal \/ StopJoinCapture \/ StopJoinPreview
  \/ StopClearPreview \/ StopClearCapture
  \/ StopReleasePreview \/ StopReleaseCapture
=============================================================================
