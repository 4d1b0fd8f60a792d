------------------------------- MODULE Preview -------------------------------
(***************************************************************************)
(* UVCPreview: its threads and its callers together, the fairness of       *)
(* their scheduling, and what the preview promises.                        *)
(***************************************************************************)
EXTENDS PreviewStream, PreviewCapture, PreviewCalls

\* A wait of pthread_cond_wait may end by itself.
SpuriousWakeup ==
  /\ SpuriousWakeups
  /\ \/ preview_sync # {} /\ Signal(preview_sync) /\ UNCHANGED capture_sync
     \/ capture_sync # {} /\ Signal(capture_sync) /\ UNCHANGED preview_sync
  /\ UNCHANGED <<frameVars, flagVars, targetVars, sessionVars, captureVars,
                 callVars, pc>>

Next ==
  \/ Uvc
  \/ PreviewThread
  \/ \E c \in CaptureThreads : CaptureThread(c)
  \/ Replace
  \/ \E w \in Windows \cup {NULL} : SetPreviewDisplay(w)
  \/ Start
  \/ Stop
  \/ SpuriousWakeup

Spec == Init /\ [][Next]_vars

(***************************************************************************)
(* Fairness: the scheduler runs every thread that can run.  A call that    *)
(* has begun goes on; nothing makes the application begin one.  A camera   *)
(* that streams keeps delivering frames, and now and then there is memory  *)
(* for the copy of one.                                                    *)
(***************************************************************************)
ReplaceGoesOn ==
  \/ \E t \in Callers :
       \/ t = "main" /\ SetFrameCallback(t, NULL)
       \/ ReplaceResume(t, "waitCallback", "delete")
       \/ ReplaceDrop(t, mFrameCallbackObj, "delete", "assign", AfterCallback(t))
       \/ CallbackAssign(t)
  \/ ReplaceResume("setter", "waitWindow", "release")
  \/ ReplaceDrop("setter", mCaptureWindow, "release", "install", "idle")
  \/ WindowInstall

StopGoesOn ==
  \/ StopBegin \/ StopSignal \/ StopJoinCapture \/ StopJoinPreview
  \/ StopClearPreview \/ StopClearCapture
  \/ StopReleasePreview \/ StopReleaseCapture

Fairness ==
  /\ SF_vars(UvcDeliver)
  /\ WF_vars(UvcAdd \/ UvcDrop)
  /\ WF_vars(PreviewThread)
  /\ \A c \in CaptureThreads : WF_vars(CaptureThread(c))
  /\ WF_vars(StartCreate)
  /\ WF_vars(ReplaceGoesOn)
  /\ WF_vars(StopGoesOn)

FairSpec == Spec /\ Fairness

(***************************************************************************)
(* Properties.                                                             *)
(***************************************************************************)

CallerStates == {"idle", "waitCallback", "delete", "assign", "waitWindow",
                 "release", "install", "start", "unset", "stop", "signal",
                 "joinCapture", "joinPreview", "clearPreview", "clearCapture",
                 "releasePreview", "releaseCapture"}
PreviewStates == {"none", "prepare", "stream", "clear", "create", "test",
                  "wait", "blocked", "decode", "decoded", "draw", "copy",
                  "offer", "signal", "stopStream", "ended"}
CaptureStates == {"none", "clear", "running", "mark", "choose", "test", "wait",
                  "blocked", "convert", "copy", "copied", "callback",
                  "converted", "call", "return", "recycle", "leave", "forget",
                  "broadcast", "ended"}
States == CallerStates \cup PreviewStates \cup CaptureStates \cup {"add", "drop"}

FlagTypeOK ==
  /\ mIsRunning \in BOOLEAN
  /\ mIsCapturing \in BOOLEAN

TargetTypeOK ==
  /\ mPreviewWindow \in Windows \cup {NULL}
  /\ mCaptureWindow \in Windows \cup {NULL}
  /\ mFrameCallbackObj \in Callbacks \cup {NULL}
  /\ refs \in [Windows \cup Callbacks -> Int]

SyncTypeOK ==
  /\ preview_sync \in SUBSET {"preview"}
  /\ capture_sync \in SUBSET (Callers \cup CaptureThreads)

SessionTypeOK ==
  /\ capture_thread \in CaptureThreads \cup {NULL}
  /\ frameMode \in Modes
  /\ streaming \in BOOLEAN

CaptureTypeOK ==
  /\ surface \in [CaptureThreads -> BOOLEAN]
  /\ using \in [CaptureThreads -> Windows \cup {NULL}]
  /\ calling \in [CaptureThreads -> Callbacks \cup {NULL}]

CallTypeOK ==
  /\ arg \in [Callers -> Windows \cup Callbacks \cup {NULL}]
  /\ sessions \in Nat
  /\ sets \in Nat

\* The argument is of the kind of the call that is going on.
ArgTypeOK ==
  \A t \in Callers :
    /\ pc[t] \in {"waitCallback", "delete", "assign"} => arg[t] \in Callbacks \cup {NULL}
    /\ pc[t] \in {"waitWindow", "release", "install"} => arg[t] \in Windows \cup {NULL}

PcTypeOK == pc \in [Threads -> States]

\* Every variable has its type.
TypeOK ==
  /\ FrameTypeOK
  /\ FlagTypeOK /\ TargetTypeOK /\ SyncTypeOK /\ SessionTypeOK
  /\ CaptureTypeOK /\ CallTypeOK /\ ArgTypeOK /\ PcTypeOK

\* addCaptureFrame drops the frame it is given once the session is over
\* (UVCPreview.cpp:808): a session costs at most that one frame, and every
\* other path gives each allocated frame back.
LeakBound == Cardinality(Leaked) <= sessions

\* In MJPEG mode the decoded frame never goes to addCaptureFrame: no step
\* loses a frame, whether a frame can be decoded or converted or not
\* (UVCPreview.cpp:606-634).
MjpegReturnsFrames == [][frameMode = "MJPEG" => Leaked' \subseteq Leaked]_vars

\* setFrameCallback, called from two threads that wait for the capture thread
\* at the same time, deletes the global reference of the callback it replaces,
\* never the one of the callback in force, and none a second time
\* (UVCPreview.cpp:224-240).
CallbackReferenced ==
  /\ \A o \in Callbacks : refs[o] >= 0
  /\ mFrameCallbackObj # NULL /\ (\A t \in Callers : pc[t] # "assign")
       => refs[mFrameCallbackObj] >= 1

\* When stopPreview has returned (or nothing was ever started) the preview
\* thread is joined, libuvc does not call back any more, and no frame is left
\* in a queue for the next session to show.
StoppedIsQuiescent ==
  pc["main"] = "idle" /\ ~mIsRunning =>
    /\ pc["preview"] = "none"
    /\ ~streaming
    /\ pc["uvc"] = "idle"
    /\ previewFrames = <<>>
    /\ hold[CaptureQueu] = NULL

\* The strengthening that makes StoppedIsQuiescent inductive: who may exist
\* while stopPreview runs, and what is left for it to clear.
Joining == {"signal", "joinCapture", "joinPreview"}
Clearing == {"clearPreview", "clearCapture", "releasePreview", "releaseCapture"}
StreamingStates == {"clear", "create", "test", "wait", "blocked", "decode",
                    "decoded", "draw", "copy", "offer", "signal",
                    "stopStream"}

Lifecycle ==
  /\ pc["preview"] # "none" => mIsRunning \/ pc["main"] \in Joining
  /\ pc["main"] \in Joining \cup Clearing => ~mIsRunning
  /\ pc["main"] = "start" => mIsRunning
  /\ pc["main"] \in Clearing \cup {"start"} => pc["preview"] = "none"
  /\ streaming => pc["preview"] \in StreamingStates
  /\ pc["uvc"] # "idle" => streaming
  /\ pc["uvc"] = "add" => hold[Copy] # NULL
  /\ previewFrames # <<>> =>
       pc["preview"] # "none" \/ pc["main"] = "clearPreview"
  /\ hold[CaptureQueu] # NULL =>
       pc["preview"] # "none" \/ pc["main"] \in {"clearPreview", "clearCapture"}

\* A frame that addPreviewFrame has queued is taken out of the queue by the
\* preview thread unless the preview is stopped: addPreviewFrame signals under
\* the mutex under which waitPreviewFrame looks at the queue.
QueuedFrameIsTaken ==
  \A f \in Frames : f \in Queued ~> f \notin Queued \/ ~mIsRunning

\* No frame waits for a thread that sleeps: waitPreviewFrame and
\* waitCaptureFrame sleep only while there is no frame for them, though callers
\* sleep on capture_sync as well and signals are sent without its mutex
\* (UVCPreview.cpp:438-465 and 806-834).
SleepsWithoutFrame ==
  /\ "preview" \in preview_sync => previewFrames = <<>>
  /\ capture_sync \cap CaptureThreads # {} => hold[CaptureQueu] = NULL

\* A call that waits for the capture thread comes back while the camera
\* streams: "wait finishing capturing" (UVCPreview.cpp:229 and 778).
ReplaceReturns ==
  \A t \in Callers :
    pc[t] \in {"waitCallback", "waitWindow"}
      ~> pc[t] \notin {"waitCallback", "waitWindow"} \/ ~mIsRunning \/ ~streaming

\* "never return until finish previewing" (UVCPreview.cpp:868): do_capture
\* returns when the preview is finished.
CaptureReturns ==
  \A c \in CaptureThreads :
    pc[c] = "blocked" /\ ~mIsRunning ~> pc[c] # "blocked" \/ mIsRunning
=============================================================================
