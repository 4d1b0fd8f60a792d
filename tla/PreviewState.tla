----------------------------- MODULE PreviewState -----------------------------
(***************************************************************************)
(* UVCPreview (jni/UVCCamera/UVCPreview.cpp): the state shared by the      *)
(* threads that carry a frame from libuvc's callback to the screen and to  *)
(* the capture consumers (the capture window and IFrameCallback), and by   *)
(* the callers of UVCCamera.                                               *)
(*                                                                         *)
(*   "uvc"          libuvc's callback thread: uvc_preview_frame_callback   *)
(*   "preview"      preview_thread_func                                    *)
(*   CaptureThreads every thread that may run capture_thread_func          *)
(*   "main"         the caller of startPreview, stopPreview and            *)
(*                  setPreviewDisplay, `synchronized' in UVCCamera.java    *)
(*   "setter"       a caller of setFrameCallback and startCapture, which   *)
(*                  are not `synchronized'                                 *)
(*                                                                         *)
(* A section under a mutex that never waits is one action.  The sections   *)
(* of capture_mutex that wait, or that the unlocked accesses of the        *)
(* capture thread can cut in two, are several: the callers hold            *)
(* capture_mutex in "release", "install", "delete" and "assign".  A        *)
(* cond_wait adds the thread to the condition's waiting set; a signal      *)
(* removes one member, and is lost when there is none.                     *)
(***************************************************************************)
EXTENDS FramePool, Integers

CONSTANTS
  CaptureThreads,  \* identities for the capture threads
  Windows,         \* the ANativeWindows the application passes
  Callbacks,       \* the IFrameCallback objects the application passes
  Modes,           \* requestMode at each start: subset of {"YUYV", "MJPEG"}
  Calls,           \* names of the calls the application makes
  MaxSessions,     \* bound on the successful calls of startPreview
  MaxSets,         \* bound on the calls that replace a window or a callback
  SpuriousWakeups  \* whether a wait may end without a signal, as POSIX allows

Callers == {"main", "setter"}
Threads == Callers \cup {"uvc", "preview"} \cup CaptureThreads

\* The frame variables: captureQueu is shared, the others are locals.
CaptureQueu == <<"shared", "captureQueu">>
Copy        == <<"uvc", "copy">>
Mjpeg       == <<"preview", "frame_mjpeg">>
Frame       == <<"preview", "frame">>
Converted   == <<"preview", "converted">>
CapFrame(c)     == <<c, "frame">>
CapConverted(c) == <<c, "converted">>
CapCallback(c)  == <<c, "callback_frame">>

PreviewSlots == {CaptureQueu, Copy, Mjpeg, Frame, Converted}
                  \cup (CaptureThreads \X {"frame", "converted", "callback_frame"})

ASSUME PreviewAssumption ==
  /\ Slots = PreviewSlots
  /\ CaptureThreads \cap {"main", "setter", "uvc", "preview", "shared"} = {}
  /\ NULL \notin CaptureThreads \cup Windows \cup Callbacks
  /\ Windows \cap Callbacks = {}
  /\ Modes \subseteq {"YUYV", "MJPEG"}
  /\ Calls \subseteq {"start", "stop", "setPreviewDisplay",
                      "setCaptureDisplay", "setFrameCallback"}
  /\ MaxSessions \in Nat
  /\ MaxSets \in Nat
  /\ SpuriousWakeups \in BOOLEAN

VARIABLES
  mIsRunning, mIsCapturing,     \* volatile, written without a common lock
  mPreviewWindow, mCaptureWindow, mFrameCallbackObj,
  capture_thread,               \* the pthread_t last created, NULL before
  frameMode,
  preview_sync, capture_sync,   \* threads waiting on the conditions
  streaming,                    \* libuvc may call the callback
  pc,
  surface,    \* capture thread is in do_capture_surface, not in the idle loop
  arg,        \* argument of the caller's setFrameCallback/setCaptureDisplay
  using,      \* window a capture thread draws on, outside any mutex
  calling,    \* object a capture thread calls, outside any mutex
  refs,       \* references native code holds to each window and callback
  sessions, sets

flagVars == <<mIsRunning, mIsCapturing>>
targetVars == <<mPreviewWindow, mCaptureWindow, mFrameCallbackObj, refs>>
syncVars == <<preview_sync, capture_sync>>
sessionVars == <<capture_thread, frameMode, streaming>>
captureVars == <<surface, using, calling>>
callVars == <<arg, sessions, sets>>
controlVars == <<flagVars, targetVars, syncVars, sessionVars, captureVars,
                 callVars>>
vars == <<frameVars, controlVars, pc>>

Init ==
  /\ InitFrames
  /\ mIsRunning = FALSE /\ mIsCapturing = FALSE
  /\ mPreviewWindow = NULL /\ mCaptureWindow = NULL
  /\ mFrameCallbackObj = NULL
  /\ capture_thread = NULL
  /\ frameMode \in Modes
  /\ preview_sync = {} /\ capture_sync = {}
  /\ streaming = FALSE
  /\ pc = [t \in Threads |->
             IF t \in Callers \cup {"uvc"} THEN "idle" ELSE "none"]
  /\ surface = [c \in CaptureThreads |-> FALSE]
  /\ arg = [t \in Callers |-> NULL]
  /\ using = [c \in CaptureThreads |-> NULL]
  /\ calling = [c \in CaptureThreads |-> NULL]
  /\ refs = [x \in Windows \cup Callbacks |-> 0]
  /\ sessions = 0 /\ sets = 0

Goto(t, from, to) ==
  /\ pc[t] = from
  /\ pc' = [pc EXCEPT ![t] = to]

CaptureMutexFree ==
  \A t \in Callers : pc[t] \notin {"release", "install", "delete", "assign"}

\* pthread_cond_signal: wakes one of the waiting threads, if there is one.
Signal(waiting) ==
  waiting' \in IF waiting = {} THEN {{}} ELSE {waiting \ {t} : t \in waiting}
=============================================================================
