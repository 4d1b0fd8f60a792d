---------------------------- MODULE CameraHandler ----------------------------
(***************************************************************************)
(* AbstractUVCCameraHandler: application threads post messages to the      *)
(* camera thread, which owns the UVCCamera.  stopPreview posts and then    *)
(* waits on mSync for the camera thread's notifyAll.                       *)
(*                                                                         *)
(* One action is one synchronized section, one access to the message queue *)
(* or one unlocked access to the thread's fields.  Recording is only the   *)
(* consumer's existence here; Recorder has its threads.                    *)
(***************************************************************************)
EXTENDS Naturals, Sequences, FiniteSets

CONSTANTS NULL,
          Callers,      \* application threads
          Calls,        \* the operations they use
          MaxCalls      \* bound on the calls of all of them

ASSUME HandlerAssumption ==
    /\ MaxCalls \in Nat /\ NULL \notin 1 .. MaxCalls
    /\ Calls \subseteq {"open", "close", "startPreview", "stopPreview",
                        "startRecording", "stopRecording", "captureStill",
                        "startCameraFoucs", "release"}

\* UVCCamera objects: a call opens at most one.
Cameras == 1 .. MaxCalls

VARIABLES
    looper,         \* "starting", "looping", "quit" or "ended"
    queue,          \* the message queue of the camera thread
    mHandler,       \* CameraThread.mHandler is set
    mReleased,      \* the handler's mReleased
    mUVCCamera, mIsPreviewing, mH264Consumer,
    picPath,        \* a path waits for the next frame
    cam,            \* the state of each UVCCamera object
    held,           \* the camera handleOpen or handleClose has in hand
    after,          \* where the camera thread goes when handleClose is done
    pc,             \* of the camera thread
    at,             \* program counter of each caller
    op,             \* the call in progress of each caller
    waiting,        \* callers in mSync.wait
    calls, created

loopVars == <<looper, queue, mHandler>>
camVars == <<mUVCCamera, mIsPreviewing, mH264Consumer, cam, held, after,
             created, picPath>>
callVars == <<at, op, calls>>
vars == <<loopVars, mReleased, camVars, pc, callVars, waiting>>

Init ==
    /\ looper = "starting" /\ queue = <<>> /\ mHandler = FALSE
    /\ mReleased = FALSE
    /\ mUVCCamera = NULL /\ mIsPreviewing = FALSE /\ mH264Consumer = FALSE
    /\ picPath = FALSE
    /\ cam = [c \in Cameras |-> "none"] /\ held = NULL /\ created = 0
    /\ after = "loop" /\ pc = "run"
    /\ at = [t \in Callers |-> "getHandler"]
    /\ op = [t \in Callers |-> "none"]
    /\ waiting = {} /\ calls = 0

Go(from, to) == pc = from /\ pc' = to
Step(t, from, to) == at[t] = from /\ at' = [at EXCEPT ![t] = to]

\* sendMessage: a looper that has quit takes no message.
Send(m) == queue' = IF looper = "looping" THEN Append(queue, m) ELSE queue

Live == {c \in Cameras : cam[c] \in {"open", "preview"}}
-----------------------------------------------------------------------------
(* The camera thread *)

Run ==
    /\ Go("run", "loop")
    /\ looper' = "looping" /\ mHandler' = TRUE
    /\ waiting' = {}
    /\ UNCHANGED <<queue, mReleased, camVars, callVars>>

\* handleMessage throws at a message it does not know.
HandlerOf(m) == CASE m \in {"OPEN", "CLOSE", "RELEASE"} -> "close"
                  [] m = "PREVIEW_START" -> "start"
                  [] m = "PREVIEW_STOP" -> "stop"
                  [] m = "CAPTURE_START" -> "startPusher"
                  [] m = "CAPTURE_STOP" -> "stopPusher"
                  [] m = "CAPTURE_STILL" -> "still"
                  [] m = "CAMERA_FOUCS" -> "focus"
                  [] OTHER -> "unsupported"

\* Faulty variant: handleRelease quits without handleClose.
AfterCloseForgets(m) == CASE m = "OPEN" -> "openNew"
                          [] OTHER -> "loop"

\* After handleClose: handleOpen goes on, handleRelease quits.
AfterClose(m) == CASE m = "OPEN" -> "openNew"
                   [] m = "RELEASE" -> "quit"
                   [] OTHER -> "loop"

HandleMessage ==
    /\ pc = "loop" /\ looper = "looping" /\ queue # <<>>
    /\ pc' = HandlerOf(Head(queue))
    /\ after' = AfterClose(Head(queue))
    /\ queue' = Tail(queue)
    /\ UNCHANGED <<looper, mHandler, mReleased, mUVCCamera, mIsPreviewing,
                   mH264Consumer, picPath, cam, held, created, callVars,
                   waiting>>

\* handleClose stops recording, takes the camera under mSync, destroys it.
CloseStopPusher ==
    /\ Go("close", "closeTake")
    /\ mH264Consumer' = FALSE
    /\ UNCHANGED <<loopVars, mReleased, mUVCCamera, mIsPreviewing, picPath,
                   cam, held, after, created, callVars, waiting>>

\* Faulty variant: close resets mIsPreviewing, and nobody is notified.
CloseTakeResets ==
    /\ Go("closeTake", IF mUVCCamera = NULL THEN after ELSE "closeDestroy")
    /\ held' = mUVCCamera /\ mUVCCamera' = NULL
    /\ mIsPreviewing' = FALSE
    /\ UNCHANGED <<loopVars, mReleased, mH264Consumer, picPath, cam, after,
                   created, callVars, waiting>>

\* Faulty variant: mUVCCamera keeps the camera that is destroyed.
CloseTakeKeeps ==
    /\ Go("closeTake", IF mUVCCamera = NULL THEN after ELSE "closeDestroy")
    /\ held' = mUVCCamera
    /\ UNCHANGED <<loopVars, mReleased, mUVCCamera, mIsPreviewing,
                   mH264Consumer, picPath, cam, after, created, callVars,
                   waiting>>

CloseTake ==
    /\ Go("closeTake", IF mUVCCamera = NULL THEN after ELSE "closeDestroy")
    /\ held' = mUVCCamera /\ mUVCCamera' = NULL
    /\ UNCHANGED <<loopVars, mReleased, mIsPreviewing, mH264Consumer, picPath,
                   cam, after, created, callVars, waiting>>

CloseDestroy ==
    /\ Go("closeDestroy", after)
    /\ cam' = [cam EXCEPT ![held] = "destroyed"]
    /\ held' = NULL
    /\ UNCHANGED <<loopVars, mReleased, mUVCCamera, mIsPreviewing,
                   mH264Consumer, picPath, after, created, callVars, waiting>>

\* handleOpen: open may throw; that camera object is dropped.
OpenNew ==
    /\ pc = "openNew"
    /\ created < MaxCalls /\ created' = created + 1
    /\ \/ /\ cam' = [cam EXCEPT ![created'] = "open"]
          /\ held' = created' /\ pc' = "openPublish"
       \/ /\ cam' = [cam EXCEPT ![created'] = "failed"]
          /\ pc' = "loop" /\ UNCHANGED held
    /\ UNCHANGED <<loopVars, mReleased, mUVCCamera, mIsPreviewing,
                   mH264Consumer, picPath, after, callVars, waiting>>

OpenPublish ==
    /\ Go("openPublish", "loop")
    /\ mUVCCamera' = held /\ held' = NULL
    /\ UNCHANGED <<loopVars, mReleased, mIsPreviewing, mH264Consumer, picPath,
                   cam, after, created, callVars, waiting>>

\* handleStartPreview; neither size may be accepted.
StartTest ==
    /\ pc = "start"
    /\ IF mUVCCamera = NULL \/ mIsPreviewing THEN pc' = "loop"
       ELSE pc' \in {"startNative", "loop"}
    /\ UNCHANGED <<loopVars, mReleased, camVars, callVars, waiting>>

StartNative ==
    /\ Go("startNative", "startDone")
    /\ cam' = [cam EXCEPT ![mUVCCamera] = "preview"]
    /\ UNCHANGED <<loopVars, mReleased, mUVCCamera, mIsPreviewing,
                   mH264Consumer, picPath, held, after, created, callVars,
                   waiting>>

StartDone ==
    /\ Go("startDone", "loop")
    /\ mIsPreviewing' = TRUE
    /\ UNCHANGED <<loopVars, mReleased, mUVCCamera, mH264Consumer, picPath,
                   cam, held, after, created, callVars, waiting>>

\* Faulty variant: the waiting callers are notified before the preview stops.
StopTestNotifies ==
    /\ Go("stop", IF mIsPreviewing THEN "stopNative" ELSE "loop")
    /\ waiting' = IF mIsPreviewing THEN {} ELSE waiting
    /\ UNCHANGED <<loopVars, mReleased, camVars, callVars>>

\* handleStopPreview
StopTest ==
    /\ Go("stop", IF mIsPreviewing THEN "stopNative" ELSE "loop")
    /\ UNCHANGED <<loopVars, mReleased, camVars, callVars, waiting>>

StopNative ==
    /\ Go("stopNative", "stopDone")
    /\ cam' = IF mUVCCamera = NULL THEN cam
              ELSE [cam EXCEPT ![mUVCCamera] = "open"]
    /\ UNCHANGED <<loopVars, mReleased, mUVCCamera, mIsPreviewing,
                   mH264Consumer, picPath, held, after, created, callVars,
                   waiting>>

StopDone ==
    /\ Go("stopDone", "loop")
    /\ mIsPreviewing' = FALSE /\ waiting' = {}
    /\ UNCHANGED <<loopVars, mReleased, mUVCCamera, mH264Consumer, picPath,
                   cam, held, after, created, callVars>>

StartPusher ==
    /\ Go("startPusher", "loop")
    /\ mH264Consumer' = (mH264Consumer \/ mUVCCamera # NULL)
    /\ UNCHANGED <<loopVars, mReleased, mUVCCamera, mIsPreviewing, picPath,
                   cam, held, after, created, callVars, waiting>>

StopPusher ==
    /\ Go("stopPusher", "loop")
    /\ mH264Consumer' = FALSE
    /\ UNCHANGED <<loopVars, mReleased, mUVCCamera, mIsPreviewing, picPath,
                   cam, held, after, created, callVars, waiting>>

StillPicture ==
    /\ Go("still", "loop")
    /\ picPath' = TRUE
    /\ UNCHANGED <<loopVars, mReleased, mUVCCamera, mIsPreviewing,
                   mH264Consumer, cam, held, after, created, callVars,
                   waiting>>

\* setAutoFocus of a camera that previews; nothing of the handler changes.
CameraFoucs ==
    /\ Go("focus", "loop")
    /\ UNCHANGED <<loopVars, mReleased, camVars, callVars, waiting>>

\* handleRelease after handleClose; quit drops what is queued.
Quit ==
    /\ Go("quit", "runEnd")
    /\ mReleased' = TRUE
    /\ looper' = "quit" /\ queue' = <<>>
    /\ UNCHANGED <<mHandler, camVars, callVars, waiting>>

RunEnd ==
    /\ Go("runEnd", "ended")
    /\ looper' = "ended" /\ mHandler' = FALSE /\ waiting' = {}
    /\ mReleased' = TRUE
    /\ UNCHANGED <<queue, camVars, callVars>>

CameraThread ==
    \/ Run \/ HandleMessage
    \/ CloseStopPusher \/ CloseTake \/ CloseDestroy \/ OpenNew \/ OpenPublish
    \/ StartTest \/ StartNative \/ StartDone
    \/ StopTest \/ StopNative \/ StopDone
    \/ StartPusher \/ StopPusher \/ StillPicture \/ CameraFoucs
    \/ Quit \/ RunEnd
-----------------------------------------------------------------------------
(* The callers *)

\* CameraThread.getHandler waits once for mHandler.
GetHandler(t) ==
    /\ Step(t, "getHandler", IF mHandler THEN "idle" ELSE "awaitHandler")
    /\ waiting' = IF mHandler THEN waiting ELSE waiting \cup {t}
    /\ UNCHANGED <<loopVars, mReleased, camVars, pc, op, calls>>

GotHandler(t) ==
    /\ t \notin waiting
    /\ Step(t, "awaitHandler", "idle")
    /\ UNCHANGED <<loopVars, mReleased, camVars, pc, op, calls, waiting>>

Begin(t, o) ==
    /\ at[t] = "idle" /\ o \in Calls /\ calls < MaxCalls
    /\ calls' = calls + 1
    /\ op' = [op EXCEPT ![t] = o]

\* open, startPreview, startRecording and captureStill refuse a released
\* handler; stopRecording and startCameraFoucs do not look.
MessageOf == [open |-> "OPEN", startPreview |-> "PREVIEW_START",
              startRecording |-> "CAPTURE_START",
              captureStill |-> "CAPTURE_STILL",
              stopRecording |-> "CAPTURE_STOP",
              startCameraFoucs |-> "CAMERA_FOUCS"]

Post(t, o) ==
    /\ o \in DOMAIN MessageOf
    /\ Begin(t, o)
    /\ IF mReleased /\ o \notin {"stopRecording", "startCameraFoucs"}
       THEN UNCHANGED queue ELSE Send(MessageOf[o])
    /\ UNCHANGED <<looper, mHandler, mReleased, camVars, pc, at, waiting>>

StopPreview(t) ==
    /\ Begin(t, "stopPreview") /\ Step(t, "idle", "remove")
    /\ UNCHANGED <<loopVars, mReleased, camVars, pc, waiting>>

Close(t) ==
    /\ Begin(t, "close") /\ Step(t, "idle", "isOpened")
    /\ UNCHANGED <<loopVars, mReleased, camVars, pc, waiting>>

Release(t) ==
    /\ Begin(t, "release") /\ Step(t, "idle", "isOpened")
    /\ mReleased' = TRUE
    /\ UNCHANGED <<loopVars, camVars, pc, waiting>>

IsOpened(t) ==
    /\ Step(t, "isOpened", IF mUVCCamera # NULL THEN "remove" ELSE "closed")
    /\ UNCHANGED <<loopVars, mReleased, camVars, pc, op, calls, waiting>>

\* The messages of q other than m, in their order: the k-th of them is the one
\* up to which there are k.
Without(q, m) ==
    LET kept == {i \in DOMAIN q : q[i] # m}
        Kth(k) == CHOOSE i \in kept : Cardinality({j \in kept : j <= i}) = k
    IN  [k \in 1 .. Cardinality(kept) |-> q[Kth(k)]]

\* removeMessages(MSG_PREVIEW_START)
RemoveStarts(t) ==
    /\ Step(t, "remove", "isRecording")
    /\ queue' = Without(queue, "PREVIEW_START")
    /\ UNCHANGED <<looper, mHandler, mReleased, camVars, pc, op, calls,
                   waiting>>

IsRecording(t) ==
    /\ Step(t, "isRecording", "isPreviewing")
    /\ IF mUVCCamera # NULL /\ mH264Consumer
       THEN Send("CAPTURE_STOP") ELSE UNCHANGED queue
    /\ UNCHANGED <<looper, mHandler, mReleased, camVars, pc, op, calls,
                   waiting>>

IsPreviewing(t) ==
    /\ Step(t, "isPreviewing",
            IF mUVCCamera # NULL /\ mIsPreviewing THEN "sendStop"
            ELSE "stopped")
    /\ UNCHANGED <<loopVars, mReleased, camVars, pc, op, calls, waiting>>

\* Sending and beginning to wait are one section under mSync.
SendStop(t) ==
    /\ Step(t, "sendStop", "waiting")
    /\ Send("PREVIEW_STOP")
    /\ waiting' = waiting \cup {t}
    /\ UNCHANGED <<looper, mHandler, mReleased, camVars, pc, op, calls>>

Woken(t) ==
    /\ t \notin waiting
    /\ Step(t, "waiting", "stopped")
    /\ UNCHANGED <<loopVars, mReleased, camVars, pc, op, calls, waiting>>

\* stopPreview returns: to its caller, or to close.
Stopped(t) ==
    /\ Step(t, "stopped", IF op[t] = "stopPreview" THEN "idle" ELSE "closing")
    /\ UNCHANGED <<loopVars, mReleased, camVars, pc, op, calls, waiting>>

SendClose(t) ==
    /\ Step(t, "closing", "closed")
    /\ Send("CLOSE")
    /\ UNCHANGED <<looper, mHandler, mReleased, camVars, pc, op, calls,
                   waiting>>

\* close returns; release posts its message, and its caller forgets the
\* handler (UVCCameraHelper).
Closed(t) ==
    /\ Step(t, "closed", IF op[t] = "release" THEN "gone" ELSE "idle")
    /\ IF op[t] = "release" THEN Send("RELEASE") ELSE UNCHANGED queue
    /\ UNCHANGED <<looper, mHandler, mReleased, camVars, pc, op, calls,
                   waiting>>

Continue(t) ==
    \/ GetHandler(t) \/ GotHandler(t) \/ IsOpened(t) \/ RemoveStarts(t)
    \/ IsRecording(t) \/ IsPreviewing(t) \/ SendStop(t) \/ Woken(t)
    \/ Stopped(t) \/ SendClose(t) \/ Closed(t)

Caller(t) ==
    \/ Continue(t) \/ StopPreview(t) \/ Close(t) \/ Release(t)
    \/ \E o \in Calls : Post(t, o)
-----------------------------------------------------------------------------
Next == CameraThread \/ \E t \in Callers : Caller(t)

Spec == Init /\ [][Next]_vars

Fairness == WF_vars(CameraThread) /\ \A t \in Callers : WF_vars(Continue(t))
FairSpec == Spec /\ Fairness
-----------------------------------------------------------------------------
\* Types; every message that is posted has a handler
\* (handleMessage throws otherwise, AbstractUVCCameraHandler.java:395).
TypeOK ==
    /\ looper \in {"starting", "looping", "quit", "ended"}
    /\ \A i \in DOMAIN queue : HandlerOf(queue[i]) # "unsupported"
    /\ mUVCCamera \in Cameras \cup {NULL} /\ held \in Cameras \cup {NULL}
    /\ {mHandler, mReleased, mIsPreviewing, mH264Consumer, picPath}
         \subseteq BOOLEAN
    /\ cam \in [Cameras -> {"none", "open", "preview", "failed", "destroyed"}]
    /\ waiting \subseteq Callers
    /\ created \in 0 .. MaxCalls /\ calls \in 0 .. MaxCalls

\* A camera that is open is the one the handler publishes or the one the
\* camera thread is publishing or destroying: opening again or releasing
\* leaks none, and callers never find a destroyed one
\* (handleOpen calls handleClose first, AbstractUVCCameraHandler.java:560).
OpenIsHeld ==
    /\ Live \subseteq {mUVCCamera, held}
    /\ mUVCCamera # NULL => mUVCCamera \in Live
    /\ held # NULL => mUVCCamera = NULL

\* A caller that waited for its preview to stop does not go on before it has,
\* whatever was queued ahead of its message
\* (comment at AbstractUVCCameraHandler.java:220).
WaitedIsStopped ==
    \A t \in Callers :
        at[t] = "waiting" /\ t \notin waiting
        => \A c \in Cameras : cam[c] # "preview"

\* stopPreview, close and release return whatever is queued before
\* MSG_PREVIEW_STOP, a close or an open included.
StopReturns ==
    \A t \in Callers : at[t] = "waiting" ~> at[t] # "waiting"

\* A released handler ends its thread, with no camera open and no recording.
ReleaseEnds ==
    mReleased ~> /\ looper = "ended"
                 /\ Live = {} /\ ~mH264Consumer
=============================================================================
