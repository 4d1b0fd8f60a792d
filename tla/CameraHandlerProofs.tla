------------------------- MODULE CameraHandlerProofs -------------------------
(***************************************************************************)
(* For any number of callers and calls: a camera that was opened is never  *)
(* lost without being destroyed, and none that was destroyed is used.  For *)
(* one caller: stopPreview waits for its own notification.                 *)
(***************************************************************************)
EXTENDS CameraHandler, FiniteSetTheorems, TLAPS

Types ==
    /\ mUVCCamera \in Cameras \cup {NULL} /\ held \in Cameras \cup {NULL}
    /\ cam \in [Cameras -> {"none", "open", "preview", "failed", "destroyed"}]
    /\ created \in 0 .. MaxCalls
    /\ after \in {"loop", "openNew", "quit"}

\* Where the camera thread has a camera in hand, and where it has, or has
\* not, one it publishes.
Phases ==
    /\ held # NULL <=> pc \in {"closeDestroy", "openPublish"}
    /\ pc \in {"closeDestroy", "openPublish", "openNew"} => mUVCCamera = NULL
    /\ pc = "startNative" => mUVCCamera # NULL

\* The cameras in use are those that are referred to; the others are still to
\* be made, were destroyed, or could not be opened.
Owned ==
    /\ \A c \in Cameras : c \in Live <=> c \in {mUVCCamera, held}
    /\ \A c \in Cameras : c > created => cam[c] = "none"

IInv == Types /\ Phases /\ Owned
-----------------------------------------------------------------------------
LEMMA InitIInv == Init => IInv
<1> SUFFICES ASSUME Init PROVE IInv
  OBVIOUS
<1>1. Types
  BY HandlerAssumption DEF Init, Types
<1>2. Phases
  BY DEF Init, Phases
<1>3. Owned
  BY HandlerAssumption DEF Init, Owned, Live, Cameras
<1>4. QED
  BY <1>1, <1>2, <1>3 DEF IInv

\* The steps of the camera thread that keep the cameras and the references to
\* them.
Elsewhere == {"run", "loop", "close", "closeTake", "start", "startDone",
              "stop", "stopNative", "stopDone", "startPusher", "stopPusher",
              "still", "focus", "quit", "runEnd", "ended", "unsupported"}

LEMMA Keeps ==
  ASSUME IInv, UNCHANGED <<mUVCCamera, held, cam, created>>,
         after' \in {"loop", "openNew", "quit"},
         \/ pc' = pc
         \/ pc \in Elsewhere \cup {"startNative"} /\ pc' \in Elsewhere
  PROVE  IInv'
BY DEF IInv, Types, Phases, Owned, Live, Elsewhere

LEMMA CallerKeeps ==
  ASSUME IInv, NEW t \in Callers, Caller(t) PROVE IInv'
<1>1. UNCHANGED <<camVars, pc>>
  BY DEF Caller, Continue, GetHandler, GotHandler, IsOpened, RemoveStarts,
     IsRecording, IsPreviewing, SendStop, Woken, Stopped, SendClose, Closed,
     StopPreview, Close, Release, Post
<1>2. QED
  BY <1>1, Keeps DEF camVars, IInv, Types

LEMMA CameraThreadKeeps ==
  ASSUME IInv, CameraThread PROVE IInv'
<1> USE DEF IInv
<1>1. CASE Run \/ CloseStopPusher
  BY <1>1, Keeps DEF Run, CloseStopPusher, Go, Elsewhere, camVars, Types
<1>2. CASE HandleMessage
  <2>1. HandlerOf(Head(queue)) \in Elsewhere
    BY DEF HandlerOf, Elsewhere
  <2>2. AfterClose(Head(queue)) \in {"loop", "openNew", "quit"}
    BY DEF AfterClose
  <2>3. QED
    BY <1>2, <2>1, <2>2, Keeps DEF HandleMessage, Elsewhere
<1>3. CASE CloseTake
  <2>1. /\ held' = mUVCCamera /\ mUVCCamera' = NULL /\ pc = "closeTake"
        /\ pc' = IF mUVCCamera = NULL THEN after ELSE "closeDestroy"
        /\ UNCHANGED <<cam, created, after>>
    BY <1>3 DEF CloseTake, Go
  <2>2. held = NULL
    BY <2>1 DEF Phases
  <2>3. Types' /\ Phases'
    BY <2>1 DEF Types, Phases
  <2>4. mUVCCamera \notin Cameras => mUVCCamera = NULL
    BY DEF Types
  <2>6. Owned'
    BY <2>1, <2>2, <2>4, HandlerAssumption DEF Owned, Live, Cameras
  <2>5. QED
    BY <2>3, <2>6
<1>4. CASE CloseDestroy
  <2>1. /\ pc = "closeDestroy" /\ pc' = after /\ held' = NULL
        /\ cam' = [cam EXCEPT ![held] = "destroyed"]
        /\ UNCHANGED <<mUVCCamera, created, after>>
    BY <1>4 DEF CloseDestroy, Go
  <2>2. held \in Cameras /\ mUVCCamera = NULL
    BY <2>1 DEF Phases, Types
  <2>3. Types' /\ Phases'
    BY <2>1, <2>2 DEF Types, Phases
  <2>4. held \in Live /\ held <= created
    BY <2>2, HandlerAssumption DEF Owned, Types, Live, Cameras
  <2>5. Owned'
    BY <2>1, <2>2, <2>4, HandlerAssumption DEF Owned, Live, Types, Cameras
  <2>6. QED
    BY <2>3, <2>5
<1>5. CASE OpenNew
  <2>1. /\ pc = "openNew" /\ created' = created + 1 /\ created < MaxCalls
        /\ UNCHANGED <<mUVCCamera, after>>
    BY <1>5 DEF OpenNew
  <2>2. /\ mUVCCamera = NULL /\ held = NULL /\ created' \in Cameras
        /\ created \in Nat /\ cam[created'] = "none"
    BY <2>1, HandlerAssumption DEF Phases, Owned, Types, Cameras
  <2>3. \A c \in Cameras : c \notin Live
    BY <2>2, HandlerAssumption DEF Owned, Cameras
  <2>4. CASE /\ cam' = [cam EXCEPT ![created'] = "open"]
             /\ held' = created' /\ pc' = "openPublish"
    <3>1. Types' /\ Phases'
      BY <2>1, <2>2, <2>4, HandlerAssumption DEF Types, Phases, Cameras
    <3>2. Owned'
      BY <2>1, <2>2, <2>3, <2>4, HandlerAssumption
         DEF Owned, Live, Types, Cameras
    <3>3. QED
      BY <3>1, <3>2
  <2>5. CASE /\ cam' = [cam EXCEPT ![created'] = "failed"]
             /\ held' = held /\ pc' = "loop"
    <3>1. Types' /\ Phases'
      BY <2>1, <2>2, <2>5, HandlerAssumption DEF Types, Phases, Cameras
    <3>2. Owned'
      BY <2>1, <2>2, <2>3, <2>5, HandlerAssumption
         DEF Owned, Live, Types, Cameras
    <3>3. QED
      BY <3>1, <3>2
  <2>6. QED
    BY <1>5, <2>4, <2>5 DEF OpenNew
<1>6. CASE OpenPublish
  BY <1>6 DEF OpenPublish, Go, Types, Phases, Owned, Live
<1>7. CASE StartTest
  <2>1. CASE pc' = "startNative"
    BY <1>7, <2>1 DEF StartTest, camVars, Types, Phases, Owned, Live
  <2>2. CASE pc' # "startNative"
    BY <1>7, <2>2, Keeps DEF StartTest, camVars, Elsewhere, Types
  <2>3. QED
    BY <2>1, <2>2
<1>8. CASE StartNative
  <2>1. /\ pc = "startNative" /\ pc' = "startDone" /\ mUVCCamera \in Live
        /\ cam' = [cam EXCEPT ![mUVCCamera] = "preview"]
        /\ UNCHANGED <<mUVCCamera, held, created, after>>
    BY <1>8 DEF StartNative, Go, Phases, Owned, Types
  <2>2. QED
    BY <2>1 DEF Types, Phases, Owned, Live
<1>9. CASE StopNative
  <2>1. /\ pc = "stopNative" /\ pc' = "stopDone"
        /\ UNCHANGED <<mUVCCamera, held, created, after>>
    BY <1>9 DEF StopNative, Go
  <2>2. CASE mUVCCamera = NULL
    BY <1>9, <2>1, <2>2, Keeps DEF StopNative, Elsewhere, Types
  <2>3. CASE mUVCCamera # NULL
    <3>1. cam' = [cam EXCEPT ![mUVCCamera] = "open"] /\ mUVCCamera \in Live
      BY <1>9, <2>3 DEF StopNative, Owned, Types
    <3>2. QED
      BY <2>1, <3>1 DEF Types, Phases, Owned, Live
  <2>4. QED
    BY <2>2, <2>3
<1>10. CASE StartDone \/ StopTest \/ StopDone
  BY <1>10, Keeps DEF StartDone, StopTest, StopDone, Go, Elsewhere, camVars,
     Types
<1>11. CASE StartPusher \/ StopPusher \/ StillPicture \/ CameraFoucs
  BY <1>11, Keeps DEF StartPusher, StopPusher, StillPicture, CameraFoucs, Go,
     Elsewhere, camVars, Types
<1>12. CASE Quit \/ RunEnd
  BY <1>12, Keeps DEF Quit, RunEnd, Go, Elsewhere, camVars, Types
<1>13. QED
  BY <1>1, <1>2, <1>3, <1>4, <1>5, <1>6, <1>7, <1>8, <1>9, <1>10, <1>11,
     <1>12 DEF CameraThread

LEMMA IInvStep == IInv /\ [Next]_vars => IInv'
<1> SUFFICES ASSUME IInv, [Next]_vars PROVE IInv'
  OBVIOUS
<1>1. CASE UNCHANGED vars
  BY <1>1, Keeps DEF vars, camVars, IInv, Types
<1>2. QED
  BY <1>1, CallerKeeps, CameraThreadKeeps DEF Next

\* Whatever the callers post, and in whatever order it is handled, an open
\* camera is the one the handler publishes or the one the camera thread has in
\* hand (AbstractUVCCameraHandler.java:556-610).
THEOREM CamerasAreHeld == Spec => []OpenIsHeld
<1>1. Spec => []IInv
  BY InitIInv, IInvStep, PTL DEF Spec
<1>2. IInv => OpenIsHeld
  <2>1. Live \subseteq Cameras
    BY DEF Live
  <2>2. QED
    BY <2>1 DEF IInv, Types, Phases, Owned, OpenIsHeld
<1>3. QED
  BY <1>1, <1>2, PTL
-----------------------------------------------------------------------------
(***************************************************************************)
(* The end of a wait.  With two callers it does not hold: the notification *)
(* meant for one lets the other go, too.                                   *)
(***************************************************************************)

OneCaller == \A t, u \in Callers : t = u

Messages == {"OPEN", "CLOSE", "RELEASE", "PREVIEW_START", "PREVIEW_STOP",
             "CAPTURE_START", "CAPTURE_STOP", "CAPTURE_STILL", "CAMERA_FOUCS"}

Points == {"getHandler", "awaitHandler", "idle", "isOpened", "remove",
           "isRecording", "isPreviewing", "sendStop", "waiting", "stopped",
           "closing", "closed", "gone"}

WaitTypes ==
    /\ queue \in Seq(Messages)
    /\ at \in [Callers -> Points]
    /\ waiting \subseteq {t \in Callers : at[t] \in {"awaitHandler", "waiting"}}

\* handleStopPreview
Stopping == {"stop", "stopNative", "stopDone"}

NoneQueued(m) == \A i \in DOMAIN queue : queue[i] # m

\* Before the camera thread runs, a caller is still on its way to the handler.
Starting ==
    /\ looper = "starting" <=> pc = "run"
    /\ mHandler => looper # "starting"
    /\ \A t \in Callers :
         looper = "starting" =>
           \/ at[t] = "getHandler"
           \/ at[t] = "awaitHandler" /\ t \in waiting

\* A handler ends after its release only, and its caller does not come back.
Running ==
    \A t \in Callers :
        at[t] # "gone" =>
          /\ looper \in {"starting", "looping"}
          /\ after # "quit" /\ pc \notin {"quit", "runEnd", "ended"}
          /\ NoneQueued("RELEASE")

\* A caller that waits has its message queued behind all others, or handled
\* with none behind it, and the preview is not stopped yet.
StopQueued ==
    /\ pc \notin Stopping
    /\ Len(queue) > 0 /\ queue[Len(queue)] = "PREVIEW_STOP"
    /\ \A i \in 1 .. Len(queue) - 1 : queue[i] # "PREVIEW_STOP"

StopTaken == pc \in Stopping /\ queue = <<>>

Waits ==
    \A t \in Callers :
        /\ at[t] = "sendStop" => mIsPreviewing
        /\ at[t] = "waiting" /\ t \in waiting =>
             mIsPreviewing /\ (StopQueued \/ StopTaken)
        /\ at[t] = "waiting" /\ t \notin waiting =>
             /\ pc = "loop" /\ queue = <<>>
             /\ \A c \in Cameras : cam[c] # "preview"
        /\ at[t] \notin {"waiting", "gone"} =>
             pc \notin Stopping /\ NoneQueued("PREVIEW_STOP")

\* UVCCamera.stopPreview is done.
NativeStopped == pc = "stopDone" => \A c \in Cameras : cam[c] # "preview"

WaitInv == IInv /\ WaitTypes /\ Starting /\ Running /\ Waits /\ NativeStopped

\* What removeMessages leaves are messages that were there, but not those.
LEMMA WithoutLeaves ==
  ASSUME NEW q \in Seq(Messages), NEW m
  PROVE  /\ Without(q, m) \in Seq(Messages)
         /\ \A k \in DOMAIN Without(q, m) :
              \E i \in DOMAIN q : q[i] # m /\ Without(q, m)[k] = q[i]
<1> DEFINE kept == {i \in DOMAIN q : q[i] # m}
           UpTo(i) == {j \in kept : j <= i}
           Kth(k) == CHOOSE i \in kept : Cardinality(UpTo(i)) = k
           n == Cardinality(kept)
           rank == [i \in kept |-> Cardinality(UpTo(i))]
<1>1. kept \subseteq Nat /\ IsFiniteSet(kept) /\ n \in Nat
  <2>1. DOMAIN q = 1 .. Len(q) /\ Len(q) \in Nat
    OBVIOUS
  <2>2. IsFiniteSet(DOMAIN q)
    BY <2>1, FS_Interval
  <2>3. QED
    BY <2>1, <2>2, FS_Subset, FS_CardinalityType
<1>2. ASSUME NEW i \in kept PROVE rank[i] \in 1 .. n
  <2>1. IsFiniteSet(UpTo(i)) /\ Cardinality(UpTo(i)) <= n
    BY <1>1, FS_Subset
  <2>2. i \in UpTo(i)
    BY <1>1
  <2>3. Cardinality(UpTo(i)) \in Nat /\ Cardinality(UpTo(i)) # 0
    BY <2>1, <2>2, FS_CardinalityType, FS_EmptySet
  <2>4. QED
    BY <1>1, <2>1, <2>3
<1>3. ASSUME NEW i \in kept, NEW j \in kept, i < j PROVE rank[i] # rank[j]
  <2>1. UpTo(i) \in SUBSET UpTo(j) /\ j \in UpTo(j) /\ j \notin UpTo(i)
    BY <1>1, <1>3
  <2>2. IsFiniteSet(UpTo(j))
    BY <1>1, FS_Subset
  <2>3. Cardinality(UpTo(i)) # Cardinality(UpTo(j))
    BY <2>1, <2>2, FS_Subset
  <2>4. QED
    BY <2>3
<1>4. rank \in Surjection(kept, 1 .. n)
  <2>1. \A i, j \in kept : i # j => i < j \/ j < i
    BY <1>1
  <2>2. \A i, j \in kept : rank[i] = rank[j] => i = j
    BY <1>3, <2>1
  <2>3. rank \in [kept -> 1 .. n]
    BY <1>2
  <2> HIDE DEF rank
  <2>4. rank \in Injection(kept, 1 .. n)
    BY <2>2, <2>3 DEF Injection, IsInjective
  <2>5. IsFiniteSet(1 .. n) /\ Cardinality(1 .. n) = n
    BY <1>1, FS_Interval
  <2>6. QED
    BY <2>4, <2>5, FS_Injection
<1> HIDE DEF n
<1>5. \A k \in 1 .. n : Kth(k) \in kept
  <2> SUFFICES ASSUME NEW k \in 1 .. n PROVE Kth(k) \in kept
    OBVIOUS
  <2>1. \E i \in kept : rank[i] = k
    BY <1>4 DEF Surjection
  <2>2. \E i \in kept : Cardinality(UpTo(i)) = k
    BY <2>1
  <2>3. QED
    BY <2>2
<1>6. Without(q, m) = [k \in 1 .. n |-> q[Kth(k)]]
  BY DEF Without, n
<1>7. \A i \in kept : i \in DOMAIN q /\ q[i] # m /\ q[i] \in Messages
  OBVIOUS
<1> HIDE DEF Kth, kept
<1>8. \A k \in 1 .. n : q[Kth(k)] \in Messages
  BY <1>5, <1>7
<1>9. [k \in 1 .. n |-> q[Kth(k)]] \in Seq(Messages)
  BY <1>1, <1>8
<1>10. QED
  BY <1>5, <1>6, <1>7, <1>9

LEMMA InitWait == Init => WaitInv
  BY InitIInv, HandlerAssumption
  DEF Init, WaitInv, WaitTypes, Starting, Running, Waits, NativeStopped,
      NoneQueued, Stopping, Points

\* The queue is taken from in front.
LEMMA QueueTail ==
  ASSUME queue \in Seq(Messages), queue # <<>>
  PROVE  /\ Head(queue) \in Messages /\ Head(queue) = queue[1]
         /\ Tail(queue) \in Seq(Messages)
         /\ Len(queue) \in Nat /\ Len(queue) > 0
         /\ Len(Tail(queue)) = Len(queue) - 1
         /\ \A i \in DOMAIN Tail(queue) :
              i + 1 \in DOMAIN queue /\ Tail(queue)[i] = queue[i + 1]
  OBVIOUS

\* handleMessage is at handleStopPreview for its message only, and ends for
\* MSG_RELEASE only.
LEMMA Handlers ==
  ASSUME NEW m \in Messages
  PROVE  /\ HandlerOf(m) = "stop" <=> m = "PREVIEW_STOP"
         /\ HandlerOf(m) \in {"close", "start", "stop", "startPusher",
                              "stopPusher", "still", "focus"}
         /\ AfterClose(m) = "quit" => m = "RELEASE"
  BY DEF Messages, HandlerOf, AfterClose

LEMMA HandleMessageKeepsWait ==
  ASSUME WaitInv, HandleMessage PROVE WaitInv'
<1>1. IInv'
  BY CameraThreadKeeps DEF CameraThread, WaitInv
<1>2. /\ pc = "loop" /\ looper = "looping" /\ queue # <<>>
      /\ pc' = HandlerOf(Head(queue)) /\ after' = AfterClose(Head(queue))
      /\ queue' = Tail(queue) /\ queue \in Seq(Messages)
      /\ UNCHANGED <<looper, mHandler, mIsPreviewing, cam, at, waiting>>
  BY DEF HandleMessage, callVars, WaitInv, WaitTypes
<1>3. /\ Head(queue) \in Messages /\ Head(queue) = queue[1]
      /\ queue' \in Seq(Messages)
      /\ Len(queue) \in Nat /\ Len(queue) > 0
      /\ Len(queue') = Len(queue) - 1
      /\ DOMAIN queue = 1 .. Len(queue) /\ DOMAIN queue' = 1 .. Len(queue')
      /\ \A i \in DOMAIN queue' :
           i + 1 \in DOMAIN queue /\ queue'[i] = queue[i + 1]
  BY <1>2, QueueTail
<1>4. /\ pc' = "stop" <=> queue[1] = "PREVIEW_STOP"
      /\ pc' \in {"close", "start", "stop", "startPusher", "stopPusher",
                  "still", "focus"}
      /\ after' = "quit" => queue[1] = "RELEASE"
  BY <1>2, <1>3, Handlers
<1>5. WaitTypes' /\ Starting' /\ NativeStopped'
  BY <1>2, <1>3, <1>4 DEF WaitInv, WaitTypes, Starting, NativeStopped
<1>6. ASSUME NEW m, NoneQueued(m) PROVE queue[1] # m /\ NoneQueued(m)'
  BY <1>3, <1>6 DEF NoneQueued
<1>7. Running'
  BY <1>2, <1>4, <1>6 DEF WaitInv, Running
<1>8. ASSUME StopQueued PROVE StopQueued' \/ StopTaken'
  <2>1. CASE Len(queue) = 1
    <3>1. queue' = <<>> /\ pc' = "stop"
      BY <1>3, <1>4, <1>8, <2>1 DEF StopQueued
    <3>2. QED
      BY <3>1 DEF StopTaken, Stopping
  <2>2. CASE Len(queue) # 1
    <3>1. /\ Len(queue') > 0
          /\ queue'[Len(queue')] = "PREVIEW_STOP" /\ queue[1] # "PREVIEW_STOP"
          /\ \A i \in 1 .. Len(queue') - 1 : queue'[i] # "PREVIEW_STOP"
      BY <1>3, <1>8, <2>2 DEF StopQueued
    <3>2. QED
      BY <1>4, <3>1 DEF StopQueued, Stopping
  <2>3. QED
    BY <2>1, <2>2
<1>9. Waits'
  <2>1. ~StopTaken
    BY <1>2 DEF StopTaken, Stopping
  <2>2. QED
    BY <1>2, <1>4, <1>6, <1>8, <2>1 DEF WaitInv, Waits, Stopping
<1>10. QED
  BY <1>1, <1>5, <1>7, <1>9 DEF WaitInv

\* The steps of the camera thread that are not the loop's, and neither start
\* nor stop the preview.
LEMMA WorkKeepsWait ==
  ASSUME WaitInv, IInv',
         \/ CloseStopPusher \/ CloseTake \/ CloseDestroy \/ OpenNew
         \/ OpenPublish \/ StartTest \/ StartPusher \/ StopPusher
         \/ StillPicture \/ CameraFoucs
  PROVE  WaitInv'
<1>1. /\ pc \notin Stopping \cup {"run", "loop", "quit", "runEnd", "ended"}
      /\ UNCHANGED <<looper, queue, mHandler, mIsPreviewing, after, at,
                     waiting>>
      /\ pc' \in {"loop", "closeTake", "closeDestroy", "openPublish",
                  "startNative", after}
  BY DEF CloseStopPusher, CloseTake, CloseDestroy, OpenNew, OpenPublish,
         StartTest, StartPusher, StopPusher, StillPicture, CameraFoucs, Go,
         loopVars, camVars, callVars, Stopping
<1>2. after \in {"loop", "openNew", "quit"}
  BY DEF WaitInv, IInv, Types
<1>3. pc' \notin Stopping \cup {"run"} /\ pc' # "runEnd" /\ pc' # "ended"
  BY <1>1, <1>2 DEF Stopping
<1>4. WaitTypes' /\ Starting' /\ NativeStopped'
  BY <1>1, <1>3 DEF WaitInv, WaitTypes, Starting, NativeStopped, Stopping
<1>5. Running'
  BY <1>1, <1>3 DEF WaitInv, Running, NoneQueued
<1>6. Waits'
  BY <1>1, <1>3 DEF WaitInv, Waits, StopQueued, StopTaken, NoneQueued, Stopping
<1>7. QED
  BY <1>4, <1>5, <1>6 DEF WaitInv

\* handleStartPreview: nobody waits whose message is handled.
LEMMA StartKeepsWait ==
  ASSUME WaitInv, IInv', StartNative \/ StartDone PROVE WaitInv'
<1>1. /\ pc \in {"startNative", "startDone"} /\ pc' \in {"startDone", "loop"}
      /\ UNCHANGED <<looper, queue, mHandler, after, at, waiting>>
      /\ mIsPreviewing => mIsPreviewing'
  BY DEF StartNative, StartDone, Go, loopVars, callVars, WaitInv, IInv, Types
<1>2. WaitTypes' /\ Starting' /\ NativeStopped'
  BY <1>1 DEF WaitInv, WaitTypes, Starting, NativeStopped
<1>3. Running'
  BY <1>1 DEF WaitInv, Running, NoneQueued
<1>4. Waits'
  BY <1>1 DEF WaitInv, Waits, StopQueued, StopTaken, NoneQueued, Stopping
<1>5. QED
  BY <1>2, <1>3, <1>4 DEF WaitInv

\* handleStopPreview: the preview that a caller waits for is stopped, and only
\* then is the caller notified.
LEMMA StopKeepsWait ==
  ASSUME WaitInv, IInv', StopTest \/ StopNative \/ StopDone PROVE WaitInv'
<1>1. /\ pc \in Stopping
      /\ UNCHANGED <<looper, queue, mHandler, after, at>>
  BY DEF StopTest, StopNative, StopDone, Go, loopVars, camVars, callVars,
         Stopping
<1>2. \A t \in Callers :
        /\ at[t] \in {"waiting", "gone"}
        /\ at[t] = "waiting" => t \in waiting /\ mIsPreviewing /\ queue = <<>>
  BY <1>1 DEF WaitInv, Waits, StopQueued, StopTaken, Stopping
<1>3. /\ \/ /\ pc' \in {"stopNative", "stopDone"}
            /\ UNCHANGED <<waiting, mIsPreviewing>>
         \/ pc' = "loop" /\ ~mIsPreviewing /\ waiting' = waiting
         \/ pc' = "loop" /\ waiting' = {} /\ pc = "stopDone" /\ cam' = cam
      /\ waiting' \subseteq waiting
  BY DEF StopTest, StopNative, StopDone, Go, camVars, Stopping
<1>4. NativeStopped'
  <2>1. CASE StopNative
    <3>1. held = NULL /\ NULL \notin Cameras
      BY <2>1, HandlerAssumption
      DEF StopNative, Go, WaitInv, IInv, Phases, Cameras
    <3>2. \A c \in Cameras : cam[c] = "preview" => c = mUVCCamera
      BY <3>1 DEF WaitInv, IInv, Owned, Live
    <3>3. \A c \in Cameras : cam'[c] # "preview"
      BY <2>1, <3>1, <3>2 DEF StopNative, WaitInv, IInv, Types
    <3>4. QED
      BY <3>3 DEF NativeStopped
  <2>2. CASE StopTest \/ StopDone
    BY <2>2 DEF StopTest, StopDone, Go, NativeStopped
  <2>3. QED
    BY <2>1, <2>2
<1>5. WaitTypes' /\ Starting'
  BY <1>1, <1>3 DEF WaitInv, WaitTypes, Starting, Stopping
<1>6. Running'
  BY <1>1, <1>3 DEF WaitInv, Running, NoneQueued
<1>7. Waits'
  BY <1>1, <1>2, <1>3
  DEF WaitInv, Waits, StopTaken, NoneQueued, Stopping, NativeStopped
<1>8. QED
  BY <1>4, <1>5, <1>6, <1>7 DEF WaitInv

\* The camera thread begins when nobody waits for a preview, and ends when the
\* callers are gone.
LEMMA EndsKeepWait ==
  ASSUME WaitInv, IInv', Run \/ Quit \/ RunEnd PROVE WaitInv'
<1>1. CASE Run
  <2>1. /\ pc = "run" /\ pc' = "loop" /\ looper' = "looping" /\ waiting' = {}
        /\ UNCHANGED <<queue, mIsPreviewing, after, at>>
    BY <1>1 DEF Run, Go, camVars, callVars
  <2>2. \A t \in Callers : at[t] \in {"getHandler", "awaitHandler"}
    BY <2>1 DEF WaitInv, Starting
  <2>3. WaitTypes' /\ Starting' /\ NativeStopped'
    BY <2>1, <2>2 DEF WaitInv, WaitTypes, Starting, NativeStopped
  <2>4. Running' /\ Waits'
    BY <2>1, <2>2 DEF WaitInv, Running, Waits, NoneQueued, Stopping
  <2>5. QED
    BY <2>3, <2>4 DEF WaitInv
<1>2. CASE Quit \/ RunEnd
  <2>1. /\ pc \in {"quit", "runEnd"} /\ pc' \in {"runEnd", "ended"}
        /\ looper' \in {"quit", "ended"} /\ at' = at
        /\ mHandler' => mHandler
        /\ waiting' \subseteq waiting /\ queue' \in {<<>>, queue}
    BY <1>2 DEF Quit, RunEnd, Go, callVars
  <2>2. \A t \in Callers : at[t] = "gone"
    BY <2>1 DEF WaitInv, Running
  <2>3. WaitTypes'
    <3>1. queue \in Seq(Messages) /\ <<>> \in Seq(Messages)
      BY DEF WaitInv, WaitTypes
    <3>2. QED
      BY <2>1, <3>1 DEF WaitInv, WaitTypes
  <2>4. Starting' /\ NativeStopped'
    BY <2>1, <2>2 DEF WaitInv, Starting, NativeStopped
  <2>5. Running' /\ Waits'
    BY <2>1, <2>2 DEF Running, Waits
  <2>6. QED
    BY <2>3, <2>4, <2>5 DEF WaitInv
<1>3. QED
  BY <1>1, <1>2

LEMMA CameraThreadKeepsWait == ASSUME WaitInv, CameraThread PROVE WaitInv'
<1>1. IInv'
  BY CameraThreadKeeps DEF WaitInv
<1>2. QED
  BY <1>1, HandleMessageKeepsWait, WorkKeepsWait, StartKeepsWait,
     StopKeepsWait, EndsKeepWait DEF CameraThread

\* A message that is sent joins the end of the queue, unless the looper has
\* quit.
LEMMA SendKeeps ==
  ASSUME queue \in Seq(Messages), NEW m \in Messages, Send(m)
  PROVE  /\ queue' \in Seq(Messages)
         /\ \A n : n # m /\ NoneQueued(n) => NoneQueued(n)'
         /\ looper = "looping" =>
              /\ Len(queue') = Len(queue) + 1 /\ queue'[Len(queue) + 1] = m
              /\ \A i \in DOMAIN queue : queue'[i] = queue[i]
         /\ looper # "looping" => queue' = queue
<1>1. CASE looper = "looping"
  <2>1. queue' = Append(queue, m)
    BY <1>1 DEF Send
  <2>2. /\ queue' \in Seq(Messages)
        /\ Len(queue') = Len(queue) + 1 /\ queue'[Len(queue) + 1] = m
        /\ Len(queue) \in Nat /\ DOMAIN queue = 1 .. Len(queue)
        /\ DOMAIN queue' = 1 .. Len(queue) + 1
        /\ \A i \in DOMAIN queue : queue'[i] = queue[i]
    BY <2>1
  <2>3. \A n : n # m /\ NoneQueued(n) => NoneQueued(n)'
    BY <2>2 DEF NoneQueued
  <2>4. QED
    BY <1>1, <2>2, <2>3
<1>2. CASE looper # "looping"
  BY <1>2 DEF Send, NoneQueued
<1>3. QED
  BY <1>1, <1>2

\* A step of the one caller, in which it does not wait for its preview, nor
\* comes from such a wait but with the preview stopped.
LEMMA CallerMoves ==
  ASSUME WaitInv, OneCaller, NEW t \in Callers, IInv',
         UNCHANGED <<looper, mHandler, camVars, pc>>,
         queue' \in Seq(Messages), at' \in [Callers -> Points],
         at[t] # "gone", looper # "starting",
         waiting' \in SUBSET Callers, t \notin waiting',
         at[t] = "waiting" => t \notin waiting,
         at'[t] # "waiting", at'[t] = "sendStop" => mIsPreviewing,
         NoneQueued("RELEASE") /\ at'[t] # "gone" => NoneQueued("RELEASE")',
         NoneQueued("PREVIEW_STOP") => NoneQueued("PREVIEW_STOP")'
  PROVE  WaitInv'
<1>1. \A u \in Callers : u = t
  BY DEF OneCaller
<1>2. /\ UNCHANGED <<looper, mHandler, cam, pc, mIsPreviewing, after>>
      /\ waiting' = {}
  BY <1>1 DEF camVars
<1>3. WaitTypes' /\ Starting' /\ NativeStopped'
  BY <1>1, <1>2 DEF WaitInv, WaitTypes, Starting, NativeStopped
<1>4. Running'
  BY <1>1, <1>2 DEF WaitInv, Running
<1>5. pc \notin Stopping /\ NoneQueued("PREVIEW_STOP")
  BY DEF WaitInv, Waits, Stopping, NoneQueued
<1>6. Waits'
  BY <1>1, <1>2, <1>5 DEF Waits
<1>7. QED
  BY <1>3, <1>4, <1>6 DEF WaitInv

LEMMA WaitersKnown ==
  ASSUME WaitInv, NEW t \in Callers
  PROVE  /\ at \in [Callers -> Points] /\ queue \in Seq(Messages)
         /\ waiting \in SUBSET Callers
         /\ at[t] \notin {"awaitHandler", "waiting"} => t \notin waiting
         /\ at[t] \notin {"getHandler", "awaitHandler"} \/ mHandler
              => looper # "starting"
         /\ at[t] = "awaitHandler" /\ t \notin waiting => looper # "starting"
  BY DEF WaitInv, WaitTypes, Starting

LEMMA GetHandlerKeepsWait ==
  ASSUME WaitInv, OneCaller, IInv', NEW t \in Callers, GetHandler(t)
  PROVE  WaitInv'
<1>1. /\ at[t] = "getHandler" /\ at \in [Callers -> Points]
      /\ at' = [at EXCEPT ![t] = IF mHandler THEN "idle" ELSE "awaitHandler"]
      /\ waiting' = IF mHandler THEN waiting ELSE waiting \cup {t}
      /\ UNCHANGED <<loopVars, camVars, pc>>
  BY WaitersKnown DEF GetHandler, Step
<1>2. CASE mHandler
  <2>1. /\ at' \in [Callers -> Points] /\ at'[t] = "idle"
        /\ waiting' = waiting /\ queue' = queue
        /\ UNCHANGED <<looper, mHandler, camVars, pc>>
    BY <1>1, <1>2 DEF Points, loopVars
  <2>2. QED
    BY <1>1, <1>2, <2>1, WaitersKnown, CallerMoves DEF NoneQueued
<1>3. CASE ~mHandler
  <2>1. /\ at' \in [Callers -> Points] /\ at'[t] = "awaitHandler"
        /\ \A u \in Callers : u = t
        /\ waiting' = waiting \cup {t}
        /\ UNCHANGED <<looper, queue, mHandler, mIsPreviewing, cam, after, pc>>
    BY <1>1, <1>3 DEF Points, OneCaller, loopVars, camVars
  <2>2. WaitTypes' /\ Starting' /\ NativeStopped'
    BY <2>1 DEF WaitInv, WaitTypes, Starting, NativeStopped
  <2>3. Running' /\ Waits'
    BY <1>1, <2>1 DEF WaitInv, Running, Waits, NoneQueued, Stopping
  <2>4. QED
    BY <2>2, <2>3 DEF WaitInv
<1>4. QED
  BY <1>2, <1>3

\* The steps that leave the queue alone.
LEMMA QuietKeepsWait ==
  ASSUME WaitInv, OneCaller, IInv', NEW t \in Callers,
         \/ GotHandler(t) \/ IsOpened(t) \/ IsPreviewing(t) \/ Woken(t)
         \/ Stopped(t) \/ StopPreview(t) \/ Close(t) \/ Release(t)
  PROVE  WaitInv'
<1>1. /\ at[t] \notin {"gone", "getHandler"}
      /\ at[t] \in {"awaitHandler", "waiting"} => t \notin waiting
      /\ \E to \in Points \ {"gone", "waiting"} :
           /\ at' = [at EXCEPT ![t] = to]
           /\ to = "sendStop" => mIsPreviewing
      /\ UNCHANGED <<looper, queue, mHandler, camVars, pc, waiting>>
  BY DEF GotHandler, IsOpened, IsPreviewing, Woken, Stopped, StopPreview,
         Close, Release, Begin, Step, loopVars, Points
<1>2. /\ at' \in [Callers -> Points] /\ at'[t] \notin {"gone", "waiting"}
      /\ at'[t] = "sendStop" => mIsPreviewing
  BY <1>1, WaitersKnown
<1>3. QED
  BY <1>1, <1>2, WaitersKnown, CallerMoves DEF NoneQueued

\* The steps that take messages out of the queue, or send one that is not
\* waited for.
LEMMA PostKeepsWait ==
  ASSUME WaitInv, OneCaller, IInv', NEW t \in Callers,
         \/ RemoveStarts(t) \/ IsRecording(t) \/ SendClose(t) \/ Closed(t)
         \/ \E o \in Calls : Post(t, o)
  PROVE  WaitInv'
<1>1. /\ at[t] \notin {"gone", "getHandler", "awaitHandler", "waiting"}
      /\ \/ UNCHANGED at
         \/ \E to \in Points \ {"waiting", "sendStop"} :
              at' = [at EXCEPT ![t] = to]
      /\ UNCHANGED <<looper, mHandler, camVars, pc, waiting>>
  BY DEF RemoveStarts, IsRecording, SendClose, Closed, Post, Begin, Step,
         Points
<1>2. /\ at' \in [Callers -> Points] /\ at'[t] # "waiting"
      /\ at'[t] = "sendStop" => at[t] = "sendStop"
  BY <1>1, WaitersKnown
<1>3. at'[t] = "sendStop" => mIsPreviewing
  BY <1>2 DEF WaitInv, Waits
<1>4. /\ queue' \in Seq(Messages)
      /\ NoneQueued("PREVIEW_STOP") => NoneQueued("PREVIEW_STOP")'
      /\ NoneQueued("RELEASE") /\ at'[t] # "gone" => NoneQueued("RELEASE")'
  <2>1. CASE UNCHANGED queue
    BY <2>1, WaitersKnown DEF NoneQueued
  <2>2. CASE RemoveStarts(t)
    <3>1. queue' = Without(queue, "PREVIEW_START") /\ queue \in Seq(Messages)
      BY <2>2, WaitersKnown DEF RemoveStarts
    <3>2. /\ queue' \in Seq(Messages)
          /\ \A k \in DOMAIN queue' :
               \E i \in DOMAIN queue : queue'[k] = queue[i]
      BY <3>1, WithoutLeaves
    <3>3. QED
      BY <3>2 DEF NoneQueued
  <2>3. CASE \E m \in Messages \ {"PREVIEW_STOP", "RELEASE"} : Send(m)
    BY <2>3, WaitersKnown, SendKeeps
  <2>4. CASE Send("RELEASE") /\ at'[t] = "gone"
    <3>1. "RELEASE" \in Messages
      BY DEF Messages
    <3>2. QED
      BY <2>4, <3>1, WaitersKnown, SendKeeps
  <2>5. ASSUME NEW o \in Calls, Post(t, o)
        PROVE  \/ UNCHANGED queue
               \/ \E m \in Messages \ {"PREVIEW_STOP", "RELEASE"} : Send(m)
    <3>1. MessageOf[o] \in Messages \ {"PREVIEW_STOP", "RELEASE"}
      BY <2>5 DEF Post, MessageOf, Messages
    <3>2. QED
      BY <2>5, <3>1 DEF Post
  <2>6. CASE IsRecording(t)
    BY <2>1, <2>3, <2>6 DEF IsRecording, Messages
  <2>7. CASE SendClose(t)
    BY <2>3, <2>7 DEF SendClose, Messages
  <2>8. CASE Closed(t)
    <3>1. \/ UNCHANGED queue
          \/ Send("RELEASE") /\ at' = [at EXCEPT ![t] = "gone"]
      BY <2>8 DEF Closed, Step
    <3>2. QED
      BY <2>1, <2>4, <3>1, WaitersKnown
  <2>9. QED
    BY <2>1, <2>2, <2>3, <2>5, <2>6, <2>7, <2>8
<1>5. QED
  BY <1>1, <1>2, <1>3, <1>4, WaitersKnown, CallerMoves

\* The caller waits, with its message behind all others.
LEMMA SendStopKeepsWait ==
  ASSUME WaitInv, OneCaller, IInv', NEW t \in Callers, SendStop(t)
  PROVE  WaitInv'
<1>1. /\ at[t] = "sendStop" /\ at' = [at EXCEPT ![t] = "waiting"]
      /\ Send("PREVIEW_STOP") /\ waiting' = waiting \cup {t}
      /\ UNCHANGED <<looper, mHandler, mIsPreviewing, cam, after, pc>>
  BY DEF SendStop, Step, camVars
<1>2. \A u \in Callers : u = t
  BY DEF OneCaller
<1>3. at' \in [Callers -> Points] /\ at'[t] = "waiting"
  BY <1>1, WaitersKnown DEF Points
<1>4. /\ looper = "looping" /\ mIsPreviewing
      /\ pc \notin Stopping /\ NoneQueued("PREVIEW_STOP")
      /\ NoneQueued("RELEASE")
  BY <1>1, WaitersKnown DEF WaitInv, Running, Waits
<1>5. "PREVIEW_STOP" \in Messages /\ "PREVIEW_STOP" # "RELEASE"
  BY DEF Messages
<1>6. /\ queue' \in Seq(Messages) /\ NoneQueued("RELEASE")'
      /\ Len(queue') = Len(queue) + 1
      /\ queue'[Len(queue) + 1] = "PREVIEW_STOP"
      /\ \A i \in DOMAIN queue : queue'[i] = queue[i]
      /\ Len(queue) \in Nat /\ DOMAIN queue = 1 .. Len(queue)
  BY <1>1, <1>4, <1>5, WaitersKnown, SendKeeps
<1>7. StopQueued'
  BY <1>1, <1>4, <1>6 DEF StopQueued, NoneQueued
<1>8. WaitTypes' /\ Starting' /\ NativeStopped'
  BY <1>1, <1>2, <1>3, <1>4, <1>6
  DEF WaitInv, WaitTypes, Starting, NativeStopped
<1>9. Running'
  BY <1>1, <1>2, <1>6 DEF WaitInv, Running
<1>10. Waits'
  BY <1>1, <1>2, <1>3, <1>4, <1>7 DEF Waits
<1>11. QED
  BY <1>8, <1>9, <1>10 DEF WaitInv

LEMMA CallerKeepsWait ==
  ASSUME WaitInv, OneCaller, NEW t \in Callers, Caller(t)
  PROVE  WaitInv'
<1>1. IInv'
  BY CallerKeeps DEF WaitInv
<1>2. QED
  BY <1>1, GetHandlerKeepsWait, QuietKeepsWait, PostKeepsWait,
     SendStopKeepsWait DEF Caller, Continue

LEMMA StutterKeepsWait == ASSUME WaitInv, UNCHANGED vars PROVE WaitInv'
<1>1. IInv'
  BY IInvStep DEF WaitInv
<1>2. QED
  BY <1>1
  DEF WaitInv, WaitTypes, Starting, Running, Waits, NativeStopped, NoneQueued,
      StopQueued, StopTaken, vars, loopVars, camVars, callVars

\* stopPreview: for a single caller, whatever messages are ahead of its own,
\* the notification it waits for comes after its preview is stopped.
THEOREM WaitsForItsStop ==
  ASSUME OneCaller
  PROVE  Spec => []WaitedIsStopped
<1>1. Init => WaitInv
  BY InitWait
<1>2. WaitInv /\ [Next]_vars => WaitInv'
  BY CameraThreadKeepsWait, CallerKeepsWait, StutterKeepsWait DEF Next
<1>3. WaitInv => WaitedIsStopped
  BY DEF WaitInv, Waits, WaitedIsStopped
<1>4. QED
  BY <1>1, <1>2, <1>3, PTL DEF Spec
=============================================================================
