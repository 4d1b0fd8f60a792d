--------------------------- MODULE UvcStreamProofs ---------------------------
(***************************************************************************)
(* For every number of transfers, frames and sessions.  First, what a      *)
(* stream does to frames, in the presence of every failure of the model: a *)
(* frame that is published comes from one frame of the camera, and the     *)
(* double buffer implements the mailbox; and, when none is flagged, the    *)
(* user is given each frame once.  Then its end: a stop misses at most one *)
(* transfer; while libusb takes every transfer and the camera stays        *)
(* plugged in, uvc_stream_close ends whatever uses the stream it frees,    *)
(* and nobody waits for a wakeup that was lost.                            *)
(***************************************************************************)
EXTENDS UvcStream, FiniteSetTheorems, TLAPS

PCType == pc \in [Threads -> CallerPCs \cup HandlerPCs \cup UserPCs]

CameraType == camera \in [n : Nat, begun : BOOLEAN]

\* The working buffer may hold data of the camera's frame n: it is the frame
\* that has begun, or the last one to have ended, and its ID bit is the last
\* one that was seen.
Accounted(n) ==
  /\ n \in CameraFrames
  /\ fid = n % 2
  /\ camera.n = IF camera.begun THEN n ELSE n + 1

\* The working buffer and the packet that is about to join it.
Working ==
  /\ \A n \in outbuf : Accounted(n)
  /\ pc["handler"] = "data" => Accounted(payload.n)

\* What is presented and copied comes from one frame, and from no later one
\* than what is being worked on.
Presented ==
  /\ \A data \in {hold.data, frame, shown} :
       /\ data \in SUBSET CameraFrames
       /\ \A a, b \in data : a = b
  /\ \A y \in hold.data : y <= camera.n
  /\ \A y \in hold.data : \A x \in outbuf : y <= x
  /\ pc["handler"] = "data" => \A y \in hold.data : y <= payload.n
  /\ hold.data = {} => frame = {}
  /\ \A z \in frame : \A y \in hold.data : z <= y

\* A new handle is not in use before uvc_stream_start_bandwidth.
Opened ==
  pc["caller"] = "opened" =>
    outbuf = {} /\ AllDeleted /\ pc["handler"] = "idle"

FInv == PCType /\ CameraType /\ Working /\ Presented /\ Opened

LEMMA InitFInv == Init => FInv
  BY UvcStreamAssumption
  DEF Init, FInv, PCType, CameraType, Working, Presented, Opened, Accounted,
      EmptyHold, AllDeleted, Threads, CallerPCs, HandlerPCs, UserPCs,
      CameraFrames

\* Steps that touch no buffer keep the invariant.
LEMMA OthersKeep ==
  ASSUME FInv, PCType', pc'["handler"] = "data" => pc["handler"] = "data",
         pc'["caller"] = "opened" => pc["caller"] = "opened",
         UNCHANGED <<payload, fid, outbuf, hold, frame, shown, camera>>,
         pc'["caller"] = "opened" => AllDeleted' /\ pc'["handler"] = "idle"
  PROVE  FInv'
  BY DEF FInv, PCType, CameraType, Working, Presented, Opened, Accounted

\* Frames of the same ID bit that can both be pending are the same frame.
LEMMA SameFrame ==
  ASSUME CameraType, NEW n \in CameraFrames, NEW p \in Payloads, Accounted(n),
         Sends(p), fid = p.n % 2
  PROVE  n = p.n
  BY UvcStreamAssumption
  DEF CameraType, Accounted, Sends, Payloads, CameraFrames

\* After the header of a packet what is left in the working buffer belongs to
\* the frame of that packet.
LEMMA HeaderKeeps ==
  ASSUME FInv, NEW p \in Payloads, PayloadHeader(p)
  PROVE  FInv'
<1> USE UvcStreamAssumption DEF FInv, PCType, CameraType, CameraFrames, Payloads
<1>1. p.n \in CameraFrames /\ camera.n <= p.n /\ p.n <= camera'.n
  BY DEF PayloadHeader, Sends
<1>2. PCType' /\ CameraType'
  BY DEF PayloadHeader, Sends, Goto, Threads, CallerPCs, HandlerPCs, UserPCs
<1>3. \A n \in outbuf' : n \in outbuf /\ n = p.n
  BY SameFrame DEF PayloadHeader, SwapBuffers, Working, Accounted
<1>4. Accounted(p.n)'
  BY DEF PayloadHeader, Sends, Accounted
<1>5. Working'
  BY <1>3, <1>4 DEF Working, PayloadHeader
<1>6. Presented'
  <2>1. CASE fid # p.n % 2 /\ outbuf # {}
    <3>1. /\ hold'.data = outbuf /\ outbuf' = {} /\ payload' = p
          /\ UNCHANGED <<frame, shown>>
      BY <2>1 DEF PayloadHeader, SwapBuffers, userVars
    <3>2. \A n \in outbuf : n \in CameraFrames /\ n <= camera.n
      BY DEF Working, Accounted
    <3>3. \A a, b \in outbuf : a = b
      BY DEF Working, Accounted
    <3>4. \A z \in frame : \A x \in outbuf : z <= x
      <4> SUFFICES ASSUME NEW z \in frame, NEW x \in outbuf PROVE z <= x
        OBVIOUS
      <4>1. PICK y \in hold.data : TRUE
        BY DEF Presented
      <4>2. z <= y /\ y <= x
        BY DEF Presented
      <4>3. QED
        BY <4>2, <3>2 DEF Presented
    <3>5. \A data \in {hold.data, frame, shown}' :
            data \in SUBSET CameraFrames /\ \A a, b \in data : a = b
      BY <3>1, <3>2, <3>3 DEF Presented
    <3>6. \A y \in hold'.data : y <= camera'.n /\ y <= p.n
      BY <1>1, <1>2, <3>1, <3>2
    <3>7. hold'.data # {} /\ \A z \in frame' : \A y \in hold'.data : z <= y
      BY <2>1, <3>1, <3>4
    <3>8. QED
      BY <3>1, <3>5, <3>6, <3>7 DEF Presented
  <2>2. CASE ~(fid # p.n % 2 /\ outbuf # {})
    <3>1. UNCHANGED <<hold, outbuf, frame, shown>> /\ payload' = p
      BY <2>2 DEF PayloadHeader, userVars
    <3>2. \A y \in hold.data : y <= camera'.n /\ y <= p.n
      <4> SUFFICES ASSUME NEW y \in hold.data
                   PROVE  y <= camera'.n /\ y <= p.n
        OBVIOUS
      <4>1. y \in CameraFrames /\ y <= camera.n
        BY DEF Presented
      <4>2. QED
        BY <1>1, <1>2, <4>1
    <3>3. QED
      BY <3>1, <3>2 DEF Presented
  <2>3. QED
    BY <2>1, <2>2
<1>7. Opened'
  BY DEF Opened, PayloadHeader, Goto, Threads
<1>8. QED
  BY <1>2, <1>5, <1>6, <1>7

\* The data of a packet joins the working buffer, or the working buffer is
\* published with it.
LEMMA DataKeeps ==
  ASSUME FInv, NEW to \in {"packets", "test"}, Goto("handler", "data", to),
         UNCHANGED <<payload, fid, frame, shown, camera>>,
         NEW D \in SUBSET (outbuf \cup {payload.n}),
         \/ D # {} /\ hold'.data = D /\ outbuf' = {}
         \/ hold' = hold /\ outbuf' = D
  PROVE  FInv'
<1> USE UvcStreamAssumption DEF FInv, CameraType
<1>1. PCType'
  BY DEF PCType, Goto, Threads, CallerPCs, HandlerPCs, UserPCs
<1>2. /\ pc'["handler"] # "data"
      /\ pc["caller"] # "opened" /\ pc'["caller"] # "opened"
  BY DEF Goto, PCType, Threads, Opened
<1>3. \A n \in D : Accounted(n)
  BY DEF Working, Goto
<1>4. \A a, b \in D : a = b
  BY <1>3 DEF Accounted, CameraFrames
<1>5. \A x \in D : x \in CameraFrames /\ x <= camera.n
  BY <1>3 DEF Accounted, CameraFrames
<1>6. \A y \in hold.data : \A x \in D : y <= x
  BY DEF Presented, Goto
<1>7. Working'
  BY <1>2, <1>3 DEF Working, Accounted
<1>8. CASE D # {} /\ hold'.data = D /\ outbuf' = {}
  <2>1. \A z \in frame : \A x \in D : z <= x
    <3> SUFFICES ASSUME NEW z \in frame, NEW x \in D PROVE z <= x
      OBVIOUS
    <3>1. PICK y \in hold.data : TRUE
      BY DEF Presented
    <3>2. z \in Int /\ y \in Int /\ x \in Int
      BY <1>5 DEF Presented, CameraFrames
    <3>3. z <= y /\ y <= x
      BY <1>6 DEF Presented
    <3>4. QED
      BY <3>2, <3>3
  <2>2. QED
    BY <1>1, <1>2, <1>4, <1>5, <1>7, <1>8, <2>1 DEF Presented, Opened
<1>9. CASE hold' = hold /\ outbuf' = D
  BY <1>1, <1>2, <1>6, <1>7, <1>9 DEF Presented, Opened
<1>10. QED
  BY <1>8, <1>9

\* The event thread.
LEMMA HandlerKeeps == ASSUME FInv, Handler PROVE FInv'
<1> USE DEF Goto, Threads, CallerPCs, HandlerPCs, UserPCs
<1>1. ASSUME NEW t \in Transfers,
             \/ TransferCompleted(t) \/ TransferRetried(t)
             \/ TransferEnded(t) \/ TransferNoDevice(t)
      PROVE  FInv'
  <2>1. /\ pc["caller"] # "opened"
        /\ \E to \in {"packets", "test", "delete"} :
             pc' = [pc EXCEPT !["handler"] = to]
        /\ UNCHANGED <<payload, fid, outbuf, hold, frame, shown, camera>>
    BY <1>1 DEF TransferCompleted, TransferRetried, TransferEnded,
                TransferNoDevice, FInv, Opened, AllDeleted, bufferVars,
                presentVars, userVars, worldVars
  <2>2. PCType' /\ pc'["handler"] # "data" /\ pc'["caller"] = pc["caller"]
    BY <2>1 DEF FInv, PCType
  <2>3. QED
    BY <2>1, <2>2, OthersKeep
<1>2. ASSUME NEW p \in Payloads, PayloadHeader(p) PROVE FInv'
  BY <1>2, HeaderKeeps
<1>3. CASE BadPacket \/ PacketsEnd \/ TestRunning \/ Resubmit \/ DeleteTransfer
  <2>1. /\ pc["handler"] # "idle"
        /\ \E to \in {"packets", "test", "submit", "delete", "idle"} :
             pc' = [pc EXCEPT !["handler"] = to]
        /\ UNCHANGED <<payload, fid, outbuf, hold, frame, shown, camera>>
    BY <1>3 DEF BadPacket, PacketsEnd, TestRunning, Resubmit, DeleteTransfer,
                bufferVars, presentVars, userVars, worldVars
  <2>2. /\ PCType' /\ pc'["handler"] # "data"
        /\ pc'["caller"] = pc["caller"] /\ pc["caller"] # "opened"
    BY <2>1 DEF FInv, PCType, Opened
  <2>3. QED
    BY <2>1, <2>2, OthersKeep
<1>4. CASE IsoData
  <2> DEFINE D == IF payload.data THEN outbuf \cup {payload.n} ELSE outbuf
  <2>1. /\ D \in SUBSET (outbuf \cup {payload.n})
        /\ outbuf \in SUBSET (outbuf \cup {payload.n})
    OBVIOUS
  <2>2. /\ Goto("handler", "data", "packets")
        /\ UNCHANGED <<payload, fid, frame, shown, camera>>
    BY <1>4 DEF IsoData, userVars, worldVars
  <2>3. \/ D # {} /\ hold'.data = D /\ outbuf' = {}
        \/ hold' = hold /\ outbuf' = D
        \/ hold' = hold /\ outbuf' = outbuf
    BY <1>4 DEF IsoData, SwapBuffers
  <2> HIDE DEF D
  <2>4. QED
    BY <2>1, <2>2, <2>3, DataKeeps
<1>5. CASE BulkData
  <2>1. /\ Goto("handler", "data", "test")
        /\ UNCHANGED <<payload, fid, frame, shown, camera>>
    BY <1>5 DEF BulkData, userVars, worldVars
  <2>2. \E D \in SUBSET (outbuf \cup {payload.n}) :
          \/ D # {} /\ hold'.data = D /\ outbuf' = {}
          \/ hold' = hold /\ outbuf' = D
    <3>1. CASE ~payload.data
      BY <1>5, <3>1 DEF BulkData
    <3>2. ASSUME BulkAppend(outbuf \cup {payload.n}, bfh_err)
          PROVE  LET D == outbuf \cup {payload.n} IN
                   \/ D # {} /\ hold'.data = D /\ outbuf' = {}
                   \/ hold' = hold /\ outbuf' = D
      BY <3>2 DEF BulkAppend, SwapBuffers
    <3>3. ASSUME outbuf # {}, BulkAppend(outbuf, TRUE)
          PROVE  \/ outbuf # {} /\ hold'.data = outbuf /\ outbuf' = {}
                 \/ hold' = hold /\ outbuf' = outbuf
      BY <3>3 DEF BulkAppend, SwapBuffers
    <3>4. QED
      BY <1>5, <3>1, <3>2, <3>3 DEF BulkData
  <2>3. QED
    BY <2>1, <2>2, DataKeeps
<1>6. QED
  BY <1>1, <1>2, <1>3, <1>4, <1>5 DEF Handler, Completion, Packet

\* The user thread copies the presented frame.
LEMMA UserTakeKeeps == ASSUME FInv, UserTake PROVE FInv'
<1>1. /\ pc' = [pc EXCEPT !["user"] = "call"]
      /\ UNCHANGED <<payload, fid, outbuf, hold, shown, camera, xfer>>
      /\ frame' = frame \/ frame' = hold.data
  BY DEF UserTake, Goto, UserFrame, bufferVars, worldVars
<1>2. /\ PCType' /\ pc'["handler"] = pc["handler"]
      /\ pc'["caller"] = pc["caller"]
  BY <1>1 DEF FInv, PCType, Threads, CallerPCs, HandlerPCs, UserPCs
<1>3. Presented'
  <2>1. CASE frame' = frame
    BY <1>1, <1>2, <2>1 DEF FInv, Presented
  <2>2. CASE frame' = hold.data
    <3>1. \A z, y \in hold.data : z <= y
      BY DEF FInv, Presented, CameraFrames
    <3>2. QED
      BY <1>1, <1>2, <2>2, <3>1 DEF FInv, Presented
  <2>3. QED
    BY <1>1, <2>1, <2>2
<1>4. QED
  BY <1>1, <1>2, <1>3
  DEF FInv, CameraType, Working, Accounted, Opened, AllDeleted

LEMMA UserCallKeeps == ASSUME FInv, UserCall PROVE FInv'
<1>1. /\ pc' = [pc EXCEPT !["user"] = "user_cb"]
      /\ UNCHANGED <<payload, fid, outbuf, hold, frame, camera, xfer>>
      /\ shown' = frame
  BY DEF UserCall, Goto, UserFrame, bufferVars, worldVars
<1>2. /\ PCType' /\ pc'["handler"] = pc["handler"]
      /\ pc'["caller"] = pc["caller"]
  BY <1>1 DEF FInv, PCType, Threads, CallerPCs, HandlerPCs, UserPCs
<1>3. Presented'
  BY <1>1, <1>2 DEF FInv, Presented
<1>4. QED
  BY <1>1, <1>2, <1>3
  DEF FInv, CameraType, Working, Accounted, Opened, AllDeleted

LEMMA UserKeeps == ASSUME FInv, User PROVE FInv'
<1>1. CASE UserWait \/ UserExit \/ UserSkip \/ UserReturn
  <2>1. /\ \E to \in UserPCs : pc' = [pc EXCEPT !["user"] = to]
        /\ UNCHANGED <<payload, fid, outbuf, hold, frame, shown, camera, xfer>>
    BY <1>1 DEF UserWait, UserExit, UserSkip, UserReturn, Goto, UserFrame,
                userVars, bufferVars, worldVars, UserPCs
  <2>2. /\ PCType' /\ pc'["handler"] = pc["handler"]
        /\ pc'["caller"] = pc["caller"]
    BY <2>1 DEF FInv, PCType, Threads, CallerPCs, HandlerPCs, UserPCs
  <2>3. QED
    BY <2>1, <2>2, OthersKeep DEF FInv, Opened, AllDeleted
<1>2. QED
  BY <1>1, UserTakeKeeps, UserCallKeeps DEF User

\* uvc_stream_open_ctrl starts with empty buffers.
LEMMA OpenCtrlKeeps == ASSUME FInv, OpenCtrl PROVE FInv'
<1>1. /\ pc' = [pc EXCEPT !["caller"] = "opened"]
      /\ pc["handler"] = "idle" /\ AllDeleted
      /\ outbuf' = {} /\ hold'.data = {} /\ frame' = {}
      /\ UNCHANGED <<payload, shown, camera, xfer>>
  BY DEF OpenCtrl, Goto, NobodyLeft, EmptyHold, worldVars
<1>2. PCType' /\ pc'["handler"] = "idle"
  BY <1>1 DEF FInv, PCType, Threads, CallerPCs, HandlerPCs, UserPCs
<1>3. QED
  BY <1>1, <1>2
  DEF FInv, CameraType, Working, Presented, Opened, AllDeleted

\* uvc_stream_start_bandwidth resets the frame ID when no data is pending.
LEMMA StartKeeps == ASSUME FInv, StartPrepare \/ StartRejected PROVE FInv'
<1>1. /\ \E to \in {"thread", "close"} : pc' = [pc EXCEPT !["caller"] = to]
      /\ outbuf = {} /\ pc["handler"] = "idle"
      /\ UNCHANGED <<payload, outbuf, hold, frame, shown, camera>>
  BY DEF StartPrepare, StartRejected, Goto, FInv, Opened, presentVars,
         userVars, worldVars
<1>2. PCType' /\ pc'["handler"] = "idle" /\ pc'["caller"] # "opened"
  BY <1>1 DEF FInv, PCType, Threads, CallerPCs, HandlerPCs, UserPCs
<1>3. QED
  BY <1>1, <1>2 DEF FInv, CameraType, Working, Presented, Opened

\* The other steps of the caller touch no buffer.
LEMMA CallerKeeps ==
  ASSUME FInv, OpenCtrl \/ OpenCtrlFails \/ StopCall \/ CallerStep
  PROVE  FInv'
<1>1. CASE OpenCtrl
  BY <1>1, OpenCtrlKeeps
<1>2. CASE StartPrepare \/ StartRejected
  BY <1>2, StartKeeps
<1>3. CASE StartThread
  <2>1. /\ pc' = [pc EXCEPT !["caller"] = "submit", !["user"] = "check"]
        /\ UNCHANGED <<payload, fid, outbuf, hold, frame, shown, camera>>
    BY <1>3 DEF StartThread, bufferVars, worldVars
  <2>2. /\ PCType' /\ pc'["handler"] = pc["handler"]
        /\ pc'["caller"] # "opened"
    BY <2>1 DEF FInv, PCType, Threads, CallerPCs, HandlerPCs, UserPCs
  <2>3. QED
    BY <2>1, <2>2, OthersKeep
<1>4. CASE \/ OpenCtrlFails \/ StopCall \/ StartSubmit \/ StartSubmitFails
           \/ StartDone \/ CloseTest \/ StopTest \/ StopCancel \/ StopAwait
           \/ StopJoin \/ CloseFree
  <2>1. /\ \/ pc' = pc
           \/ \E to \in CallerPCs \ {"opened"} :
                pc' = [pc EXCEPT !["caller"] = to]
        /\ pc["caller"] # "opened"
        /\ UNCHANGED CallerFrame
    BY <1>4 DEF OpenCtrlFails, StopCall, StartSubmit, StartSubmitFails,
                StartDone, CloseTest, StopTest, StopCancel, StopAwait,
                StopJoin, CloseFree, Goto, CallerPCs
  <2>2. /\ PCType' /\ pc'["handler"] = pc["handler"]
        /\ pc'["caller"] # "opened"
    BY <2>1 DEF FInv, PCType, Threads, CallerPCs, HandlerPCs, UserPCs
  <2>3. QED
    BY <2>1, <2>2, OthersKeep
    DEF CallerFrame, bufferVars, presentVars, userVars, worldVars
<1>5. QED
  BY <1>1, <1>2, <1>3, <1>4 DEF CallerStep

LEMMA UnplugKeeps == ASSUME FInv, Unplug \/ UNCHANGED vars PROVE FInv'
<1>1. UNCHANGED <<pc, payload, fid, outbuf, hold, frame, shown, camera, xfer>>
  BY DEF Unplug, vars, bufferVars, presentVars, userVars, worldVars
<1>2. QED
  BY <1>1, OthersKeep DEF FInv, PCType, Opened, AllDeleted

LEMMA StepFInv == ASSUME FInv, [Next]_vars PROVE FInv'
  BY HandlerKeeps, UserKeeps, CallerKeeps, UnplugKeeps DEF Next

THEOREM FramesInvariant == Spec => []FInv
<1>1. Init => FInv
  BY InitFInv
<1>2. FInv /\ [Next]_vars => FInv'
  BY StepFInv
<1>3. QED
  BY <1>1, <1>2, PTL DEF Spec

\* _uvc_process_payload and _uvc_process_payload_iso never publish data of two
\* frames of the camera as one, provided that something of every frame arrives
\* (which the model assumes of the camera).
THEOREM FramesAreWhole == Spec => []WholeFrames
<1>1. ASSUME NEW S \in SUBSET CameraFrames, \A a, b \in S : a = b
      PROVE  Cardinality(S) <= 1
  <2>1. CASE S = {}
    BY <2>1, FS_EmptySet
  <2>2. CASE S # {}
    <3>1. PICK a \in S : S = {a}
      BY <1>1, <2>2
    <3>2. QED
      BY <3>1, FS_Singleton
  <2>3. QED
    BY <2>1, <2>2
<1>2. FInv => WholeFrames
  BY <1>1 DEF FInv, Presented, WholeFrames
<1>3. QED
  BY <1>2, FramesInvariant, PTL

(***************************************************************************)
(* The mailbox.                                                            *)
(***************************************************************************)

LEMMA NumberOfNone == Number({}) = 0
  BY DEF Number

LEMMA NumberOfOne ==
  ASSUME NEW S \in SUBSET CameraFrames, NEW a \in S, \A x, y \in S : x = y
  PROVE  Number(S) = a + 1 /\ a + 1 \in 1 .. MaxFrames
<1>1. a \in Nat /\ a + 1 \in 1 .. MaxFrames
  BY UvcStreamAssumption DEF CameraFrames
<1>2. \A m \in S : m <= a
  BY <1>1
<1>3. (CHOOSE n \in S : \A m \in S : m <= n) = a
  BY <1>2
<1>4. Number(S) = 1 + (CHOOSE n \in S : \A m \in S : m <= n)
  BY Zenon DEF Number
<1>5. Number(S) = 1 + a
  BY <1>3, <1>4, Zenon
<1>6. QED
  BY <1>1, <1>5

\* Numbers grow with the frames.
LEMMA NumberGrows ==
  ASSUME NEW S \in SUBSET CameraFrames, NEW T \in SUBSET CameraFrames,
         \A x, y \in S : x = y, \A x, y \in T : x = y,
         \A x \in S : \A y \in T : x <= y,
         T = {} => S = {}
  PROVE  /\ Number(S) \in 0 .. MaxFrames /\ Number(T) \in 0 .. MaxFrames
         /\ Number(S) <= Number(T)
<1> USE UvcStreamAssumption
<1>1. CASE T = {}
  BY <1>1, NumberOfNone
<1>2. CASE T # {}
  <2>1. PICK b \in T : TRUE
    BY <1>2
  <2>2. Number(T) = b + 1 /\ b + 1 \in 1 .. MaxFrames
    BY <2>1, NumberOfOne
  <2>3. CASE S = {}
    BY <2>2, <2>3, NumberOfNone
  <2>4. CASE S # {}
    <3>1. PICK a \in S : TRUE
      BY <2>4
    <3>2. Number(S) = a + 1 /\ a + 1 \in 1 .. MaxFrames
      BY <3>1, NumberOfOne
    <3>3. a <= b
      BY <3>1, <2>1
    <3>4. QED
      BY <2>2, <3>2, <3>3 DEF CameraFrames
  <2>5. QED
    BY <2>3, <2>4
<1>3. QED
  BY <1>1, <1>2

\* A published frame is at least as new as the one it replaces.
LEMMA PublishImplements ==
  ASSUME FInv, FInv', UNCHANGED frame, hold'.data # {},
         \A x \in hold.data : \A y \in hold'.data : x <= y
  PROVE  Mailbox!Publish \/ UNCHANGED <<Number(hold.data), Number(frame)>>
<1>1. /\ Number(hold.data) \in 0 .. MaxFrames
      /\ Number(hold'.data) \in 0 .. MaxFrames
      /\ Number(hold.data) <= Number(hold'.data)
  BY NumberGrows DEF FInv, Presented
<1>2. Number(hold'.data) = Number(hold.data)
        \/ Number(hold'.data) \in Number(hold.data) + 1 .. MaxFrames
  BY <1>1
<1>3. QED
  BY <1>2 DEF Mailbox!Publish

\* uvc_populate_frame under cb_mutex takes what is presented.
LEMMA TakeImplements ==
  ASSUME FInv, UNCHANGED hold, frame' = hold.data
  PROVE  Mailbox!Take \/ UNCHANGED <<Number(hold.data), Number(frame)>>
<1>1. /\ Number(hold.data) \in 0 .. MaxFrames
      /\ Number(frame) \in 0 .. MaxFrames
      /\ Number(frame) <= Number(hold.data)
  BY NumberGrows DEF FInv, Presented
<1>2. Number(frame') = Number(hold.data)
  OBVIOUS
<1>3. QED
  BY <1>1, <1>2 DEF Mailbox!Take

\* The steps that present data.
LEMMA HandlerImplements ==
  ASSUME FInv, FInv', Handler
  PROVE  Mailbox!Next \/ UNCHANGED <<Number(hold.data), Number(frame)>>
<1>1. CASE UNCHANGED <<hold, frame>>
  BY <1>1
<1>2. ASSUME NEW data, NEW err, SwapBuffers(data, err), data # {},
             UNCHANGED frame, \A x \in hold.data : \A y \in data : x <= y
      PROVE  Mailbox!Next \/ UNCHANGED <<Number(hold.data), Number(frame)>>
  BY <1>2, PublishImplements DEF SwapBuffers, Mailbox!Next
<1>3. \A x \in hold.data : \A y \in outbuf : x <= y
  BY DEF FInv, Presented
<1>4. pc["handler"] = "data" =>
        \A x \in hold.data : \A y \in outbuf \cup {payload.n} : x <= y
  BY DEF FInv, Presented
<1>5. ASSUME NEW p \in Payloads, PayloadHeader(p)
      PROVE  Mailbox!Next \/ UNCHANGED <<Number(hold.data), Number(frame)>>
  BY <1>1, <1>2, <1>3, <1>5 DEF PayloadHeader, userVars
<1>6. CASE IsoData
  BY <1>1, <1>2, <1>3, <1>4, <1>6 DEF IsoData, Goto, userVars
<1>7. CASE BulkData
  <2>1. pc["handler"] = "data" /\ UNCHANGED frame
    BY <1>7 DEF BulkData, Goto, userVars
  <2>2. ASSUME NEW data \in {outbuf, outbuf \cup {payload.n}}, NEW err,
               BulkAppend(data, err), data # {}
        PROVE  Mailbox!Next \/ UNCHANGED <<Number(hold.data), Number(frame)>>
    BY <1>1, <1>2, <1>3, <1>4, <2>1, <2>2 DEF BulkAppend
  <2>3. QED
    BY <1>1, <1>7, <2>1, <2>2 DEF BulkData
<1>8. CASE Completion \/ BadPacket \/ PacketsEnd \/ TestRunning \/ Resubmit
             \/ DeleteTransfer
  BY <1>1, <1>8
  DEF Completion, TransferCompleted, TransferRetried, TransferEnded,
      TransferNoDevice, BadPacket, PacketsEnd, TestRunning, Resubmit,
      DeleteTransfer, presentVars, userVars
<1>9. QED
  BY <1>5, <1>6, <1>7, <1>8 DEF Handler, Packet

LEMMA OthersImplement ==
  ASSUME FInv, FInv', [Next]_vars, ~Handler
  PROVE  Mailbox!Next \/ UNCHANGED <<Number(hold.data), Number(frame)>>
<1>1. CASE UNCHANGED <<hold, frame>>
  BY <1>1
<1>2. CASE UserTake
  BY <1>1, <1>2, TakeImplements DEF UserTake, UserFrame, Mailbox!Next
<1>3. CASE OpenCtrl
  <2>1. hold'.data = {} /\ frame' = {}
    BY <1>3 DEF OpenCtrl, EmptyHold
  <2>2. QED
    BY <2>1, NumberOfNone DEF Mailbox!Next, Mailbox!Reset
<1>4. CASE UserWait \/ UserExit \/ UserCall \/ UserSkip \/ UserReturn
  BY <1>1, <1>4
  DEF UserWait, UserExit, UserCall, UserSkip, UserReturn, UserFrame, userVars
<1>5. CASE OpenCtrlFails \/ StopCall \/ CallerStep
  BY <1>1, <1>5
  DEF OpenCtrlFails, StopCall, CallerStep, StartPrepare, StartRejected,
      StartThread, StartSubmit, StartSubmitFails, StartDone, CloseTest,
      StopTest, StopCancel, StopAwait, StopJoin, CloseFree, CallerFrame,
      presentVars, userVars
<1>6. CASE Unplug \/ UNCHANGED vars
  BY <1>1, <1>6 DEF Unplug, vars, presentVars, userVars
<1>7. QED
  BY <1>2, <1>3, <1>4, <1>5, <1>6 DEF Next, User

\* The double buffer, whatever the camera, the transfers and the callers do,
\* is a mailbox: the user thread takes the latest frame, and never goes back.
THEOREM ImplementsMailbox == Spec => IsMailbox
<1>1. Init => Mailbox!Init
  BY NumberOfNone DEF Init, EmptyHold, Mailbox!Init
<1>2. FInv /\ FInv' /\ [Next]_vars
        => [Mailbox!Next]_<<Number(hold.data), Number(frame)>>
  BY HandlerImplements, OthersImplement
<1>3. QED
  BY <1>1, <1>2, FramesInvariant, PTL DEF Spec, IsMailbox, Mailbox!Spec
(***************************************************************************)
(* No frame is given to the user twice, or out of order, unless one was    *)
(* flagged: a frame that was published with an error is not copied, and    *)
(* the user thread, which tests the flag again outside the mutex, may then *)
(* give the one before a second time.                                      *)
(***************************************************************************)

\* Nothing flags a frame: its packets arrive undamaged, and no payload is too
\* long for the working buffer, which only the bulk variant may publish.
NothingFlagged == Isochronous /\ ~BadPackets

\* Frame y of the camera has ended, and nothing of it is still to be published.
Past(y) ==
  /\ y < camera.n
  /\ \A x \in outbuf : y < x
  /\ pc["handler"] = "data" => y < payload.n

After(old, new) == new # {} /\ \A y \in old : \A x \in new : y < x

Unflagged == ~bfh_err /\ ~hold.err

\* The packet that is worked on ended its frame if its header says so.
Ended == pc["handler"] = "data" /\ payload.eof => ~camera.begun

\* A handle that was never started has nothing to present, and no transfer.
Zeroed ==
  pc["caller"] \in {"opened", "thread"} =>
    /\ hold = EmptyHold
    /\ pc["handler"] = "idle"
    /\ \A t \in Transfers : xfer[t] \notin {"flight", "cancelled"}

\* What the user thread has not copied is newer than what it has given to the
\* user, and than what it is about to give.
Fresh ==
  /\ hold.data = {} => hold.seq = 0
  /\ pc["user"] \in {"check", "call", "user_cb"} /\ hold.data = {} =>
       last_seq = 0
  /\ pc["user"] \in {"check", "user_cb"} /\ last_seq # hold.seq =>
       After(shown, hold.data)
  /\ pc["user"] = "call" =>
       /\ After(shown, frame)
       /\ last_seq # hold.seq => After(frame, hold.data)

Published == hold.data \cup frame \cup shown

OnceInv ==
  /\ FInv
  /\ Unflagged /\ Ended /\ Zeroed /\ Fresh
  /\ \A y \in Published : Past(y)

LEMMA InitOnce == Init => OnceInv
  BY InitFInv
  DEF Init, OnceInv, Unflagged, Ended, Zeroed, Fresh, Published, EmptyHold

\* The end of a step that touches no buffer.
LEMMA OthersKeepOnce ==
  ASSUME OnceInv, FInv',
         UNCHANGED <<payload, outbuf, bfh_err, hold, frame, shown, camera>>,
         pc'["handler"] = "data" => pc["handler"] = "data",
         Zeroed', Fresh'
  PROVE  OnceInv'
  BY DEF OnceInv, Unflagged, Ended, Past, Published

\* Whatever is published was still to be published: it is newer than all the
\* user thread knows.
LEMMA PublishKeepsFresh ==
  ASSUME OnceInv, NEW D \in SUBSET CameraFrames, D # {},
         \A y \in Published : \A x \in D : y < x,
         hold'.data = D, UNCHANGED <<frame, shown, last_seq>>,
         pc'["user"] = pc["user"]
  PROVE  Fresh'
  BY DEF OnceInv, Fresh, After, Published

\* The header of a packet makes everything before its frame past.
LEMMA HeaderKeepsOnce ==
  ASSUME OnceInv, NothingFlagged, NEW p \in Payloads, PayloadHeader(p)
  PROVE  OnceInv'
<1> USE UvcStreamAssumption DEF CameraFrames, Payloads
<1>1. FInv /\ FInv'
  BY HeaderKeeps DEF OnceInv
<1>2. /\ pc' = [pc EXCEPT !["handler"] = "data"] /\ pc["handler"] = "packets"
      /\ payload' = p /\ UNCHANGED <<frame, shown, last_seq, xfer>>
  BY DEF PayloadHeader, Goto, userVars
<1>3. /\ pc'["handler"] = "data" /\ pc'["user"] = pc["user"]
      /\ pc'["caller"] = pc["caller"]
  BY <1>1, <1>2 DEF FInv, PCType, Threads
<1>4. /\ p.n \in Nat /\ camera.n \in Nat /\ camera.n <= p.n
      /\ camera'.n = IF p.eof THEN p.n + 1 ELSE p.n
      /\ p.eof => ~camera'.begun
  BY <1>1 DEF FInv, CameraType, PayloadHeader, Sends
<1>5. Ended' /\ Zeroed'
  BY <1>2, <1>3, <1>4 DEF Ended, Zeroed, OnceInv
<1>6. \A y \in Published : y \in Nat /\ y < p.n /\ y < camera'.n
  BY <1>1, <1>4 DEF OnceInv, Past, Published, FInv, Presented
<1>7. CASE fid # p.n % 2 /\ outbuf # {}
  <2>1. /\ hold' = [seq |-> seq, err |-> bfh_err, data |-> outbuf]
        /\ outbuf' = {} /\ bfh_err' = FALSE
    BY <1>7 DEF PayloadHeader, SwapBuffers
  <2>2. \A x \in outbuf : x \in CameraFrames /\ x < p.n /\ x < camera'.n
    <3> SUFFICES ASSUME NEW x \in outbuf
                 PROVE  x \in CameraFrames /\ x < p.n /\ x < camera'.n
      OBVIOUS
    <3>1. Accounted(x)
      BY <1>1 DEF FInv, Working
    <3>2. x < p.n
      BY <1>7, <1>4, <3>1 DEF Accounted, PayloadHeader, Sends
    <3>3. QED
      BY <3>1, <3>2, <1>4 DEF Accounted
  <2>3. \A y \in Published : \A x \in outbuf : y < x
    BY DEF OnceInv, Past
  <2>4. Fresh'
    BY <1>2, <1>3, <1>7, <2>1, <2>2, <2>3, PublishKeepsFresh
  <2>5. \A y \in Published' : Past(y)'
    BY <1>2, <1>6, <2>1, <2>2 DEF Past, Published
  <2>6. QED
    BY <1>1, <1>5, <2>1, <2>4, <2>5 DEF OnceInv, Unflagged
<1>8. CASE ~(fid # p.n % 2 /\ outbuf # {})
  <2>1. UNCHANGED <<hold, outbuf, bfh_err>>
    BY <1>8 DEF PayloadHeader
  <2>2. \A y \in Published' : Past(y)'
    BY <1>2, <1>6, <2>1 DEF Past, Published, OnceInv
  <2>3. Fresh'
    BY <1>2, <1>3, <2>1 DEF Fresh, OnceInv
  <2>4. QED
    BY <1>1, <1>5, <2>1, <2>2, <2>3 DEF OnceInv, Unflagged
<1>9. QED
  BY <1>7, <1>8

\* A packet joins its frame, or ends it.
LEMMA DataKeepsOnce ==
  ASSUME OnceInv, NothingFlagged, IsoData
  PROVE  OnceInv'
<1> USE UvcStreamAssumption DEF CameraFrames
<1> DEFINE D == IF payload.data THEN outbuf \cup {payload.n} ELSE outbuf
<1>1. FInv /\ FInv'
  BY HandlerKeeps DEF OnceInv, Handler, Packet
<1>2. /\ pc' = [pc EXCEPT !["handler"] = "packets"] /\ pc["handler"] = "data"
      /\ UNCHANGED <<frame, shown, last_seq, xfer, payload, camera>>
  BY DEF IsoData, Goto, userVars, worldVars
<1>3. /\ pc'["handler"] = "packets" /\ pc'["user"] = pc["user"]
      /\ pc'["caller"] = pc["caller"]
  BY <1>1, <1>2 DEF FInv, PCType, Threads
<1>4. \A x \in D : Accounted(x)
  BY <1>1, <1>2 DEF FInv, Working
<1>5. \A y \in Published : \A x \in D : y < x
  BY <1>2 DEF OnceInv, Past
<1>6. Ended' /\ Zeroed'
  BY <1>2, <1>3 DEF Ended, Zeroed, OnceInv
<1>7. \/ /\ payload.eof /\ D # {} /\ outbuf' = {} /\ bfh_err' = FALSE
         /\ hold' = [seq |-> seq, err |-> bfh_err, data |-> D]
      \/ outbuf' = D /\ UNCHANGED <<hold, bfh_err>>
  BY DEF IsoData, SwapBuffers, NothingFlagged
<1> HIDE DEF D
<1>8. ASSUME payload.eof, D # {}, outbuf' = {}, bfh_err' = FALSE,
             hold' = [seq |-> seq, err |-> bfh_err, data |-> D]
      PROVE  OnceInv'
  <2>1. ~camera.begun
    BY <1>2, <1>8 DEF OnceInv, Ended
  <2>2. D \in SUBSET CameraFrames /\ \A x \in D : x < camera.n
    BY <1>4, <2>1 DEF Accounted
  <2>3. Fresh'
    BY <1>2, <1>3, <1>5, <1>8, <2>2, PublishKeepsFresh
  <2>4. \A y \in Published' : Past(y)'
    BY <1>2, <1>3, <1>8, <2>2 DEF Past, Published, OnceInv
  <2>5. QED
    BY <1>1, <1>6, <1>8, <2>3, <2>4 DEF OnceInv, Unflagged
<1>9. ASSUME outbuf' = D, UNCHANGED <<hold, bfh_err>> PROVE OnceInv'
  <2>1. \A y \in Published' : Past(y)'
    BY <1>2, <1>3, <1>5, <1>9 DEF Past, Published, OnceInv
  <2>2. Fresh'
    BY <1>2, <1>3, <1>9 DEF Fresh, OnceInv
  <2>3. QED
    BY <1>1, <1>6, <1>9, <2>1, <2>2 DEF OnceInv, Unflagged
<1>10. QED
  BY <1>7, <1>8, <1>9

LEMMA HandlerKeepsOnce ==
  ASSUME OnceInv, NothingFlagged, Handler
  PROVE  OnceInv'
<1>1. FInv /\ FInv'
  BY HandlerKeeps DEF OnceInv
<1>2. ASSUME NEW t \in Transfers,
             \/ TransferCompleted(t) \/ TransferRetried(t)
             \/ TransferEnded(t) \/ TransferNoDevice(t)
      PROVE  OnceInv'
  <2>1. /\ xfer[t] \in {"flight", "cancelled"}
        /\ \E to \in {"packets", "test", "delete"} :
             pc' = [pc EXCEPT !["handler"] = to]
        /\ UNCHANGED <<payload, outbuf, bfh_err, hold, frame, shown, camera,
                       last_seq>>
    BY <1>2 DEF TransferCompleted, TransferRetried, TransferEnded, Goto,
                TransferNoDevice, bufferVars, presentVars, userVars, worldVars
  <2>2. /\ pc'["handler"] # "data" /\ pc'["user"] = pc["user"]
        /\ pc'["caller"] = pc["caller"]
    BY <1>1, <2>1 DEF FInv, PCType, Threads
  <2>3. pc["caller"] \notin {"opened", "thread"}
    BY <2>1 DEF OnceInv, Zeroed
  <2>4. Zeroed' /\ Fresh'
    BY <2>1, <2>2, <2>3 DEF Zeroed, Fresh, OnceInv
  <2>5. QED
    BY <1>1, <2>1, <2>2, <2>4, OthersKeepOnce
<1>3. CASE PacketsEnd \/ TestRunning \/ Resubmit \/ DeleteTransfer
  <2>1. /\ pc["handler"] # "idle"
        /\ \E to \in {"test", "submit", "delete", "idle"} :
             pc' = [pc EXCEPT !["handler"] = to]
        /\ UNCHANGED <<payload, outbuf, bfh_err, hold, frame, shown, camera,
                       last_seq>>
    BY <1>3 DEF PacketsEnd, TestRunning, Resubmit, DeleteTransfer, Goto,
                bufferVars, presentVars, userVars, worldVars, NothingFlagged
  <2>2. /\ pc'["handler"] # "data" /\ pc'["user"] = pc["user"]
        /\ pc'["caller"] = pc["caller"]
    BY <1>1, <2>1 DEF FInv, PCType, Threads
  <2>3. Zeroed' /\ Fresh'
    BY <2>1, <2>2 DEF Zeroed, Fresh, OnceInv
  <2>4. QED
    BY <1>1, <2>1, <2>2, <2>3, OthersKeepOnce
<1>4. ~BadPacket /\ ~BulkData
  BY DEF BadPacket, BulkData, NothingFlagged
<1>5. QED
  BY <1>2, <1>3, <1>4, HeaderKeepsOnce, DataKeepsOnce
  DEF Handler, Completion, Packet

LEMMA UserKeepsOnce == ASSUME OnceInv, User PROVE OnceInv'
<1>1. FInv /\ FInv'
  BY UserKeeps DEF OnceInv
<1>2. /\ UNCHANGED <<payload, outbuf, bfh_err, hold, camera, xfer>>
      /\ pc["user"] \in {"check", "call", "user_cb"}
      /\ \E to \in UserPCs : pc' = [pc EXCEPT !["user"] = to]
  BY DEF User, UserTake, UserWait, UserExit, UserCall, UserSkip, UserReturn,
         Goto, UserFrame, bufferVars, worldVars, UserPCs
<1>3. /\ pc'["handler"] = pc["handler"] /\ pc'["caller"] = pc["caller"]
  BY <1>1, <1>2 DEF FInv, PCType, Threads
<1>4. Unflagged' /\ Ended' /\ Zeroed'
  BY <1>2, <1>3 DEF OnceInv, Unflagged, Ended, Zeroed
<1>5. Published' \in SUBSET Published
  BY <1>2 DEF User, UserTake, UserWait, UserExit, UserCall, UserSkip,
              UserReturn, userVars, Published
<1>6. \A y \in Published' : Past(y)'
  BY <1>2, <1>3, <1>5 DEF OnceInv, Past
<1>7. Fresh'
  <2>1. CASE UserTake
    <3>1. /\ pc["user"] = "check" /\ pc'["user"] = "call"
          /\ last_seq # hold.seq /\ last_seq' = hold.seq
          /\ frame' = hold.data /\ shown' = shown
      BY <1>1, <2>1
      DEF FInv, PCType, Threads, UserTake, Goto, OnceInv, Unflagged
    <3>2. QED
      BY <1>2, <3>1 DEF OnceInv, Fresh, After
  <2>2. CASE UserCall
    <3>1. /\ pc["user"] = "call" /\ pc'["user"] = "user_cb"
          /\ shown' = frame /\ UNCHANGED <<frame, last_seq>>
      BY <1>1, <2>2 DEF FInv, PCType, Threads, UserCall, Goto
    <3>2. QED
      BY <1>2, <3>1 DEF OnceInv, Fresh, After
  <2>3. CASE UserWait \/ UserExit \/ UserReturn
    <3>1. /\ pc["user"] \in {"check", "user_cb"}
          /\ pc'["user"] \in {"check", "exited"}
          /\ UNCHANGED <<frame, last_seq, shown>>
      BY <1>1, <2>3
      DEF FInv, PCType, Threads, UserWait, UserExit, UserReturn, Goto,
          userVars
    <3>2. QED
      BY <1>2, <3>1 DEF OnceInv, Fresh, After
  <2>4. CASE UserSkip
    BY <2>4 DEF UserSkip, OnceInv, Unflagged
  <2>5. QED
    BY <2>1, <2>2, <2>3, <2>4 DEF User
<1>8. QED
  BY <1>1, <1>4, <1>6, <1>7 DEF OnceInv

LEMMA CallerKeepsOnce ==
  ASSUME OnceInv, OpenCtrl \/ OpenCtrlFails \/ StopCall \/ CallerStep
  PROVE  OnceInv'
<1>1. FInv /\ FInv'
  BY CallerKeeps DEF OnceInv
<1>2. CASE OpenCtrl
  <2>1. /\ pc' = [pc EXCEPT !["caller"] = "opened"]
        /\ pc["handler"] = "idle" /\ pc["user"] \in {"none", "exited"}
        /\ \A t \in Transfers : xfer'[t] = "null"
        /\ outbuf' = {} /\ hold' = EmptyHold /\ frame' = {} /\ ~bfh_err'
        /\ UNCHANGED <<payload, shown, camera, last_seq>>
    BY <1>2 DEF OpenCtrl, Goto, NobodyLeft, AllDeleted, worldVars
  <2>2. pc'["handler"] = "idle" /\ pc'["user"] \in {"none", "exited"}
    BY <1>1, <2>1 DEF FInv, PCType, Threads
  <2>3. Unflagged' /\ Ended' /\ Zeroed' /\ Fresh'
    BY <2>1, <2>2 DEF Unflagged, Ended, Zeroed, Fresh, EmptyHold
  <2>4. \A y \in Published' : Past(y)'
    BY <2>1, <2>2 DEF OnceInv, Past, Published, EmptyHold
  <2>5. QED
    BY <1>1, <2>3, <2>4 DEF OnceInv
<1>3. CASE StartPrepare \/ StartRejected
  <2>1. /\ \E to \in {"thread", "close"} : pc' = [pc EXCEPT !["caller"] = to]
        /\ \A t \in Transfers : xfer'[t] \notin {"flight", "cancelled"}
        /\ pc["handler"] = "idle" /\ hold = EmptyHold /\ ~bfh_err'
        /\ UNCHANGED <<payload, outbuf, hold, frame, shown, camera, last_seq>>
    BY <1>3 DEF StartPrepare, StartRejected, Goto, presentVars, userVars,
                worldVars, OnceInv, Zeroed
  <2>2. pc'["handler"] = "idle" /\ pc'["user"] = pc["user"]
    BY <1>1, <2>1 DEF FInv, PCType, Threads
  <2>3. Unflagged' /\ Ended' /\ Zeroed' /\ Fresh'
    BY <2>1, <2>2 DEF OnceInv, Unflagged, Ended, Zeroed, Fresh
  <2>4. \A y \in Published' : Past(y)'
    BY <2>1, <2>2 DEF OnceInv, Past, Published
  <2>5. QED
    BY <1>1, <2>3, <2>4 DEF OnceInv
<1>4. CASE StartThread
  <2>1. /\ pc' = [pc EXCEPT !["caller"] = "submit", !["user"] = "check"]
        /\ hold = EmptyHold /\ last_seq' = 0
        /\ UNCHANGED <<payload, outbuf, bfh_err, hold, frame, shown, camera>>
    BY <1>4 DEF StartThread, bufferVars, worldVars, OnceInv, Zeroed
  <2>2. /\ pc'["handler"] = pc["handler"] /\ pc'["caller"] = "submit"
        /\ pc'["user"] = "check"
    BY <1>1, <2>1 DEF FInv, PCType, Threads
  <2>3. Zeroed' /\ Fresh'
    BY <2>1, <2>2 DEF Zeroed, Fresh, EmptyHold
  <2>4. QED
    BY <1>1, <2>1, <2>2, <2>3, OthersKeepOnce
<1>5. CASE \/ OpenCtrlFails \/ StopCall \/ StartSubmit \/ StartSubmitFails
           \/ StartDone \/ CloseTest \/ StopTest \/ StopCancel \/ StopAwait
           \/ StopJoin \/ CloseFree
  <2>1. /\ \/ pc' = pc
           \/ \E to \in CallerPCs \ {"opened", "thread"} :
                pc' = [pc EXCEPT !["caller"] = to]
        /\ pc["caller"] \notin {"opened", "thread"}
        /\ UNCHANGED CallerFrame
    BY <1>5 DEF OpenCtrlFails, StopCall, StartSubmit, StartSubmitFails,
                StartDone, CloseTest, StopTest, StopCancel, StopAwait,
                StopJoin, CloseFree, Goto, CallerPCs
  <2>2. /\ pc'["handler"] = pc["handler"] /\ pc'["user"] = pc["user"]
        /\ pc'["caller"] \notin {"opened", "thread"}
    BY <1>1, <2>1 DEF FInv, PCType, Threads
  <2>3. UNCHANGED <<payload, outbuf, bfh_err, hold, frame, shown, camera,
                    last_seq>>
    BY <2>1 DEF CallerFrame, bufferVars, presentVars, userVars, worldVars
  <2>4. Zeroed' /\ Fresh'
    BY <2>2, <2>3 DEF Zeroed, Fresh, OnceInv
  <2>5. QED
    BY <1>1, <2>2, <2>3, <2>4, OthersKeepOnce
<1>6. QED
  BY <1>2, <1>3, <1>4, <1>5 DEF CallerStep

LEMMA UnplugKeepsOnce ==
  ASSUME OnceInv, Unplug \/ UNCHANGED vars
  PROVE  OnceInv'
<1>1. FInv'
  BY UnplugKeeps DEF OnceInv
<1>2. UNCHANGED <<pc, payload, outbuf, bfh_err, hold, frame, shown, camera,
                  xfer, last_seq>>
  BY DEF Unplug, vars, bufferVars, presentVars, userVars, worldVars
<1>3. QED
  BY <1>1, <1>2, OthersKeepOnce DEF OnceInv, Zeroed, Fresh

\* _uvc_user_caller: provided that nothing flags a frame, whatever the order
\* of the threads, and though transfers fail, the camera is unplugged and
\* streams are opened again, every frame given to the user is newer than the
\* one before.
THEOREM FramesAreGivenOnce ==
  ASSUME NothingFlagged
  PROVE  Spec => EachFrameOnce
<1>1. Init => OnceInv
  BY InitOnce
<1>2. OnceInv /\ [Next]_vars => OnceInv'
  BY HandlerKeepsOnce, UserKeepsOnce, CallerKeepsOnce, UnplugKeepsOnce
  DEF Next
<1>3. OnceInv => [UserCall => NewFrameOnly]_vars
  BY DEF OnceInv, Fresh, After, UserCall, Goto, NewFrameOnly
<1>4. QED
  BY <1>1, <1>2, <1>3, PTL DEF Spec, EachFrameOnce

-----------------------------------------------------------------------------
(* The end of a stream *)

\* The conditions under which it holds; without them it does not.
Reliable == ~SubmitFails /\ ~Unplugs

UseType ==
  /\ pc \in [Threads -> CallerPCs \cup HandlerPCs \cup UserPCs]
  /\ xfer \in [Transfers -> TransferStates]
  /\ current \in Transfers
  /\ plugged = TRUE

\* A callback is for a transfer that is not deleted.
CallbackHasTransfer ==
  pc["handler"] # "idle" => xfer[current] = "callback"

\* Who may use the stream in each phase of the caller.
Phases ==
  /\ pc["caller"] \in {"closed", "opened", "free"} => NobodyLeft
  /\ pc["caller"] \in {"thread", "submit", "streaming", "stop"} => running
  /\ pc["caller"] = "close" => running \/ NobodyLeft
  /\ pc["caller"] = "join" => AllDeleted /\ pc["handler"] = "idle"

UseInv == UseType /\ CallbackHasTransfer /\ Phases

\* The step of every conjunct, the caller first.
LEMMA InitUse == Init => UseInv
  BY DEF Init, UseInv, UseType, CallbackHasTransfer, Phases, NobodyLeft,
         AllDeleted, Threads, CallerPCs, HandlerPCs, UserPCs, TransferStates

\* The event thread: it deletes only the transfer of its own callback, and
\* begins a callback only for a transfer libusb has.
LEMMA HandlerKeepsUse == ASSUME UseInv, Reliable, Handler PROVE UseInv'
<1> USE DEF UseInv, UseType, CallbackHasTransfer, Phases, NobodyLeft,
            AllDeleted, Threads, CallerPCs, HandlerPCs, UserPCs,
            TransferStates, Goto, worldVars
<1>1. ASSUME NEW t \in Transfers, TransferCompleted(t) PROVE UseInv'
  BY <1>1 DEF TransferCompleted
<1>2. ASSUME NEW t \in Transfers, TransferRetried(t) PROVE UseInv'
  BY <1>2 DEF TransferRetried
<1>3. ASSUME NEW t \in Transfers, TransferEnded(t) PROVE UseInv'
  BY <1>3 DEF TransferEnded
<1>4. ASSUME NEW t \in Transfers, TransferNoDevice(t) PROVE UseInv'
  BY <1>4 DEF TransferNoDevice
<1>5. ASSUME NEW p \in Payloads, PayloadHeader(p) PROVE UseInv'
  BY <1>5 DEF PayloadHeader, Sends, SwapBuffers
<1>6. CASE BadPacket
  BY <1>6 DEF BadPacket
<1>7. CASE IsoData
  BY <1>7 DEF IsoData
<1>8. CASE BulkData
  BY <1>8 DEF BulkData
<1>9. CASE PacketsEnd
  BY <1>9 DEF PacketsEnd
<1>10. CASE TestRunning
  BY <1>10 DEF TestRunning
<1>11. CASE Resubmit
  BY <1>11 DEF Resubmit, Submitted
<1>12. CASE DeleteTransfer
  BY <1>12 DEF DeleteTransfer
<1>13. QED
  BY <1>1, <1>2, <1>3, <1>4, <1>5, <1>6, <1>7, <1>8, <1>9, <1>10, <1>11,
     <1>12 DEF Handler, Completion, Packet

\* The user thread has its own counter, and once it has ended it stays so.
LEMMA UserKeepsUse == ASSUME UseInv, User PROVE UseInv'
<1> USE DEF UseInv, UseType, CallbackHasTransfer, Phases, NobodyLeft,
            AllDeleted, Threads, CallerPCs, HandlerPCs, UserPCs,
            TransferStates, Goto,
            UserFrame, worldVars
<1>1. CASE UserTake
  BY <1>1 DEF UserTake
<1>2. CASE UserWait
  BY <1>2 DEF UserWait
<1>3. CASE UserExit
  BY <1>3 DEF UserExit
<1>4. CASE UserCall
  BY <1>4 DEF UserCall
<1>5. CASE UserSkip
  BY <1>5 DEF UserSkip
<1>6. CASE UserReturn
  BY <1>6 DEF UserReturn
<1>7. QED
  BY <1>1, <1>2, <1>3, <1>4, <1>5, <1>6 DEF User

\* The caller goes from one phase to the next.
LEMMA CallerKeepsUse ==
  ASSUME UseInv, Reliable, OpenCtrl \/ OpenCtrlFails \/ StopCall \/ CallerStep
  PROVE  UseInv'
<1> USE DEF UseInv, UseType, CallbackHasTransfer, Phases, NobodyLeft,
            AllDeleted, Threads, CallerPCs, HandlerPCs, UserPCs,
            TransferStates, Goto,
            CallerFrame, worldVars
<1>1. CASE OpenCtrl
  BY <1>1 DEF OpenCtrl
<1>2. CASE OpenCtrlFails
  BY <1>2 DEF OpenCtrlFails
<1>3. CASE StartPrepare
  BY <1>3 DEF StartPrepare
<1>4. CASE StartRejected
  BY <1>4 DEF StartRejected
<1>5. CASE StartThread
  BY <1>5 DEF StartThread
<1>6. CASE StartSubmit
  BY <1>6 DEF StartSubmit, Submitted
<1>7. CASE StartSubmitFails
  BY <1>7 DEF StartSubmitFails, Refused, Reliable
<1>8. CASE StartDone
  BY <1>8 DEF StartDone
<1>9. CASE StopCall
  BY <1>9 DEF StopCall
<1>10. CASE CloseTest
  BY <1>10 DEF CloseTest
<1>11. CASE StopTest
  BY <1>11 DEF StopTest
<1>12. CASE StopCancel
  BY <1>12 DEF StopCancel
<1>13. CASE StopAwait
  BY <1>13 DEF StopAwait
<1>14. CASE StopJoin
  BY <1>14 DEF StopJoin
<1>15. CASE CloseFree
  BY <1>15 DEF CloseFree
<1>16. QED
  BY <1>1, <1>2, <1>3, <1>4, <1>5, <1>6, <1>7, <1>8, <1>9, <1>10, <1>11,
     <1>12, <1>13, <1>14, <1>15 DEF CallerStep

LEMMA StutterKeepsUse == ASSUME UseInv, UNCHANGED vars PROVE UseInv'
  BY DEF UseInv, UseType, CallbackHasTransfer, Phases, NobodyLeft, AllDeleted,
         vars, worldVars

\* uvc_stream_close: provided that libusb accepts every transfer and that the
\* camera stays plugged in, no transfer and no thread outlives the handle,
\* whatever the order of the event thread, the callback thread and the caller.
THEOREM ClosedStreamIsUnused ==
  ASSUME Reliable
  PROVE  Spec => []CloseEndsAll
<1>1. Init => UseInv
  BY InitUse
<1>2. UseInv /\ [Next]_vars => UseInv'
  <2> SUFFICES ASSUME UseInv, [Next]_vars PROVE UseInv'
    OBVIOUS
  <2>1. CASE Handler
    BY <2>1, HandlerKeepsUse
  <2>2. CASE User
    BY <2>2, UserKeepsUse
  <2>3. CASE OpenCtrl \/ OpenCtrlFails \/ StopCall \/ CallerStep
    BY <2>3, CallerKeepsUse
  <2>4. CASE Unplug
    BY <2>4 DEF Unplug, Reliable
  <2>5. CASE UNCHANGED vars
    BY <2>5, StutterKeepsUse
  <2>6. QED
    BY <2>1, <2>2, <2>3, <2>4, <2>5 DEF Next
<1>3. UseInv => CloseEndsAll
  BY DEF UseInv, Phases, CloseEndsAll
<1>4. QED
  BY <1>1, <1>2, <1>3, PTL DEF Spec

-----------------------------------------------------------------------------
(* The stop of a stream *)

CancelType ==
  /\ pc \in [Threads -> CallerPCs \cup HandlerPCs \cup UserPCs]
  /\ xfer \in [Transfers -> TransferStates]
  /\ current \in Transfers

\* No transfer is submitted after the cancel, unless the event thread had
\* read running before.
Escape ==
  /\ pc["caller"] \in {"cancel", "wait"} => ~running
  /\ pc["caller"] = "wait" /\ pc["handler"] = "submit" =>
       \A t \in Transfers : xfer[t] # "flight"

CancelInv == CancelType /\ Escape /\ OneEscapesTheCancel

LEMMA InitCancel == Init => CancelInv
  BY DEF Init, CancelInv, CancelType, Escape, OneEscapesTheCancel, Threads,
         CallerPCs, HandlerPCs, UserPCs, TransferStates

\* The event thread: only Resubmit gives libusb a transfer.
LEMMA HandlerKeepsCancel == ASSUME CancelInv, Handler PROVE CancelInv'
<1> USE DEF CancelInv, CancelType, Escape, OneEscapesTheCancel, Threads,
            CallerPCs, HandlerPCs, UserPCs, TransferStates, Goto
<1>1. ASSUME NEW t \in Transfers, TransferCompleted(t) PROVE CancelInv'
  BY <1>1 DEF TransferCompleted
<1>2. ASSUME NEW t \in Transfers, TransferRetried(t) PROVE CancelInv'
  BY <1>2 DEF TransferRetried
<1>3. ASSUME NEW t \in Transfers, TransferEnded(t) PROVE CancelInv'
  BY <1>3 DEF TransferEnded
<1>4. ASSUME NEW t \in Transfers, TransferNoDevice(t) PROVE CancelInv'
  BY <1>4 DEF TransferNoDevice
<1>5. ASSUME NEW p \in Payloads, PayloadHeader(p) PROVE CancelInv'
  BY <1>5 DEF PayloadHeader
<1>6. CASE BadPacket
  BY <1>6 DEF BadPacket
<1>7. CASE IsoData
  BY <1>7 DEF IsoData
<1>8. CASE BulkData
  BY <1>8 DEF BulkData
<1>9. CASE PacketsEnd
  BY <1>9 DEF PacketsEnd
<1>10. CASE TestRunning
  BY <1>10 DEF TestRunning
<1>11. CASE Resubmit
  BY <1>11 DEF Resubmit, Submitted
<1>12. CASE DeleteTransfer
  BY <1>12 DEF DeleteTransfer
<1>13. QED
  BY <1>1, <1>2, <1>3, <1>4, <1>5, <1>6, <1>7, <1>8, <1>9, <1>10, <1>11,
     <1>12 DEF Handler, Completion, Packet

LEMMA UserKeepsCancel == ASSUME CancelInv, User PROVE CancelInv'
<1> USE DEF CancelInv, CancelType, Escape, OneEscapesTheCancel, Threads,
            CallerPCs, HandlerPCs, UserPCs, Goto, UserFrame
<1>1. CASE UserTake
  BY <1>1 DEF UserTake
<1>2. CASE UserWait
  BY <1>2 DEF UserWait
<1>3. CASE UserExit
  BY <1>3 DEF UserExit
<1>4. CASE UserCall
  BY <1>4 DEF UserCall
<1>5. CASE UserSkip
  BY <1>5 DEF UserSkip
<1>6. CASE UserReturn
  BY <1>6 DEF UserReturn
<1>7. QED
  BY <1>1, <1>2, <1>3, <1>4, <1>5, <1>6 DEF User

\* The caller: running is cleared before the cancel, and set only by the start.
LEMMA CallerKeepsCancel ==
  ASSUME CancelInv, OpenCtrl \/ OpenCtrlFails \/ StopCall \/ CallerStep
  PROVE  CancelInv'
<1> USE DEF CancelInv, CancelType, Escape, OneEscapesTheCancel, Threads,
            CallerPCs, HandlerPCs, UserPCs, TransferStates, Goto, CallerFrame
<1>1. CASE OpenCtrl
  BY <1>1 DEF OpenCtrl
<1>2. CASE OpenCtrlFails
  BY <1>2 DEF OpenCtrlFails
<1>3. CASE StartPrepare
  BY <1>3 DEF StartPrepare
<1>4. CASE StartRejected
  BY <1>4 DEF StartRejected
<1>5. CASE StartThread
  BY <1>5 DEF StartThread
<1>6. CASE StartSubmit
  BY <1>6 DEF StartSubmit, Submitted
<1>7. CASE StartSubmitFails
  BY <1>7 DEF StartSubmitFails
<1>8. CASE StartDone
  BY <1>8 DEF StartDone
<1>9. CASE StopCall
  BY <1>9 DEF StopCall
<1>10. CASE CloseTest
  BY <1>10 DEF CloseTest
<1>11. CASE StopTest
  BY <1>11 DEF StopTest
<1>12. CASE StopCancel
  BY <1>12 DEF StopCancel
<1>13. CASE StopAwait
  BY <1>13 DEF StopAwait
<1>14. CASE StopJoin
  BY <1>14 DEF StopJoin
<1>15. CASE CloseFree
  BY <1>15 DEF CloseFree
<1>16. QED
  BY <1>1, <1>2, <1>3, <1>4, <1>5, <1>6, <1>7, <1>8, <1>9, <1>10, <1>11,
     <1>12, <1>13, <1>14, <1>15 DEF CallerStep

\* uvc_stream_stop: at most one transfer escapes its cancel, and it is the
\* last that is submitted, though transfers fail and are refused and the
\* camera is unplugged.
THEOREM OneTransferEscapes == Spec => []OneEscapesTheCancel
<1>1. Init => CancelInv
  BY InitCancel
<1>2. CancelInv /\ [Next]_vars => CancelInv'
  <2> SUFFICES ASSUME CancelInv, [Next]_vars PROVE CancelInv'
    OBVIOUS
  <2>1. CASE Unplug \/ UNCHANGED vars
    BY <2>1 DEF Unplug, vars, CancelInv, CancelType, Escape,
                OneEscapesTheCancel
  <2>2. QED
    BY <2>1, HandlerKeepsCancel, UserKeepsCancel, CallerKeepsCancel DEF Next
<1>3. CancelInv => OneEscapesTheCancel
  BY DEF CancelInv
<1>4. QED
  BY <1>1, <1>2, <1>3, PTL DEF Spec

-----------------------------------------------------------------------------
(* The waits of a stream *)

\* A transfer is new until the start has submitted it.
NoneLost ==
  \A t \in Transfers :
    /\ xfer[t] # "refused"
    /\ xfer[t] = "new" => pc["caller"] \in {"thread", "submit"}

\* Where the threads wait, and that the user thread is created once.
Asleep ==
  /\ "caller" \in waiting => pc["caller"] = "wait"
  /\ "user" \in waiting => pc["user"] = "check"
  /\ pc["caller"] = "thread" => pc["user"] \in {"none", "exited"}

WakeInv == UseInv /\ NoneLost /\ Asleep /\ SleepersAreWoken

LEMMA InitWake == Init => WakeInv
<1>1. Init => NoneLost /\ Asleep /\ SleepersAreWoken
  BY DEF Init, NoneLost, Asleep, SleepersAreWoken
<1>2. QED
  BY <1>1, InitUse DEF WakeInv

\* The event thread: what publishes a frame or deletes a transfer wakes all.
LEMMA HandlerKeepsWake ==
  ASSUME WakeInv, Reliable, Handler
  PROVE  WakeInv'
<1> USE DEF WakeInv
<1>0. UseInv'
  BY HandlerKeepsUse
<1> USE DEF UseInv, UseType, CallbackHasTransfer, NoneLost, Asleep,
            SleepersAreWoken, WithLibusb, Threads, CallerPCs, HandlerPCs,
            UserPCs, TransferStates, Goto, worldVars
<1>1. ASSUME NEW t \in Transfers, TransferCompleted(t) PROVE WakeInv'
  BY <1>0, <1>1 DEF TransferCompleted, presentVars, userVars
<1>2. ASSUME NEW t \in Transfers, TransferRetried(t) PROVE WakeInv'
  BY <1>0, <1>2 DEF TransferRetried, presentVars, userVars
<1>3. ASSUME NEW t \in Transfers, TransferEnded(t) PROVE WakeInv'
  BY <1>0, <1>3 DEF TransferEnded, presentVars, userVars
<1>4. ASSUME NEW t \in Transfers PROVE ~TransferNoDevice(t)
  BY DEF TransferNoDevice
<1>5. ASSUME NEW p \in Payloads, PayloadHeader(p) PROVE WakeInv'
  BY <1>0, <1>5 DEF PayloadHeader, Sends, SwapBuffers, userVars
<1>6. CASE BadPacket
  BY <1>0, <1>6 DEF BadPacket, presentVars, userVars
<1>7. CASE IsoData
  BY <1>0, <1>7 DEF IsoData, SwapBuffers, userVars
<1>8. CASE BulkData
  BY <1>0, <1>8 DEF BulkData, BulkAppend, SwapBuffers, userVars
<1>9. CASE PacketsEnd
  BY <1>0, <1>9 DEF PacketsEnd, presentVars, userVars
<1>10. CASE TestRunning
  BY <1>0, <1>10 DEF TestRunning, presentVars, userVars
<1>11. CASE Resubmit
  BY <1>0, <1>11 DEF Resubmit, Submitted, Refused, Reliable, presentVars,
                     userVars
<1>12. CASE DeleteTransfer
  BY <1>0, <1>12 DEF DeleteTransfer, presentVars, userVars
<1>13. QED
  BY <1>1, <1>2, <1>3, <1>4, <1>5, <1>6, <1>7, <1>8, <1>9, <1>10, <1>11,
     <1>12 DEF Handler, Completion, Packet

\* The user thread waits only after it has looked at both conditions.
LEMMA UserKeepsWake == ASSUME WakeInv, User PROVE WakeInv'
<1> USE DEF WakeInv
<1>0. UseInv'
  BY UserKeepsUse
<1> USE DEF UseInv, UseType, NoneLost, Asleep, SleepersAreWoken, WithLibusb,
            Threads, CallerPCs, HandlerPCs, UserPCs, Goto, UserFrame, userVars
<1>1. CASE UserTake
  BY <1>0, <1>1 DEF UserTake
<1>2. CASE UserWait
  BY <1>0, <1>2 DEF UserWait
<1>3. CASE UserExit
  BY <1>0, <1>3 DEF UserExit
<1>4. CASE UserCall
  BY <1>0, <1>4 DEF UserCall
<1>5. CASE UserSkip
  BY <1>0, <1>5 DEF UserSkip
<1>6. CASE UserReturn
  BY <1>0, <1>6 DEF UserReturn
<1>7. QED
  BY <1>1, <1>2, <1>3, <1>4, <1>5, <1>6 DEF User

\* The caller: it wakes the user thread once no transfer is left, and not
\* before.
LEMMA CallerKeepsWake ==
  ASSUME WakeInv, Reliable, OpenCtrl \/ OpenCtrlFails \/ StopCall \/ CallerStep
  PROVE  WakeInv'
<1> USE DEF WakeInv
<1>0. UseInv'
  BY CallerKeepsUse
<1> USE DEF UseInv, UseType, Phases, NobodyLeft, AllDeleted, NoneLost, Asleep,
            SleepersAreWoken, WithLibusb, Threads, CallerPCs, HandlerPCs,
            UserPCs, TransferStates, Goto, CallerFrame, presentVars, userVars
<1>1. CASE OpenCtrl
  BY <1>0, <1>1 DEF OpenCtrl
<1>2. CASE OpenCtrlFails
  BY <1>0, <1>2 DEF OpenCtrlFails
<1>3. CASE StartPrepare
  BY <1>0, <1>3 DEF StartPrepare
<1>4. CASE StartRejected
  BY <1>0, <1>4 DEF StartRejected
<1>5. CASE StartThread
  BY <1>0, <1>5 DEF StartThread
<1>6. CASE StartSubmit
  BY <1>0, <1>6 DEF StartSubmit, Submitted
<1>7. ~StartSubmitFails
  BY DEF StartSubmitFails, Refused, Reliable
<1>8. CASE StartDone
  BY <1>0, <1>8 DEF StartDone
<1>9. CASE StopCall
  BY <1>0, <1>9 DEF StopCall
<1>10. CASE CloseTest
  BY <1>0, <1>10 DEF CloseTest
<1>11. CASE StopTest
  BY <1>0, <1>11 DEF StopTest
<1>12. CASE StopCancel
  BY <1>0, <1>12 DEF StopCancel
<1>13. CASE StopAwait
  BY <1>0, <1>13 DEF StopAwait
<1>14. CASE StopJoin
  BY <1>0, <1>14 DEF StopJoin
<1>15. CASE CloseFree
  BY <1>0, <1>15 DEF CloseFree
<1>16. QED
  BY <1>1, <1>2, <1>3, <1>4, <1>5, <1>6, <1>7, <1>8, <1>9, <1>10, <1>11,
     <1>12, <1>13, <1>14, <1>15 DEF CallerStep

LEMMA StutterKeepsWake == ASSUME WakeInv, UNCHANGED vars PROVE WakeInv'
<1>1. UseInv'
  BY StutterKeepsUse DEF WakeInv
<1>2. QED
  BY <1>1 DEF WakeInv, NoneLost, Asleep, SleepersAreWoken, WithLibusb, vars,
              presentVars, userVars

\* No wakeup of cb_cond is lost: provided that libusb accepts every transfer
\* and that the camera stays plugged in, uvc_stream_stop and the user thread
\* sleep only while a broadcast is to come, though `running' is cleared
\* outside the mutex.
THEOREM NoWakeupIsLost ==
  ASSUME Reliable
  PROVE  Spec => []SleepersAreWoken
<1>1. Init => WakeInv
  BY InitWake
<1>2. WakeInv /\ [Next]_vars => WakeInv'
  <2>1. ~Unplug
    BY DEF Unplug, Reliable
  <2>2. QED
    BY <2>1, HandlerKeepsWake, UserKeepsWake, CallerKeepsWake,
       StutterKeepsWake DEF Next
<1>3. WakeInv => SleepersAreWoken
  BY DEF WakeInv
<1>4. QED
  BY <1>1, <1>2, <1>3, PTL DEF Spec
=============================================================================
