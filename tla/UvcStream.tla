------------------------------ MODULE UvcStream ------------------------------
(***************************************************************************)
(* The life of a libuvc stream: uvc_start_streaming_bandwidth and          *)
(* uvc_stop_streaming, called one after the other, the thread that calls   *)
(* the user's function, and their composition with the event thread.       *)
(***************************************************************************)
EXTENDS UvcStreamHandler

CallerFrame == <<current, payload, bufferVars, presentVars, worldVars>>

(***************************************************************************)
(* The caller.                                                             *)
(***************************************************************************)

\* uvc_stream_open_ctrl: the interface is claimed, the format negotiated,
\* and the handle allocated and zeroed.  A handle may be opened when no
\* thread can use its predecessor any more: beyond that, memory is undefined.
OpenCtrl ==
  /\ sessions < MaxSessions
  /\ plugged
  /\ NobodyLeft
  /\ Goto("caller", "closed", "opened")
  /\ claimed' = TRUE
  /\ sessions' = sessions + 1
  /\ running' = FALSE
  /\ outbuf' = {} /\ hold' = EmptyHold /\ frame' = {} /\ fid' = 0
  /\ bfh_err' = FALSE /\ seq' = 0
  /\ UNCHANGED <<waiting, xfer, current, payload, last_seq, shown,
                 worldVars>>

\* The claim fails, or the negotiation after it: the interface stays claimed.
OpenCtrlFails ==
  /\ sessions < MaxSessions
  /\ Goto("caller", "closed", "closed")
  /\ claimed' \in {claimed, TRUE}
  /\ sessions' = sessions + 1
  /\ UNCHANGED <<waiting, running, xfer, CallerFrame>>

\* uvc_stream_start_bandwidth, up to the allocation of the transfers.
StartPrepare ==
  /\ Goto("caller", "opened", "thread")
  /\ running' = TRUE
  /\ seq' = 0 /\ fid' = 0 /\ bfh_err' = FALSE
  /\ xfer' = [t \in Transfers |-> "new"]
  /\ UNCHANGED <<waiting, current, payload, outbuf, presentVars, claimed,
                 worldVars, sessions>>

\* No such frame or format, or no bandwidth: running was set and is cleared.
StartRejected ==
  /\ Goto("caller", "opened", "close")
  /\ running' = FALSE
  /\ seq' = 0 /\ fid' = 0 /\ bfh_err' = FALSE
  /\ UNCHANGED <<waiting, xfer, current, payload, outbuf, presentVars, claimed,
                 worldVars, sessions>>

\* pthread_create of _uvc_user_caller.
StartThread ==
  /\ pc["caller"] = "thread"
  /\ pc' = [pc EXCEPT !["caller"] = "submit", !["user"] = "check"]
  /\ last_seq' = 0
  /\ UNCHANGED <<waiting, running, xfer, current, payload, bufferVars, hold,
                 frame, shown, claimed, worldVars, sessions>>

StartSubmit ==
  \E t \in Transfers :
    /\ xfer[t] = "new"
    /\ Goto("caller", "submit", "submit")
    /\ Submitted(t)
    /\ UNCHANGED <<waiting, running, claimed, sessions, CallerFrame>>

StartSubmitFails ==
  /\ Refused
  /\ \E t \in Transfers : xfer[t] = "new"
  /\ Goto("caller", "submit", "close")
  /\ running' = FALSE
  /\ UNCHANGED <<waiting, xfer, claimed, sessions, CallerFrame>>

StartDone ==
  /\ \A t \in Transfers : xfer[t] # "new"
  /\ Goto("caller", "submit", "streaming")
  /\ UNCHANGED <<waiting, running, xfer, claimed, sessions, CallerFrame>>

StopCall ==
  /\ Goto("caller", "streaming", "close")
  /\ UNCHANGED <<waiting, running, xfer, claimed, sessions, CallerFrame>>

\* uvc_stream_close calls uvc_stream_stop if the stream is running.
CloseTest ==
  /\ Goto("caller", "close", IF running THEN "stop" ELSE "free")
  /\ UNCHANGED <<waiting, running, xfer, claimed, sessions, CallerFrame>>

\* uvc_stream_stop tests running once more, and clears it.
StopTest ==
  /\ Goto("caller", "stop", IF running THEN "cancel" ELSE "free")
  /\ running' = FALSE
  /\ UNCHANGED <<waiting, xfer, claimed, sessions, CallerFrame>>

\* Every transfer that is with libusb is cancelled.
StopCancel ==
  /\ Goto("caller", "cancel", "wait")
  /\ xfer' = [t \in Transfers |->
                IF xfer[t] = "flight" THEN "cancelled" ELSE xfer[t]]
  /\ UNCHANGED <<waiting, running, claimed, sessions, CallerFrame>>

\* Wait until every transfer is deleted, then wake the user thread.
StopAwait ==
  /\ "caller" \notin waiting
  /\ pc["caller"] = "wait"
  /\ IF AllDeleted
       THEN /\ pc' = [pc EXCEPT !["caller"] = "join"]
            /\ waiting' = {}
       ELSE /\ waiting' = waiting \cup {"caller"}
            /\ UNCHANGED pc
  /\ UNCHANGED <<running, xfer, claimed, sessions, CallerFrame>>

\* Faulty variant: the user thread is not joined.
StopJoinNot ==
  /\ Goto("caller", "join", "free")
  /\ UNCHANGED <<waiting, running, xfer, claimed, sessions, CallerFrame>>

StopJoin ==
  /\ pc["user"] = "exited"
  /\ Goto("caller", "join", "free")
  /\ UNCHANGED <<waiting, running, xfer, claimed, sessions, CallerFrame>>

\* uvc_stream_close releases the interface and frees the handle.
CloseFree ==
  /\ Goto("caller", "free", "closed")
  /\ claimed' = FALSE
  /\ UNCHANGED <<waiting, running, xfer, sessions, CallerFrame>>

CallerStep ==
  \/ StartPrepare \/ StartRejected \/ StartThread \/ StartSubmit
  \/ StartSubmitFails \/ StartDone \/ CloseTest \/ StopTest \/ StopCancel
  \/ StopAwait \/ StopJoin \/ CloseFree

(***************************************************************************)
(* _uvc_user_caller.                                                       *)
(***************************************************************************)

UserFrame == <<running, xfer, current, payload, bufferVars, hold, claimed,
               worldVars, sessions>>

\* Faulty variant: last_seq is not brought up to date.
UserTakeAgain ==
  /\ running /\ last_seq # hold.seq
  /\ Goto("user", "check", "call")
  /\ frame' = IF hold.err THEN frame ELSE hold.data
  /\ UNCHANGED <<waiting, last_seq, shown, UserFrame>>

\* Faulty variant: the working buffer is copied.
UserTakeWorking ==
  /\ running /\ last_seq # hold.seq
  /\ Goto("user", "check", "call")
  /\ last_seq' = hold.seq
  /\ frame' = IF hold.err THEN frame ELSE outbuf
  /\ UNCHANGED <<waiting, shown, UserFrame>>

\* Under cb_mutex: the presented frame is copied unless it is flagged.
UserTake ==
  /\ running /\ last_seq # hold.seq
  /\ Goto("user", "check", "call")
  /\ last_seq' = hold.seq
  /\ frame' = IF hold.err THEN frame ELSE hold.data
  /\ UNCHANGED <<waiting, shown, UserFrame>>

UserWait ==
  /\ running /\ last_seq = hold.seq
  /\ Goto("user", "check", "check")
  /\ waiting' = waiting \cup {"user"}
  /\ UNCHANGED <<userVars, UserFrame>>

UserExit ==
  /\ ~running
  /\ Goto("user", "check", "exited")
  /\ UNCHANGED <<waiting, userVars, UserFrame>>

\* hold_bfh_err is read again, outside the mutex.
UserCall ==
  /\ ~hold.err
  /\ Goto("user", "call", "user_cb")
  /\ shown' = frame
  /\ UNCHANGED <<waiting, frame, last_seq, UserFrame>>

UserSkip ==
  /\ hold.err
  /\ Goto("user", "call", "check")
  /\ UNCHANGED <<waiting, userVars, UserFrame>>

UserReturn ==
  /\ Goto("user", "user_cb", "check")
  /\ UNCHANGED <<waiting, userVars, UserFrame>>

User == UserTake \/ UserWait \/ UserExit \/ UserCall \/ UserSkip \/ UserReturn

Next == Handler \/ User \/ OpenCtrl \/ OpenCtrlFails \/ StopCall \/ CallerStep
          \/ Unplug

Spec == Init /\ [][Next]_vars

(***************************************************************************)
(* Threads that can run do; libusb completes what it was given, within the *)
(* timeout of 5 s at the latest; a transfer has finitely many packets.     *)
(***************************************************************************)
Fairness ==
  /\ WF_vars(Handler) /\ SF_vars(PacketsEnd)
  /\ WF_vars(User)
  /\ WF_vars(CallerStep)

FairSpec == Spec /\ Fairness

(***************************************************************************)
(* Properties.                                                             *)
(***************************************************************************)

\* Every variable has its type, and _uvc_swap_buffers numbers at most as many
\* frames as the camera sent: no frame is published twice.
TypeOK ==
  /\ pc \in [Threads -> CallerPCs \cup HandlerPCs \cup UserPCs]
  /\ pc["caller"] \in CallerPCs
  /\ pc["handler"] \in HandlerPCs
  /\ pc["user"] \in UserPCs
  /\ waiting \in SUBSET {"caller", "user"}
  /\ running \in BOOLEAN
  /\ xfer \in [Transfers -> TransferStates]
  /\ current \in Transfers
  /\ payload \in Payloads \cup {NoPayload}
  /\ fid \in {0, 1}
  /\ outbuf \in SUBSET CameraFrames
  /\ bfh_err \in BOOLEAN
  /\ seq \in 0 .. MaxFrames
  /\ hold \in [seq : 0 .. MaxFrames, err : BOOLEAN, data : SUBSET CameraFrames]
  /\ frame \in SUBSET CameraFrames
  /\ last_seq \in 0 .. MaxFrames
  /\ shown \in SUBSET CameraFrames
  /\ claimed \in BOOLEAN
  /\ camera \in [n : 0 .. MaxFrames, begun : BOOLEAN]
  /\ plugged \in BOOLEAN
  /\ sessions \in 0 .. MaxSessions

\* A frame that is published, copied or given to the user comes from one frame
\* of the camera, though the end of a frame may be lost (the frame ID bit).
WholeFrames ==
  \A data \in {hold.data, frame, shown} : Cardinality(data) <= 1

\* uvc_stream_close: when the stream is closed no transfer is left, and neither
\* the event thread nor the callback thread uses the freed handle.
CloseEndsAll == pc["caller"] = "closed" => NobodyLeft

\* uvc_stream_stop cancels the transfers one by one, while the event thread may
\* have read running and be about to submit one: that one only escapes, and is
\* submitted for the last time.
OneEscapesTheCancel ==
  pc["caller"] = "wait" =>
    \A t, u \in Transfers : xfer[t] = "flight" /\ xfer[u] = "flight" => t = u

WithLibusb(t) == xfer[t] \in {"flight", "cancelled", "callback"}

\* Who sleeps on the condition of the stream will be woken: uvc_stream_stop
\* sleeps only while libusb still has to delete a transfer, _uvc_user_caller
\* only if it has taken the last frame, and the stream runs or its stop is on
\* the way to the broadcast.
SleepersAreWoken ==
  /\ "caller" \in waiting => \E t \in Transfers : WithLibusb(t)
  /\ "user" \in waiting =>
       /\ last_seq = hold.seq
       /\ running \/ pc["caller"] \in {"cancel", "wait"}

\* _uvc_user_caller gives the user every frame at most once, in the camera's
\* order, and never a buffer without a frame.
NewFrameOnly ==
  /\ frame # {}
  /\ \A old \in shown : \A new \in frame : old < new

EachFrameOnce == [][UserCall => NewFrameOnly]_vars

\* uvc_stream_close comes back.
CloseReturns == pc["caller"] = "close" ~> pc["caller"] = "closed"

\* _uvc_user_caller sees every frame that _uvc_swap_buffers publishes, or a
\* later one, as long as the stream runs.  Frame 0 is not among them: its
\* number is the initial value of last_seq.
PublishedIsTaken ==
  \A k \in 1 .. MaxFrames :
    (running /\ hold.seq = k /\ pc["caller"] = "streaming")
      ~> (last_seq >= k \/ ~running)

\* Once a transfer has come back with LIBUSB_TRANSFER_NO_DEVICE the user thread
\* ends, unless its handle is freed before.
UnpluggedEndsUser ==
  (pc["handler"] = "delete" /\ ~running)
    ~> (pc["user"] \in {"none", "exited"} \/ pc["caller"] = "closed")

(***************************************************************************)
(* The double buffer is a mailbox for the latest frame.                    *)
(***************************************************************************)

Number(data) ==
  IF data = {} THEN 0 ELSE 1 + CHOOSE n \in data : \A m \in data : m <= n

Mailbox == INSTANCE FrameMailbox WITH
  Last <- MaxFrames, box <- Number(hold.data), taken <- Number(frame)

\* _uvc_swap_buffers and _uvc_populate_frame implement the mailbox.
IsMailbox == Mailbox!Spec
=============================================================================
