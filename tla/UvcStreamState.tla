---------------------------- MODULE UvcStreamState ----------------------------
(***************************************************************************)
(* A libuvc video stream (jni/libuvc/src/stream.c): the state shared by    *)
(*                                                                         *)
(*   "caller"   the thread that starts and stops the stream; in this       *)
(*              program the preview thread of UVCPreview                   *)
(*   "handler"  the thread that runs libusb's events and, in them,         *)
(*              _uvc_stream_callback, one transfer at a time               *)
(*   "user"     _uvc_user_caller, which hands frames to the user callback  *)
(*                                                                         *)
(* A section under cb_mutex that never waits is one action, so the mutex   *)
(* is not a variable.  A pthread_cond_wait adds the thread to `waiting', a *)
(* broadcast empties it; both loops around the waits test their condition  *)
(* again, so that a spurious wakeup would change nothing.  `running' is    *)
(* read and written without the mutex: each access is a step of its own.   *)
(*                                                                         *)
(* Image data is abstracted to the set of the camera's frames it comes     *)
(* from; got_bytes is zero when that set is empty.                         *)
(***************************************************************************)
EXTENDS Naturals, FiniteSets

CONSTANTS
  Transfers,      \* the LIBUVC_NUM_TRANSFER_BUFS transfers
  Isochronous,    \* the interface has alternate settings
  BadPackets,     \* whether packets may arrive damaged
  TransferErrors, \* whether a transfer may end with LIBUSB_TRANSFER_ERROR
  SubmitFails,    \* whether libusb may refuse to submit a transfer
  Unplugs,        \* whether the camera may be unplugged
  MaxFrames,      \* bound on the frames the camera sends
  MaxSessions     \* bound on the streams opened

ASSUME UvcStreamAssumption ==
  /\ IsFiniteSet(Transfers)
  /\ Isochronous \in BOOLEAN /\ BadPackets \in BOOLEAN
  /\ TransferErrors \in BOOLEAN /\ SubmitFails \in BOOLEAN
  /\ Unplugs \in BOOLEAN
  /\ MaxFrames \in Nat /\ MaxSessions \in Nat

VARIABLES
  pc, waiting,
  running,        \* unsynchronized flag of the stream handle
  xfer,           \* what has become of each transfer
  current,        \* the transfer the handler is called back for
  payload,        \* the packet the handler works on
  fid,            \* frame ID bit of the last packet
  outbuf, bfh_err, seq,       \* the working buffer, its error flag and number
  hold,           \* the presented buffer: hold_seq, hold_bfh_err, holdbuf
  frame,          \* strmh->frame: what the user callback is given
  last_seq,       \* local of the user thread
  shown,          \* what the last user callback was given (history)
  claimed,        \* the streaming interface is claimed
  camera,         \* the camera's current frame, and whether it has begun
  plugged,
  sessions

bufferVars == <<fid, outbuf, bfh_err, seq>>
userVars == <<frame, last_seq, shown>>
presentVars == <<hold, userVars>>
worldVars == <<camera, plugged>>
vars == <<pc, waiting, running, xfer, current, payload, bufferVars,
          presentVars, claimed, worldVars, sessions>>

Threads == {"caller", "handler", "user"}

CallerPCs == {"closed", "opened", "thread", "submit", "streaming", "close",
              "stop", "cancel", "wait", "join", "free"}
HandlerPCs == {"idle", "packets", "data", "test", "submit", "delete"}
UserPCs == {"none", "check", "call", "user_cb", "exited"}

\* NULL; allocated and never submitted; with libusb; with libusb and
\* cancelled; in its callback; refused by libusb in its callback.
TransferStates == {"null", "new", "flight", "cancelled", "callback", "refused"}

CameraFrames == 0 .. MaxFrames - 1

Payloads == [n : CameraFrames, data : BOOLEAN, eof : BOOLEAN]

NoPayload == [n |-> 0, data |-> FALSE, eof |-> FALSE]

EmptyHold == [seq |-> 0, err |-> FALSE, data |-> {}]

AllDeleted == \A t \in Transfers : xfer[t] = "null"

\* Nothing uses the stream handle any more.
NobodyLeft ==
  /\ AllDeleted
  /\ pc["handler"] = "idle"
  /\ pc["user"] \in {"none", "exited"}

Init ==
  /\ pc = [caller |-> "closed", handler |-> "idle", user |-> "none"]
  /\ waiting = {}
  /\ running = FALSE
  /\ xfer = [t \in Transfers |-> "null"]
  /\ current \in Transfers
  /\ payload = NoPayload
  /\ fid = 0 /\ outbuf = {} /\ bfh_err = FALSE /\ seq = 0
  /\ hold = EmptyHold /\ frame = {} /\ last_seq = 0
  /\ shown = {}
  /\ claimed = FALSE
  /\ camera = [n |-> 0, begun |-> FALSE]
  /\ plugged = TRUE
  /\ sessions = 0

Goto(p, from, to) ==
  /\ pc[p] = from
  /\ p \notin waiting
  /\ pc' = [pc EXCEPT ![p] = to]

\* libusb_submit_transfer succeeds, or does not.
Submitted(t) == plugged /\ xfer' = [xfer EXCEPT ![t] = "flight"]
Refused == SubmitFails \/ ~plugged
=============================================================================
