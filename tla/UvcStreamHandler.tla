--------------------------- MODULE UvcStreamHandler ---------------------------
(***************************************************************************)
(* The event thread of a stream: _uvc_stream_callback for every transfer   *)
(* that libusb completes, and the packets in it.                           *)
(***************************************************************************)
EXTENDS UvcStreamState

\* Faulty variant: the wake-up is forgotten.
SwapBuffersSilent(data, err) ==
  /\ hold' = [seq |-> seq, err |-> err, data |-> data]
  /\ seq' = seq + 1
  /\ outbuf' = {}
  /\ bfh_err' = FALSE
  /\ UNCHANGED waiting

\* _uvc_swap_buffers: data becomes the presented frame.  What follows the
\* unlock touches only what this thread uses.
SwapBuffers(data, err) ==
  /\ hold' = [seq |-> seq, err |-> err, data |-> data]
  /\ seq' = seq + 1
  /\ outbuf' = {}
  /\ bfh_err' = FALSE
  /\ waiting' = {}

\* The callback begins for a transfer that completed with data in it.
TransferCompleted(t) ==
  /\ xfer[t] \in {"flight", "cancelled"}
  /\ Goto("handler", "idle", "packets")
  /\ current' = t
  /\ xfer' = [xfer EXCEPT ![t] = "callback"]
  /\ UNCHANGED <<waiting, running, payload, bufferVars, presentVars, claimed,
                 worldVars, sessions>>

\* LIBUSB_TRANSFER_TIMED_OUT, STALL and OVERFLOW: submitted again.
TransferRetried(t) ==
  /\ xfer[t] = "flight"
  /\ Goto("handler", "idle", "test")
  /\ current' = t
  /\ xfer' = [xfer EXCEPT ![t] = "callback"]
  /\ UNCHANGED <<waiting, running, payload, bufferVars, presentVars, claimed,
                 worldVars, sessions>>

\* LIBUSB_TRANSFER_CANCELLED and ERROR: not submitted again.
TransferEnded(t) ==
  /\ \/ xfer[t] = "cancelled"
     \/ TransferErrors /\ xfer[t] = "flight"
  /\ Goto("handler", "idle", "delete")
  /\ current' = t
  /\ xfer' = [xfer EXCEPT ![t] = "callback"]
  /\ UNCHANGED <<waiting, running, payload, bufferVars, presentVars, claimed,
                 worldVars, sessions>>

\* LIBUSB_TRANSFER_NO_DEVICE clears running.
TransferNoDevice(t) ==
  /\ ~plugged
  /\ xfer[t] \in {"flight", "cancelled"}
  /\ Goto("handler", "idle", "delete")
  /\ current' = t
  /\ xfer' = [xfer EXCEPT ![t] = "callback"]
  /\ running' = FALSE
  /\ UNCHANGED <<waiting, payload, bufferVars, presentVars, claimed, worldVars,
                 sessions>>

\* The camera sends p: of its current frame, or of the next one when the end
\* of the current frame was lost.
Sends(p) ==
  /\ \/ p.n = camera.n
     \/ camera.begun /\ p.n = camera.n + 1
  /\ camera' = IF p.eof THEN [n |-> p.n + 1, begun |-> FALSE]
                        ELSE [n |-> p.n, begun |-> TRUE]

\* Faulty variant: the toggled frame ID is not noticed.
PayloadHeaderNoFlip(p) ==
  /\ Goto("handler", "packets", "data")
  /\ Sends(p)
  /\ payload' = p
  /\ fid' = p.n % 2
  /\ UNCHANGED <<waiting, running, xfer, current, outbuf, bfh_err, seq, hold,
                 userVars, claimed, plugged, sessions>>

\* The header of a packet: data of a frame with another frame ID is
\* published, since its end never came.
PayloadHeader(p) ==
  /\ Goto("handler", "packets", "data")
  /\ Sends(p)
  /\ payload' = p
  /\ fid' = p.n % 2
  /\ IF fid # p.n % 2 /\ outbuf # {}
       THEN SwapBuffers(outbuf, bfh_err)
       ELSE UNCHANGED <<hold, seq, outbuf, bfh_err, waiting>>
  /\ UNCHANGED <<running, xfer, current, userVars, claimed, plugged,
                 sessions>>

\* A packet with an error status.
BadPacket ==
  /\ BadPackets
  /\ Isochronous
  /\ Goto("handler", "packets", "packets")
  /\ bfh_err' = TRUE
  /\ UNCHANGED <<waiting, running, xfer, current, payload, fid, outbuf, seq,
                 presentVars, claimed, worldVars, sessions>>

\* An isochronous packet: its data joins the frame, and the end of a frame
\* that has data publishes it; or it is bogus and only flags the frame.
IsoData ==
  LET data == IF payload.data THEN outbuf \cup {payload.n} ELSE outbuf
  IN
  /\ Isochronous
  /\ Goto("handler", "data", "packets")
  /\ \/ payload.eof /\ data # {} /\ SwapBuffers(data, bfh_err)
     \/ /\ ~payload.eof \/ data = {}
        /\ outbuf' = data
        /\ UNCHANGED <<hold, seq, bfh_err, waiting>>
     \/ /\ BadPackets
        /\ bfh_err' = TRUE
        /\ UNCHANGED <<hold, seq, outbuf, waiting>>
  /\ UNCHANGED <<running, xfer, current, payload, fid, userVars, claimed,
                 worldVars, sessions>>

\* The end of a frame publishes the working buffer.
BulkAppend(data, err) ==
  IF payload.eof THEN SwapBuffers(data, err)
  ELSE /\ outbuf' = data
       /\ bfh_err' = err
       /\ UNCHANGED <<hold, seq, waiting>>

\* A bulk transfer is one packet: without data it ends nothing; data that
\* does not fit flags the frame, which is published nevertheless.
BulkData ==
  /\ ~Isochronous
  /\ Goto("handler", "data", "test")
  /\ \/ ~payload.data /\ UNCHANGED <<hold, seq, outbuf, bfh_err, waiting>>
     \/ payload.data /\ BulkAppend(outbuf \cup {payload.n}, bfh_err)
     \/ payload.data /\ outbuf # {} /\ BulkAppend(outbuf, TRUE)
  /\ UNCHANGED <<running, xfer, current, payload, fid, userVars, claimed,
                 worldVars, sessions>>

\* The loop over the packets ends, or a bulk transfer is empty or bogus.
PacketsEnd ==
  /\ Goto("handler", "packets", "test")
  /\ bfh_err' \in {bfh_err} \cup {b \in {TRUE} : BadPackets /\ ~Isochronous}
  /\ UNCHANGED <<waiting, running, xfer, current, payload, fid, outbuf, seq,
                 presentVars, claimed, worldVars, sessions>>

\* Faulty variant: running is not looked at.
TestRunningNot ==
  /\ Goto("handler", "test", "submit")
  /\ UNCHANGED <<waiting, running, xfer, current, payload, bufferVars,
                 presentVars, claimed, worldVars, sessions>>

\* running is read once, outside the mutex.
TestRunning ==
  /\ Goto("handler", "test", IF running THEN "submit" ELSE "delete")
  /\ UNCHANGED <<waiting, running, xfer, current, payload, bufferVars,
                 presentVars, claimed, worldVars, sessions>>

\* The result of libusb_submit_transfer is ignored.
Resubmit ==
  /\ Goto("handler", "submit", "idle")
  /\ \/ Submitted(current)
     \/ Refused /\ xfer' = [xfer EXCEPT ![current] = "refused"]
  /\ UNCHANGED <<waiting, running, current, payload, bufferVars, presentVars,
                 claimed, worldVars, sessions>>

\* Faulty variant: the waiting stop is not told.
DeleteTransferSilent ==
  /\ Goto("handler", "delete", "idle")
  /\ xfer' = [xfer EXCEPT ![current] = "null"]
  /\ UNCHANGED <<waiting, running, current, payload, bufferVars, presentVars,
                 claimed, worldVars, sessions>>

\* _uvc_delete_transfer: the transfer and its buffer are freed.
DeleteTransfer ==
  /\ Goto("handler", "delete", "idle")
  /\ xfer' = [xfer EXCEPT ![current] = "null"]
  /\ waiting' = {}
  /\ UNCHANGED <<running, current, payload, bufferVars, presentVars, claimed,
                 worldVars, sessions>>

Completion == \E t \in Transfers : TransferCompleted(t) \/ TransferRetried(t)
                                     \/ TransferEnded(t) \/ TransferNoDevice(t)

Packet ==
  \/ \E p \in Payloads : PayloadHeader(p)
  \/ BadPacket \/ IsoData \/ BulkData \/ PacketsEnd

Handler == Completion \/ Packet \/ TestRunning \/ Resubmit \/ DeleteTransfer

Unplug ==
  /\ Unplugs
  /\ plugged
  /\ plugged' = FALSE
  /\ UNCHANGED <<pc, waiting, running, xfer, current, payload, bufferVars,
                 presentVars, claimed, camera, sessions>>
=============================================================================
