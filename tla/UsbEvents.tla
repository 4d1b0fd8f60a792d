------------------------------ MODULE UsbEvents ------------------------------
(***************************************************************************)
(* How the threads of one libusb context share the handling of its events  *)
(* (libusb/io.c): whoever takes the events lock polls, the others wait for *)
(* it to report, and libusb_close takes the lock from them by way of the   *)
(* control pipe.                                                           *)
(*                                                                         *)
(*   "events"   _uvc_handle_events, which handles events until it is told  *)
(*              to stop                                                    *)
(*   "caller"   the thread that opens, controls and releases the camera    *)
(*   "preview"  another thread that sends control requests                 *)
(*                                                                         *)
(* A control request is a synchronous transfer: its thread handles events  *)
(* itself until the transfer is completed.  A section under                *)
(* event_waiters_lock is one action.                                       *)
(***************************************************************************)
EXTENDS Naturals, FiniteSets

CONSTANTS NULL,
          MaxOpens,     \* bound on the calls of connect
          MaxControls,  \* bound on the control requests
          MaxEvents     \* bound on the status events of the camera

ASSUME UsbEventsAssumption ==
    MaxOpens \in Nat /\ MaxControls \in Nat /\ MaxEvents \in Nat

Clients == {"caller", "preview"}
Threads == Clients \cup {"events"}
Transfers == Clients \cup {"status"}

ASSUME NullAssumption == NULL \notin Threads

VARIABLES
    pc,
    owner, depth,           \* of the recursive mutex events_lock
    event_handler_active, pollfd_modify,
    pipe,                   \* bytes in the control pipe
    waiting,                \* threads in libusb_wait_for_event
    pollfds,                \* the context polls the device's fd
    polls,                  \* thread -> whether it polls that fd
    xfer,                   \* transfer -> "none", "flying" or "ready"
    completed,              \* clients whose transfer is completed
    kill_handler_thread,
    plugged,
    device,                 \* the objects: see UvcDevice
    opens, controls, events

lockVars == <<owner, depth, event_handler_active>>
modifyVars == <<pollfd_modify, pipe>>
pollVars == <<pollfds, polls>>
transferVars == <<xfer, completed>>
lifeVars == <<kill_handler_thread, opens, controls, events>>
vars == <<pc, lockVars, modifyVars, waiting, pollVars, transferVars,
          lifeVars, plugged, device>>

Goto(t, from, to) == pc[t] = from /\ pc' = [pc EXCEPT ![t] = to]

Ready == {x \in Transfers : xfer[x] = "ready"}
Done(t) == t \in completed

\* Steps that change nothing but the program counter.
PcOnly == UNCHANGED <<lockVars, modifyVars, waiting, pollVars, transferVars,
                      lifeVars, plugged, device>>
-----------------------------------------------------------------------------
(* libusb_handle_events_timeout_completed *)

\* libusb_try_lock_events reads pollfd_modify, then tries the lock.
TestModify(t) ==
    /\ Goto(t, "try", IF pollfd_modify > 0 THEN "wait" ELSE "trylock")
    /\ PcOnly

TryLock(t) ==
    /\ IF owner = NULL
       THEN Goto(t, "trylock", "activate") /\ owner' = t /\ depth' = 1
       ELSE Goto(t, "trylock", "wait") /\ UNCHANGED <<owner, depth>>
    /\ UNCHANGED <<event_handler_active, modifyVars, waiting, pollVars,
                   transferVars, lifeVars, plugged, device>>

Activate(t) ==
    /\ Goto(t, "activate", "locked")
    /\ event_handler_active' = TRUE
    /\ UNCHANGED <<owner, depth, modifyVars, waiting, pollVars, transferVars,
                   lifeVars, plugged, device>>

\* handle_events takes the list of the fds to poll.
Locked(t) ==
    /\ IF Done(t) THEN Goto(t, "locked", "unlock") /\ UNCHANGED polls
       ELSE Goto(t, "locked", "poll") /\ polls' = [polls EXCEPT ![t] = pollfds]
    /\ UNCHANGED <<lockVars, modifyVars, waiting, pollfds, transferVars,
                   lifeVars, plugged, device>>

\* The device has something to say, or is gone (POLLERR).
PollDevice(t) ==
    /\ polls[t] /\ (Ready # {} \/ ~plugged)
    /\ Goto(t, "poll", "reap")
    /\ pollfds' = (pollfds /\ plugged)
    /\ UNCHANGED <<lockVars, modifyVars, waiting, polls, transferVars,
                   lifeVars, plugged, device>>

PollPipe(t) ==
    /\ pipe > 0 /\ ~(polls[t] /\ (Ready # {} \/ ~plugged))
    /\ Goto(t, "poll", "unlock")
    /\ PcOnly

\* After 60 s.
PollTimeout(t) ==
    /\ pipe = 0 /\ ~(polls[t] /\ (Ready # {} \/ ~plugged))
    /\ Goto(t, "poll", "unlock")
    /\ PcOnly

\* reap_for_handle, as long as there is something to reap.
ReapNone(t) == Ready = {} /\ Goto(t, "reap", "unlock") /\ PcOnly

Unref == device' = [device EXCEPT !.usb_ref = @ - 1]

\* sync_transfer_cb.
ReapControl(t) ==
    /\ \E c \in Clients \cap Ready :
         /\ xfer' = [xfer EXCEPT ![c] = "none"]
         /\ completed' = completed \cup {c}
    /\ Unref
    /\ Goto(t, "reap", "report")
    /\ UNCHANGED <<lockVars, modifyVars, waiting, pollVars, lifeVars, plugged>>

\* _uvc_status_callback submits the status transfer again - which may fail -
\* unless the camera is gone or the transfer in error.
ReapStatus(t) ==
    /\ xfer["status"] = "ready"
    /\ \/ /\ plugged /\ UNCHANGED device
          /\ xfer' = [xfer EXCEPT !["status"] = "flying"]
       \/ Unref /\ xfer' = [xfer EXCEPT !["status"] = "none"]
    /\ Goto(t, "reap", "report")
    /\ UNCHANGED <<lockVars, modifyVars, waiting, pollVars, completed,
                   lifeVars, plugged>>

\* Faulty variant: a completion is not broadcast.
ReportSilent(t) == Goto(t, "report", "reap") /\ PcOnly

\* usbi_handle_transfer_completion wakes the waiters.
Report(t) ==
    /\ Goto(t, "report", "reap") /\ waiting' = {}
    /\ UNCHANGED <<lockVars, modifyVars, pollVars, transferVars, lifeVars,
                   plugged, device>>

\* libusb_unlock_events, in three steps.
Unlock(t, from, to) ==
    /\ Goto(t, from, to)
    /\ event_handler_active' = FALSE
    /\ polls' = [polls EXCEPT ![t] = FALSE]
    /\ UNCHANGED <<owner, depth, modifyVars, waiting, pollfds, transferVars,
                   lifeVars, plugged, device>>

Release(t, from, to) ==
    /\ Goto(t, from, to)
    /\ depth' = depth - 1
    /\ owner' = IF depth = 1 THEN NULL ELSE owner
    /\ UNCHANGED <<event_handler_active, modifyVars, waiting, pollVars,
                   transferVars, lifeVars, plugged, device>>

Announce(t, from, to) ==
    /\ Goto(t, from, to) /\ waiting' = {}
    /\ UNCHANGED <<lockVars, modifyVars, pollVars, transferVars, lifeVars,
                   plugged, device>>

\* Faulty variant: the wait does not look whether anybody handles events.
WaitUntested(t) ==
    /\ IF Done(t) THEN Goto(t, "wait", "return") /\ UNCHANGED waiting
       ELSE Goto(t, "wait", "waiting") /\ waiting' = waiting \cup {t}
    /\ UNCHANGED <<lockVars, modifyVars, pollVars, transferVars, lifeVars,
                   plugged, device>>

\* libusb_wait_for_event, unless the transfer is completed or nobody seems to
\* handle events.
Wait(t) ==
    /\ IF Done(t) THEN Goto(t, "wait", "return") /\ UNCHANGED waiting
       ELSE IF pollfd_modify = 0 /\ ~event_handler_active
            THEN Goto(t, "wait", "try") /\ UNCHANGED waiting
            ELSE Goto(t, "wait", "waiting") /\ waiting' = waiting \cup {t}
    /\ UNCHANGED <<lockVars, modifyVars, pollVars, transferVars, lifeVars,
                   plugged, device>>

Woken(t) == t \notin waiting /\ Goto(t, "waiting", "return") /\ PcOnly

\* The loops of sync_transfer_wait_for_completion and _uvc_handle_events.
Return(t) ==
    /\ Goto(t, "return", IF t = "events"
                         THEN IF kill_handler_thread THEN "exited" ELSE "try"
                         ELSE IF Done(t) THEN "idle" ELSE "try")
    /\ PcOnly

HandleEvents(t) ==
    \/ TestModify(t) \/ TryLock(t) \/ Activate(t) \/ Locked(t)
    \/ PollDevice(t) \/ PollPipe(t) \/ PollTimeout(t)
    \/ ReapNone(t) \/ ReapControl(t) \/ ReapStatus(t) \/ Report(t)
    \/ Unlock(t, "unlock", "release") \/ Release(t, "release", "announce")
    \/ Announce(t, "announce", "return")
    \/ Wait(t) \/ Woken(t) \/ Return(t)
-----------------------------------------------------------------------------
(* libusb_control_transfer *)

Control(t) ==
    /\ controls < MaxControls /\ controls' = controls + 1
    /\ plugged      \* otherwise it is refused
    /\ xfer' = [xfer EXCEPT ![t] = "flying"]
    /\ completed' = completed \ {t}
    /\ device' = [device EXCEPT !.usb_ref = @ + 1]
    /\ Goto(t, "idle", "try")
    /\ UNCHANGED <<lockVars, modifyVars, waiting, pollVars, opens,
                   events, kill_handler_thread, plugged>>
-----------------------------------------------------------------------------
(* The device *)

Answer(x) ==
    /\ xfer[x] = "flying" /\ xfer' = [xfer EXCEPT ![x] = "ready"]
    /\ IF x = "status" THEN events < MaxEvents /\ events' = events + 1
       ELSE UNCHANGED events
    /\ UNCHANGED <<pc, lockVars, modifyVars, waiting, pollVars, completed,
                   kill_handler_thread, opens, controls, plugged, device>>

\* usbi_handle_disconnect is going to report every transfer.
Unplug ==
    /\ plugged /\ plugged' = FALSE
    /\ xfer' = [x \in Transfers |-> IF xfer[x] = "flying" THEN "ready"
                                    ELSE xfer[x]]
    /\ UNCHANGED <<pc, lockVars, modifyVars, waiting, pollVars, completed,
                   lifeVars, device>>
-----------------------------------------------------------------------------
(* libusb_close *)

CloseModify ==
    /\ Goto("caller", "modify", "write") /\ pollfd_modify' = pollfd_modify + 1
    /\ UNCHANGED <<lockVars, pipe, waiting, pollVars, transferVars, lifeVars,
                   plugged, device>>

CloseWrite ==
    /\ Goto("caller", "write", "lock") /\ pipe' = pipe + 1
    /\ UNCHANGED <<lockVars, pollfd_modify, waiting, pollVars, transferVars,
                   lifeVars, plugged, device>>

\* Faulty variant: the pollers are told, but not waited for.
CloseLockNot ==
    /\ owner' = "caller" /\ depth' = 1
    /\ event_handler_active' = TRUE
    /\ Goto("caller", "lock", "read")
    /\ UNCHANGED <<modifyVars, waiting, pollVars, transferVars, lifeVars,
                   plugged, device>>

\* libusb_lock_events, then a byte is read from the pipe.
CloseLock ==
    /\ owner = NULL /\ owner' = "caller" /\ depth' = 1
    /\ event_handler_active' = TRUE
    /\ Goto("caller", "lock", "read")
    /\ UNCHANGED <<modifyVars, waiting, pollVars, transferVars, lifeVars,
                   plugged, device>>

\* do_close locks once more and forgets the transfers in flight, with the
\* references they hold.
CloseTransfers ==
    /\ Goto("caller", "read", "inner")
    /\ pipe' = pipe - 1
    /\ depth' = depth + 1
    /\ xfer' = [x \in Transfers |-> "none"]
    /\ device' = [device EXCEPT
                    !.leaked = Cardinality({x \in Transfers : xfer[x] # "none"})]
    /\ UNCHANGED <<owner, event_handler_active, pollfd_modify, waiting,
                   pollVars, completed, lifeVars, plugged>>

\* op_close, then the handle is freed.
CloseBackend ==
    /\ Goto("caller", "backend", "modified")
    /\ pollfds' = FALSE
    /\ device' = [device EXCEPT !.usb_devh = FALSE, !.usb_ref = @ - 1]
    /\ UNCHANGED <<lockVars, modifyVars, waiting, polls, transferVars,
                   lifeVars, plugged>>

CloseModified ==
    /\ Goto("caller", "modified", "outer")
    /\ pollfd_modify' = pollfd_modify - 1
    /\ UNCHANGED <<lockVars, pipe, waiting, pollVars, transferVars, lifeVars,
                   plugged, device>>

libusb_close ==
    \/ CloseModify \/ CloseWrite \/ CloseLock \/ CloseTransfers
    \/ Unlock("caller", "inner", "inner2")
    \/ Release("caller", "inner2", "inner3")
    \/ Announce("caller", "inner3", "backend")
    \/ CloseBackend \/ CloseModified
    \/ Unlock("caller", "outer", "outer2")
    \/ Release("caller", "outer2", "outer3")
    \/ Announce("caller", "outer3", "join")
=============================================================================
