------------------------------ MODULE UvcDevice ------------------------------
(***************************************************************************)
(* A camera is connected, used and released: UVCCamera::connect and        *)
(* release, uvc_open and uvc_close, with the event thread they start and   *)
(* end, above the sharing of events of UsbEvents.                          *)
(*                                                                         *)
(* While a camera is being opened its context has no thread but the        *)
(* caller: libusb_open's notification of the pollers meets nobody.         *)
(***************************************************************************)
EXTENDS UsbEvents

NoDevice == [ref |-> 0, usb_ref |-> 0, leaked |-> 0,
             usb_devh |-> FALSE, devh |-> FALSE]

Init ==
    /\ pc = [caller |-> "closed", preview |-> "idle", events |-> "exited"]
    /\ owner = NULL /\ depth = 0 /\ event_handler_active = FALSE
    /\ pollfd_modify = 0 /\ pipe = 0 /\ waiting = {}
    /\ pollfds = FALSE /\ polls = [t \in Threads |-> FALSE]
    /\ xfer = [x \in Transfers |-> "none"] /\ completed = {}
    /\ kill_handler_thread = FALSE /\ plugged = TRUE
    /\ device = NoDevice /\ opens = 0 /\ controls = 0 /\ events = 0
-----------------------------------------------------------------------------
(* UVCCamera::connect *)

ConnectFrame == <<lockVars, modifyVars, waiting, polls, completed, plugged,
                  controls, events>>

\* uvc_get_device_with_fd makes a device with one reference of libusb and one
\* of libuvc; the context of a camera that was released is used again.
Connect ==
    /\ opens < MaxOpens /\ opens' = opens + 1
    /\ kill_handler_thread' \in {FALSE, kill_handler_thread}
    /\ \/ /\ Goto("caller", "closed", "open")
          /\ device' = [NoDevice EXCEPT !.ref = 1, !.usb_ref = 2]
       \/ /\ Goto("caller", "closed", "closed")   \* there is no such device
          /\ device' = NoDevice
    /\ UNCHANGED <<pollfds, xfer, ConnectFrame>>

\* libusb_open: a handle, with a reference of its own.
UvcOpen ==
    /\ plugged
    /\ Goto("caller", "open", "claim")
    /\ pollfds' = TRUE
    /\ device' = [device EXCEPT !.ref = @ + 1, !.usb_ref = @ + 2,
                                !.usb_devh = TRUE]
    /\ UNCHANGED <<xfer, kill_handler_thread, opens, ConnectFrame>>

\* The camera gives its reference up.
UvcOpenFails ==
    /\ Goto("caller", "open", "closed")
    /\ device' = [device EXCEPT !.ref = @ - 1, !.usb_ref = @ - 1]
    /\ UNCHANGED <<pollfds, xfer, kill_handler_thread, opens, ConnectFrame>>

\* Faulty variant: the event thread is started for the next camera only.
UvcOpenDoneUnstarted ==
    /\ Goto("caller", "claim", "idle")
    /\ plugged
    /\ xfer' = [xfer EXCEPT !["status"] = "flying"]
    /\ device' = [device EXCEPT !.devh = TRUE, !.usb_ref = @ + 1]
    /\ UNCHANGED <<pollfds, kill_handler_thread, opens, ConnectFrame>>

\* The interface is claimed, the status transfer submitted if the camera has
\* one, and the event thread started.
UvcOpenDone ==
    /\ pc["caller"] = "claim"
    /\ pc' = [pc EXCEPT !["caller"] = "idle",
                        !["events"] = IF kill_handler_thread THEN "exited"
                                      ELSE "try"]
    /\ \/ /\ plugged
          /\ xfer' = [xfer EXCEPT !["status"] = "flying"]
          /\ device' = [device EXCEPT !.devh = TRUE, !.usb_ref = @ + 1]
       \/ device' = [device EXCEPT !.devh = TRUE] /\ UNCHANGED xfer
    /\ UNCHANGED <<pollfds, kill_handler_thread, opens, ConnectFrame>>

\* Faulty variant: the reference of the handle is not given up.
UvcClaimFailsKeeps ==
    /\ Goto("caller", "claim", "closed")
    /\ pollfds' = FALSE
    /\ device' = [device EXCEPT !.ref = @ - 1, !.usb_ref = @ - 2,
                                !.usb_devh = FALSE]
    /\ UNCHANGED <<xfer, kill_handler_thread, opens, ConnectFrame>>

\* A step of uvc_open fails: libusb_close, and both references are given up.
UvcClaimFails ==
    /\ Goto("caller", "claim", "closed")
    /\ pollfds' = FALSE
    /\ device' = [device EXCEPT !.ref = @ - 2, !.usb_ref = @ - 3,
                                !.usb_devh = FALSE]
    /\ UNCHANGED <<xfer, kill_handler_thread, opens, ConnectFrame>>
-----------------------------------------------------------------------------
(* UVCCamera::release *)

\* Faulty variant: the event thread is not told to stop.
ReleaseCameraSilent ==
    /\ pc["preview"] = "idle"
    /\ Goto("caller", "idle", "modify")
    /\ UNCHANGED <<lockVars, modifyVars, waiting, pollVars, transferVars,
                   lifeVars, plugged, device>>

\* The preview has stopped, and its thread ended; uvc_close tells the event
\* thread to stop.
ReleaseCamera ==
    /\ pc["preview"] = "idle"
    /\ Goto("caller", "idle", "modify")
    /\ kill_handler_thread' = TRUE
    /\ UNCHANGED <<lockVars, modifyVars, waiting, pollVars, transferVars,
                   opens, controls, events, plugged, device>>

\* pthread_join, then uvc_close and the camera give their references up.
ReleaseEnd ==
    /\ pc["events"] = "exited"
    /\ Goto("caller", "join", "closed")
    /\ device' = [device EXCEPT !.ref = @ - 2, !.usb_ref = @ - 2,
                                !.devh = FALSE]
    /\ UNCHANGED <<lockVars, modifyVars, waiting, pollVars, transferVars,
                   lifeVars, plugged>>
-----------------------------------------------------------------------------
UsePCs == {"idle", "try", "trylock", "activate", "locked", "poll", "reap",
           "report", "unlock", "release", "announce", "wait", "waiting",
           "return"}
ClosePCs == {"modify", "write", "lock", "read", "inner", "inner2", "inner3",
             "backend", "modified", "outer", "outer2", "outer3", "join"}

InUse == pc["caller"] \in UsePCs

Lifecycle ==
    \/ UvcOpen \/ UvcOpenFails \/ UvcOpenDone \/ UvcClaimFails
    \/ libusb_close \/ ReleaseEnd

Next ==
    \/ Connect \/ Lifecycle \/ ReleaseCamera
    \/ \E t \in Threads : HandleEvents(t)
    \/ \E t \in Clients : InUse /\ Control(t)
    \/ \E x \in Transfers : Answer(x)
    \/ Unplug

Spec == Init /\ [][Next]_vars

\* Threads run, poll has its timeout, and the camera answers requests.  The
\* timeout of libusb_wait_for_event is not counted on.
Fairness ==
    /\ WF_vars(Lifecycle)
    /\ \A t \in Threads : WF_vars(HandleEvents(t))
    /\ \A t \in Clients : WF_vars(Answer(t))

FairSpec == Spec /\ Fairness
-----------------------------------------------------------------------------
\* Every variable has its type.
TypeOK ==
    /\ pc["caller"] \in UsePCs \cup ClosePCs \cup {"closed", "open", "claim"}
    /\ pc["preview"] \in UsePCs
    /\ pc["events"] \in (UsePCs \ {"idle"}) \cup {"exited"}
    /\ owner \in Threads \cup {NULL} /\ depth \in 0 .. 2
    /\ (owner = NULL) = (depth = 0)
    /\ pollfd_modify \in {0, 1} /\ pipe \in {0, 1}
    /\ waiting \subseteq Threads
    /\ xfer \in [Transfers -> {"none", "flying", "ready"}]
    /\ device.ref \in 0 .. 2 /\ device.usb_ref \in 0 .. 7

\* No thread polls the fd of a handle that is closed, nor reaps from it:
\* libusb_close is "preventing any other thread from doing event handling"
\* (core.c:1408-1413).
PolledIsOpen ==
    \A t \in Threads : polls[t] => device.usb_devh /\ owner = t

\* Whoever waits for another thread to handle events is going to be woken:
\* one has the events lock, is about to broadcast that it had, or modifies
\* the fds (io.c:1654-1886 and 2176-2230).
WaitersAreWoken ==
    waiting # {} => \/ owner # NULL \/ pollfd_modify > 0
                    \/ \E t \in Threads : pc[t] \in {"announce", "outer3"}

\* Nobody sleeps on a completed transfer (sync.c:36-62, io.c:1561-1615).
DoneIsReported ==
    waiting \cap completed # {} =>
        \E t \in Threads : pc[t] \in {"report", "announce", "inner3", "outer3"}

\* A released camera leaves no thread, no transfer and no reference behind,
\* but two of libusb's: that of android_generate_device, and that of a status
\* transfer libusb_close has forgotten (UVCCamera.cpp:195-224, device.c:
\* 223-246 and 1555-1589, core.c:1317-1385).
ReleaseEndsAll ==
    pc["caller"] = "closed" =>
        /\ pc["events"] = "exited" /\ pc["preview"] = "idle"
        /\ owner = NULL /\ pipe = 0 /\ ~pollfds
        /\ xfer["status"] = "none"
        /\ ~device.usb_devh /\ device.ref = 0
        /\ device.usb_ref \in {0, 1 + device.leaked}

\* A control request returns, whichever thread handles its completion, and
\* though the camera is unplugged (sync.c:36-120).
ControlReturns ==
    \A t \in Clients : xfer[t] = "flying" ~> pc[t] = "idle"

\* Releasing the camera returns: the event thread leaves libusb and ends,
\* if only when its poll times out (device.c:1555-1589).
ReleaseReturns == pc["caller"] = "modify" ~> pc["caller"] = "closed"

\* A status event is reported as long as the event thread is to run: in the
\* context of a camera that is opened again, it is not (device.c:1575).
StatusIsHandled ==
    (xfer["status"] = "ready" /\ ~kill_handler_thread)
        ~> (xfer["status"] # "ready" \/ kill_handler_thread)
=============================================================================
