----------------------------- MODULE UsbTransfer -----------------------------
(***************************************************************************)
(* A transfer of libusb on Android: libusb/io.c and os/android_usbfs.c cut *)
(* it into URBs, give them to the kernel, reap them as they come back, and *)
(* call the owner's function when none is left.                            *)
(*                                                                         *)
(*   "user"    submits the transfer                                        *)
(*   "cancel"  a thread in libusb_cancel_transfer                          *)
(*   "timer"   a thread in handle_timeouts                                 *)
(*   "events"  the thread that holds the events lock                       *)
(*                                                                         *)
(* `lock' is the mutex of the transfer, held across the ioctls of a submit *)
(* or a discard; flying_transfers_lock is held by a thread that submits or *)
(* expires the transfer.  A URB has room for two units of data.            *)
(***************************************************************************)
EXTENDS Naturals, Sequences, FiniteSets

CONSTANTS
    Kinds,      \* of transfer: "bulk" (interrupt too), "iso", "control"
    NumUrbs,    \* URBs of a bulk or isochronous transfer
    BulkStalls  \* whether a bulk endpoint may stall without continuation

ASSUME UsbTransferAssumption ==
    /\ Kinds \subseteq {"bulk", "iso", "control"}
    /\ NumUrbs \in Nat \ {0} /\ BulkStalls \in BOOLEAN

VARIABLES
    kind, continuation, \* the transfer; USBFS_CAP_BULK_CONTINUATION
    urb,                \* where each URB is
    ready,              \* results of the URBs that wait to be reaped
    results,            \* status of each URB that was with the kernel
    plugged,
    polled,             \* the device's fd is polled
    allocated,          \* tpriv->urbs is not NULL
    num_retired, reap_action, reap_status,
    transferred,
    torn,               \* data was left with a hole before it
    flying,             \* on the list flying_transfers
    timed_out,          \* USBI_TRANSFER_TIMED_OUT
    pc, lock, next, first,  \* the threads; URBs to submit or to discard
    outcome,            \* status about to be reported
    busy, asked, status \* what the owner knows (TransferContract)

kernelVars == <<urb, ready, results>>
privVars == <<allocated, num_retired, reap_action, reap_status>>
dataVars == <<transferred, torn>>
ownerVars == <<busy, asked, status>>
runVars == <<pc, lock, next, first>>
fixedVars == <<kind, continuation>>
vars == <<fixedVars, kernelVars, plugged, polled, privVars, dataVars, flying,
          timed_out, runVars, outcome, ownerVars>>

num_urbs == IF kind = "control" THEN 1 ELSE NumUrbs
Urbs == 1 .. NumUrbs
Threads == {"user", "cancel", "timer", "events"}

Init ==
    /\ kind \in Kinds /\ continuation \in {FALSE, kind = "bulk"}
    /\ urb = [i \in Urbs |-> "none"] /\ ready = <<>>
    /\ results = [i \in Urbs |-> "none"]
    /\ plugged = TRUE /\ polled = TRUE
    /\ allocated = FALSE /\ num_retired = 0
    /\ reap_action = "normal" /\ reap_status = "completed"
    /\ transferred = 0 /\ torn = FALSE
    /\ flying = FALSE /\ timed_out = FALSE
    /\ pc = [t \in Threads |-> "idle"] /\ lock = "free"
    /\ next = 1 /\ first = 1
    /\ outcome = "none"
    /\ busy = FALSE /\ asked = FALSE /\ status = "none"

Goto(t, from, to) == pc[t] = from /\ pc' = [pc EXCEPT ![t] = to]
Acquire(t) == lock = "free" /\ lock' = t
FlyingLockFree == pc["user"] = "idle" /\ pc["timer"] = "idle"
-----------------------------------------------------------------------------
(* The kernel, which finishes URBs in their order *)

WithKernel(i) == urb[i] = "kernel"
Lowest(i) == WithKernel(i) /\ \A j \in 1 .. i - 1 : ~WithKernel(j)

Result(i, s, n) == [urb |-> i, status |-> s, length |-> n]

\* The URBs in s come back, in that order.
Finish(s) ==
    /\ ready' = ready \o s
    /\ urb' = [i \in Urbs |-> IF \E k \in DOMAIN s : s[k].urb = i
                              THEN "ready" ELSE urb[i]]
    /\ results' = [i \in Urbs |-> IF \E k \in DOMAIN s : s[k].urb = i
                    THEN (CHOOSE r \in {s[k] : k \in DOMAIN s} : r.urb = i).status
                    ELSE results[i]]

KernelFrame == <<fixedVars, polled, privVars, dataVars, flying, timed_out,
                 runVars, outcome, ownerVars>>

\* With continuation, the kernel itself cancels what follows a URB that is
\* short or fails, and takes no more of the transfer.
Behind(i) ==
    LET behind == {j \in Urbs : j > i /\ WithKernel(j)}
    IN  [k \in 1 .. IF continuation THEN Cardinality(behind) ELSE 0 |->
           Result(i + k, "cancelled", 0)]

Cut == continuation /\ \E i \in Urbs :
           results[i] \in {"short", "error", "stall"}

KernelFinish ==
    \E i \in Urbs :
        /\ Lowest(i)
        /\ \/ Finish(<<Result(i, "ok", 2)>>)
           \/ kind = "bulk" /\ Finish(<<Result(i, "short", 1)>> \o Behind(i))
           \/ Finish(<<Result(i, "error", 0)>> \o Behind(i))
           \/ i = num_urbs /\ kind # "iso"
              /\ Finish(<<Result(i, "overflow", 2)>>)
           \/ /\ kind = "bulk" => continuation \/ BulkStalls
              /\ Finish(<<Result(i, "stall", 0)>> \o Behind(i))
        /\ UNCHANGED <<plugged, KernelFrame>>

\* Every URB comes back, in order, when the device is gone.
Unplug ==
    /\ plugged /\ plugged' = FALSE
    /\ LET with == {i \in Urbs : WithKernel(i)}
       IN  \E s \in [1 .. Cardinality(with) -> with] :
             /\ \A k, l \in DOMAIN s : k < l => s[k] < s[l]
             /\ Finish([k \in DOMAIN s |-> Result(s[k], "gone", 0)])
    /\ UNCHANGED KernelFrame
-----------------------------------------------------------------------------
(* libusb_submit_transfer *)

SubmitFrame == <<fixedVars, plugged, polled, outcome, asked, status>>

Submit ==
    /\ ~busy /\ ~flying /\ polled
    /\ FlyingLockFree /\ Acquire("user") /\ Goto("user", "idle", "urbs")
    /\ transferred' = 0 /\ torn' = FALSE /\ timed_out' = FALSE
    /\ flying' = TRUE
    /\ allocated' = TRUE /\ num_retired' = 0
    /\ reap_action' = "normal" /\ reap_status' = "completed"
    /\ urb' = [i \in Urbs |-> "none"]
    /\ results' = [i \in Urbs |-> "none"]
    /\ next' = 1
    /\ UNCHANGED <<ready, first, busy, SubmitFrame>>

SubmitUrb ==
    /\ pc["user"] = "urbs" /\ next <= num_urbs
    /\ plugged
    /\ ~Cut
    /\ urb' = [urb EXCEPT ![next] = "kernel"]
    /\ next' = next + 1
    /\ UNCHANGED <<ready, results, privVars, dataVars, flying, timed_out, pc,
                   lock, first, busy, SubmitFrame>>

\* The kernel refuses the first URB: so does libusb the transfer.
SubmitRefused ==
    /\ next = 1 /\ Goto("user", "urbs", "idle") /\ lock' = "free"
    /\ allocated' = FALSE /\ flying' = FALSE
    /\ UNCHANGED <<kernelVars, num_retired, reap_action, reap_status,
                   dataVars, timed_out, next, first, busy, SubmitFrame>>

Accepted == lock' = "free" /\ busy' = TRUE

\* Faulty variant: the URBs that were not submitted are not counted.
SubmitEarlyUncounted ==
    /\ next \in 2 .. num_urbs
    /\ Cut
    /\ Goto("user", "urbs", "idle") /\ Accepted
    /\ reap_action' = "early"
    /\ UNCHANGED <<kernelVars, num_retired, allocated, reap_status, dataVars,
                   flying, timed_out, next, first, SubmitFrame>>

\* The kernel has finished the transfer early (EREMOTEIO).
SubmitEarly ==
    /\ next \in 2 .. num_urbs
    /\ Cut
    /\ Goto("user", "urbs", "idle") /\ Accepted
    /\ reap_action' = "early"
    /\ num_retired' = num_retired + num_urbs - next + 1
    /\ UNCHANGED <<kernelVars, allocated, reap_status, dataVars, flying,
                   timed_out, next, first, SubmitFrame>>

\* Another URB than the first is refused: those before it are discarded.
SubmitFails ==
    /\ next \in 2 .. num_urbs
    /\ Goto("user", "urbs", "discard")
    /\ reap_action' = "submit_failed"
    /\ num_retired' = num_retired + num_urbs - next + 1
    /\ first' = 1 /\ next' = next - 1
    /\ UNCHANGED <<kernelVars, allocated, reap_status, dataVars, flying,
                   timed_out, lock, busy, SubmitFrame>>

SubmitEnd ==
    /\ next = num_urbs + 1 /\ Goto("user", "urbs", "idle") /\ Accepted
    /\ UNCHANGED <<kernelVars, privVars, dataVars, flying, timed_out, next,
                   first, SubmitFrame>>
-----------------------------------------------------------------------------
(* discard_urbs, by the thread that holds the lock *)

DiscardFrame == <<fixedVars, plugged, polled, privVars, dataVars, flying,
                  timed_out, outcome, first, asked, status>>

\* The URB whose turn it is may have received some data.
Discard(t) ==
    /\ pc[t] = "discard" /\ next >= first
    /\ next' = next - 1
    /\ IF WithKernel(next)
       THEN \E n \in IF Lowest(next) /\ kind = "bulk" THEN {0, 1} ELSE {0} :
              Finish(<<Result(next, "cancelled", n)>>)
       ELSE UNCHANGED kernelVars
    /\ UNCHANGED <<pc, lock, busy, DiscardFrame>>

DiscardEnd(t) ==
    /\ next < first /\ Goto(t, "discard", "idle")
    /\ lock' = "free"
    /\ busy' = (busy \/ t = "user")
    /\ UNCHANGED <<kernelVars, next, DiscardFrame>>
-----------------------------------------------------------------------------
(* libusb_cancel_transfer, called by the owner or by handle_timeout *)

\* Only that a bulk transfer has failed is remembered; an interrupt transfer,
\* for which "bulk" stands too, is cancelled all the same.
op_cancel_transfer(t, from) ==
    /\ Acquire(t)
    /\ reap_action' \in IF kind = "bulk" /\ reap_action = "error"
                        THEN {"error", "cancelled"} ELSE {"cancelled"}
    /\ Goto(t, from, "discard")
    /\ first' = 1 /\ next' = IF allocated THEN num_urbs ELSE 0
    /\ UNCHANGED <<fixedVars, kernelVars, plugged, polled, allocated,
                   num_retired, reap_status, dataVars, flying, outcome, busy,
                   status>>

\* The owner cancels a transfer once.
Cancel ==
    /\ busy /\ ~asked /\ asked' = TRUE
    /\ op_cancel_transfer("cancel", "idle")
    /\ UNCHANGED timed_out

\* handle_timeout marks the transfer before it cancels it.
Expire ==
    /\ flying /\ ~timed_out /\ FlyingLockFree
    /\ timed_out' = TRUE /\ Goto("timer", "idle", "expired")
    /\ UNCHANGED <<fixedVars, kernelVars, plugged, polled, privVars, dataVars,
                   flying, lock, next, first, outcome, ownerVars>>

ExpireCancel ==
    /\ op_cancel_transfer("timer", "expired")
    /\ UNCHANGED <<timed_out, asked>>
-----------------------------------------------------------------------------
(* The event thread: reap_for_handle *)

Last(e) == num_retired + 1 = num_urbs

\* The URBs are freed, and the transfer is reported with s.
Complete(s) ==
    /\ allocated' = FALSE /\ outcome' = s
    /\ Goto("events", "idle", "report")
    /\ UNCHANGED <<lock, next, first>>

GoOn == UNCHANGED <<allocated, outcome, pc, lock, next, first>>

\* handle_bulk_completion chooses what to report only in "report".  Data that
\* a URB has received is moved up behind what is there: it closes a hole, and
\* leaves none, wherever it comes from.
BulkAbnormal(e) ==
    /\ reap_action # "normal"
    /\ transferred' = transferred + e.length
    /\ reap_status' = IF Last(e) /\ reap_action # "early"
                         /\ reap_status = "completed"
                      THEN "error" ELSE reap_status
    /\ IF Last(e) THEN Complete("late") ELSE GoOn
    /\ UNCHANGED <<reap_action, torn>>

\* Faulty variant: a short URB does not end the transfer.
EndsEarlyNot(e) == FALSE

EndsEarly(e) == e.urb < num_urbs /\ e.length < 2

Fails(e) == e.status \in {"gone", "stall", "error"}

CancelRemaining(e) ==
    /\ lock' = "events" /\ Goto("events", "idle", "discard")
    /\ first' = e.urb + 1 /\ next' = num_urbs
    /\ UNCHANGED <<allocated, outcome>>

BulkNormal(e) ==
    /\ reap_action = "normal"
    /\ transferred' = transferred + e.length
    /\ torn' = (torn \/ (e.length > 0 /\ transferred # 2 * (e.urb - 1)))
    /\ reap_status' =
         IF e.status = "gone" THEN "no_device"
         ELSE IF reap_status = "completed"
                 /\ e.status \in {"stall", "overflow", "error"}
              THEN e.status ELSE reap_status
    /\ reap_action' = IF e.status = "error" THEN "error"
                      ELSE IF ~Fails(e) /\ EndsEarly(e) THEN "early"
                      ELSE "normal"
    /\ IF ~Fails(e) /\ (e.status = "overflow" \/ e.urb = num_urbs)
       THEN Complete("late")
       ELSE IF Fails(e) \/ EndsEarly(e)
       THEN IF Last(e) THEN Complete("late") ELSE CancelRemaining(e)
       ELSE GoOn

\* Faulty variant: any URB may be the last of a transfer that is cancelled.
IsoAbnormalFirst(e) ==
    /\ reap_action # "normal"
    /\ Complete(IF reap_action = "cancelled" THEN "cancellation" ELSE "error")

IsoAbnormal(e) ==
    /\ reap_action # "normal"
    /\ IF Last(e)
       THEN Complete(IF reap_action = "cancelled" THEN "cancellation"
                     ELSE "error")
       ELSE GoOn

IsoNormal(e) ==
    /\ reap_action = "normal"
    /\ IF e.urb = num_urbs
       THEN Complete(CASE e.status \in {"ok", "cancelled"} -> "completed"
                       [] e.status = "gone" -> "no_device"
                       [] OTHER -> "error")
       ELSE GoOn

ControlReap(e) ==
    Complete(IF reap_action = "cancelled" THEN "cancellation"
             ELSE CASE e.status = "ok" -> "completed"
                    [] e.status = "gone" -> "no_device"
                    [] OTHER -> e.status)

Reap ==
    /\ polled /\ pc["events"] = "idle" /\ lock = "free" /\ ready # <<>>
    /\ ready' = Tail(ready)
    /\ LET e == Head(ready)
       IN  /\ urb' = [urb EXCEPT ![e.urb] = "retired"]
           /\ num_retired' = num_retired + 1
           /\ \/ kind = "bulk" /\ (BulkAbnormal(e) \/ BulkNormal(e))
              \/ /\ kind = "iso" /\ (IsoAbnormal(e) \/ IsoNormal(e))
                 /\ UNCHANGED <<reap_action, reap_status, dataVars>>
              \/ /\ kind = "control" /\ ControlReap(e)
                 /\ transferred' = transferred + e.length
                 /\ UNCHANGED <<reap_action, reap_status, torn>>
    /\ UNCHANGED <<fixedVars, results, plugged, polled, flying, timed_out,
                   ownerVars>>
-----------------------------------------------------------------------------
(* The event thread: the end of the transfer *)

\* Faulty variant: the flag of the timeout is not looked at.
SettledUntimed ==
    LET o == IF outcome # "late" THEN outcome
             ELSE IF reap_action = "cancelled" THEN "cancellation"
             ELSE reap_status
    IN  IF o = "cancellation" THEN "cancelled" ELSE o

\* handle_bulk_completion reads reap_action after it has unlocked.
Settled ==
    LET o == IF outcome # "late" THEN outcome
             ELSE IF reap_action = "cancelled" THEN "cancellation"
             ELSE reap_status
    IN  IF o # "cancellation" THEN o
        ELSE IF timed_out THEN "timed_out" ELSE "cancelled"

\* usbi_handle_transfer_completion takes the transfer off the list ...
Report ==
    /\ FlyingLockFree
    /\ Goto("events", "report", "callback")
    /\ flying' = FALSE /\ outcome' = Settled
    /\ UNCHANGED <<fixedVars, kernelVars, plugged, polled, privVars, dataVars,
                   timed_out, lock, next, first, ownerVars>>

\* ... and calls the owner, which may submit it again.
Callback ==
    /\ Goto("events", "callback", "idle")
    /\ busy' = FALSE /\ asked' = FALSE /\ status' = outcome
    /\ UNCHANGED <<fixedVars, kernelVars, plugged, polled, privVars, dataVars,
                   flying, timed_out, lock, next, first, outcome>>

\* Faulty variant: only the fd is taken out of the poll.
DisconnectOnly ==
    /\ ~plugged /\ polled /\ pc["events"] = "idle"
    /\ FlyingLockFree /\ lock = "free"
    /\ polled' = FALSE
    /\ UNCHANGED <<fixedVars, kernelVars, plugged, privVars, dataVars, flying,
                   timed_out, runVars, outcome, ownerVars>>

\* POLLERR: the device is not polled any more, and usbi_handle_disconnect
\* ends the transfer, whatever has become of its URBs.
Disconnect ==
    /\ ~plugged /\ polled /\ pc["events"] = "idle"
    /\ FlyingLockFree /\ lock = "free"
    /\ polled' = FALSE
    /\ IF flying THEN Complete("no_device")
       ELSE UNCHANGED <<allocated, outcome, runVars>>
    /\ UNCHANGED <<fixedVars, kernelVars, plugged, num_retired, reap_action,
                   reap_status, dataVars, flying, timed_out, ownerVars>>
-----------------------------------------------------------------------------
Submitting ==
    SubmitUrb \/ SubmitRefused \/ SubmitEarly \/ SubmitFails \/ SubmitEnd

Discarding == \E t \in Threads : Discard(t) \/ DiscardEnd(t)

Events == Reap \/ Report \/ Callback \/ Disconnect

Next ==
    \/ KernelFinish \/ Unplug
    \/ Submit \/ Submitting \/ Discarding
    \/ Cancel \/ Expire \/ ExpireCancel
    \/ Events

Spec == Init /\ [][Next]_vars

\* Threads run; that a device answers is not assumed.
Fairness ==
    /\ WF_vars(Submitting) /\ WF_vars(Discarding) /\ WF_vars(ExpireCancel)
    /\ WF_vars(Events) /\ WF_vars(Disconnect)

FairSpec == Spec /\ Fairness
-----------------------------------------------------------------------------
\* Every variable has its type.
TypeOK ==
    /\ urb \in [Urbs -> {"none", "kernel", "ready", "retired"}]
    /\ Len(ready) <= num_urbs
    /\ num_retired \in 0 .. num_urbs
    /\ transferred \in 0 .. 2 * num_urbs
    /\ reap_action \in
         {"normal", "submit_failed", "cancelled", "early", "error"}
    /\ lock \in Threads \cup {"free"}
    /\ outcome \in {"none", "late", "cancellation", "completed", "error",
                    "stall", "overflow", "no_device", "cancelled",
                    "timed_out"}

\* free and the end of a transfer wait for all its URBs: "cancel remaining
\* urbs and wait for their completion before reporting results"
\* (android_usbfs.c:2695); one that was freed is never reaped.
UrbsOutlived ==
    ~allocated /\ polled => \A i \in Urbs : urb[i] \in {"none", "retired"}

\* What the URBs up to `end' have received, if none before it fell short.
Received(end) ==
    2 * (end - 1) + CASE results[end] = "ok" -> 2
                      [] results[end] = "short" -> 1
                      [] OTHER -> 0

\* The URB `end' failed, and the kernel took no more of the transfer.
CutOff(end) ==
    /\ continuation /\ \E i \in 1 .. num_urbs : urb[i] = "none"
    /\ results[end] \in {"error", "stall"}

\* What the owner receives as complete is what the device sent up to the end
\* of the data, the first short URB or the last: no URB before it failed or was
\* cancelled, the data is one piece, and it is all that is counted.  Two things
\* the code gives up: a failure that made the kernel refuse the rest of the
\* transfer is lost and ends the data too, and without continuation a URB
\* behind the end may add to the data, one behind a failed URB too: what a
\* comment says "can't happen" (line 2605) does
\* (android_usbfs.c:2280-2300, 2595-2632 and 2664-2715).
CompletedIsComplete ==
    pc["events"] = "callback" /\ outcome = "completed" /\ kind # "iso" =>
        /\ ~torn
        /\ \E end \in 1 .. num_urbs :
             /\ \A i \in 1 .. end - 1 : results[i] = "ok"
             /\ \/ results[end] = "short"
                \/ results[end] = "ok" /\ end = num_urbs
                \/ CutOff(end)
             /\ \/ transferred = Received(end)
                \/ /\ ~continuation /\ end < num_urbs
                   /\ transferred > Received(end)

\* The callback of a transfer is always on its way: its URBs have been reaped,
\* or one waits to be, or a thread is about to discard them, or the device has
\* one to finish.  None is left with a device that is gone or may be silent
\* once the transfer was cancelled or has expired (android_usbfs.c:2280-2300
\* and 2502-2726, io.c:2594-2645).
ReturnUnderWay ==
    busy =>
      \/ pc["events"] \in {"report", "callback"}
      \/ \E t \in Threads : pc[t] \in {"discard", "expired"}
      \/ polled /\ ready # <<>>
      \/ /\ polled /\ plugged /\ ~asked /\ ~timed_out
         /\ \E i \in Urbs : WithKernel(i)

Contract == INSTANCE TransferContract WITH
    Statuses <- {"completed", "error", "stall", "overflow", "no_device",
                 "timed_out", "cancelled"},
    Unasked <- {"completed", "error", "stall", "overflow", "no_device",
                "timed_out"}

\* An accepted transfer is called back once, and as cancelled only if its
\* owner cancelled it (io.c:1561-1636, android_usbfs.c:2502-2944).
IsContract == Contract!Spec

\* A transfer that is cancelled, expires, or loses its device comes back,
\* whatever the device does: uvc_stream_stop waits for it (io.c:1490-1514,
\* 1887-1942 and 2594-2645).
ComesBack == (busy /\ (asked \/ timed_out \/ ~plugged)) ~> ~busy
=============================================================================
