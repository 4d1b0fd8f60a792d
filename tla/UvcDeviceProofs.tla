--------------------------- MODULE UvcDeviceProofs ---------------------------
(***************************************************************************)
(* For every number of connections, requests and status events: libusb_    *)
(* close never closes the fd another thread polls, no wakeup of a waiter   *)
(* is lost, and a released camera leaves nothing behind but the references *)
(* the code forgets.                                                       *)
(***************************************************************************)
EXTENDS UvcDevice, Integers, FiniteSetTheorems, TLAPS

\* Where a thread holds the events lock.
HandlingPCs == {"activate", "locked", "poll", "reap", "report", "unlock",
                "release"}
DoClosePCs == {"inner", "inner2", "inner3", "backend"}
HoldPCs == HandlingPCs \cup DoClosePCs \cup {"read", "modified", "outer",
                                             "outer2"}

\* Where the caller modifies the fds, and where it has a handle of libusb.
ModifyPCs == DoClosePCs \cup {"write", "lock", "read", "modified"}
HandlePCs == UsePCs \cup DoClosePCs \cup {"claim", "modify", "write", "lock",
                                          "read"}
IdlePCs == {"closed", "open", "claim"}
AfterPCs == {"modified", "outer", "outer2", "outer3", "join"}

PCs == UsePCs \cup ClosePCs \cup IdlePCs \cup {"exited"}

PCTypes ==
    /\ pc \in [Threads -> PCs]
    /\ pc["caller"] # "exited"
    /\ pc["preview"] \in UsePCs
    /\ pc["events"] \in (UsePCs \ {"idle"}) \cup {"exited"}

DeviceType ==
    /\ DOMAIN device = {"ref", "usb_ref", "leaked", "usb_devh", "devh"}
    /\ device.ref \in Int /\ device.usb_ref \in Int /\ device.leaked \in Nat
    /\ device.usb_devh \in BOOLEAN /\ device.devh \in BOOLEAN

DataTypes ==
    /\ owner \in Threads \cup {NULL} /\ depth \in Int
    /\ event_handler_active \in BOOLEAN /\ pollfds \in BOOLEAN
    /\ polls \in [Threads -> BOOLEAN]
    /\ waiting \subseteq Threads
    /\ xfer \in [Transfers -> {"none", "flying", "ready"}]
    /\ plugged \in BOOLEAN

Types == PCTypes /\ DataTypes /\ DeviceType

\* Who holds the lock is told by where the threads are.
LockHeld ==
    /\ \A t \in Threads : owner = t <=> pc[t] \in HoldPCs
    /\ depth = IF owner = NULL THEN 0
               ELSE IF pc["caller"] \in {"inner", "inner2"} THEN 2 ELSE 1
    /\ event_handler_active =>
         owner # NULL /\ pc[owner] \notin {"release", "outer2"}

Modifies ==
    /\ pollfd_modify = IF pc["caller"] \in ModifyPCs THEN 1 ELSE 0
    /\ pipe = IF pc["caller"] \in {"lock", "read"} THEN 1 ELSE 0

\* A thread polls and reaps only with the lock, and a handle.
Polling ==
    /\ \A t \in Threads : polls[t] =>
         pc[t] \in {"poll", "reap", "report", "unlock"} /\ device.usb_devh
    /\ \A t \in Threads : pc[t] \in {"reap", "report"} => polls[t]
    /\ pollfds => device.usb_devh
    /\ device.usb_devh <=> pc["caller"] \in HandlePCs

\* Who may use the context in each phase of the caller, and which transfers
\* there may be.
Phases ==
    /\ pc["caller"] \notin UsePCs =>
         /\ pc["preview"] = "idle"
         /\ xfer["caller"] = "none" /\ xfer["preview"] = "none"
    /\ pc["caller"] \in DoClosePCs \cup AfterPCs \cup IdlePCs =>
         xfer["status"] = "none"
    /\ pc["caller"] \in IdlePCs => pc["events"] = "exited"
    /\ \A c \in Clients : c \in completed \/ pc[c] = "idle" => xfer[c] = "none"

\* The references of libusb to its device.
Taken(x) == IF xfer[x] = "none" THEN 0 ELSE 1

References ==
    /\ device.leaked \in {0, 1}
    /\ pc["caller"] \notin DoClosePCs \cup AfterPCs \cup {"closed"}
         => device.leaked = 0
    /\ device.ref = CASE pc["caller"] = "closed" -> 0
                      [] pc["caller"] = "open" -> 1
                      [] OTHER -> 2
    /\ CASE pc["caller"] = "closed" ->
              device.usb_ref \in {0, 1 + device.leaked}
         [] pc["caller"] = "open" -> device.usb_ref = 2
         [] pc["caller"] \in DoClosePCs -> device.usb_ref = 4 + device.leaked
         [] pc["caller"] \in AfterPCs -> device.usb_ref = 3 + device.leaked
         [] OTHER -> device.usb_ref = 4 + Taken("caller") + Taken("preview")
                                        + Taken("status")

IInv == /\ Types /\ LockHeld /\ Modifies /\ Polling /\ Phases /\ References
        /\ WaitersAreWoken /\ DoneIsReported
-----------------------------------------------------------------------------
(* Types *)

LEMMA TransfersFinite == IsFiniteSet(Transfers)
<1>1. IsFiniteSet({}) BY FS_EmptySet
<1>2. IsFiniteSet({} \cup {"caller"}) BY <1>1, FS_AddElement
<1>3. IsFiniteSet(({} \cup {"caller"}) \cup {"preview"})
  BY <1>2, FS_AddElement
<1>4. IsFiniteSet((({} \cup {"caller"}) \cup {"preview"}) \cup {"status"})
  BY <1>3, FS_AddElement
<1>5. Transfers = (({} \cup {"caller"}) \cup {"preview"}) \cup {"status"}
  BY DEF Transfers, Clients
<1>6. QED BY <1>4, <1>5

\* A thread that handles events stays among the points of HandleEvents.
LEMMA HandleEventsPC ==
  ASSUME PCTypes, NEW t \in Threads, HandleEvents(t) PROVE PCTypes'
<1>1. ASSUME NEW p \in UsePCs, NEW q \in UsePCs \ {"idle"}, Goto(t, p, q)
      PROVE  PCTypes'
  BY <1>1 DEF PCTypes, PCs, Goto, Threads, Clients, UsePCs
<1>2. CASE Return(t)
  BY <1>2 DEF Return, PCTypes, PCs, Goto, Threads, Clients, UsePCs
<1>3. CASE TestModify(t) \/ TryLock(t) \/ Activate(t) \/ Locked(t)
  BY <1>3, <1>1 DEF TestModify, TryLock, Activate, Locked, UsePCs
<1>4. CASE PollDevice(t) \/ PollPipe(t) \/ PollTimeout(t)
  BY <1>4, <1>1 DEF PollDevice, PollPipe, PollTimeout, UsePCs
<1>5. CASE ReapNone(t) \/ ReapControl(t) \/ ReapStatus(t) \/ Report(t)
  BY <1>5, <1>1 DEF ReapNone, ReapControl, ReapStatus, Report, UsePCs
<1>6. CASE \/ Unlock(t, "unlock", "release")
           \/ Release(t, "release", "announce")
           \/ Announce(t, "announce", "return")
  BY <1>6, <1>1 DEF Unlock, Release, Announce, UsePCs
<1>7. CASE Wait(t) \/ Woken(t)
  BY <1>7, <1>1 DEF Wait, Woken, UsePCs
<1>8. QED
  BY <1>2, <1>3, <1>4, <1>5, <1>6, <1>7 DEF HandleEvents

LEMMA HandleEventsTypes ==
  ASSUME DataTypes, NEW t \in Threads, HandleEvents(t) PROVE DataTypes'
<1> USE DEF DataTypes, PcOnly, lockVars, modifyVars, pollVars, transferVars,
            lifeVars
<1>1. CASE TestModify(t) \/ Activate(t) \/ PollPipe(t) \/ PollTimeout(t)
           \/ ReapNone(t) \/ Woken(t) \/ Return(t)
  BY <1>1 DEF TestModify, Activate, PollPipe, PollTimeout, ReapNone, Woken,
              Return
<1>2. CASE TryLock(t) \/ Locked(t) \/ PollDevice(t)
  BY <1>2 DEF TryLock, Locked, PollDevice
<1>3. CASE ReapControl(t) \/ ReapStatus(t)
  BY <1>3 DEF ReapControl, ReapStatus, Unref, Ready, Transfers, Clients
<1>4. CASE Report(t) \/ Wait(t) \/ Announce(t, "announce", "return")
  BY <1>4 DEF Report, Wait, Announce
<1>5. CASE Unlock(t, "unlock", "release")
  BY <1>5 DEF Unlock
<1>6. CASE Release(t, "release", "announce")
  BY <1>6 DEF Release
<1>7. QED
  BY <1>1, <1>2, <1>3, <1>4, <1>5, <1>6 DEF HandleEvents

LEMMA ClosePC ==
  ASSUME PCTypes, libusb_close PROVE PCTypes'
<1>1. ASSUME NEW p \in ClosePCs, NEW q \in ClosePCs, Goto("caller", p, q)
      PROVE  PCTypes'
  BY <1>1 DEF PCTypes, PCs, ClosePCs, Goto, Threads, Clients
<1>2. CASE CloseModify \/ CloseWrite \/ CloseLock \/ CloseTransfers
           \/ CloseBackend \/ CloseModified
  BY <1>2, <1>1 DEF CloseModify, CloseWrite, CloseLock, CloseTransfers,
                    CloseBackend, CloseModified, ClosePCs
<1>3. CASE \/ Unlock("caller", "inner", "inner2")
           \/ Release("caller", "inner2", "inner3")
           \/ Announce("caller", "inner3", "backend")
  BY <1>3, <1>1 DEF Unlock, Release, Announce, ClosePCs
<1>4. CASE \/ Unlock("caller", "outer", "outer2")
           \/ Release("caller", "outer2", "outer3")
           \/ Announce("caller", "outer3", "join")
  BY <1>4, <1>1 DEF Unlock, Release, Announce, ClosePCs
<1>5. QED
  BY <1>2, <1>3, <1>4 DEF libusb_close

LEMMA CloseTypes ==
  ASSUME DataTypes, libusb_close PROVE DataTypes'
<1> USE DEF DataTypes, lockVars, modifyVars, pollVars, transferVars, lifeVars
<1>1. CASE CloseModify \/ CloseWrite \/ CloseModified
  BY <1>1 DEF CloseModify, CloseWrite, CloseModified
<1>8. CASE CloseLock
  <2>1. "caller" \in Threads
    BY DEF Threads, Clients
  <2>2. QED
    BY <1>8, <2>1 DEF CloseLock
<1>2. CASE CloseTransfers
  <2>1. IsFiniteSet({x \in Transfers : xfer[x] # "none"})
    BY TransfersFinite, FS_Subset
  <2>2. QED
    BY <1>2, <2>1, FS_CardinalityType DEF CloseTransfers
<1>3. CASE CloseBackend
  BY <1>3 DEF CloseBackend
<1>4. CASE \/ Unlock("caller", "inner", "inner2")
           \/ Unlock("caller", "outer", "outer2")
  BY <1>4 DEF Unlock
<1>5. CASE \/ Release("caller", "inner2", "inner3")
           \/ Release("caller", "outer2", "outer3")
  BY <1>5 DEF Release
<1>6. CASE \/ Announce("caller", "inner3", "backend")
           \/ Announce("caller", "outer3", "join")
  BY <1>6 DEF Announce
<1>7. QED
  BY <1>1, <1>2, <1>3, <1>4, <1>5, <1>6, <1>8 DEF libusb_close

\* Everything but handling events and libusb_close.
Rest == \/ Connect \/ UvcOpen \/ UvcOpenFails \/ UvcOpenDone \/ UvcClaimFails
        \/ ReleaseCamera \/ ReleaseEnd
        \/ \E t \in Clients : InUse /\ Control(t)
        \/ \E x \in Transfers : Answer(x)
        \/ Unplug

LEMMA RestPC ==
  ASSUME PCTypes, Rest PROVE PCTypes'
<1>1. ASSUME NEW p \in PCs \ {"exited"}, NEW q \in PCs \ {"exited"},
             Goto("caller", p, q)
      PROVE  PCTypes'
  BY <1>1 DEF PCTypes, Goto, Threads, Clients
<1>2. CASE Connect \/ UvcOpen \/ UvcOpenFails \/ UvcClaimFails
  BY <1>2, <1>1 DEF Connect, UvcOpen, UvcOpenFails, UvcClaimFails, PCs,
                    IdlePCs
<1>3. CASE UvcOpenDone
  BY <1>3 DEF UvcOpenDone, PCTypes, PCs, UsePCs, Threads, Clients
<1>4. CASE ReleaseCamera \/ ReleaseEnd
  BY <1>4, <1>1 DEF ReleaseCamera, ReleaseEnd, PCs, UsePCs, ClosePCs, IdlePCs
<1>5. ASSUME NEW t \in Clients, InUse, Control(t) PROVE PCTypes'
  BY <1>5 DEF Control, PCTypes, PCs, UsePCs, Goto, Threads, Clients
<1>6. CASE Unplug \/ \E x \in Transfers : Answer(x)
  BY <1>6 DEF Unplug, Answer, PCTypes
<1>7. QED
  BY <1>2, <1>3, <1>4, <1>5, <1>6 DEF Rest

LEMMA RestTypes ==
  ASSUME DataTypes, Rest PROVE DataTypes'
<1> USE DEF lockVars, modifyVars, pollVars, transferVars, lifeVars,
            ConnectFrame, DataTypes
<1>1. CASE Connect
  BY <1>1 DEF Connect
<1>2. CASE UvcOpen
  BY <1>2 DEF UvcOpen
<1>3. CASE UvcOpenFails \/ UvcClaimFails \/ ReleaseEnd
  BY <1>3 DEF UvcOpenFails, UvcClaimFails, ReleaseEnd
<1>4. CASE UvcOpenDone
  BY <1>4 DEF UvcOpenDone
<1>5. CASE ReleaseCamera
  BY <1>5 DEF ReleaseCamera
<1>6. ASSUME NEW t \in Clients, Control(t) PROVE DataTypes'
  BY <1>6 DEF Control
<1>7. CASE Unplug
  BY <1>7 DEF Unplug
<1>11. ASSUME NEW x \in Transfers, Answer(x) PROVE DataTypes'
  BY <1>11 DEF Answer
<1>8. QED
  BY <1>1, <1>2, <1>3, <1>4, <1>5, <1>6, <1>7, <1>11 DEF Rest

LEMMA HandleEventsDevice ==
  ASSUME DeviceType, NEW t \in Threads, HandleEvents(t) PROVE DeviceType'
<1>1. CASE ReapControl(t)
  BY <1>1 DEF ReapControl, Unref, DeviceType
<1>2. CASE ReapStatus(t)
  BY <1>2 DEF ReapStatus, Unref, DeviceType
<1>3. CASE UNCHANGED device
  BY <1>3 DEF DeviceType
<1>4. QED
  BY <1>1, <1>2, <1>3 DEF HandleEvents, TestModify, TryLock, Activate, Locked,
     PollDevice, PollPipe, PollTimeout, ReapNone, Report, Unlock, Release,
     Announce, Wait, Woken, Return, PcOnly

LEMMA CloseDevice == ASSUME DeviceType, libusb_close PROVE DeviceType'
<1>1. CASE CloseTransfers
  <2>1. IsFiniteSet({x \in Transfers : xfer[x] # "none"})
    BY TransfersFinite, FS_Subset
  <2>2. QED
    BY <1>1, <2>1, FS_CardinalityType DEF CloseTransfers, DeviceType
<1>2. CASE CloseBackend
  BY <1>2 DEF CloseBackend, DeviceType
<1>3. CASE UNCHANGED device
  BY <1>3 DEF DeviceType
<1>4. QED
  BY <1>1, <1>2, <1>3 DEF libusb_close, CloseModify, CloseWrite, CloseLock,
     CloseModified, Unlock, Release, Announce

LEMMA RestDevice == ASSUME DeviceType, Rest PROVE DeviceType'
<1>1. CASE Connect
  <2>1. CASE device' = NoDevice
    BY <2>1 DEF NoDevice, DeviceType
  <2>2. CASE device' = [NoDevice EXCEPT !.ref = 1, !.usb_ref = 2]
    BY <2>2 DEF NoDevice, DeviceType
  <2>3. QED
    BY <1>1, <2>1, <2>2 DEF Connect
<1>2. CASE UvcOpen
  BY <1>2 DEF UvcOpen, DeviceType
<1>3. CASE UvcOpenFails
  BY <1>3 DEF UvcOpenFails, DeviceType
<1>4. CASE UvcOpenDone
  <2>1. CASE device' = [device EXCEPT !.devh = TRUE, !.usb_ref = @ + 1]
    BY <2>1 DEF DeviceType
  <2>2. CASE device' = [device EXCEPT !.devh = TRUE]
    BY <2>2 DEF DeviceType
  <2>3. QED
    BY <1>4, <2>1, <2>2 DEF UvcOpenDone
<1>5. CASE UvcClaimFails
  BY <1>5 DEF UvcClaimFails, DeviceType
<1>6. CASE ReleaseEnd
  BY <1>6 DEF ReleaseEnd, DeviceType
<1>7. ASSUME NEW t \in Clients, Control(t) PROVE DeviceType'
  BY <1>7 DEF Control, DeviceType
<1>8. CASE UNCHANGED device
  BY <1>8 DEF DeviceType
<1>9. QED
  BY <1>1, <1>2, <1>3, <1>4, <1>5, <1>6, <1>7, <1>8 DEF Rest, ReleaseCamera,
     Answer, Unplug

LEMMA NextSteps ==
  ASSUME [Next]_vars
  PROVE  \/ \E t \in Threads : HandleEvents(t)
         \/ libusb_close \/ Rest \/ UNCHANGED vars
BY DEF Next, Lifecycle, Rest

LEMMA TypesStep == ASSUME Types, [Next]_vars PROVE Types'
<1>1. CASE UNCHANGED vars
  BY <1>1 DEF Types, PCTypes, DataTypes, DeviceType, vars, lockVars, pollVars,
              transferVars
<1>2. QED
  BY <1>1, NextSteps, HandleEventsPC, HandleEventsTypes, HandleEventsDevice,
     ClosePC, CloseTypes, CloseDevice, RestPC, RestTypes, RestDevice
     DEF Types
-----------------------------------------------------------------------------
(* The events lock *)

\* A step that keeps the lock, and its thread on the same side of it.
LEMMA LockMove ==
  ASSUME Types, LockHeld, NEW t \in Threads, NEW p, NEW q, Goto(t, p, q),
         p \in HoldPCs <=> q \in HoldPCs,
         p \notin {"inner", "inner2"}, q \notin {"inner", "inner2"},
         q \notin {"release", "outer2"}, UNCHANGED lockVars
  PROVE  LockHeld'
<1>1. pc'[t] = q /\ pc[t] = p /\ \A u \in Threads \ {t} : pc'[u] = pc[u]
  BY DEF Types, PCTypes, Goto
<1>2. "caller" \in Threads
  BY DEF Threads, Clients
<1>3. \A u \in Threads : owner' = u <=> pc'[u] \in HoldPCs
  BY <1>1 DEF LockHeld, lockVars
<1>4. (pc'["caller"] \in {"inner", "inner2"})
        <=> (pc["caller"] \in {"inner", "inner2"})
  BY <1>1, <1>2
<1>5. event_handler_active' =>
        owner' # NULL /\ pc'[owner'] \notin {"release", "outer2"}
  BY <1>1 DEF LockHeld, lockVars, Types, DataTypes
<1>6. QED
  BY <1>3, <1>4, <1>5 DEF LockHeld, lockVars

\* A step that takes the lock.
LEMMA LockTaken ==
  ASSUME Types, LockHeld, NEW t \in Threads, NEW p, NEW q, Goto(t, p, q),
         owner = NULL, owner' = t, depth' = 1,
         q \in HoldPCs \ {"inner", "inner2", "release", "outer2"}
  PROVE  LockHeld'
<1>1. pc'[t] = q /\ \A u \in Threads \ {t} : pc'[u] = pc[u]
  BY DEF Types, PCTypes, Goto
<1>2. "caller" \in Threads
  BY DEF Threads, Clients
<1>3. \A u \in Threads : pc[u] \notin HoldPCs
  BY NullAssumption DEF LockHeld
<1>4. \A u \in Threads : owner' = u <=> pc'[u] \in HoldPCs
  BY <1>1, <1>3
<1>5. pc'["caller"] \notin {"inner", "inner2"}
  BY <1>1, <1>2, <1>3 DEF HoldPCs, DoClosePCs
<1>6. owner' # NULL
  BY NullAssumption
<1>7. QED
  BY <1>1, <1>4, <1>5, <1>6 DEF LockHeld

\* libusb_unlock_events gives the lock back, unless it was taken twice.
LEMMA LockGiven ==
  ASSUME Types, LockHeld, NEW t \in Threads, NEW p, NEW q, Release(t, p, q),
         p \in {"release", "outer2"}, q \notin HoldPCs
  PROVE  LockHeld'
<1>1. pc'[t] = q /\ pc[t] = p /\ \A u \in Threads \ {t} : pc'[u] = pc[u]
  BY DEF Types, PCTypes, Goto, Release
<1>2. "caller" \in Threads
  BY DEF Threads, Clients
<1>3. owner = t /\ t # NULL
  BY <1>1, NullAssumption DEF LockHeld, HoldPCs, HandlingPCs
<1>4. \A u \in Threads \ {t} : pc[u] \notin HoldPCs
  BY <1>3 DEF LockHeld
<1>5. pc["caller"] \notin {"inner", "inner2"}
  BY <1>1, <1>2, <1>4 DEF HoldPCs, DoClosePCs
<1>6. depth = 1 /\ ~event_handler_active
  BY <1>1, <1>3, <1>5 DEF LockHeld
<1>7. owner' = NULL /\ depth' = 0 /\ ~event_handler_active'
  BY <1>6 DEF Release
<1>8. \A u \in Threads : pc'[u] \notin HoldPCs /\ u # NULL
  BY <1>1, <1>4, NullAssumption
<1>9. QED
  BY <1>7, <1>8 DEF LockHeld

LEMMA HandleEventsLock ==
  ASSUME Types, LockHeld, NEW t \in Threads, HandleEvents(t)
  PROVE  LockHeld'
<1> USE DEF HoldPCs, HandlingPCs, DoClosePCs, PcOnly
<1>1. CASE TestModify(t) \/ Locked(t)
  BY <1>1, LockMove DEF TestModify, Locked
<1>2. CASE PollDevice(t) \/ PollPipe(t) \/ PollTimeout(t)
  BY <1>2, LockMove DEF PollDevice, PollPipe, PollTimeout
<1>3. CASE ReapNone(t) \/ ReapControl(t) \/ ReapStatus(t) \/ Report(t)
  BY <1>3, LockMove DEF ReapNone, ReapControl, ReapStatus, Report
<1>4. CASE Announce(t, "announce", "return") \/ Wait(t) \/ Woken(t) \/ Return(t)
  BY <1>4, LockMove DEF Announce, Wait, Woken, Return
<1>5. CASE TryLock(t)
  <2>1. CASE owner = NULL
    BY <1>5, <2>1, LockTaken DEF TryLock
  <2>2. CASE owner # NULL
    BY <1>5, <2>2, LockMove DEF TryLock, lockVars
  <2>3. QED
    BY <2>1, <2>2
<1>6. CASE Activate(t)
  BY <1>6, NullAssumption DEF Activate, LockHeld, Goto, Types, PCTypes
<1>7. CASE Unlock(t, "unlock", "release")
  BY <1>7, NullAssumption DEF Unlock, LockHeld, Goto, Types, PCTypes
<1>8. CASE Release(t, "release", "announce")
  BY <1>8, LockGiven
<1>9. QED
  BY <1>1, <1>2, <1>3, <1>4, <1>5, <1>6, <1>7, <1>8 DEF HandleEvents

LEMMA CloseLockKeeps ==
  ASSUME Types, LockHeld, libusb_close PROVE LockHeld'
<1> USE DEF HoldPCs, HandlingPCs, DoClosePCs
<1>1. "caller" \in Threads
  BY DEF Threads, Clients
<1>2. CASE CloseModify \/ CloseWrite \/ CloseBackend \/ CloseModified
  BY <1>1, <1>2, LockMove DEF CloseModify, CloseWrite, CloseBackend,
                              CloseModified
<1>3. CASE CloseLock
  BY <1>1, <1>3, LockTaken DEF CloseLock
<1>4. CASE CloseTransfers
  BY <1>1, <1>4, NullAssumption DEF CloseTransfers, LockHeld, Goto, Types,
     PCTypes
<1>5. CASE Unlock("caller", "inner", "inner2")
  BY <1>1, <1>5, NullAssumption DEF Unlock, LockHeld, Goto, Types, PCTypes
<1>6. CASE Release("caller", "inner2", "inner3")
  BY <1>1, <1>6, NullAssumption DEF Release, LockHeld, Goto, Types, PCTypes
<1>7. CASE \/ Announce("caller", "inner3", "backend")
           \/ Announce("caller", "outer3", "join")
  BY <1>1, <1>7, LockMove DEF Announce
<1>8. CASE Unlock("caller", "outer", "outer2")
  BY <1>1, <1>8, NullAssumption DEF Unlock, LockHeld, Goto, Types, PCTypes
<1>9. CASE Release("caller", "outer2", "outer3")
  BY <1>1, <1>9, LockGiven
<1>10. QED
  BY <1>2, <1>3, <1>4, <1>5, <1>6, <1>7, <1>8, <1>9 DEF libusb_close

LEMMA RestLock == ASSUME Types, LockHeld, Phases, Rest PROVE LockHeld'
<1> USE DEF HoldPCs, HandlingPCs, DoClosePCs
<1>1. "caller" \in Threads /\ "events" \in Threads /\ Clients \subseteq Threads
  BY DEF Threads, Clients
<1>2. CASE Connect \/ UvcOpen \/ UvcOpenFails \/ UvcClaimFails
  <2>1. UNCHANGED lockVars
    BY <1>2 DEF Connect, UvcOpen, UvcOpenFails, UvcClaimFails, ConnectFrame
  <2>2. CASE Connect
    BY <1>1, <2>1, <2>2, LockMove DEF Connect
  <2>3. CASE UvcOpen \/ UvcOpenFails \/ UvcClaimFails
    BY <1>1, <2>1, <2>3, LockMove DEF UvcOpen, UvcOpenFails, UvcClaimFails
  <2>4. QED
    BY <1>2, <2>2, <2>3
<1>3. CASE UvcOpenDone
  <2>1. UNCHANGED lockVars
    BY <1>3 DEF UvcOpenDone, ConnectFrame
  <2>2. pc["caller"] = "claim" /\ pc["events"] = "exited"
    BY <1>3 DEF UvcOpenDone, Phases, IdlePCs
  <2>3. /\ pc'["caller"] = "idle" /\ pc'["events"] \in {"exited", "try"}
        /\ \A u \in Threads \ {"caller", "events"} : pc'[u] = pc[u]
    BY <1>3 DEF UvcOpenDone, Types, PCTypes, Threads, Clients
  <2>4. \A u \in Threads : pc'[u] \in HoldPCs <=> pc[u] \in HoldPCs
    BY <2>2, <2>3
  <2>5. owner # "caller" /\ owner # "events"
    BY <1>1, <2>2 DEF LockHeld
  <2>6. QED
    BY <2>1, <2>2, <2>3, <2>4, <2>5 DEF LockHeld, lockVars, Types, DataTypes
<1>4. CASE ReleaseCamera \/ ReleaseEnd
  BY <1>1, <1>4, LockMove DEF ReleaseCamera, ReleaseEnd
<1>5. ASSUME NEW t \in Clients, Control(t) PROVE LockHeld'
  BY <1>1, <1>5, LockMove DEF Control
<1>6. CASE Unplug \/ \E x \in Transfers : Answer(x)
  BY <1>6 DEF Unplug, Answer, LockHeld, lockVars
<1>7. QED
  BY <1>2, <1>3, <1>4, <1>5, <1>6 DEF Rest

LEMMA LockStep == ASSUME Types, LockHeld, Phases, [Next]_vars PROVE LockHeld'
<1>1. CASE UNCHANGED vars
  BY <1>1 DEF LockHeld, vars, lockVars
<1>2. QED
  BY <1>1, NextSteps, HandleEventsLock, CloseLockKeeps, RestLock
-----------------------------------------------------------------------------
(* The phases of the caller *)

\* Whoever handles events was not idle, and leaves the others alone.
LEMMA HandleEventsMoves ==
  ASSUME Types, NEW t \in Threads, HandleEvents(t)
  PROVE  /\ \A u \in Threads \ {t} : pc'[u] = pc[u]
         /\ pc[t] \in UsePCs \ {"idle"}
         /\ t = "caller" => pc'[t] \in UsePCs
         /\ UNCHANGED <<modifyVars, pollfd_modify, pipe, plugged>>
<1> USE DEF Types, PCTypes, Goto, UsePCs, PcOnly, modifyVars
<1>1. CASE TestModify(t) \/ TryLock(t) \/ Activate(t) \/ Locked(t)
  BY <1>1 DEF TestModify, TryLock, Activate, Locked
<1>2. CASE PollDevice(t) \/ PollPipe(t) \/ PollTimeout(t)
  BY <1>2 DEF PollDevice, PollPipe, PollTimeout
<1>3. CASE ReapNone(t) \/ ReapControl(t) \/ ReapStatus(t) \/ Report(t)
  BY <1>3 DEF ReapNone, ReapControl, ReapStatus, Report
<1>4. CASE \/ Unlock(t, "unlock", "release")
           \/ Release(t, "release", "announce")
           \/ Announce(t, "announce", "return")
  BY <1>4 DEF Unlock, Release, Announce
<1>5. CASE Wait(t) \/ Woken(t)
  BY <1>5 DEF Wait, Woken
<1>6. CASE Return(t)
  BY <1>6 DEF Return
<1>7. QED
  BY <1>1, <1>2, <1>3, <1>4, <1>5, <1>6 DEF HandleEvents

LEMMA ModifiesStep ==
  ASSUME Types, Modifies, [Next]_vars PROVE Modifies'
<1> USE DEF Modifies, ModifyPCs, DoClosePCs
<1>1. "caller" \in Threads
  BY DEF Threads, Clients
<1>2. ASSUME NEW t \in Threads, HandleEvents(t) PROVE Modifies'
  <2>1. \/ pc'["caller"] = pc["caller"]
        \/ pc["caller"] \in UsePCs /\ pc'["caller"] \in UsePCs
    BY <1>1, <1>2, HandleEventsMoves
  <2>2. QED
    BY <1>2, <2>1, HandleEventsMoves DEF UsePCs
<1>3. CASE libusb_close
  BY <1>1, <1>3 DEF libusb_close, CloseModify, CloseWrite, CloseLock,
     CloseTransfers, CloseBackend, CloseModified, Unlock, Release, Announce,
     Goto, Types, PCTypes, modifyVars
<1>4. CASE Rest
  <2>1. UNCHANGED modifyVars
    BY <1>4 DEF Rest, Connect, UvcOpen, UvcOpenFails, UvcOpenDone,
       UvcClaimFails, ReleaseCamera, ReleaseEnd, Control, Answer, Unplug,
       ConnectFrame
  <2>2. \/ pc["caller"] \notin ModifyPCs /\ pc'["caller"] \notin ModifyPCs
        \/ pc'["caller"] = pc["caller"]
    BY <1>1, <1>4 DEF Rest, Connect, UvcOpen, UvcOpenFails, UvcOpenDone,
       UvcClaimFails, ReleaseCamera, ReleaseEnd, Control, Answer, Unplug,
       Goto, Types, PCTypes
  <2>3. QED
    BY <2>1, <2>2 DEF modifyVars
<1>5. CASE UNCHANGED vars
  BY <1>5 DEF vars, modifyVars
<1>6. QED
  BY <1>2, <1>3, <1>4, <1>5, NextSteps

LEMMA HandleEventsPhases ==
  ASSUME Types, Phases, NEW t \in Threads, HandleEvents(t) PROVE Phases'
<1>1. "caller" \in Threads /\ "preview" \in Threads /\ "events" \in Threads
  BY DEF Threads, Clients
<1>2. \/ pc'["caller"] = pc["caller"]
      \/ pc["caller"] \in UsePCs /\ pc'["caller"] \in UsePCs
  BY <1>1, HandleEventsMoves
<1>3. pc["preview"] = "idle" => pc'["preview"] = "idle"
  BY <1>1, HandleEventsMoves
<1>4. pc["events"] = "exited" => pc'["events"] = "exited"
  BY <1>1, HandleEventsMoves DEF UsePCs
<1>5. \A x \in Transfers : xfer[x] = "none" => xfer'[x] = "none"
  <2>1. CASE ReapControl(t)
    BY <2>1 DEF ReapControl, Types, DataTypes
  <2>2. CASE ReapStatus(t)
    BY <2>2 DEF ReapStatus, Types, DataTypes
  <2>3. CASE UNCHANGED transferVars
    BY <2>3 DEF transferVars
  <2>4. QED
    BY <2>1, <2>2, <2>3 DEF HandleEvents, TestModify, TryLock, Activate,
       Locked, PollDevice, PollPipe, PollTimeout, ReapNone, Report, Unlock,
       Release, Announce, Wait, Woken, Return, PcOnly
<1>6. \A c \in Clients : c \in completed' => xfer'[c] = "none"
  <2>1. CASE ReapControl(t)
    BY <2>1, <1>5 DEF ReapControl, Types, DataTypes, Phases, Transfers
  <2>2. CASE UNCHANGED completed
    BY <2>2, <1>5 DEF Phases, Transfers
  <2>3. QED
    BY <2>1, <2>2 DEF HandleEvents, TestModify, TryLock, Activate,
       Locked, PollDevice, PollPipe, PollTimeout, ReapNone, ReapStatus,
       Report, Unlock, Release, Announce, Wait, Woken, Return, PcOnly,
       transferVars
<1>7. \A c \in Clients : pc'[c] = "idle" => pc[c] = "idle" \/ c \in completed
  BY HandleEventsMoves DEF HandleEvents, TestModify, TryLock, Activate, Locked,
     PollDevice, PollPipe, PollTimeout, ReapNone, ReapControl, ReapStatus,
     Report, Unlock, Release, Announce, Wait, Woken, Return, Goto, Done,
     Types, PCTypes, Threads
<1>8. QED
  BY <1>2, <1>3, <1>4, <1>5, <1>6, <1>7 DEF Phases, Transfers, Clients,
     DoClosePCs, AfterPCs, IdlePCs, UsePCs

LEMMA ClosePhases ==
  ASSUME Types, Phases, libusb_close PROVE Phases'
<1>1. "caller" \in Threads /\ "preview" \in Threads /\ "events" \in Threads
  BY DEF Threads, Clients
<1>2. \A u \in Threads \ {"caller"} : pc'[u] = pc[u]
  BY DEF libusb_close, CloseModify, CloseWrite, CloseLock, CloseTransfers,
     CloseBackend, CloseModified, Unlock, Release, Announce, Goto, Types,
     PCTypes
<1>3. pc["caller"] \in ClosePCs /\ pc'["caller"] \in ClosePCs
  BY <1>1 DEF libusb_close, CloseModify, CloseWrite, CloseLock, CloseTransfers,
     CloseBackend, CloseModified, Unlock, Release, Announce, Goto, Types,
     PCTypes, ClosePCs
<1>4. UNCHANGED completed
  BY DEF libusb_close, CloseModify, CloseWrite, CloseLock, CloseTransfers,
     CloseBackend, CloseModified, Unlock, Release, Announce, transferVars
<1>5. \A x \in Transfers : xfer[x] = "none" => xfer'[x] = "none"
  BY DEF libusb_close, CloseModify, CloseWrite, CloseLock, CloseTransfers,
     CloseBackend, CloseModified, Unlock, Release, Announce, transferVars
<1>6. pc'["caller"] \in DoClosePCs \cup AfterPCs => xfer'["status"] = "none"
  <2>1. CASE CloseTransfers
    BY <2>1 DEF CloseTransfers, Transfers
  <2>2. CASE ~CloseTransfers
    <3>1. pc'["caller"] \in DoClosePCs \cup AfterPCs
            => pc["caller"] \in DoClosePCs \cup AfterPCs
      BY <1>1, <2>2 DEF libusb_close, CloseModify, CloseWrite, CloseLock,
         CloseBackend, CloseModified, Unlock, Release, Announce, Goto, Types,
         PCTypes, DoClosePCs, AfterPCs
    <3>2. QED
      BY <3>1, <1>5 DEF Phases, Transfers
  <2>3. QED
    BY <2>1, <2>2
<1>7. QED
  BY <1>1, <1>2, <1>3, <1>4, <1>5, <1>6 DEF Phases, Transfers, Clients,
     DoClosePCs, AfterPCs, IdlePCs, UsePCs, ClosePCs, Threads

LEMMA RestPhases ==
  ASSUME Types, Phases, Rest PROVE Phases'
<1>1. "caller" \in Threads /\ "preview" \in Threads /\ "events" \in Threads
  BY DEF Threads, Clients
<1> USE <1>1 DEF Phases, DoClosePCs, AfterPCs, IdlePCs, UsePCs, Clients
<1>2. CASE Connect \/ UvcOpen \/ UvcOpenFails \/ UvcClaimFails
  <2>1. UNCHANGED <<xfer, completed>>
    BY <1>2 DEF Connect, UvcOpen, UvcOpenFails, UvcClaimFails, ConnectFrame
  <2>2. /\ pc["caller"] \in IdlePCs /\ pc'["caller"] \in IdlePCs
        /\ \A u \in Threads \ {"caller"} : pc'[u] = pc[u]
    BY <1>2 DEF Connect, UvcOpen, UvcOpenFails, UvcClaimFails, Goto, Types,
       PCTypes
  <2>3. QED
    BY <2>1, <2>2
<1>3. CASE UvcOpenDone
  <2>1. UNCHANGED completed
    BY <1>3 DEF UvcOpenDone, ConnectFrame
  <2>2. /\ pc["caller"] = "claim" /\ pc'["caller"] = "idle"
        /\ pc'["preview"] = pc["preview"]
    BY <1>3 DEF UvcOpenDone, Types, PCTypes
  <2>3. xfer'["caller"] = xfer["caller"] /\ xfer'["preview"] = xfer["preview"]
    BY <1>3 DEF UvcOpenDone, Types, DataTypes, Transfers
  <2>4. QED
    BY <2>1, <2>2, <2>3
<1>4. CASE ReleaseCamera
  BY <1>4 DEF ReleaseCamera, Goto, Types, PCTypes, transferVars
<1>5. CASE ReleaseEnd
  BY <1>5 DEF ReleaseEnd, Goto, Types, PCTypes, transferVars
<1>6. ASSUME NEW t \in Clients, InUse, Control(t) PROVE Phases'
  <2>1. /\ xfer' = [xfer EXCEPT ![t] = "flying"]
        /\ completed' = completed \ {t}
        /\ pc[t] = "idle" /\ pc' = [pc EXCEPT ![t] = "try"]
    BY <1>6 DEF Control, Goto
  <2>2. pc["caller"] \in UsePCs
    BY <1>6 DEF InUse
  <2>3. pc'["caller"] \in UsePCs
    BY <2>1, <2>2 DEF Types, PCTypes
  <2>4. \A c \in Clients : c \in completed' \/ pc'[c] = "idle"
                           => xfer'[c] = "none"
    BY <2>1 DEF Types, PCTypes, DataTypes, Threads, Transfers
  <2>5. QED
    BY <2>3, <2>4
<1>7. CASE Unplug \/ \E x \in Transfers : Answer(x)
  <2>1. \A x \in Transfers : xfer[x] = "none" => xfer'[x] = "none"
    BY <1>7 DEF Unplug, Answer, Types, DataTypes
  <2>2. UNCHANGED <<pc, completed>>
    BY <1>7 DEF Unplug, Answer
  <2>3. QED
    BY <2>1, <2>2 DEF Transfers
<1>8. QED
  BY <1>2, <1>3, <1>4, <1>5, <1>6, <1>7 DEF Rest

LEMMA PhasesStep == ASSUME Types, Phases, [Next]_vars PROVE Phases'
<1>1. CASE UNCHANGED vars
  BY <1>1 DEF Phases, vars, transferVars
<1>2. QED
  BY <1>1, NextSteps, HandleEventsPhases, ClosePhases, RestPhases
-----------------------------------------------------------------------------
(* Who polls *)

LEMMA HandleEventsPolling ==
  ASSUME Types, Polling, NEW t \in Threads, HandleEvents(t) PROVE Polling'
<1>1. "caller" \in Threads
  BY DEF Threads, Clients
<1>2. \/ pc'["caller"] = pc["caller"]
      \/ pc["caller"] \in UsePCs /\ pc'["caller"] \in UsePCs
  BY <1>1, HandleEventsMoves
<1>3. device'.usb_devh = device.usb_devh
  BY DEF HandleEvents, TestModify, TryLock, Activate, Locked, PollDevice,
     PollPipe, PollTimeout, ReapNone, ReapControl, ReapStatus, Report, Unlock,
     Release, Announce, Wait, Woken, Return, PcOnly, Unref, Types, DeviceType
<1>4. pollfds' => pollfds
  BY DEF HandleEvents, TestModify, TryLock, Activate, Locked, PollDevice,
     PollPipe, PollTimeout, ReapNone, ReapControl, ReapStatus, Report, Unlock,
     Release, Announce, Wait, Woken, Return, PcOnly, pollVars
<1>5. \A u \in Threads \ {t} : polls'[u] = polls[u] /\ pc'[u] = pc[u]
  BY HandleEventsMoves DEF HandleEvents, TestModify, TryLock, Activate, Locked,
     PollDevice, PollPipe, PollTimeout, ReapNone, ReapControl, ReapStatus,
     Report, Unlock, Release, Announce, Wait, Woken, Return, PcOnly, pollVars,
     Types, DataTypes
<1>6. polls'[t] => pc'[t] \in {"poll", "reap", "report", "unlock"}
  BY DEF HandleEvents, TestModify, TryLock, Activate, Locked, PollDevice,
     PollPipe, PollTimeout, ReapNone, ReapControl, ReapStatus, Report, Unlock,
     Release, Announce, Wait, Woken, Return, PcOnly, pollVars, Goto, Polling,
     Types, PCTypes, DataTypes
<1>11. polls'[t] => polls[t] \/ pollfds
  BY DEF HandleEvents, TestModify, TryLock, Activate, Locked, PollDevice,
     PollPipe, PollTimeout, ReapNone, ReapControl, ReapStatus, Report, Unlock,
     Release, Announce, Wait, Woken, Return, PcOnly, pollVars, Types, DataTypes
<1>12. pc'[t] \in {"reap", "report"} => polls'[t]
  BY DEF HandleEvents, TestModify, TryLock, Activate, Locked, PollDevice,
     PollPipe, PollTimeout, ReapNone, ReapControl, ReapStatus, Report, Unlock,
     Release, Announce, Wait, Woken, Return, PcOnly, pollVars, Goto, Polling,
     Types, PCTypes, DataTypes
<1>13. polls[t] \/ pollfds => device.usb_devh
  BY Zenon DEF Polling
<1>7. ASSUME NEW u \in Threads, polls'[u]
      PROVE  pc'[u] \in {"poll", "reap", "report", "unlock"} /\ device'.usb_devh
  <2>1. CASE u = t
    <3>1. polls'[t]
      BY <1>7, <2>1, Zenon
    <3>2. device.usb_devh
      BY <1>11, <1>13, <3>1, Zenon
    <3>3. pc'[t] \in {"poll", "reap", "report", "unlock"}
      BY <1>6, <3>1, Zenon
    <3>4. QED
      BY <1>3, <2>1, <3>2, <3>3, Zenon
  <2>2. CASE u # t
    BY <1>3, <1>5, <1>7, <2>2 DEF Polling
  <2>3. QED
    BY <2>1, <2>2
<1>8. \A u \in Threads : pc'[u] \in {"reap", "report"} => polls'[u]
  BY <1>5, <1>12 DEF Polling
<1>9. device'.usb_devh <=> pc'["caller"] \in HandlePCs
  BY <1>2, <1>3 DEF Polling, HandlePCs
<1>10. QED
  BY <1>3, <1>4, <1>7, <1>8, <1>9 DEF Polling

\* The fd is closed by the thread that holds the lock.
LEMMA ClosePolling ==
  ASSUME Types, LockHeld, Polling, libusb_close PROVE Polling'
<1>1. "caller" \in Threads
  BY DEF Threads, Clients
<1>2. \A u \in Threads \ {"caller"} : pc'[u] = pc[u]
  BY DEF libusb_close, CloseModify, CloseWrite, CloseLock, CloseTransfers,
     CloseBackend, CloseModified, Unlock, Release, Announce, Goto, Types,
     PCTypes
<1>3. pc'["caller"] \in ClosePCs
  BY <1>1 DEF libusb_close, CloseModify, CloseWrite, CloseLock, CloseTransfers,
     CloseBackend, CloseModified, Unlock, Release, Announce, Goto, Types,
     PCTypes, ClosePCs
<1>4. \A u \in Threads : polls'[u] => polls[u]
  BY <1>1 DEF libusb_close, CloseModify, CloseWrite, CloseLock,
     CloseTransfers, CloseBackend, CloseModified, Unlock, Release, Announce,
     pollVars, Types, DataTypes
<1>5. \A u \in Threads \ {"caller"} : polls'[u] = polls[u]
  BY <1>1 DEF libusb_close, CloseModify, CloseWrite, CloseLock,
     CloseTransfers, CloseBackend, CloseModified, Unlock, Release, Announce,
     pollVars, Types, DataTypes
<1>6. pc["caller"] \in ClosePCs
  BY <1>1 DEF libusb_close, CloseModify, CloseWrite, CloseLock, CloseTransfers,
     CloseBackend, CloseModified, Unlock, Release, Announce, Goto, ClosePCs
<1>7. ~polls["caller"]
  BY <1>1, <1>6 DEF Polling, ClosePCs
<1>8. CASE CloseBackend
  <2>1. owner = "caller"
    BY <1>1, <1>8 DEF CloseBackend, Goto, LockHeld, HoldPCs, DoClosePCs
  <2>2. \A u \in Threads : ~polls[u]
    BY <1>7, <2>1 DEF Polling, LockHeld, HoldPCs, HandlingPCs
  <2>3. ~pollfds' /\ ~device'.usb_devh /\ pc'["caller"] = "modified"
    BY <1>1, <1>8 DEF CloseBackend, Goto, Types, PCTypes, DeviceType
  <2>4. \A u \in Threads : ~polls'[u] /\ pc'[u] \notin {"reap", "report"}
    BY <1>2, <1>3, <1>4, <2>2 DEF Polling, ClosePCs
  <2>5. QED
    BY <2>3, <2>4 DEF Polling, HandlePCs, UsePCs, DoClosePCs
<1>9. CASE ~CloseBackend
  <2>1. device'.usb_devh = device.usb_devh
    BY <1>9 DEF libusb_close, CloseModify, CloseWrite, CloseLock,
       CloseTransfers, CloseModified, Unlock, Release, Announce, Types,
       DeviceType
  <2>2. pollfds' = pollfds
    BY <1>9 DEF libusb_close, CloseModify, CloseWrite, CloseLock,
       CloseTransfers, CloseModified, Unlock, Release, Announce, pollVars
  <2>3. pc'["caller"] \in HandlePCs <=> pc["caller"] \in HandlePCs
    BY <1>1, <1>9 DEF libusb_close, CloseModify, CloseWrite, CloseLock,
       CloseTransfers, CloseModified, Unlock, Release, Announce, Goto, Types,
       PCTypes, HandlePCs, UsePCs, DoClosePCs
  <2>4. \A u \in Threads : polls'[u] =>
          pc'[u] \in {"poll", "reap", "report", "unlock"} /\ device'.usb_devh
    BY <1>2, <1>4, <1>7, <2>1 DEF Polling
  <2>5. \A u \in Threads : pc'[u] \in {"reap", "report"} => polls'[u]
    BY <1>2, <1>3, <1>5 DEF Polling, ClosePCs
  <2>6. QED
    BY <2>1, <2>2, <2>3, <2>4, <2>5 DEF Polling
<1>10. QED
  BY <1>8, <1>9

LEMMA RestPolling ==
  ASSUME Types, Phases, Polling, Rest PROVE Polling'
<1>1. "caller" \in Threads /\ Clients \subseteq Threads
      /\ Threads = {"caller", "preview", "events"}
  BY DEF Threads, Clients
<1>2. UNCHANGED polls
  BY DEF Rest, Connect, UvcOpen, UvcOpenFails, UvcOpenDone, UvcClaimFails,
     ReleaseCamera, ReleaseEnd, Control, Answer, Unplug, ConnectFrame, pollVars
<1>3. CASE Connect \/ UvcOpen \/ UvcOpenFails \/ UvcOpenDone \/ UvcClaimFails
  <2>1. pc["caller"] \in IdlePCs
    BY <1>3 DEF Connect, UvcOpen, UvcOpenFails, UvcOpenDone, UvcClaimFails,
       Goto, IdlePCs
  <2>2. \A u \in Threads : ~polls'[u]
    BY <1>1, <1>2, <2>1 DEF Phases, Polling, IdlePCs, UsePCs
  <2>3. \A u \in Threads : pc'[u] \notin {"reap", "report"}
    <3>1. \A u \in Threads : pc[u] \notin {"reap", "report"}
      BY <1>2, <2>2 DEF Polling
    <3>2. QED
      BY <1>1, <1>3, <3>1 DEF Connect, UvcOpen, UvcOpenFails, UvcOpenDone,
         UvcClaimFails, Goto, Types, PCTypes
  <2>4. CASE Connect
    <3>1. ~device'.usb_devh
      <4>1. CASE device' = NoDevice
        BY <4>1 DEF NoDevice
      <4>2. CASE device' = [NoDevice EXCEPT !.ref = 1, !.usb_ref = 2]
        BY <4>2 DEF NoDevice
      <4>3. QED
        BY <2>4, <4>1, <4>2 DEF Connect
    <3>2. ~pollfds'
      BY <1>1, <2>4 DEF Connect, Goto, Polling, HandlePCs, UsePCs, DoClosePCs
    <3>3. pc'["caller"] \notin HandlePCs
      BY <1>1, <2>4 DEF Connect, Goto, Types, PCTypes, HandlePCs, UsePCs,
         DoClosePCs
    <3>4. QED
      BY <2>2, <2>3, <3>1, <3>2, <3>3 DEF Polling
  <2>5. CASE UvcOpen
    BY <1>1, <2>2, <2>3, <2>5 DEF UvcOpen, Goto, Types, PCTypes, DeviceType,
       Polling, HandlePCs
  <2>6. CASE UvcOpenFails
    BY <1>1, <2>2, <2>3, <2>6 DEF UvcOpenFails, Goto, Types, PCTypes,
       DeviceType, Polling, HandlePCs, UsePCs, DoClosePCs
  <2>7. CASE UvcOpenDone
    <3>1. device'.usb_devh = device.usb_devh
      BY <2>7 DEF UvcOpenDone, Types, DeviceType
    <3>2. pollfds' = pollfds
      BY <2>7 DEF UvcOpenDone
    <3>3. pc["caller"] = "claim" /\ pc'["caller"] = "idle"
      BY <1>1, <2>7 DEF UvcOpenDone, Types, PCTypes
    <3>4. QED
      BY <2>2, <2>3, <3>1, <3>2, <3>3 DEF Polling, HandlePCs, UsePCs
  <2>8. CASE UvcClaimFails
    BY <1>1, <2>2, <2>3, <2>8 DEF UvcClaimFails, Goto, Types, PCTypes,
       DeviceType, Polling, HandlePCs, UsePCs, DoClosePCs
  <2>9. QED
    BY <1>3, <2>4, <2>5, <2>6, <2>7, <2>8
<1>4. CASE \/ ReleaseCamera \/ ReleaseEnd \/ Unplug
           \/ \E t \in Clients : InUse /\ Control(t)
           \/ \E x \in Transfers : Answer(x)
  <2>1. device'.usb_devh = device.usb_devh /\ pollfds' = pollfds
    BY <1>4 DEF ReleaseCamera, ReleaseEnd, Control, Answer, Unplug, Types,
       DeviceType, pollVars
  <2>2. \A u \in Threads :
          \/ pc'[u] = pc[u]
          \/ /\ pc[u] \in {"idle", "join"}
             /\ pc'[u] \in {"modify", "closed", "try"}
             /\ pc'[u] \in HandlePCs <=> pc[u] \in HandlePCs
    BY <1>1, <1>4 DEF ReleaseCamera, ReleaseEnd, Control, Answer, Unplug, Goto,
       Types, PCTypes, HandlePCs, UsePCs, DoClosePCs
  <2>3. \A u \in Threads : polls'[u] =>
          pc'[u] \in {"poll", "reap", "report", "unlock"} /\ device'.usb_devh
    BY <1>2, <2>1, <2>2 DEF Polling
  <2>4. \A u \in Threads : pc'[u] \in {"reap", "report"} => polls'[u]
    BY <1>2, <2>2 DEF Polling
  <2>5. QED
    BY <1>1, <2>1, <2>2, <2>3, <2>4 DEF Polling
<1>5. QED
  BY <1>3, <1>4 DEF Rest

LEMMA PollingStep ==
  ASSUME Types, LockHeld, Phases, Polling, [Next]_vars PROVE Polling'
<1>1. CASE UNCHANGED vars
  BY <1>1 DEF Polling, vars, pollVars
<1>2. QED
  BY <1>1, NextSteps, HandleEventsPolling, ClosePolling, RestPolling
-----------------------------------------------------------------------------
(* The references *)

LEMMA HandleEventsReferences ==
  ASSUME Types, Phases, References, NEW t \in Threads, HandleEvents(t)
  PROVE  References'
<1>1. "caller" \in Threads
  BY DEF Threads, Clients
<1>2. \/ pc'["caller"] = pc["caller"]
      \/ pc["caller"] \in UsePCs /\ pc'["caller"] \in UsePCs
  BY <1>1, HandleEventsMoves
<1> USE <1>2 DEF References, Taken, UsePCs, DoClosePCs, AfterPCs
<1>3. ASSUME NEW x \in Transfers, xfer[x] # "none",
             xfer' = [xfer EXCEPT ![x] = "none"], Unref
      PROVE  References'
  <2>1. pc["caller"] \notin DoClosePCs \cup AfterPCs \cup IdlePCs
    BY <1>3 DEF Phases, Transfers, Clients, IdlePCs
  <2>2. /\ device'.usb_ref = device.usb_ref - 1
        /\ device'.ref = device.ref /\ device'.leaked = device.leaked
    BY <1>3 DEF Unref, Types, DeviceType
  <2>3. device.usb_ref =
          4 + Taken("caller") + Taken("preview") + Taken("status")
    BY <2>1 DEF IdlePCs
  <2>4. device'.usb_ref = 4 + Taken("caller")' + Taken("preview")'
                            + Taken("status")'
    BY <1>3, <2>2, <2>3 DEF Transfers, Clients, Types, DataTypes
  <2>5. QED
    BY <2>1, <2>2, <2>4 DEF IdlePCs
<1>4. CASE ReapControl(t)
  BY <1>3, <1>4 DEF ReapControl, Ready, Transfers
<1>5. CASE ReapStatus(t)
  <2>1. CASE Unref /\ xfer' = [xfer EXCEPT !["status"] = "none"]
    BY <1>3, <1>5, <2>1 DEF ReapStatus, Transfers
  <2>2. CASE UNCHANGED device /\ xfer' = [xfer EXCEPT !["status"] = "flying"]
    BY <1>5, <2>2 DEF ReapStatus, Transfers, Clients, Types, DataTypes
  <2>3. QED
    BY <1>5, <2>1, <2>2 DEF ReapStatus
<1>6. CASE UNCHANGED <<xfer, device>>
  BY <1>6
<1>7. QED
  BY <1>4, <1>5, <1>6 DEF HandleEvents, TestModify, TryLock, Activate, Locked,
     PollDevice, PollPipe, PollTimeout, ReapNone, Report, Unlock, Release,
     Announce, Wait, Woken, Return, PcOnly, transferVars

\* do_close forgets at most the status transfer.
LEMMA LeakedIsTaken ==
  ASSUME Types, Phases, pc["caller"] \notin UsePCs
  PROVE  Cardinality({x \in Transfers : xfer[x] # "none"}) = Taken("status")
<1>1. CASE xfer["status"] = "none"
  <2>1. {x \in Transfers : xfer[x] # "none"} = {}
    BY <1>1 DEF Phases, Transfers, Clients
  <2>2. QED
    BY <1>1, <2>1, FS_EmptySet DEF Taken
<1>2. CASE xfer["status"] # "none"
  <2>1. {x \in Transfers : xfer[x] # "none"} = {"status"}
    BY <1>2 DEF Phases, Transfers, Clients
  <2>2. QED
    BY <1>2, <2>1, FS_Singleton DEF Taken
<1>3. QED
  BY <1>1, <1>2

LEMMA CloseReferences ==
  ASSUME Types, Phases, References, libusb_close PROVE References'
<1>1. "caller" \in Threads
  BY DEF Threads, Clients
<1> USE DEF References, DoClosePCs, AfterPCs
<1>2. CASE CloseTransfers
  <2>1. pc["caller"] = "read" /\ pc'["caller"] = "inner"
    BY <1>1, <1>2 DEF CloseTransfers, Goto, Types, PCTypes
  <2>2. Taken("caller") = 0 /\ Taken("preview") = 0
        /\ Taken("status") \in {0, 1}
    BY <2>1 DEF Phases, UsePCs, Taken
  <2>3. /\ device'.leaked = Taken("status")
        /\ device'.ref = device.ref /\ device'.usb_ref = device.usb_ref
    BY <1>2, <2>1, LeakedIsTaken DEF CloseTransfers, Types, DeviceType, UsePCs
  <2>4. QED
    BY <2>1, <2>2, <2>3
<1>3. CASE CloseBackend
  BY <1>1, <1>3 DEF CloseBackend, Goto, Types, PCTypes, DeviceType
<1>4. CASE CloseModify \/ CloseWrite \/ CloseLock \/ CloseModified
  BY <1>1, <1>4 DEF CloseModify, CloseWrite, CloseLock, CloseModified, Goto,
     Types, PCTypes, Taken, transferVars
<1>5. CASE \/ Unlock("caller", "inner", "inner2")
           \/ Release("caller", "inner2", "inner3")
           \/ Announce("caller", "inner3", "backend")
  BY <1>1, <1>5 DEF Unlock, Release, Announce, Goto, Types, PCTypes
<1>6. CASE \/ Unlock("caller", "outer", "outer2")
           \/ Release("caller", "outer2", "outer3")
           \/ Announce("caller", "outer3", "join")
  BY <1>1, <1>6 DEF Unlock, Release, Announce, Goto, Types, PCTypes
<1>7. QED
  BY <1>2, <1>3, <1>4, <1>5, <1>6 DEF libusb_close

LEMMA RestReferences ==
  ASSUME Types, Phases, References, Rest PROVE References'
<1>1. "caller" \in Threads
  BY DEF Threads, Clients
<1> USE DEF References, Taken, DoClosePCs, AfterPCs
<1>2. CASE Connect
  <2>1. CASE device' = NoDevice /\ Goto("caller", "closed", "closed")
    BY <1>1, <2>1 DEF NoDevice, Goto, Types, PCTypes
  <2>2. CASE /\ device' = [NoDevice EXCEPT !.ref = 1, !.usb_ref = 2]
             /\ Goto("caller", "closed", "open")
    BY <1>1, <2>2 DEF NoDevice, Goto, Types, PCTypes
  <2>3. QED
    BY <1>2, <2>1, <2>2 DEF Connect
<1>3. CASE UvcOpen
  BY <1>1, <1>3 DEF UvcOpen, Goto, Types, PCTypes, DeviceType, Phases, IdlePCs,
     UsePCs
<1>4. CASE UvcOpenFails
  <2>1. /\ device'.ref = device.ref - 1 /\ device'.usb_ref = device.usb_ref - 1
        /\ device'.leaked = device.leaked
    BY <1>4 DEF UvcOpenFails, Types, DeviceType
  <2>2. QED
    BY <1>1, <1>4, <2>1 DEF UvcOpenFails, Goto, Types, PCTypes
<1>5. CASE UvcOpenDone
  <2>1. /\ pc["caller"] = "claim" /\ pc'["caller"] = "idle"
        /\ pc'["preview"] = pc["preview"]
    BY <1>1, <1>5 DEF UvcOpenDone, Types, PCTypes, Threads, Clients
  <2>2. \A x \in Transfers : xfer[x] = "none"
    BY <2>1 DEF Phases, IdlePCs, UsePCs, Transfers, Clients
  <2>3. CASE /\ xfer' = [xfer EXCEPT !["status"] = "flying"]
             /\ device' = [device EXCEPT !.devh = TRUE, !.usb_ref = @ + 1]
    BY <2>1, <2>2, <2>3 DEF Types, DataTypes, DeviceType, Transfers, Clients
  <2>4. CASE device' = [device EXCEPT !.devh = TRUE] /\ UNCHANGED xfer
    BY <2>1, <2>2, <2>4 DEF Types, DeviceType, Transfers, Clients
  <2>5. QED
    BY <1>5, <2>3, <2>4 DEF UvcOpenDone
<1>6. CASE UvcClaimFails
  <2>1. /\ pc["caller"] = "claim" /\ pc'["caller"] = "closed"
    BY <1>1, <1>6 DEF UvcClaimFails, Goto, Types, PCTypes
  <2>2. \A x \in Transfers : xfer[x] = "none"
    BY <2>1 DEF Phases, IdlePCs, UsePCs, Transfers, Clients
  <2>3. /\ device'.ref = device.ref - 2 /\ device'.usb_ref = device.usb_ref - 3
        /\ device'.leaked = device.leaked
    BY <1>6 DEF UvcClaimFails, Types, DeviceType
  <2>4. QED
    BY <2>1, <2>2, <2>3 DEF Transfers, Clients
<1>7. CASE ReleaseCamera
  BY <1>1, <1>7 DEF ReleaseCamera, Goto, Types, PCTypes, transferVars
<1>8. CASE ReleaseEnd
  <2>1. pc["caller"] = "join" /\ pc'["caller"] = "closed"
    BY <1>1, <1>8 DEF ReleaseEnd, Goto, Types, PCTypes
  <2>2. /\ device'.ref = device.ref - 2 /\ device'.usb_ref = device.usb_ref - 2
        /\ device'.leaked = device.leaked
    BY <1>8 DEF ReleaseEnd, Types, DeviceType
  <2>3. QED
    BY <2>1, <2>2
<1>9. ASSUME NEW t \in Clients, InUse, Control(t) PROVE References'
  <2>1. pc["caller"] \in UsePCs /\ pc'["caller"] \in UsePCs
    BY <1>1, <1>9 DEF InUse, Control, Goto, Types, PCTypes, UsePCs
  <2>2. /\ device'.usb_ref = device.usb_ref + 1
        /\ device'.ref = device.ref /\ device'.leaked = device.leaked
    BY <1>9 DEF Control, Types, DeviceType
  <2>3. xfer[t] = "none" /\ xfer' = [xfer EXCEPT ![t] = "flying"]
    BY <1>9 DEF Control, Goto, Phases
  <2>4. QED
    BY <2>1, <2>2, <2>3 DEF UsePCs, Transfers, Clients, Types, DataTypes
<1>10. CASE Unplug \/ \E x \in Transfers : Answer(x)
  <2>1. \A x \in Transfers : xfer[x] = "none" <=> xfer'[x] = "none"
    BY <1>10 DEF Unplug, Answer, Types, DataTypes
  <2>2. UNCHANGED <<pc, device>>
    BY <1>10 DEF Unplug, Answer
  <2>3. QED
    BY <2>1, <2>2 DEF Transfers, Clients
<1>11. QED
  BY <1>2, <1>3, <1>4, <1>5, <1>6, <1>7, <1>8, <1>9, <1>10 DEF Rest

LEMMA ReferencesStep ==
  ASSUME Types, Phases, References, [Next]_vars PROVE References'
<1>1. CASE UNCHANGED vars
  BY <1>1 DEF References, Taken, vars, transferVars
<1>2. QED
  BY <1>1, NextSteps, HandleEventsReferences, CloseReferences, RestReferences
-----------------------------------------------------------------------------
(* The waiters *)

Announcing == {"announce", "outer3"}

\* Only handling events and libusb_close leave these points.
LEMMA RestKeeps ==
  ASSUME Types, Phases, Rest, NEW u \in Threads,
         pc[u] \in {"report", "announce", "inner3", "outer3"}
  PROVE  pc'[u] = pc[u]
<1>1. CASE Connect \/ UvcOpen \/ UvcOpenFails \/ UvcClaimFails
           \/ ReleaseCamera \/ ReleaseEnd
  BY <1>1 DEF Connect, UvcOpen, UvcOpenFails, UvcClaimFails, ReleaseCamera,
              ReleaseEnd, Goto, Types, PCTypes
<1>2. CASE UvcOpenDone
  BY <1>2 DEF UvcOpenDone, Phases, IdlePCs, Types, PCTypes
<1>3. ASSUME NEW t \in Clients, Control(t) PROVE pc'[u] = pc[u]
  BY <1>3 DEF Control, Goto, Types, PCTypes
<1>4. CASE Unplug \/ \E x \in Transfers : Answer(x)
  BY <1>4 DEF Unplug, Answer
<1>5. QED
  BY <1>1, <1>2, <1>3, <1>4 DEF Rest

LEMMA WaitersStep ==
  ASSUME Types, LockHeld, Modifies, Phases, WaitersAreWoken, [Next]_vars
  PROVE  WaitersAreWoken'
<1>1. "caller" \in Threads
  BY DEF Threads, Clients
<1>2. ASSUME NEW t \in Threads, HandleEvents(t) PROVE WaitersAreWoken'
  <2>1. CASE Release(t, "release", "announce")
    BY <2>1 DEF Release, Goto, WaitersAreWoken, Types, PCTypes
  <2>2. CASE Wait(t)
    <3>1. waiting' = waiting \/ pollfd_modify # 0 \/ event_handler_active
      BY <2>2 DEF Wait
    <3>2. event_handler_active => owner # NULL
      BY DEF LockHeld
    <3>3. pollfd_modify # 0 => pollfd_modify > 0
      BY DEF Modifies
    <3>4. \A u \in Threads : pc[u] \in Announcing => pc'[u] = pc[u]
      BY <2>2 DEF Wait, Goto, Types, PCTypes, Announcing
    <3>5. UNCHANGED <<owner, pollfd_modify>>
      BY <2>2 DEF Wait, lockVars, modifyVars
    <3>6. QED
      BY <3>1, <3>2, <3>3, <3>4, <3>5 DEF WaitersAreWoken, Announcing
  <2>3. CASE Announce(t, "announce", "return") \/ Report(t)
    BY <2>3 DEF Announce, Report, WaitersAreWoken
  <2>4. CASE TryLock(t)
    BY <2>4, NullAssumption DEF TryLock, Goto, WaitersAreWoken, Types, PCTypes,
       modifyVars
  <2>5. CASE ~Release(t, "release", "announce") /\ ~Wait(t) /\ ~TryLock(t)
             /\ ~Announce(t, "announce", "return") /\ ~Report(t)
    <3>1. UNCHANGED <<owner, pollfd_modify, waiting>>
      BY <1>2, <2>5 DEF HandleEvents, TestModify, Activate, Locked, PollDevice,
         PollPipe, PollTimeout, ReapNone, ReapControl, ReapStatus, Unlock,
         Woken, Return, PcOnly, lockVars, modifyVars
    <3>2. \A u \in Threads : pc[u] \in Announcing => pc'[u] = pc[u]
      BY <1>2, <2>5 DEF HandleEvents, TestModify, Activate, Locked, PollDevice,
         PollPipe, PollTimeout, ReapNone, ReapControl, ReapStatus, Unlock,
         Woken, Return, Goto, Types, PCTypes, Announcing
    <3>3. QED
      BY <3>1, <3>2 DEF WaitersAreWoken, Announcing
  <2>6. QED
    BY <2>1, <2>2, <2>3, <2>4, <2>5
<1>3. CASE libusb_close
  <2>1. CASE Release("caller", "outer2", "outer3")
    BY <1>1, <2>1 DEF Release, Goto, WaitersAreWoken, Types, PCTypes
  <2>2. CASE \/ Announce("caller", "inner3", "backend")
             \/ Announce("caller", "outer3", "join")
    BY <2>2 DEF Announce, WaitersAreWoken
  <2>3. CASE CloseModify
    <3>1. pollfd_modify' = 1
      BY <2>3 DEF CloseModify, Goto, Modifies, ModifyPCs, DoClosePCs
    <3>2. QED
      BY <3>1 DEF WaitersAreWoken
  <2>4. CASE \/ CloseWrite \/ CloseTransfers \/ CloseBackend
             \/ Unlock("caller", "inner", "inner2")
             \/ Unlock("caller", "outer", "outer2")
    <3>1. UNCHANGED <<owner, pollfd_modify, waiting>>
      BY <2>4 DEF CloseWrite, CloseTransfers, CloseBackend, Unlock, lockVars,
         modifyVars
    <3>2. \A u \in Threads : pc[u] \in Announcing => pc'[u] = pc[u]
      BY <2>4 DEF CloseWrite, CloseTransfers, CloseBackend, Unlock, Goto, Types,
         PCTypes, Announcing
    <3>3. QED
      BY <3>1, <3>2 DEF WaitersAreWoken, Announcing
  <2>5. CASE CloseLock
    BY <1>1, <2>5, NullAssumption DEF CloseLock, WaitersAreWoken
  <2>6. CASE CloseModified \/ Release("caller", "inner2", "inner3")
    <3>1. pc'["caller"] \in {"outer", "inner3"}
      BY <1>1, <2>6 DEF CloseModified, Release, Goto, Types, PCTypes
    <3>2. owner' # NULL
      BY <1>1, <1>3, <3>1, CloseLockKeeps, NullAssumption DEF LockHeld, HoldPCs,
         DoClosePCs
    <3>3. QED
      BY <3>2 DEF WaitersAreWoken
  <2>7. QED
    BY <1>3, <2>1, <2>2, <2>3, <2>4, <2>5, <2>6 DEF libusb_close
<1>4. CASE Rest
  <2>1. UNCHANGED <<owner, pollfd_modify, waiting>>
    BY <1>4 DEF Rest, Connect, UvcOpen, UvcOpenFails, UvcOpenDone,
       UvcClaimFails, ReleaseCamera, ReleaseEnd, Control, Answer, Unplug,
       ConnectFrame, lockVars, modifyVars
  <2>2. \A u \in Threads : pc[u] \in Announcing => pc'[u] = pc[u]
    BY <1>4, RestKeeps DEF Announcing
  <2>3. QED
    BY <2>1, <2>2 DEF WaitersAreWoken, Announcing
<1>5. CASE UNCHANGED vars
  BY <1>5 DEF WaitersAreWoken, vars, lockVars, modifyVars
<1>6. QED
  BY <1>2, <1>3, <1>4, <1>5, NextSteps

\* Who completes a transfer tells the waiters before it does anything else.
Telling == {"report", "announce", "inner3", "outer3"}

LEMMA DoneStep ==
  ASSUME Types, Phases, DoneIsReported, [Next]_vars PROVE DoneIsReported'
<1>1. "caller" \in Threads
  BY DEF Threads, Clients
<1>2. ASSUME NEW t \in Threads, HandleEvents(t) PROVE DoneIsReported'
  <2>1. CASE Report(t) \/ Announce(t, "announce", "return")
    BY <2>1 DEF Report, Announce, DoneIsReported
  <2>2. CASE ReapControl(t)
    <3>1. pc'[t] = "report"
      BY <2>2 DEF ReapControl, Goto, Types, PCTypes
    <3>2. QED
      BY <3>1 DEF DoneIsReported
  <2>3. CASE ~Report(t) /\ ~Announce(t, "announce", "return")
             /\ ~ReapControl(t)
    <3>1. waiting' \cap completed' = waiting \cap completed
      BY <1>2, <2>3 DEF HandleEvents, TestModify, TryLock, Activate, Locked,
         PollDevice, PollPipe, PollTimeout, ReapNone, ReapStatus, Unlock,
         Release, Wait, Woken, Return, PcOnly, transferVars, Done
    <3>2. \A u \in Threads : pc[u] \in Telling => pc'[u] = pc[u]
      BY <1>2, <2>3 DEF HandleEvents, TestModify, TryLock, Activate, Locked,
         PollDevice, PollPipe, PollTimeout, ReapNone, ReapStatus, Unlock,
         Release, Wait, Woken, Return, Goto, Types, PCTypes, Telling
    <3>3. QED
      BY <3>1, <3>2 DEF DoneIsReported, Telling
  <2>4. QED
    BY <2>1, <2>2, <2>3
<1>3. CASE libusb_close
  <2>1. CASE \/ Announce("caller", "inner3", "backend")
             \/ Announce("caller", "outer3", "join")
    BY <2>1 DEF Announce, DoneIsReported
  <2>2. CASE \/ CloseModify \/ CloseWrite \/ CloseLock \/ CloseTransfers
             \/ Unlock("caller", "inner", "inner2")
             \/ Release("caller", "inner2", "inner3")
             \/ CloseBackend \/ CloseModified
             \/ Unlock("caller", "outer", "outer2")
             \/ Release("caller", "outer2", "outer3")
    <3>1. UNCHANGED <<waiting, completed>>
      BY <2>2 DEF CloseModify, CloseWrite, CloseLock, CloseTransfers, Unlock,
         Release, CloseBackend, CloseModified, transferVars
    <3>2. \A u \in Threads : pc[u] \in Telling => pc'[u] = pc[u]
      BY <1>1, <2>2 DEF CloseModify, CloseWrite, CloseLock, CloseTransfers,
         Unlock, Release, CloseBackend, CloseModified, Goto, Types, PCTypes,
         Telling
    <3>3. QED
      BY <3>1, <3>2 DEF DoneIsReported, Telling
  <2>3. QED
    BY <1>3, <2>1, <2>2 DEF libusb_close
<1>4. CASE Rest
  <2>1. waiting' \cap completed' \subseteq waiting \cap completed
    BY <1>4 DEF Rest, Connect, UvcOpen, UvcOpenFails, UvcOpenDone,
       UvcClaimFails, ReleaseCamera, ReleaseEnd, Control, Answer, Unplug,
       ConnectFrame, transferVars
  <2>2. \A u \in Threads : pc[u] \in Telling => pc'[u] = pc[u]
    BY <1>4, RestKeeps DEF Telling
  <2>3. QED
    BY <2>1, <2>2 DEF DoneIsReported, Telling
<1>5. CASE UNCHANGED vars
  BY <1>5 DEF DoneIsReported, vars, transferVars
<1>6. QED
  BY <1>2, <1>3, <1>4, <1>5, NextSteps
-----------------------------------------------------------------------------
(* The theorems *)

LEMMA InitIInv == Init => IInv
<1> SUFFICES ASSUME Init PROVE IInv
  OBVIOUS
<1>1. Types
  <2>1. PCTypes
    BY DEF Init, PCTypes, PCs, UsePCs, IdlePCs, Threads, Clients
  <2>2. DataTypes
    <3>1. owner \in Threads \cup {NULL} /\ depth \in Int
      BY DEF Init
    <3>5. waiting \subseteq Threads
      BY DEF Init
    <3>6. event_handler_active = FALSE /\ pollfds = FALSE /\ plugged = TRUE
      BY Zenon DEF Init
    <3>2. polls \in [Threads -> BOOLEAN]
      BY DEF Init
    <3>3. xfer \in [Transfers -> {"none", "flying", "ready"}]
      BY DEF Init
    <3>4. QED
      BY <3>1, <3>2, <3>3, <3>5, <3>6 DEF DataTypes
  <2>3. DeviceType
    BY DEF Init, NoDevice, DeviceType
  <2>4. QED
    BY <2>1, <2>2, <2>3 DEF Types
<1>2. LockHeld /\ Modifies
  BY NullAssumption DEF Init, LockHeld, Modifies, HoldPCs, HandlingPCs,
     DoClosePCs, ModifyPCs, Threads, Clients
<1>3. Polling /\ Phases
  BY DEF Init, NoDevice, Polling, Phases, HandlePCs, UsePCs, DoClosePCs,
     AfterPCs, IdlePCs, Threads, Clients, Transfers
<1>4. References
  <2>1. pc["caller"] = "closed"
    BY DEF Init
  <2>2. device.ref = 0 /\ device.usb_ref = 0 /\ device.leaked = 0
    BY DEF Init, NoDevice
  <2>3. QED
    BY <2>1, <2>2 DEF References, DoClosePCs, AfterPCs
<1>5. WaitersAreWoken /\ DoneIsReported
  BY DEF Init, WaitersAreWoken, DoneIsReported
<1>6. QED
  BY <1>1, <1>2, <1>3, <1>4, <1>5 DEF IInv

LEMMA IInvStep == IInv /\ [Next]_vars => IInv'
BY TypesStep, LockStep, ModifiesStep, PollingStep, PhasesStep, ReferencesStep,
   WaitersStep, DoneStep DEF IInv

LEMMA Invariance == Spec => []IInv
BY InitIInv, IInvStep, PTL DEF Spec

\* libusb_close never closes the handle of a device whose fd another thread
\* polls: who polls has the events lock, and the handle is open (core.c:
\* 1394-1447).
THEOREM PolledFdIsOpen == Spec => []PolledIsOpen
<1>1. IInv => PolledIsOpen
  <2> SUFFICES ASSUME IInv, NEW t \in Threads, polls[t]
               PROVE  device.usb_devh /\ owner = t
    BY DEF PolledIsOpen
  <2>1. device.usb_devh
    BY Zenon DEF IInv, Polling
  <2>2. pc[t] \in {"poll", "reap", "report", "unlock"}
    BY Zenon DEF IInv, Polling
  <2>3. owner = t
    BY <2>2 DEF IInv, LockHeld, HoldPCs, HandlingPCs
  <2>4. QED
    BY <2>1, <2>3
<1>2. QED
  BY <1>1, Invariance, PTL

\* A thread in libusb_wait_for_event is woken by the thread that handles
\* events or closes the device: whatever their order, there is one to do it
\* (io.c:1654-1886 and 2176-2230).
THEOREM NoWakeupIsLost == Spec => []WaitersAreWoken
<1>1. IInv => WaitersAreWoken
  BY DEF IInv
<1>2. QED
  BY <1>1, Invariance, PTL

\* A thread does not sleep on a transfer another thread has completed, unless
\* that thread is about to wake it (sync.c:36-62, io.c:1561-1615).
THEOREM NoSleepOnCompleted == Spec => []DoneIsReported
<1>1. IInv => DoneIsReported
  BY DEF IInv
<1>2. QED
  BY <1>1, Invariance, PTL

\* UVCCamera::release ends what connect began, whatever was requested in
\* between and whether or not the camera was unplugged: no thread, no lock,
\* no transfer remains, and the references left are those the code forgets
\* (UVCCamera.cpp:195-224, device.c:1555-1589, core.c:1317-1385).
THEOREM ReleasedIsClean == Spec => []ReleaseEndsAll
<1>1. IInv => ReleaseEndsAll
  <2> SUFFICES ASSUME IInv, pc["caller"] = "closed"
               PROVE  /\ pc["events"] = "exited" /\ pc["preview"] = "idle"
                      /\ owner = NULL /\ pipe = 0 /\ ~pollfds
                      /\ xfer["status"] = "none"
                      /\ ~device.usb_devh /\ device.ref = 0
                      /\ device.usb_ref \in {0, 1 + device.leaked}
    BY DEF ReleaseEndsAll
  <2>1. /\ pc["events"] = "exited" /\ pc["preview"] = "idle"
        /\ xfer["status"] = "none"
    BY DEF IInv, Phases, UsePCs, IdlePCs
  <2>2. owner = NULL
    <3>1. \A t \in Threads : pc[t] \notin HoldPCs
      BY <2>1 DEF Threads, Clients, HoldPCs, HandlingPCs, DoClosePCs
    <3>2. QED
      BY <3>1 DEF IInv, LockHeld, Types, DataTypes
  <2>3. pipe = 0
    BY DEF IInv, Modifies
  <2>4. ~device.usb_devh
    BY Zenon DEF IInv, Polling, HandlePCs, UsePCs, DoClosePCs
  <2>5. ~pollfds
    BY <2>4, Zenon DEF IInv, Polling
  <2>6. device.ref = 0 /\ device.usb_ref \in {0, 1 + device.leaked}
    <3>1. References
      BY DEF IInv
    <3>2. QED
      BY <3>1 DEF References, DoClosePCs, AfterPCs
  <2>7. QED
    BY <2>1, <2>2, <2>3, <2>4, <2>5, <2>6
<1>2. QED
  BY <1>1, Invariance, PTL
=============================================================================
