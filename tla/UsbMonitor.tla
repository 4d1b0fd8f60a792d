----------------------------- MODULE UsbMonitor -----------------------------
(***************************************************************************)
(* USBMonitor: the main thread receives the broadcasts and runs the        *)
(* application's calls, mAsyncHandler's thread runs the listener and the   *)
(* periodic check, and the camera thread opens and closes clones of the    *)
(* control blocks (UVCCamera.open and close).                              *)
(*                                                                         *)
(* A UsbDevice is an identity: plugged in again, a device has another      *)
(* name.  openDevice of the monitor, which nothing calls, is left out.     *)
(***************************************************************************)
EXTENDS Naturals, FiniteSets, Sequences, Functions

CONSTANTS NULL,
          Devices,
          MaxBlocks,    \* bound on the control blocks created
          MaxRegisters, \* bound on register
          MaxRequests   \* bound on requestPermission

ASSUME MonitorAssumption ==
    /\ IsFiniteSet(Devices) /\ NULL \notin Devices
    /\ MaxBlocks \in Nat /\ NULL \notin 1 .. MaxBlocks

Blocks == 1 .. MaxBlocks

VARIABLES
    unseen, attached,   \* devices never plugged in; plugged in now
    permitted,          \* what UsbManager.hasPermission answers
    asked,              \* permission dialogs that are open
    broadcasts,         \* sent to mUsbReceiver, not yet received
    registered,         \* mPermissionIntent is not null
    destroyed,
    mCtrlBlocks,        \* device -> block or NULL
    mHasPermissions, mDeviceCounts,
    blocks,             \* blocks created, a record each
    queue,              \* runnables posted to mAsyncHandler
    checks,             \* mDeviceCheckRunnables posted
    running,            \* the looper of mAsyncHandler has not quit
    mpc, mblock, mdev, left,    \* the main thread: point, block, device,
                                \* devices destroy has yet to close
    apc, ablock, adev, snapshot,    \* the asynchronous thread
    cpc, offered, clone,    \* the camera thread: blocks onConnect gave it
    unanswered,         \* devices requestPermission was called for
    registers, requests

worldVars == <<unseen, attached, permitted, asked>>
mapVars == <<mCtrlBlocks, blocks>>
stateVars == <<registered, destroyed, running, registers, requests>>
checkVars == <<mHasPermissions, mDeviceCounts, checks>>
mainVars == <<mpc, mblock, mdev, left>>
asyncVars == <<apc, ablock, adev, snapshot>>
cameraVars == <<cpc, offered, clone>>
vars == <<worldVars, broadcasts, mapVars, stateVars, checkVars, queue,
          mainVars, asyncVars, cameraVars, unanswered>>

Init ==
    /\ unseen = Devices /\ attached = {} /\ permitted = {} /\ asked = {}
    /\ broadcasts = <<>> /\ registered = FALSE /\ destroyed = FALSE
    /\ mCtrlBlocks = [d \in Devices |-> NULL] /\ blocks = <<>>
    /\ mHasPermissions = {} /\ mDeviceCounts = 0 /\ checks = 0
    /\ queue = <<>> /\ running = TRUE
    /\ mpc = "idle" /\ mblock = NULL /\ mdev = NULL /\ left = {}
    /\ apc = "idle" /\ ablock = NULL /\ adev = NULL /\ snapshot = {}
    /\ cpc = "idle" /\ offered = {} /\ clone = NULL
    /\ unanswered = {} /\ registers = 0 /\ requests = 0

\* A new block: its connection is null when the device is gone.
Create(d, original) ==
    blocks' = Append(blocks, [device |-> d, original |-> original,
                              open |-> d \in attached])
Newest == Len(blocks) + 1

\* UsbControlBlock.close, in two steps: the connection, with onDisconnect;
\* then the entry of the map, whatever block that holds.
CloseConnection(b) == blocks' = [blocks EXCEPT ![b].open = FALSE]
Forget(b) == mCtrlBlocks' = [mCtrlBlocks EXCEPT ![blocks[b].device] = NULL]

Post(r) == queue' = IF running THEN Append(queue, r) ELSE queue
UpdatePermission(d, has) ==
    mHasPermissions' = IF has THEN mHasPermissions \cup {d}
                       ELSE mHasPermissions \ {d}
-----------------------------------------------------------------------------
(* The devices, the system and the user *)

Broadcast(m) == broadcasts' = IF registered THEN Append(broadcasts, m)
                              ELSE broadcasts

\* Some systems do not broadcast that a device was attached.
Attach(d) ==
    /\ d \in unseen
    /\ unseen' = unseen \ {d} /\ attached' = attached \cup {d}
    /\ \/ Broadcast([what |-> "attached", device |-> d])
       \/ UNCHANGED broadcasts
    /\ UNCHANGED <<permitted, asked, mapVars, stateVars, checkVars, queue,
                   mainVars, asyncVars, cameraVars, unanswered>>

Detach(d) ==
    /\ d \in attached
    /\ attached' = attached \ {d} /\ permitted' = permitted \ {d}
    /\ Broadcast([what |-> "detached", device |-> d])
    /\ UNCHANGED <<unseen, asked, mapVars, stateVars, checkVars, queue,
                   mainVars, asyncVars, cameraVars, unanswered>>

Answer(d) ==
    /\ d \in asked /\ asked' = asked \ {d}
    /\ \E granted \in BOOLEAN :
         /\ granted => d \in attached
         /\ permitted' = IF granted THEN permitted \cup {d} ELSE permitted
         /\ Broadcast([what |-> IF granted THEN "granted" ELSE "denied",
                       device |-> d])
    /\ UNCHANGED <<unseen, attached, mapVars, stateVars, checkVars, queue,
                   mainVars, asyncVars, cameraVars, unanswered>>
-----------------------------------------------------------------------------
(* The main thread: calls of the application *)

Register ==
    /\ mpc = "idle" /\ ~destroyed /\ registers < MaxRegisters
    /\ registers' = registers + 1
    /\ IF registered THEN UNCHANGED <<registered, mDeviceCounts, checks>>
       ELSE /\ registered' = TRUE /\ mDeviceCounts' = 0
            /\ checks' = checks + 1
    /\ UNCHANGED <<worldVars, broadcasts, mapVars, destroyed, running,
                   requests, mHasPermissions, queue, mainVars, asyncVars,
                   cameraVars, unanswered>>

\* Broadcasts on their way to an unregistered receiver are lost, and with
\* them the answers the application waits for.
DoUnregister ==
    /\ registered' = FALSE /\ mDeviceCounts' = 0
    /\ checks' = IF destroyed THEN checks ELSE 0
    /\ broadcasts' = <<>>

Unregister ==
    /\ mpc = "idle" /\ registered
    /\ DoUnregister
    /\ UNCHANGED <<worldVars, mapVars, destroyed, running, registers,
                   requests, mHasPermissions, queue, mainVars, asyncVars,
                   cameraVars, unanswered>>

\* processConnect and processCancel, called with the monitor's lock.
ProcessConnect(d) ==
    /\ UpdatePermission(d, TRUE)
    /\ Post([what |-> "connect", device |-> d])

ProcessCancel(d) ==
    /\ UpdatePermission(d, FALSE)
    /\ Post([what |-> "cancel", device |-> d])

\* onAttach is on its way: the listener may call the monitor from there.
InOnAttach == apc = "idle" /\ queue # <<>> /\ Head(queue).what = "attach"

\* Called on the main thread, or from onAttach on the asynchronous one,
\* whatever the main thread is doing then.
RequestPermission(d) ==
    /\ mpc = "idle" \/ InOnAttach
    /\ ~destroyed
    /\ requests < MaxRequests /\ requests' = requests + 1
    /\ d \notin unseen
    /\ unanswered' = unanswered \cup {d}
    /\ \/ /\ ~(registered /\ d \in permitted)   \* or the system refuses
          /\ ProcessCancel(d) /\ UNCHANGED asked
       \/ /\ registered /\ d \in permitted
          /\ ProcessConnect(d) /\ UNCHANGED asked
       \/ /\ registered /\ d \notin permitted
          /\ asked' = asked \cup {d} /\ UNCHANGED <<mHasPermissions, queue>>
    /\ UNCHANGED <<unseen, attached, permitted, broadcasts, mapVars,
                   registered, destroyed, running, registers, mDeviceCounts,
                   checks, mainVars, asyncVars, cameraVars>>

Destroy ==
    /\ mpc = "idle" /\ ~destroyed
    /\ DoUnregister
    /\ destroyed' = TRUE
    /\ left' = {d \in Devices : mCtrlBlocks[d] # NULL}
    /\ mpc' = "destroy"
    /\ UNCHANGED <<worldVars, mapVars, running, registers, requests,
                   mHasPermissions, queue, mblock, mdev, asyncVars,
                   cameraVars, unanswered>>

DestroyNext(d) ==
    /\ mpc = "destroy" /\ d \in left
    /\ left' = left \ {d}
    /\ mblock' = mCtrlBlocks[d] /\ mdev' = NULL
    /\ mCtrlBlocks' = [mCtrlBlocks EXCEPT ![d] = NULL]
    /\ mpc' = IF mCtrlBlocks[d] = NULL THEN "destroy" ELSE "close"
    /\ UNCHANGED <<worldVars, broadcasts, blocks, stateVars, checkVars,
                   queue, asyncVars, cameraVars, unanswered>>

DestroyEnd ==
    /\ mpc = "destroy" /\ left = {}
    /\ mCtrlBlocks' = [d \in Devices |-> NULL]
    /\ running' = FALSE /\ queue' = <<>> /\ checks' = 0
    /\ mpc' = "ended"
    /\ UNCHANGED <<worldVars, broadcasts, blocks, registered, destroyed,
                   registers, requests, mHasPermissions, mDeviceCounts,
                   mblock, mdev, left, asyncVars, cameraVars, unanswered>>
-----------------------------------------------------------------------------
(* The main thread: mUsbReceiver *)

Receive(what) ==
    /\ mpc = "idle" /\ broadcasts # <<>> /\ Head(broadcasts).what = what
    /\ broadcasts' = Tail(broadcasts)

\* Faulty variant: a denial is not passed on.
ReceivePermissionDrops ==
    /\ \/ Receive("granted") /\ ProcessConnect(Head(broadcasts).device)
       \/ Receive("denied") /\ UNCHANGED <<mHasPermissions, queue>>
    /\ UNCHANGED <<worldVars, mapVars, stateVars, mDeviceCounts, checks,
                   mainVars, asyncVars, cameraVars, unanswered>>

ReceivePermission ==
    /\ LET d == Head(broadcasts).device
       IN  \/ Receive("granted") /\ ProcessConnect(d)
           \/ Receive("denied") /\ ProcessCancel(d)
    /\ UNCHANGED <<worldVars, mapVars, stateVars, mDeviceCounts, checks,
                   mainVars, asyncVars, cameraVars, unanswered>>

ReceiveAttached ==
    /\ Receive("attached")
    /\ LET d == Head(broadcasts).device
       IN  /\ UpdatePermission(d, d \in permitted)
           /\ Post([what |-> "attach", device |-> d])
    /\ UNCHANGED <<worldVars, mapVars, stateVars, mDeviceCounts, checks,
                   mainVars, asyncVars, cameraVars, unanswered>>

ReceiveDetached ==
    /\ Receive("detached")
    /\ LET d == Head(broadcasts).device
       IN  /\ mdev' = d /\ mblock' = mCtrlBlocks[d]
           /\ mCtrlBlocks' = [mCtrlBlocks EXCEPT ![d] = NULL]
           /\ mpc' = IF mCtrlBlocks[d] = NULL THEN "detached" ELSE "close"
    /\ UNCHANGED <<worldVars, blocks, stateVars, checkVars, queue, left,
                   asyncVars, cameraVars, unanswered>>

MainClose ==
    /\ mpc = "close"
    /\ CloseConnection(mblock)
    /\ mpc' = IF blocks[mblock].open THEN "forget"
              ELSE IF mdev = NULL THEN "destroy" ELSE "detached"
    /\ UNCHANGED <<worldVars, broadcasts, mCtrlBlocks, stateVars, checkVars,
                   queue, mblock, mdev, left, asyncVars, cameraVars,
                   unanswered>>

MainForget ==
    /\ mpc = "forget"
    /\ Forget(mblock)
    /\ mpc' = IF mdev = NULL THEN "destroy" ELSE "detached"
    /\ UNCHANGED <<worldVars, broadcasts, blocks, stateVars, checkVars,
                   queue, mblock, mdev, left, asyncVars, cameraVars,
                   unanswered>>

ReceiveDetachedEnd ==
    /\ mpc = "detached" /\ mpc' = "idle"
    /\ mDeviceCounts' = 0
    /\ Post([what |-> "dettach", device |-> mdev])
    /\ UNCHANGED <<worldVars, broadcasts, mapVars, stateVars,
                   mHasPermissions, checks, mblock, mdev, left, asyncVars,
                   cameraVars, unanswered>>

Receiver ==
    \/ ReceivePermission \/ ReceiveAttached \/ ReceiveDetached
    \/ MainClose \/ MainForget \/ ReceiveDetachedEnd

Destroying == DestroyEnd \/ \E d \in Devices : DestroyNext(d)
-----------------------------------------------------------------------------
(* The asynchronous thread *)

Take(what) ==
    /\ apc = "idle" /\ queue # <<>> /\ Head(queue).what = what
    /\ queue' = Tail(queue)

\* onAttach and onDettach of the listener.
RunListener ==
    /\ Take("attach") \/ Take("dettach")
    /\ UNCHANGED <<worldVars, broadcasts, mapVars, stateVars, checkVars,
                   mainVars, asyncVars, cameraVars, unanswered>>

RunCancel ==
    /\ Take("cancel")
    /\ unanswered' = unanswered \ {Head(queue).device}
    /\ UNCHANGED <<worldVars, broadcasts, mapVars, stateVars, checkVars,
                   mainVars, asyncVars, cameraVars>>

\* Faulty variant: a new block whether there is one or not.
RunConnectAnew ==
    /\ Take("connect")
    /\ Len(blocks) < MaxBlocks
    /\ Create(Head(queue).device, TRUE)
    /\ adev' = Head(queue).device /\ ablock' = Newest /\ apc' = "put"
    /\ UNCHANGED <<worldVars, broadcasts, mCtrlBlocks, stateVars, checkVars,
                   mainVars, snapshot, cameraVars, unanswered>>

\* The runnable of processConnect: get, then put of a new block, then
\* onConnect, which has the camera thread open a clone.
RunConnect ==
    /\ Take("connect")
    /\ LET d == Head(queue).device
       IN  /\ adev' = d
           /\ IF mCtrlBlocks[d] # NULL
              THEN /\ ablock' = mCtrlBlocks[d] /\ apc' = "onConnect"
                   /\ UNCHANGED blocks
              ELSE /\ Len(blocks) < MaxBlocks
                   /\ Create(d, TRUE)
                   /\ ablock' = Newest /\ apc' = "put"
    /\ UNCHANGED <<worldVars, broadcasts, mCtrlBlocks, stateVars, checkVars,
                   mainVars, snapshot, cameraVars, unanswered>>

Put ==
    /\ apc = "put" /\ apc' = "onConnect"
    /\ mCtrlBlocks' = [mCtrlBlocks EXCEPT ![adev] = ablock]
    /\ UNCHANGED <<worldVars, broadcasts, blocks, stateVars, checkVars,
                   queue, mainVars, ablock, adev, snapshot, cameraVars,
                   unanswered>>

OnConnect ==
    /\ apc = "onConnect" /\ apc' = "idle"
    /\ offered' = offered \cup {ablock}
    /\ unanswered' = unanswered \ {adev}
    /\ ablock' = NULL
    /\ UNCHANGED <<worldVars, broadcasts, mapVars, stateVars, checkVars,
                   queue, mainVars, adev, snapshot, cpc, clone>>

\* mDeviceCheckRunnable: the list of devices, the permissions, the test.
CheckDevices ==
    /\ apc = "idle" /\ checks > 0 /\ ~destroyed
    /\ checks' = checks - 1
    /\ snapshot' = attached /\ apc' = "permissions"
    /\ UNCHANGED <<worldVars, broadcasts, mapVars, stateVars,
                   mHasPermissions, mDeviceCounts, queue, mainVars, ablock,
                   adev, cameraVars, unanswered>>

\* hasPermission throws on a destroyed monitor, and getDeviceList before it:
\* the process ends there, so the check goes no further.
CheckPermissions ==
    /\ apc = "permissions"
    /\ ~destroyed \/ snapshot = {}
    /\ mHasPermissions' = snapshot \cap permitted
    /\ apc' = IF Cardinality(mHasPermissions') > Cardinality(mHasPermissions)
              THEN "report" ELSE "test"
    /\ UNCHANGED <<worldVars, broadcasts, mapVars, stateVars, mDeviceCounts,
                   checks, queue, mainVars, ablock, adev, snapshot,
                   cameraVars, unanswered>>

CheckReport ==
    /\ apc \in {"report", "test"} /\ apc' = "idle"
    /\ IF apc = "report" \/ Cardinality(snapshot) > mDeviceCounts
       THEN /\ mDeviceCounts' = Cardinality(snapshot)
            /\ \E order \in [1 .. Cardinality(snapshot) -> snapshot] :
                 /\ Range(order) = snapshot
                 /\ queue' = IF running
                             THEN queue \o [i \in DOMAIN order |->
                                              [what |-> "attach",
                                               device |-> order[i]]]
                             ELSE queue
       ELSE UNCHANGED <<mDeviceCounts, queue>>
    /\ checks' = IF running THEN checks + 1 ELSE checks
    /\ UNCHANGED <<worldVars, broadcasts, mapVars, stateVars,
                   mHasPermissions, mainVars, ablock, adev, snapshot,
                   cameraVars, unanswered>>

AsyncThread ==
    \/ RunListener \/ RunCancel \/ RunConnect \/ Put \/ OnConnect
    \/ CheckDevices \/ CheckPermissions \/ CheckReport
-----------------------------------------------------------------------------
(* The camera thread *)

\* UVCCamera.open clones the block; a clone of an absent device throws.
OpenClone(b) ==
    /\ cpc = "idle" /\ clone = NULL /\ b \in offered
    /\ offered' = offered \ {b}
    /\ IF blocks[b].device \in attached
       THEN /\ Len(blocks) < MaxBlocks
            /\ Create(blocks[b].device, FALSE) /\ clone' = Newest
       ELSE UNCHANGED <<blocks, clone>>
    /\ UNCHANGED <<worldVars, broadcasts, mCtrlBlocks, stateVars, checkVars,
                   queue, mainVars, asyncVars, cpc, unanswered>>

\* UVCCamera.close closes it.
CloseClone ==
    /\ cpc = "idle" /\ clone # NULL /\ cpc' = "forget"
    /\ CloseConnection(clone)
    /\ UNCHANGED <<worldVars, broadcasts, mCtrlBlocks, stateVars, checkVars,
                   queue, mainVars, asyncVars, offered, clone, unanswered>>

ForgetClone ==
    /\ cpc = "forget" /\ cpc' = "idle"
    /\ Forget(clone) /\ clone' = NULL
    /\ UNCHANGED <<worldVars, broadcasts, blocks, stateVars, checkVars,
                   queue, mainVars, asyncVars, offered, unanswered>>
-----------------------------------------------------------------------------
Next ==
    \/ \E d \in Devices : Attach(d) \/ Detach(d) \/ Answer(d)
                          \/ RequestPermission(d)
    \/ Register \/ Unregister \/ Destroy \/ Destroying \/ Receiver
    \/ AsyncThread
    \/ \E b \in Blocks : OpenClone(b)
    \/ CloseClone \/ ForgetClone

Spec == Init /\ [][Next]_vars

\* The threads run - the check leaves room for the other runnables - and the
\* user answers.
Fairness ==
    /\ WF_vars(Receiver) /\ WF_vars(Destroying)
    /\ WF_vars(Put \/ OnConnect \/ CheckPermissions \/ CheckReport)
    /\ SF_vars(RunListener \/ RunCancel \/ RunConnect)
    /\ \A d \in Devices : WF_vars(Answer(d))

FairSpec == Spec /\ Fairness
-----------------------------------------------------------------------------
\* Types; the map leads from a device to a block of that device
\* (USBMonitor.java:72), and only who is plugged in has permission.
TypeOK ==
    /\ attached \subseteq Devices /\ unseen \subseteq Devices \ attached
    /\ permitted \subseteq attached
    /\ mCtrlBlocks \in [Devices -> Blocks \cup {NULL}]
    /\ \A d \in Devices : mCtrlBlocks[d] # NULL =>
         mCtrlBlocks[d] \in DOMAIN blocks /\ blocks[mCtrlBlocks[d]].device = d
    /\ blocks \in Seq([device : Devices, original : BOOLEAN, open : BOOLEAN])
    /\ Len(blocks) <= MaxBlocks

Originals == {b \in DOMAIN blocks : blocks[b].original /\ blocks[b].open}

\* Blocks a thread is about to enter in the map, or to close.
InHand == (IF apc = "put" THEN {ablock} ELSE {})
          \cup (IF mpc = "close" THEN {mblock} ELSE {})

\* A clone of d was closed.
Forgotten == {blocks[b].device : b \in
                {c \in DOMAIN blocks : ~blocks[c].original /\ ~blocks[c].open}}

\* mCtrlBlocks has every open block, "openしているUsbControlBlock": whatever
\* broadcast comes while a connection is made, a block is entered or closed
\* - except that closing a clone strikes out the original
\* (USBMonitor.java:72 and 1385).
OpenIsKnown ==
    ~destroyed => \A b \in Originals :
        \/ b \in Range(mCtrlBlocks) \cup InHand
        \/ blocks[b].device \in Forgotten

\* The answer to a request for d: a dialog, what the system sent, what is
\* posted to the asynchronous thread, or onConnect, which it is about to call.
UnderWay(d) ==
    \/ d \in asked
    \/ \E m \in Range(broadcasts) :
         m.device = d /\ m.what \in {"granted", "denied"}
    \/ \E r \in Range(queue) :
         r.device = d /\ r.what \in {"connect", "cancel"}
    \/ apc \in {"put", "onConnect"} /\ adev = d

\* As long as the monitor is registered no step loses the answer to a request:
\* from requestPermission to onConnect or onCancel it is always in the hands of
\* the user, the system, the main thread or the asynchronous one, whatever is
\* attached, detached or closed meanwhile (USBMonitor.java:483-573).
AnswerNotLost ==
    [][\A d \in unanswered' :
         d \notin unanswered \/ UnderWay(d)
           => UnderWay(d)' \/ ~registered']_vars

\* Whoever asks for permission hears onConnect or onCancel, unless the
\* monitor stops listening (USBMonitor.java:483-573).
RequestIsAnswered ==
    \A d \in Devices :
        d \in unanswered ~> d \notin unanswered \/ ~registered \/ destroyed
=============================================================================
