--------------------------- MODULE UsbMonitorProofs ---------------------------
(***************************************************************************)
(* For any devices and any number of blocks, requests and registrations:   *)
(* the monitor's map is made of blocks of their devices, and has every one *)
(* whose connection is open; and whoever asks for permission is not        *)
(* forgotten while the monitor is registered.                              *)
(***************************************************************************)
EXTENDS UsbMonitor, FiniteSetTheorems, TLAPS

Block == [device : Devices, original : BOOLEAN, open : BOOLEAN]

Sent == [what : {"attached", "detached", "granted", "denied"},
         device : Devices]
Posted == [what : {"attach", "dettach", "connect", "cancel"},
           device : Devices]

Types ==
    /\ attached \subseteq Devices /\ unseen \subseteq Devices \ attached
    /\ permitted \subseteq attached
    /\ asked \subseteq Devices /\ snapshot \subseteq Devices
    /\ destroyed \in BOOLEAN
    /\ blocks \in Seq(Block) /\ Len(blocks) <= MaxBlocks
    /\ mCtrlBlocks \in [Devices -> Blocks \cup {NULL}]
    /\ mpc \in {"idle", "close", "forget", "detached", "destroy", "ended"}
    /\ apc \in {"idle", "put", "onConnect", "permissions", "report", "test"}
    /\ cpc \in {"idle", "forget"}
    /\ mdev \in Devices \cup {NULL} /\ (mpc = "detached" => mdev # NULL)

\* Messages tell of devices; who was detached is never attached again.
Messages ==
    /\ broadcasts \in Seq(Sent) /\ queue \in Seq(Posted)
    /\ \A i \in DOMAIN broadcasts :
         broadcasts[i].what = "detached"
           => broadcasts[i].device \notin attached \cup unseen

\* Blocks the map and the threads refer to.
References ==
    /\ \A d \in Devices : mCtrlBlocks[d] # NULL =>
         mCtrlBlocks[d] \in DOMAIN blocks /\ blocks[mCtrlBlocks[d]].device = d
    /\ apc = "put" =>
         /\ adev \in Devices /\ ablock \in DOMAIN blocks
         /\ blocks[ablock].device = adev /\ mCtrlBlocks[adev] = NULL
    /\ mpc \in {"close", "forget"} =>
         /\ mblock \in DOMAIN blocks
         /\ ~destroyed => /\ blocks[mblock].device = mdev
                          /\ mdev \in Devices \ (attached \cup unseen)
    /\ mpc \in {"destroy", "ended"} => destroyed
    /\ clone # NULL => clone \in DOMAIN blocks /\ ~blocks[clone].original
    /\ cpc = "forget" => clone # NULL /\ ~blocks[clone].open

\* An open block is in the map, or a thread is about to enter or close it.
Known ==
    ~destroyed => \A b \in Originals :
        \/ blocks[b].device \in Forgotten
        \/ mCtrlBlocks[blocks[b].device] = b
        \/ apc = "put" /\ b = ablock
        \/ mpc = "close" /\ b = mblock

\* A device that is being detached has no other open block.
Closing ==
    ~destroyed /\ mpc \in {"close", "forget"} =>
        \A b \in Originals : blocks[b].device = mdev =>
            (mpc = "close" /\ b = mblock) \/ mdev \in Forgotten

IInv == Types /\ Messages /\ References /\ Known /\ Closing
-----------------------------------------------------------------------------
(* The blocks *)

LEMMA BlockIds ==
  ASSUME Types
  PROVE  /\ DOMAIN blocks = 1 .. Len(blocks) /\ Len(blocks) \in Nat
         /\ DOMAIN blocks \subseteq Blocks /\ NULL \notin Blocks
         /\ \A b \in DOMAIN blocks : blocks[b] \in Block
BY MonitorAssumption DEF Types, Blocks

LEMMA Created ==
  ASSUME Types, NEW d \in Devices, NEW o \in BOOLEAN, Len(blocks) < MaxBlocks,
         Create(d, o)
  PROVE  /\ blocks' \in Seq(Block) /\ Len(blocks') <= MaxBlocks
         /\ DOMAIN blocks' = DOMAIN blocks \cup {Newest}
         /\ Newest \in Blocks /\ Newest \notin DOMAIN blocks
         /\ \A b \in DOMAIN blocks : blocks'[b] = blocks[b]
         /\ blocks'[Newest].device = d /\ blocks'[Newest].original = o
         /\ blocks'[Newest].open = (d \in attached)
<1> DEFINE new == [device |-> d, original |-> o, open |-> d \in attached]
<1>1. new \in Block
  BY DEF Block
<1>2. blocks' = Append(blocks, new) /\ blocks \in Seq(Block)
  BY DEF Create, Types
<1>3. new.device = d /\ new.original = o /\ new.open = (d \in attached)
  OBVIOUS
<1> HIDE DEF new
<1>4. /\ blocks' \in Seq(Block) /\ Len(blocks') = Len(blocks) + 1
      /\ \A b \in 1 .. Len(blocks) : blocks'[b] = blocks[b]
      /\ blocks'[Len(blocks) + 1] = new
      /\ DOMAIN blocks' = 1 .. Len(blocks) + 1
      /\ DOMAIN blocks = 1 .. Len(blocks) /\ Len(blocks) \in Nat
  BY <1>1, <1>2
<1>5. QED
  BY <1>3, <1>4, MonitorAssumption DEF Newest, Blocks, Types

LEMMA Closed ==
  ASSUME Types, NEW b \in DOMAIN blocks, CloseConnection(b)
  PROVE  /\ blocks' \in Seq(Block) /\ Len(blocks') <= MaxBlocks
         /\ DOMAIN blocks' = DOMAIN blocks
         /\ \A c \in DOMAIN blocks : /\ blocks'[c].device = blocks[c].device
                                     /\ blocks'[c].original = blocks[c].original
                                     /\ blocks'[c].open => blocks[c].open
         /\ ~blocks'[b].open
<1>1. blocks[b] \in Block /\ blocks \in Seq(Block)
  BY BlockIds DEF Types
<1> DEFINE new == [blocks[b] EXCEPT !.open = FALSE]
<1>2. /\ new \in Block /\ new.device = blocks[b].device
      /\ new.original = blocks[b].original /\ ~new.open
  BY <1>1 DEF Block
<1>3. blocks' = [blocks EXCEPT ![b] = new]
  BY DEF CloseConnection
<1> HIDE DEF new
<1>4. /\ blocks' \in Seq(Block) /\ Len(blocks') = Len(blocks)
      /\ DOMAIN blocks' = DOMAIN blocks /\ blocks'[b] = new
      /\ \A c \in DOMAIN blocks \ {b} : blocks'[c] = blocks[c]
  BY <1>1, <1>2, <1>3
<1>5. QED
  BY <1>2, <1>4 DEF Types
-----------------------------------------------------------------------------
(* The types *)

LEMMA WorldTypes ==
  ASSUME Types, [Next]_vars
  PROVE  /\ attached' \subseteq Devices /\ unseen' \subseteq Devices \ attached'
         /\ permitted' \subseteq attached'
         /\ asked' \subseteq Devices /\ snapshot' \subseteq Devices
         /\ attached' \cup unseen' \subseteq attached \cup unseen
<1> USE DEF Types, worldVars, asyncVars
<1>1. ASSUME NEW d \in Devices,
             Attach(d) \/ Detach(d) \/ Answer(d) \/ RequestPermission(d)
      PROVE  /\ attached' \subseteq Devices
             /\ unseen' \subseteq Devices \ attached'
             /\ permitted' \subseteq attached'
             /\ asked' \subseteq Devices /\ UNCHANGED snapshot
             /\ attached' \cup unseen' \subseteq attached \cup unseen
  BY <1>1 DEF Attach, Detach, Answer, RequestPermission
<1>2. CASE UNCHANGED <<unseen, attached, permitted, asked>>
           /\ (UNCHANGED snapshot \/ CheckDevices)
  BY <1>2 DEF CheckDevices
<1>3. CASE AsyncThread
  BY <1>2, <1>3 DEF AsyncThread, RunListener, RunCancel, RunConnect, Put,
     OnConnect, CheckDevices, CheckPermissions, CheckReport
<1>4. CASE Register \/ Unregister \/ Destroy \/ Destroying \/ Receiver
  BY <1>2, <1>4 DEF Register, Unregister, Destroy, Destroying, DestroyEnd,
     DestroyNext, Receiver, ReceivePermission, ReceiveAttached,
     ReceiveDetached, MainClose, MainForget, ReceiveDetachedEnd
<1>5. CASE (\E b \in Blocks : OpenClone(b)) \/ CloseClone \/ ForgetClone
  BY <1>2, <1>5 DEF OpenClone, CloseClone, ForgetClone
<1>6. CASE UNCHANGED vars
  BY <1>2, <1>6 DEF vars
<1>7. QED
  BY <1>1, <1>3, <1>4, <1>5, <1>6 DEF Next

LEMMA PointTypes ==
  ASSUME Types, [Next]_vars
  PROVE  /\ destroyed' \in BOOLEAN
         /\ mpc' \in {"idle", "close", "forget", "detached", "destroy", "ended"}
         /\ apc' \in {"idle", "put", "onConnect", "permissions", "report",
                      "test"}
         /\ cpc' \in {"idle", "forget"}
<1> USE DEF Types, stateVars, mainVars, asyncVars, cameraVars
<1>1. CASE \E d \in Devices :
             Attach(d) \/ Detach(d) \/ Answer(d) \/ RequestPermission(d)
  BY <1>1 DEF Attach, Detach, Answer, RequestPermission
<1>3. CASE AsyncThread
  BY <1>3 DEF AsyncThread, RunListener, RunCancel, RunConnect, Put,
     OnConnect, CheckDevices, CheckPermissions, CheckReport
<1>4. CASE Register \/ Unregister \/ Destroy \/ Destroying \/ Receiver
  BY <1>4 DEF Register, Unregister, Destroy, Destroying, DestroyEnd,
     DestroyNext, Receiver, ReceivePermission, ReceiveAttached,
     ReceiveDetached, MainClose, MainForget, ReceiveDetachedEnd
<1>5. CASE (\E b \in Blocks : OpenClone(b)) \/ CloseClone \/ ForgetClone
  BY <1>5 DEF OpenClone, CloseClone, ForgetClone
<1>6. CASE UNCHANGED vars
  BY <1>6 DEF vars
<1>7. QED
  BY <1>1, <1>3, <1>4, <1>5, <1>6 DEF Next

-----------------------------------------------------------------------------
(* Messages *)

LEMMA Received ==
  ASSUME NEW S, NEW s \in Seq(S), s # <<>>
  PROVE  /\ Tail(s) \in Seq(S) /\ Head(s) = s[1] /\ Head(s) \in S
         /\ 1 \in DOMAIN s
         /\ \A i \in DOMAIN Tail(s) : i + 1 \in DOMAIN s
                                      /\ Tail(s)[i] = s[i + 1]
OBVIOUS

LEMMA Appended ==
  ASSUME NEW S, NEW s \in Seq(S), NEW m \in S
  PROVE  /\ Append(s, m) \in Seq(S)
         /\ \A i \in DOMAIN Append(s, m) :
              Append(s, m)[i] = m \/ (i \in DOMAIN s
                                      /\ Append(s, m)[i] = s[i])
<1>1. /\ Append(s, m) \in Seq(S) /\ Len(Append(s, m)) = Len(s) + 1
      /\ DOMAIN s = 1 .. Len(s) /\ Len(s) \in Nat
      /\ DOMAIN Append(s, m) = 1 .. Len(s) + 1
  OBVIOUS
<1>2. Append(s, m)[Len(s) + 1] = m
      /\ \A i \in 1 .. Len(s) : Append(s, m)[i] = s[i]
  OBVIOUS
<1>3. QED
  BY <1>1, <1>2

LEMMA HeadsAreDevices ==
  ASSUME Messages
  PROVE  /\ broadcasts # <<>> => Head(broadcasts).device \in Devices
         /\ queue # <<>> => Head(queue).device \in Devices
<1>1. broadcasts # <<>> => Head(broadcasts) \in Sent
  BY Received DEF Messages
<1>2. queue # <<>> => Head(queue) \in Posted
  BY Received DEF Messages
<1>3. QED
  BY <1>1, <1>2 DEF Sent, Posted

LEMMA DeviceType ==
  ASSUME Types, Messages, [Next]_vars
  PROVE  mdev' \in Devices \cup {NULL} /\ (mpc' = "detached" => mdev' # NULL)
<1> USE DEF Types, mainVars
<1>1. CASE UNCHANGED mdev /\ (mpc' = mpc \/ mpc' # "detached")
  BY <1>1
<1>2. CASE ReceiveDetached
  <2>1. mdev' \in Devices
    BY <1>2, HeadsAreDevices DEF ReceiveDetached, Receive
  <2>2. QED
    BY <2>1, MonitorAssumption
<1>3. CASE MainClose \/ MainForget
  BY <1>3 DEF MainClose, MainForget
<1>4. CASE \E d \in Devices : DestroyNext(d)
  BY <1>4 DEF DestroyNext
<1>5. CASE \E d \in Devices :
             Attach(d) \/ Detach(d) \/ Answer(d) \/ RequestPermission(d)
  BY <1>1, <1>5 DEF Attach, Detach, Answer, RequestPermission
<1>6. CASE AsyncThread
  BY <1>1, <1>6 DEF AsyncThread, RunListener, RunCancel, RunConnect, Put,
     OnConnect, CheckDevices, CheckPermissions, CheckReport
<1>7. CASE \/ Register \/ Unregister \/ Destroy \/ DestroyEnd
           \/ ReceivePermission \/ ReceiveAttached \/ ReceiveDetachedEnd
  BY <1>1, <1>7 DEF Register, Unregister, Destroy, DestroyEnd,
     ReceivePermission, ReceiveAttached, ReceiveDetachedEnd
<1>8. CASE (\E b \in Blocks : OpenClone(b)) \/ CloseClone \/ ForgetClone
  BY <1>1, <1>8 DEF OpenClone, CloseClone, ForgetClone
<1>9. CASE UNCHANGED vars
  BY <1>1, <1>9 DEF vars
<1>10. QED
  BY <1>2, <1>3, <1>4, <1>5, <1>6, <1>7, <1>8, <1>9
     DEF Next, Destroying, Receiver

LEMMA BroadcastsStep ==
  ASSUME Types, Messages, [Next]_vars
  PROVE  /\ broadcasts' \in Seq(Sent)
         /\ \A i \in DOMAIN broadcasts' :
              broadcasts'[i].what = "detached"
                => broadcasts'[i].device \notin attached' \cup unseen'
<1> DEFINE Goal == /\ broadcasts' \in Seq(Sent)
                   /\ \A i \in DOMAIN broadcasts' :
                        broadcasts'[i].what = "detached" =>
                          broadcasts'[i].device \notin attached' \cup unseen'
<1> USE DEF Messages
<1>0. attached' \cup unseen' \subseteq attached \cup unseen
  BY WorldTypes
<1>1. CASE UNCHANGED broadcasts
  BY <1>0, <1>1
<1>2. CASE broadcasts' = <<>>
  BY <1>2
<1>3. CASE broadcasts # <<>> /\ broadcasts' = Tail(broadcasts)
  BY <1>0, <1>3, Received
<1>4. ASSUME NEW m \in Sent, Broadcast(m),
             m.what = "detached" => m.device \notin attached' \cup unseen'
      PROVE  Goal
  <2>1. CASE registered
    BY <1>0, <1>4, <2>1, Appended DEF Broadcast
  <2>2. CASE ~registered
    BY <1>1, <1>4, <2>2 DEF Broadcast
  <2>3. QED
    BY <2>1, <2>2
<1>5. ASSUME NEW d \in Devices, Attach(d) \/ Detach(d) \/ Answer(d)
      PROVE  Goal
  <2>1. CASE Attach(d)
    <3> DEFINE m == [what |-> "attached", device |-> d]
    <3>1. m \in Sent /\ m.what # "detached"
      BY DEF Sent
    <3>2. Broadcast(m) \/ UNCHANGED broadcasts
      BY <2>1 DEF Attach
    <3> HIDE DEF m
    <3>3. QED
      BY <1>1, <1>4, <3>1, <3>2
  <2>2. CASE Detach(d)
    <3> DEFINE m == [what |-> "detached", device |-> d]
    <3>1. m \in Sent /\ m.device = d
      BY DEF Sent
    <3>2. Broadcast(m) /\ d \notin attached' \cup unseen'
      BY <2>2 DEF Detach, Types
    <3> HIDE DEF m
    <3>3. QED
      BY <1>4, <3>1, <3>2
  <2>3. CASE Answer(d)
    <3>1. PICK granted \in BOOLEAN :
            Broadcast([what |-> IF granted THEN "granted" ELSE "denied",
                       device |-> d])
      BY <2>3 DEF Answer
    <3> DEFINE m == [what |-> IF granted THEN "granted" ELSE "denied",
                     device |-> d]
    <3>2. m \in Sent /\ m.what # "detached"
      BY DEF Sent
    <3>3. Broadcast(m)
      BY <3>1
    <3> HIDE DEF m
    <3>4. QED
      BY <1>4, <3>2, <3>3
  <2>4. QED
    BY <1>5, <2>1, <2>2, <2>3
<1>6. ASSUME NEW d \in Devices, RequestPermission(d) PROVE Goal
  BY <1>1, <1>6 DEF RequestPermission
<1>7. CASE Unregister \/ Destroy
  BY <1>2, <1>7 DEF Unregister, Destroy, DoUnregister
<1>8. CASE ReceivePermission \/ ReceiveAttached \/ ReceiveDetached
  BY <1>3, <1>8 DEF ReceivePermission, ReceiveAttached, ReceiveDetached,
     Receive
<1>9. CASE AsyncThread
  BY <1>1, <1>9 DEF AsyncThread, RunListener, RunCancel, RunConnect, Put,
     OnConnect, CheckDevices, CheckPermissions, CheckReport
<1>10. CASE \/ Register \/ Destroying \/ MainClose \/ MainForget
            \/ ReceiveDetachedEnd
  BY <1>1, <1>10 DEF Register, Destroying, DestroyEnd, DestroyNext,
     MainClose, MainForget, ReceiveDetachedEnd
<1>11. CASE (\E b \in Blocks : OpenClone(b)) \/ CloseClone \/ ForgetClone
  BY <1>1, <1>11 DEF OpenClone, CloseClone, ForgetClone
<1>12. CASE UNCHANGED vars
  BY <1>1, <1>12 DEF vars
<1>13. QED
  BY <1>5, <1>6, <1>7, <1>8, <1>9, <1>10, <1>11, <1>12 DEF Next, Receiver

LEMMA QueueStep ==
  ASSUME Types, Messages, [Next]_vars
  PROVE  queue' \in Seq(Posted)
<1> USE DEF Messages
<1>1. CASE UNCHANGED queue
  BY <1>1
<1>2. ASSUME NEW d \in Devices, NEW w \in {"attach", "dettach", "connect",
                                           "cancel"},
             Post([what |-> w, device |-> d])
      PROVE  queue' \in Seq(Posted)
  <2>1. [what |-> w, device |-> d] \in Posted
    BY DEF Posted
  <2>2. QED
    BY <1>2, <2>1, Appended DEF Post
<1>3. CASE queue # <<>> /\ queue' = Tail(queue)
  BY <1>3, Received
<1>4. CASE CheckReport
  <2>1. CASE UNCHANGED queue
    BY <2>1
  <2>2. CASE ~UNCHANGED queue
    <3>1. PICK order \in [1 .. Cardinality(snapshot) -> snapshot] :
            queue' = queue \o [i \in DOMAIN order |->
                                 [what |-> "attach", device |-> order[i]]]
      BY <1>4, <2>2 DEF CheckReport
    <3>2. Cardinality(snapshot) \in Nat
      BY FS_Subset, FS_CardinalityType, MonitorAssumption DEF Types
    <3> DEFINE tell == [i \in DOMAIN order |->
                          [what |-> "attach", device |-> order[i]]]
    <3>3. tell \in [1 .. Cardinality(snapshot) -> Posted]
      BY DEF Posted, Types
    <3>4. queue' = queue \o tell
      BY <3>1
    <3> HIDE DEF tell
    <3>5. tell \in Seq(Posted)
      BY <3>2, <3>3
    <3>6. QED
      BY <3>4, <3>5
  <2>3. QED
    BY <2>1, <2>2
<1>5. ASSUME NEW d \in Devices, RequestPermission(d)
      PROVE  queue' \in Seq(Posted)
  BY <1>1, <1>2, <1>5 DEF RequestPermission, ProcessCancel, ProcessConnect
<1>6. CASE ReceivePermission \/ ReceiveAttached
  BY <1>1, <1>2, <1>6, HeadsAreDevices DEF ReceivePermission,
     ReceiveAttached, Receive, ProcessCancel, ProcessConnect
<1>7. CASE ReceiveDetachedEnd
  BY <1>2, <1>7 DEF ReceiveDetachedEnd, Types
<1>8. CASE DestroyEnd
  BY <1>8 DEF DestroyEnd
<1>9. CASE RunListener \/ RunCancel \/ RunConnect
  BY <1>3, <1>9 DEF RunListener, RunCancel, RunConnect, Take
<1>10. CASE Put \/ OnConnect \/ CheckDevices \/ CheckPermissions
  BY <1>1, <1>10 DEF Put, OnConnect, CheckDevices, CheckPermissions
<1>11. CASE \E d \in Devices : Attach(d) \/ Detach(d) \/ Answer(d)
                               \/ DestroyNext(d)
  BY <1>1, <1>11 DEF Attach, Detach, Answer, DestroyNext
<1>12. CASE \/ Register \/ Unregister \/ Destroy \/ MainClose \/ MainForget
            \/ ReceiveDetached
  BY <1>1, <1>12 DEF Register, Unregister, Destroy, MainClose, MainForget,
     ReceiveDetached
<1>13. CASE (\E b \in Blocks : OpenClone(b)) \/ CloseClone \/ ForgetClone
  BY <1>1, <1>13 DEF OpenClone, CloseClone, ForgetClone
<1>14. CASE UNCHANGED vars
  BY <1>1, <1>14 DEF vars
<1>15. QED
  BY <1>4, <1>5, <1>6, <1>7, <1>8, <1>9, <1>10, <1>11, <1>12, <1>13, <1>14
     DEF Next, Destroying, Receiver, AsyncThread

LEMMA MessagesStep ==
  ASSUME Types, Messages, [Next]_vars PROVE Messages'
BY BroadcastsStep, QueueStep DEF Messages
-----------------------------------------------------------------------------
(* The kinds of steps *)

\* Steps that leave the blocks and the map alone, and what the threads are
\* doing to them.
Apart ==
    /\ UNCHANGED <<mapVars, destroyed, cpc, clone, mblock, mdev>>
    /\ mpc' = mpc \/ mpc' = "idle"
    /\ mpc = "close" => mpc' = "close"
    /\ apc' # "put" \/ UNCHANGED <<apc, ablock, adev>>
    /\ apc = "put" => apc' = "put"

LEMMA Steps ==
  ASSUME Types, [Next]_vars
  PROVE  \/ Apart \/ ReceiveDetached \/ MainClose \/ MainForget
         \/ Destroy \/ (\E d \in Devices : DestroyNext(d)) \/ DestroyEnd
         \/ RunConnect \/ Put
         \/ (\E b \in Blocks : OpenClone(b)) \/ CloseClone \/ ForgetClone
<1> USE DEF Apart, stateVars, mainVars, asyncVars, cameraVars
<1>1. CASE \E d \in Devices :
             Attach(d) \/ Detach(d) \/ Answer(d) \/ RequestPermission(d)
  BY <1>1 DEF Attach, Detach, Answer, RequestPermission
<1>2. CASE \/ Register \/ Unregister \/ ReceivePermission
           \/ ReceiveAttached \/ ReceiveDetachedEnd
  BY <1>2 DEF Register, Unregister, ReceivePermission, ReceiveAttached,
     ReceiveDetachedEnd
<1>3. CASE \/ RunListener \/ RunCancel \/ OnConnect \/ CheckDevices
           \/ CheckPermissions \/ CheckReport
  BY <1>3 DEF RunListener, RunCancel, OnConnect, CheckDevices,
     CheckPermissions, CheckReport, Take
<1>4. CASE UNCHANGED vars
  BY <1>4 DEF vars
<1>5. QED
  BY <1>1, <1>2, <1>3, <1>4 DEF Next, Destroying, Receiver, AsyncThread

\* No block is taken back, opened anew or given to another device.
Kept ==
    /\ DOMAIN blocks \subseteq DOMAIN blocks'
    /\ \A b \in DOMAIN blocks : /\ blocks'[b].device = blocks[b].device
                                /\ blocks'[b].original = blocks[b].original
                                /\ blocks'[b].open => blocks[b].open

LEMMA NullsTypes ==
  ASSUME Types, NEW d, mCtrlBlocks' = [mCtrlBlocks EXCEPT ![d] = NULL]
  PROVE  /\ mCtrlBlocks' \in [Devices -> Blocks \cup {NULL}]
         /\ \A e \in Devices : mCtrlBlocks'[e] = mCtrlBlocks[e]
                               \/ (mCtrlBlocks'[e] = NULL /\ e = d)
BY DEF Types

LEMMA MapTypes ==
  ASSUME Types, Messages, References, [Next]_vars
  PROVE  /\ blocks' \in Seq(Block) /\ Len(blocks') <= MaxBlocks
         /\ mCtrlBlocks' \in [Devices -> Blocks \cup {NULL}]
         /\ Kept
<1> DEFINE Goal == /\ blocks' \in Seq(Block) /\ Len(blocks') <= MaxBlocks
                   /\ mCtrlBlocks' \in [Devices -> Blocks \cup {NULL}]
                   /\ Kept
<1>1. CASE UNCHANGED blocks /\ \/ UNCHANGED mCtrlBlocks
                               \/ \E d : mCtrlBlocks' =
                                           [mCtrlBlocks EXCEPT ![d] = NULL]
  BY <1>1, NullsTypes DEF Types, Kept
<1>2. CASE DestroyEnd
  BY <1>2 DEF DestroyEnd, Types, Kept
<1>3. CASE MainClose
  BY <1>3, Closed DEF MainClose, References, Types, Kept
<1>4. CASE CloseClone
  BY <1>4, Closed DEF CloseClone, References, Types, Kept
<1>5. CASE RunConnect
  <2>1. UNCHANGED mCtrlBlocks
    BY <1>5 DEF RunConnect
  <2>2. Head(queue).device \in Devices
    BY <1>5, HeadsAreDevices DEF RunConnect, Take
  <2>3. CASE UNCHANGED blocks
    BY <1>1, <2>1, <2>3
  <2>4. CASE Len(blocks) < MaxBlocks /\ Create(Head(queue).device, TRUE)
    BY <2>1, <2>2, <2>4, Created DEF Types, Kept
  <2>5. QED
    BY <1>5, <2>3, <2>4 DEF RunConnect
<1>6. CASE Put
  BY <1>6, BlockIds DEF Put, References, Types, Kept
<1>7. ASSUME NEW b \in Blocks, OpenClone(b) PROVE Goal
  <2>1. UNCHANGED mCtrlBlocks
    BY <1>7 DEF OpenClone
  <2>2. CASE UNCHANGED blocks
    BY <1>1, <2>1, <2>2
  <2>3. CASE /\ blocks[b].device \in attached /\ Len(blocks) < MaxBlocks
             /\ Create(blocks[b].device, FALSE)
    <3>1. blocks[b].device \in Devices
      BY <2>3 DEF Types
    <3>2. QED
      BY <2>1, <2>3, <3>1, Created DEF Types, Kept
  <2>4. QED
    BY <1>7, <2>2, <2>3 DEF OpenClone
<1>8. CASE Apart \/ Destroy \/ \E d \in Devices : DestroyNext(d)
  BY <1>1, <1>8 DEF Apart, Destroy, DestroyNext, mapVars
<1>9. CASE ReceiveDetached \/ MainForget \/ ForgetClone
  BY <1>1, <1>9 DEF ReceiveDetached, MainForget, ForgetClone, Forget
<1>10. QED
  BY <1>2, <1>3, <1>4, <1>5, <1>6, <1>7, <1>8, <1>9, Steps

LEMMA TypesStep ==
  ASSUME Types, Messages, References, [Next]_vars PROVE Types'
BY WorldTypes, PointTypes, DeviceType, MapTypes DEF Types

\* A block that becomes an open original is the one the runnable of
\* processConnect has created.
LEMMA NewBlocks ==
  ASSUME Types, Messages, References, [Next]_vars, NEW b \in DOMAIN blocks',
         b \notin DOMAIN blocks
  PROVE  \/ /\ RunConnect /\ apc' = "put" /\ ablock' = b
            /\ adev' = blocks'[b].device /\ adev' \in Devices
            /\ mCtrlBlocks[adev'] = NULL
            /\ blocks'[b].open => blocks'[b].device \in attached
         \/ (\E c \in Blocks : OpenClone(c)) /\ ~blocks'[b].original
<1>1. CASE RunConnect
  <2>1. Head(queue).device \in Devices
    BY <1>1, HeadsAreDevices DEF RunConnect, Take
  <2>2. /\ Len(blocks) < MaxBlocks /\ Create(Head(queue).device, TRUE)
        /\ ablock' = Newest /\ apc' = "put" /\ adev' = Head(queue).device
        /\ mCtrlBlocks[Head(queue).device] = NULL
    BY <1>1 DEF RunConnect
  <2>3. QED
    BY <1>1, <2>1, <2>2, Created
<1>2. ASSUME NEW c \in Blocks, OpenClone(c)
      PROVE  ~blocks'[b].original
  <2>1. /\ blocks[c].device \in attached /\ Len(blocks) < MaxBlocks
        /\ Create(blocks[c].device, FALSE)
    BY <1>2 DEF OpenClone
  <2>2. blocks[c].device \in Devices
    BY <2>1 DEF Types
  <2>3. QED
    BY <2>1, <2>2, Created
<1>3. DOMAIN blocks' = DOMAIN blocks \/ RunConnect
      \/ \E c \in Blocks : OpenClone(c)
  <2>1. CASE MainClose \/ CloseClone
    BY <2>1, Closed DEF MainClose, CloseClone, References
  <2>2. CASE UNCHANGED blocks
    BY <2>2
  <2>3. QED
    BY <2>1, <2>2, Steps DEF Apart, mapVars, ReceiveDetached, MainForget,
       Destroy, DestroyNext, DestroyEnd, Put, ForgetClone, Forget
<1>4. QED
  BY <1>1, <1>2, <1>3

LEMMA OriginalsStep ==
  ASSUME Types, Messages, References, [Next]_vars, NEW b \in Originals'
  PROVE  \/ b \in Originals /\ blocks'[b].device = blocks[b].device
         \/ /\ RunConnect /\ apc' = "put" /\ ablock' = b
            /\ blocks'[b].device \in attached
<1>1. b \in DOMAIN blocks' /\ blocks'[b].original /\ blocks'[b].open
  BY DEF Originals
<1>2. CASE b \in DOMAIN blocks
  BY <1>1, <1>2, MapTypes DEF Kept, Originals
<1>3. CASE b \notin DOMAIN blocks
  BY <1>1, <1>3, NewBlocks
<1>4. QED
  BY <1>2, <1>3

LEMMA ForgottenStep ==
  ASSUME Types, Messages, References, [Next]_vars
  PROVE  Forgotten \subseteq Forgotten'
BY MapTypes DEF Kept, Forgotten
-----------------------------------------------------------------------------
(* The references *)

LEMMA MapReferences ==
  ASSUME Types, Messages, References, [Next]_vars, NEW d \in Devices,
         mCtrlBlocks'[d] # NULL
  PROVE  /\ mCtrlBlocks'[d] \in DOMAIN blocks'
         /\ blocks'[mCtrlBlocks'[d]].device = d
<1>1. CASE mCtrlBlocks'[d] = mCtrlBlocks[d]
  BY <1>1, MapTypes DEF References, Kept
<1>2. CASE Put
  BY <1>2 DEF Put, References, Types
<1>3. CASE ReceiveDetached \/ MainForget \/ ForgetClone
           \/ \E e \in Devices : DestroyNext(e)
  BY <1>1, <1>3, NullsTypes DEF ReceiveDetached, MainForget, ForgetClone,
     Forget, DestroyNext
<1>4. CASE DestroyEnd
  BY <1>4 DEF DestroyEnd
<1>5. QED
  BY <1>1, <1>2, <1>3, <1>4, Steps DEF Apart, mapVars, MainClose,
     CloseClone, Destroy, RunConnect, OpenClone

LEMMA PutReferences ==
  ASSUME Types, Messages, References, [Next]_vars, apc' = "put"
  PROVE  /\ adev' \in Devices /\ ablock' \in DOMAIN blocks'
         /\ blocks'[ablock'].device = adev' /\ mCtrlBlocks'[adev'] = NULL
<1>1. CASE apc = "put" /\ UNCHANGED <<ablock, adev>> /\ ~Put
  <2>1. mCtrlBlocks[adev] = NULL /\ adev \in Devices
    BY <1>1 DEF References
  <2>2. mCtrlBlocks'[adev] = NULL
    <3>1. CASE UNCHANGED mCtrlBlocks
      BY <2>1, <3>1
    <3>2. CASE ReceiveDetached \/ MainForget \/ ForgetClone
               \/ \E e \in Devices : DestroyNext(e)
      BY <2>1, <3>2, NullsTypes DEF ReceiveDetached, MainForget,
         ForgetClone, Forget, DestroyNext
    <3>3. CASE DestroyEnd
      BY <2>1, <3>3 DEF DestroyEnd
    <3>4. QED
      BY <1>1, <3>1, <3>2, <3>3, Steps DEF Apart, mapVars, MainClose,
         CloseClone, Destroy, RunConnect, OpenClone
  <2>3. QED
    BY <1>1, <2>2, MapTypes DEF References, Kept
<1>2. CASE RunConnect
  <2>1. Head(queue).device \in Devices
    BY <1>2, HeadsAreDevices DEF RunConnect, Take
  <2>2. /\ Len(blocks) < MaxBlocks /\ Create(Head(queue).device, TRUE)
        /\ ablock' = Newest /\ adev' = Head(queue).device
        /\ mCtrlBlocks[Head(queue).device] = NULL /\ UNCHANGED mCtrlBlocks
    BY <1>2 DEF RunConnect
  <2>3. QED
    BY <2>1, <2>2, Created
<1>3. CASE Put
  BY <1>3 DEF Put
<1>4. QED
  BY <1>1, <1>2, <1>3, Steps DEF Apart, asyncVars, ReceiveDetached,
     MainClose, MainForget, Destroy, DestroyNext, DestroyEnd, OpenClone,
     CloseClone, ForgetClone

LEMMA MainReferences ==
  ASSUME Types, Messages, References, [Next]_vars
  PROVE  /\ mpc' \in {"close", "forget"} =>
              /\ mblock' \in DOMAIN blocks'
              /\ ~destroyed' =>
                   /\ blocks'[mblock'].device = mdev'
                   /\ mdev' \in Devices \ (attached' \cup unseen')
         /\ mpc' \in {"destroy", "ended"} => destroyed'
<1> DEFINE Goal == /\ mpc' \in {"close", "forget"} =>
                        /\ mblock' \in DOMAIN blocks'
                        /\ ~destroyed' =>
                             /\ blocks'[mblock'].device = mdev'
                             /\ mdev' \in Devices \ (attached' \cup unseen')
                   /\ mpc' \in {"destroy", "ended"} => destroyed'
<1>0. Kept /\ attached' \cup unseen' \subseteq attached \cup unseen
  BY MapTypes, WorldTypes
<1>1. CASE /\ mpc' = mpc \/ mpc' \in {"idle", "detached"}
           /\ UNCHANGED <<mblock, mdev, destroyed>>
  BY <1>0, <1>1 DEF References, Kept
<1>2. CASE ReceiveDetached
  <2>1. CASE mpc' = "close"
    <3> DEFINE d == Head(broadcasts).device
    <3>1. /\ d \in Devices /\ mdev' = d /\ mblock' = mCtrlBlocks[d]
          /\ mCtrlBlocks[d] # NULL
      BY <1>2, <2>1, HeadsAreDevices DEF ReceiveDetached, Receive
    <3>2. d \notin attached \cup unseen
      BY <1>2, Received DEF ReceiveDetached, Receive, Messages
    <3>3. mblock' \in DOMAIN blocks /\ blocks[mblock'].device = d
      BY <3>1 DEF References
    <3> HIDE DEF d
    <3>4. QED
      BY <1>0, <2>1, <3>1, <3>2, <3>3 DEF Kept
  <2>2. CASE mpc' # "close"
    BY <1>2, <2>2 DEF ReceiveDetached
  <2>3. QED
    BY <2>1, <2>2
<1>3. CASE MainClose
  <2>1. mdev # NULL \/ destroyed
    BY <1>3, MonitorAssumption DEF MainClose, References
  <2>2. UNCHANGED <<mblock, mdev, destroyed>>
    BY <1>3 DEF MainClose, stateVars
  <2>3. CASE mpc' = "forget"
    BY <1>0, <1>3, <2>2, <2>3 DEF MainClose, References, Kept
  <2>4. CASE mpc' # "forget"
    BY <1>3, <2>1, <2>2, <2>4 DEF MainClose
  <2>5. QED
    BY <2>3, <2>4
<1>4. CASE MainForget
  BY <1>4, MonitorAssumption DEF MainForget, References, stateVars
<1>5. CASE Destroy
  BY <1>5 DEF Destroy
<1>6. ASSUME NEW d \in Devices, DestroyNext(d) PROVE Goal
  <2>1. destroyed' /\ destroyed
    BY <1>6 DEF DestroyNext, References, stateVars
  <2>2. mpc' = "close" => mblock' \in DOMAIN blocks /\ UNCHANGED blocks
    BY <1>6 DEF DestroyNext, References
  <2>3. QED
    BY <1>6, <2>1, <2>2 DEF DestroyNext
<1>7. CASE DestroyEnd
  BY <1>7 DEF DestroyEnd, References
<1>8. CASE Apart
  BY <1>1, <1>8 DEF Apart
<1>9. CASE \/ RunConnect \/ Put \/ (\E b \in Blocks : OpenClone(b))
           \/ CloseClone \/ ForgetClone
  BY <1>1, <1>9 DEF RunConnect, Put, OpenClone, CloseClone, ForgetClone,
     mainVars, stateVars
<1>10. QED
  BY <1>2, <1>3, <1>4, <1>5, <1>6, <1>7, <1>8, <1>9, Steps

LEMMA CloneReferences ==
  ASSUME Types, Messages, References, [Next]_vars
  PROVE  /\ clone' # NULL =>
              clone' \in DOMAIN blocks' /\ ~blocks'[clone'].original
         /\ cpc' = "forget" => clone' # NULL /\ ~blocks'[clone'].open
<1> DEFINE Goal == /\ clone' # NULL => /\ clone' \in DOMAIN blocks'
                                       /\ ~blocks'[clone'].original
                   /\ cpc' = "forget" =>
                        clone' # NULL /\ ~blocks'[clone'].open
<1>0. Kept
  BY MapTypes
<1>1. CASE UNCHANGED <<cpc, clone>>
  BY <1>0, <1>1 DEF References, Kept
<1>2. ASSUME NEW b \in Blocks, OpenClone(b) PROVE Goal
  <2>1. CASE UNCHANGED clone
    BY <1>1, <1>2, <2>1 DEF OpenClone
  <2>2. CASE ~UNCHANGED clone
    <3>1. /\ blocks[b].device \in attached /\ Len(blocks) < MaxBlocks
          /\ Create(blocks[b].device, FALSE) /\ clone' = Newest
          /\ cpc' = "idle"
      BY <1>2, <2>2 DEF OpenClone
    <3>2. blocks[b].device \in Devices
      BY <3>1 DEF Types
    <3>3. QED
      BY <3>1, <3>2, Created
  <2>3. QED
    BY <2>1, <2>2
<1>3. CASE CloseClone
  BY <1>0, <1>3, Closed DEF CloseClone, References
<1>4. CASE ForgetClone
  BY <1>4 DEF ForgetClone
<1>5. CASE Apart
  BY <1>1, <1>5 DEF Apart
<1>6. CASE \/ ReceiveDetached \/ MainClose \/ MainForget \/ Destroy
           \/ (\E d \in Devices : DestroyNext(d)) \/ DestroyEnd
           \/ RunConnect \/ Put
  BY <1>1, <1>6 DEF ReceiveDetached, MainClose, MainForget, Destroy,
     DestroyNext, DestroyEnd, RunConnect, Put, cameraVars
<1>7. QED
  BY <1>2, <1>3, <1>4, <1>5, <1>6, Steps

LEMMA ReferencesStep ==
  ASSUME Types, Messages, References, [Next]_vars PROVE References'
BY MapReferences, PutReferences, MainReferences, CloneReferences
   DEF References
-----------------------------------------------------------------------------
(* The open blocks *)

\* Once the monitor is destroyed it stays so.
LEMMA DestroyedStays ==
  ASSUME Types, [Next]_vars, ~destroyed'
  PROVE  ~destroyed /\ ~Destroy
<1>1. ~Destroy
  BY DEF Destroy
<1>2. UNCHANGED destroyed
  BY <1>1, Steps DEF Apart, stateVars, ReceiveDetached, MainClose,
     MainForget, DestroyNext, DestroyEnd, RunConnect, Put, OpenClone,
     CloseClone, ForgetClone
<1>3. QED
  BY <1>1, <1>2

LEMMA KnownStep ==
  ASSUME Types, Messages, References, Known, Closing, [Next]_vars,
         ~destroyed',
         NEW b \in Originals'
  PROVE  \/ blocks'[b].device \in Forgotten'
         \/ mCtrlBlocks'[blocks'[b].device] = b
         \/ apc' = "put" /\ b = ablock'
         \/ mpc' = "close" /\ b = mblock'
<1> DEFINE Goal == \/ blocks'[b].device \in Forgotten'
                   \/ mCtrlBlocks'[blocks'[b].device] = b
                   \/ apc' = "put" /\ b = ablock'
                   \/ mpc' = "close" /\ b = mblock'
           dev == blocks[b].device
<1>1. ~destroyed /\ ~Destroy
  BY DestroyedStays
<1>2. CASE b \notin Originals
  BY <1>2, OriginalsStep
<1>3. CASE b \in Originals
  <2>1. /\ blocks'[b].device = dev /\ dev \in Devices
        /\ Forgotten \subseteq Forgotten'
        /\ b \in DOMAIN blocks /\ b # NULL /\ b \in DOMAIN blocks'
        /\ blocks'[b].open
    <3>1. b \in DOMAIN blocks /\ b \in DOMAIN blocks' /\ blocks'[b].open
      BY <1>3 DEF Originals
    <3>2. blocks[b] \in Block /\ b # NULL
      BY <3>1, BlockIds
    <3>3. QED
      BY <3>1, <3>2, MapTypes, ForgottenStep DEF Kept, Block
  <2>2. \/ dev \in Forgotten
        \/ mCtrlBlocks[dev] = b
        \/ apc = "put" /\ b = ablock
        \/ mpc = "close" /\ b = mblock
    BY <1>1, <1>3 DEF Known
  <2> HIDE DEF dev
  <2>3. CASE dev \in Forgotten
    BY <2>1, <2>3
  <2>4. CASE Apart
    BY <2>1, <2>2, <2>4 DEF Apart, mapVars
  <2>5. CASE ReceiveDetached
    BY <2>1, <2>2, <2>5, NullsTypes DEF ReceiveDetached, Receive, asyncVars,
       Types
  <2>6. CASE MainClose
    <3>1. ~blocks'[mblock].open
      BY <2>6, Closed DEF MainClose, References
    <3>2. QED
      BY <2>1, <2>2, <2>6, <3>1 DEF MainClose, asyncVars
  <2>7. CASE MainForget
    <3>1. mCtrlBlocks' = [mCtrlBlocks EXCEPT ![mdev] = NULL]
      BY <1>1, <2>7 DEF MainForget, Forget, References
    <3>2. CASE dev = mdev
      BY <1>1, <1>3, <2>1, <2>7, <3>2 DEF MainForget, Closing, dev
    <3>3. CASE dev # mdev
      BY <2>1, <2>2, <2>7, <3>1, <3>3, NullsTypes DEF MainForget, asyncVars
    <3>4. QED
      BY <3>2, <3>3
  <2>8. CASE RunConnect
    BY <2>1, <2>2, <2>8 DEF RunConnect, Take, mainVars
  <2>9. CASE Put
    <3>1. /\ adev \in Devices /\ blocks[ablock].device = adev
          /\ mCtrlBlocks[adev] = NULL
          /\ mCtrlBlocks' = [mCtrlBlocks EXCEPT ![adev] = ablock]
      BY <2>9 DEF Put, References
    <3>2. CASE b = ablock
      BY <2>1, <3>1, <3>2 DEF Types, dev
    <3>3. CASE mCtrlBlocks[dev] = b
      BY <2>1, <3>1, <3>3 DEF Types
    <3>4. QED
      BY <2>1, <2>2, <2>9, <3>2, <3>3 DEF Put, mainVars
  <2>10. CASE (\E c \in Blocks : OpenClone(c)) \/ CloseClone
    BY <2>1, <2>2, <2>10 DEF OpenClone, CloseClone, asyncVars, mainVars
  <2>11. CASE ForgetClone
    <3>1. blocks[clone].device \in Forgotten
      BY <2>11 DEF ForgetClone, References, Forgotten
    <3>2. mCtrlBlocks'
            = [mCtrlBlocks EXCEPT ![blocks[clone].device] = NULL]
      BY <2>11 DEF ForgetClone, Forget
    <3>3. QED
      BY <2>1, <2>2, <2>11, <3>1, <3>2 DEF ForgetClone, asyncVars, mainVars,
         Types
  <2>12. CASE (\E d \in Devices : DestroyNext(d)) \/ DestroyEnd
    BY <1>1, <2>12 DEF DestroyNext, DestroyEnd, References
  <2>13. QED
    BY <1>1, <2>3, <2>4, <2>5, <2>6, <2>7, <2>8, <2>9, <2>10, <2>11, <2>12,
       Steps
<1>4. QED
  BY <1>2, <1>3

LEMMA ClosingStep ==
  ASSUME Types, Messages, References, Known, Closing, [Next]_vars,
         ~destroyed', mpc' \in {"close", "forget"}, NEW b \in Originals',
         blocks'[b].device = mdev'
  PROVE  (mpc' = "close" /\ b = mblock') \/ mdev' \in Forgotten'
<1>1. ~destroyed /\ ~Destroy
  BY DestroyedStays
<1>2. b \in Originals /\ blocks[b].device = mdev'
  <2>1. mdev' \notin attached'
    BY MainReferences
  <2>2. ~RunConnect \/ UNCHANGED attached
    BY DEF RunConnect, worldVars
  <2>3. QED
    BY <2>1, <2>2, OriginalsStep
<1>3. Forgotten \subseteq Forgotten'
  BY ForgottenStep
<1>4. CASE /\ mpc \in {"close", "forget"} /\ UNCHANGED <<mblock, mdev>>
           /\ mpc = "close" => mpc' = "close"
  BY <1>1, <1>2, <1>3, <1>4 DEF Closing
<1>5. CASE ReceiveDetached
  <2>1. /\ mdev' \in Devices /\ mblock' = mCtrlBlocks[mdev']
        /\ mCtrlBlocks[mdev'] # NULL /\ mpc' = "close" /\ mpc = "idle"
    BY <1>5, HeadsAreDevices DEF ReceiveDetached, Receive
  <2>2. ~(apc = "put" /\ b = ablock)
    BY <1>2, <2>1 DEF References
  <2>3. QED
    BY <1>1, <1>2, <1>3, <2>1, <2>2 DEF Known
<1>6. CASE MainClose
  <2>1. ~blocks'[mblock].open /\ UNCHANGED <<mblock, mdev>>
    BY <1>6, Closed DEF MainClose, References
  <2>2. b # mblock
    BY <2>1 DEF Originals
  <2>3. QED
    BY <1>1, <1>2, <1>3, <1>6, <2>1, <2>2 DEF MainClose, Closing
<1>7. CASE MainForget
  BY <1>7 DEF MainForget
<1>8. CASE (\E d \in Devices : DestroyNext(d)) \/ DestroyEnd
  BY <1>1, <1>8 DEF DestroyNext, DestroyEnd, References
<1>9. CASE Apart
  BY <1>4, <1>9 DEF Apart
<1>10. CASE \/ RunConnect \/ Put \/ (\E c \in Blocks : OpenClone(c))
            \/ CloseClone \/ ForgetClone
  BY <1>4, <1>10 DEF RunConnect, Put, OpenClone, CloseClone, ForgetClone,
     mainVars
<1>11. QED
  BY <1>1, <1>5, <1>6, <1>7, <1>8, <1>9, <1>10, Steps
-----------------------------------------------------------------------------
LEMMA InitIInv == ASSUME Init PROVE IInv
<1>1. /\ blocks \in Seq(Block) /\ Len(blocks) <= MaxBlocks
      /\ mCtrlBlocks \in [Devices -> Blocks \cup {NULL}]
  BY MonitorAssumption DEF Init
<1>2. Types
  BY <1>1 DEF Init, Types
<1>3. Messages
  BY DEF Init, Messages
<1>4. References
  BY DEF Init, References
<1>5. Known /\ Closing
  BY DEF Init, Known, Closing, Originals
<1>6. QED
  BY <1>2, <1>3, <1>4, <1>5 DEF IInv

LEMMA StepIInv == ASSUME IInv, [Next]_vars PROVE IInv'
<1> USE DEF IInv
<1>1. Types' /\ Messages' /\ References'
  BY TypesStep, MessagesStep, ReferencesStep
<1>2. Known'
  BY KnownStep DEF Known
<1>3. Closing'
  BY ClosingStep DEF Closing
<1>4. QED
  BY <1>1, <1>2, <1>3

LEMMA IInvTypes == ASSUME IInv PROVE TypeOK
<1>1. blocks \in Seq([device : Devices, original : BOOLEAN, open : BOOLEAN])
  BY DEF IInv, Types, Block
<1>2. QED
  BY <1>1 DEF IInv, Types, References, TypeOK

LEMMA IInvImplies == ASSUME IInv PROVE OpenIsKnown
<1> SUFFICES ASSUME ~destroyed, NEW b \in Originals
             PROVE  \/ b \in Range(mCtrlBlocks) \cup InHand
                    \/ blocks[b].device \in Forgotten
  BY DEF OpenIsKnown
<1>1. blocks[b].device \in Devices
  BY BlockIds DEF IInv, Originals, Block
<1>2. mCtrlBlocks[blocks[b].device] = b => b \in Range(mCtrlBlocks)
  BY <1>1 DEF Range, IInv, Types
<1>3. QED
  BY <1>2 DEF IInv, Known, InHand

\* USBMonitor: the monitor's map leads from a device to a block of that
\* device, only who is plugged in has permission, and the rest has its type.
THEOREM TypeCorrect == Spec => []TypeOK
BY InitIInv, StepIInv, IInvTypes, PTL DEF Spec

\* USBMonitor: mCtrlBlocks has every open control block, or a thread is about
\* to enter or close it, or the entry went with the closing of a clone.
THEOREM OpenBlocksAreKnown == Spec => []OpenIsKnown
BY InitIInv, StepIInv, IInvImplies, PTL DEF Spec
-----------------------------------------------------------------------------
(* The answers to requests *)

\* The main thread handles broadcasts and requests only while the monitor is
\* not destroyed, and so while posting is possible.
Ended ==
    /\ destroyed => /\ ~registered /\ mpc \notin {"idle", "detached"}
                    /\ mpc \in {"close", "forget"} => mdev = NULL
    /\ ~running => destroyed

Sends(d, s) ==
    \E m \in Range(s) : m.device = d /\ m.what \in {"granted", "denied"}
Posts(d, s) ==
    \E r \in Range(s) : r.device = d /\ r.what \in {"connect", "cancel"}
Calls(d) == apc \in {"put", "onConnect"} /\ adev = d

LEMMA UnderWayIs ==
  ASSUME NEW d
  PROVE  /\ UnderWay(d) <=> \/ d \in asked \/ Sends(d, broadcasts)
                            \/ Posts(d, queue) \/ Calls(d)
         /\ UnderWay(d)' <=> \/ d \in asked' \/ Sends(d, broadcasts')
                             \/ Posts(d, queue') \/ Calls(d)'
BY DEF UnderWay, Sends, Posts, Calls

LEMMA EndedInit == ASSUME Init PROVE Ended
BY DEF Init, Ended

LEMMA EndedStep == ASSUME IInv, Ended, [Next]_vars PROVE Ended'
<1> USE DEF Ended, stateVars, mainVars
<1>0. /\ mpc \in {"close", "forget"} /\ ~destroyed => mdev # NULL
      /\ mpc = "destroy" => destroyed
      /\ mpc = "detached" => mdev # NULL
  BY MonitorAssumption DEF IInv, References, Types
<1>1. ASSUME NEW d \in Devices,
             Attach(d) \/ Detach(d) \/ Answer(d) \/ RequestPermission(d)
      PROVE  Ended'
  BY <1>1 DEF Attach, Detach, Answer, RequestPermission
<1>2. CASE Register \/ Unregister \/ Destroy
  BY <1>2 DEF Register, Unregister, Destroy, DoUnregister
<1>3. CASE Destroying
  BY <1>0, <1>3 DEF Destroying, DestroyEnd, DestroyNext
<1>4. CASE ReceivePermission \/ ReceiveAttached \/ ReceiveDetached
  BY <1>4 DEF ReceivePermission, ReceiveAttached, ReceiveDetached, Receive
<1>5. CASE MainClose \/ MainForget \/ ReceiveDetachedEnd
  BY <1>0, <1>5 DEF MainClose, MainForget, ReceiveDetachedEnd
<1>6. CASE UNCHANGED <<stateVars, mainVars>>
  BY <1>6
<1>7. AsyncThread => UNCHANGED <<stateVars, mainVars>>
  BY DEF AsyncThread, RunListener, RunCancel, RunConnect, Put, OnConnect,
     CheckDevices, CheckPermissions, CheckReport
<1>8. \/ (\E b \in Blocks : OpenClone(b)) \/ CloseClone \/ ForgetClone
      \/ UNCHANGED vars
      => UNCHANGED <<stateVars, mainVars>>
  BY DEF OpenClone, CloseClone, ForgetClone, vars
<1>9. QED
  BY <1>1, <1>2, <1>3, <1>4, <1>5, <1>6, <1>7, <1>8 DEF Next, Receiver

LEMMA RangeAppended ==
  ASSUME NEW S, NEW s \in Seq(S), NEW m \in S
  PROVE  /\ m \in Range(Append(s, m))
         /\ \A x \in Range(s) : x \in Range(Append(s, m))
<1>1. /\ DOMAIN s = 1 .. Len(s) /\ Len(s) \in Nat
      /\ DOMAIN Append(s, m) = 1 .. Len(s) + 1
      /\ Append(s, m)[Len(s) + 1] = m
      /\ \A i \in 1 .. Len(s) : Append(s, m)[i] = s[i]
  OBVIOUS
<1>2. QED
  BY <1>1 DEF Range

LEMMA RangeJoined ==
  ASSUME NEW S, NEW s \in Seq(S), NEW t \in Seq(S)
  PROVE  \A x \in Range(s) : x \in Range(s \o t)
<1>1. /\ DOMAIN s = 1 .. Len(s) /\ Len(s) \in Nat /\ Len(t) \in Nat
      /\ DOMAIN (s \o t) = 1 .. Len(s) + Len(t)
      /\ \A i \in 1 .. Len(s) : (s \o t)[i] = s[i]
  OBVIOUS
<1>2. QED
  BY <1>1 DEF Range

LEMMA RangeTail ==
  ASSUME NEW S, NEW s \in Seq(S), s # <<>>
  PROVE  \A x \in Range(s) : x = Head(s) \/ x \in Range(Tail(s))
<1>1. /\ DOMAIN s = 1 .. Len(s) /\ Len(s) \in Nat /\ Head(s) = s[1]
      /\ DOMAIN Tail(s) = 1 .. Len(s) - 1
      /\ \A i \in 1 .. Len(s) - 1 : Tail(s)[i] = s[i + 1]
  OBVIOUS
<1>2. ASSUME NEW i \in 1 .. Len(s), i # 1
      PROVE  /\ i - 1 \in 1 .. Len(s) - 1
             /\ s[i] = Tail(s)[i - 1]
  <2>1. /\ Len(s) \in Nat /\ i \in Int /\ 1 <= i /\ i <= Len(s)
    BY <1>1
  <2>2. i - 1 \in 1 .. Len(s) - 1 /\ (i - 1) + 1 = i
    BY <1>2, <2>1
  <2>3. QED
    BY <1>1, <2>2
<1>3. ASSUME NEW x \in Range(s), x # Head(s)
      PROVE  x \in Range(Tail(s))
  <2>1. PICK i \in 1 .. Len(s) : x = s[i]
    BY <1>1 DEF Range
  <2>2. i # 1
    BY <1>1, <1>3, <2>1
  <2>3. QED
    BY <1>1, <1>2, <2>1, <2>2 DEF Range
<1>4. QED
  BY <1>3

LEMMA PostKeeps ==
  ASSUME Messages, NEW d \in Devices,
         NEW w \in {"attach", "dettach", "connect", "cancel"},
         Post([what |-> w, device |-> d])
  PROVE  /\ \A e : Posts(e, queue) => Posts(e, queue')
         /\ running /\ w \in {"connect", "cancel"} => Posts(d, queue')
<1> DEFINE m == [what |-> w, device |-> d]
<1>1. m \in Posted /\ m.what = w /\ m.device = d
  BY DEF Posted
<1>2. queue' = IF running THEN Append(queue, m) ELSE queue
  BY DEF Post
<1> HIDE DEF m
<1>3. QED
  BY <1>1, <1>2, RangeAppended DEF Messages, Posts

\* What the steps of the main thread and the asynchronous one leave to do.
LEMMA AnswersMove ==
  ASSUME IInv, Ended, [Next]_vars, NEW d \in unanswered', UnderWay(d)
  PROVE  UnderWay(d)' \/ ~registered'
<1> USE UnderWayIs
<1>0. /\ Messages /\ Types
      /\ mpc = "idle" => running /\ (destroyed => FALSE)
      /\ mpc = "detached" => running
  BY DEF IInv, Ended
<1>1. CASE /\ UNCHANGED <<asked, broadcasts, apc, adev>>
           /\ Posts(d, queue) => Posts(d, queue')
  BY <1>1 DEF Calls
<1>2. ASSUME NEW e \in Devices, Attach(e) \/ Detach(e) \/ Answer(e)
      PROVE  UnderWay(d)' \/ ~registered'
  <2>1. UNCHANGED <<queue, apc, adev, registered>>
    BY <1>2 DEF Attach, Detach, Answer, asyncVars, stateVars
  <2>2. ASSUME NEW m \in Sent, Broadcast(m)
        PROVE  /\ Sends(d, broadcasts) => Sends(d, broadcasts')
               /\ registered => m \in Range(broadcasts')
    BY <1>0, <2>2, RangeAppended DEF Broadcast, Messages, Sends
  <2>3. CASE Attach(e)
    <3>1. [what |-> "attached", device |-> e] \in Sent
      BY DEF Sent
    <3>2. UNCHANGED asked /\ (Sends(d, broadcasts) => Sends(d, broadcasts'))
      BY <2>2, <2>3, <3>1 DEF Attach
    <3>3. QED
      BY <2>1, <3>2 DEF Calls
  <2>4. CASE Detach(e)
    <3>1. [what |-> "detached", device |-> e] \in Sent
      BY DEF Sent
    <3>2. UNCHANGED asked /\ (Sends(d, broadcasts) => Sends(d, broadcasts'))
      BY <2>2, <2>4, <3>1 DEF Detach
    <3>3. QED
      BY <2>1, <3>2 DEF Calls
  <2>5. CASE Answer(e)
    <3>1. PICK granted \in BOOLEAN :
            Broadcast([what |-> IF granted THEN "granted" ELSE "denied",
                       device |-> e])
      BY <2>5 DEF Answer
    <3> DEFINE m == [what |-> IF granted THEN "granted" ELSE "denied",
                     device |-> e]
    <3>2. m \in Sent /\ m.device = e /\ m.what \in {"granted", "denied"}
      BY DEF Sent
    <3>3. Broadcast(m)
      BY <3>1
    <3> HIDE DEF m
    <3>4. /\ Sends(d, broadcasts) => Sends(d, broadcasts')
          /\ registered => Sends(e, broadcasts')
      BY <2>2, <3>2, <3>3 DEF Sends
    <3>5. d \in asked => d = e \/ d \in asked'
      BY <2>5 DEF Answer
    <3>6. QED
      BY <2>1, <3>4, <3>5 DEF Calls
  <2>6. QED
    BY <1>2, <2>3, <2>4, <2>5
<1>3. ASSUME NEW e \in Devices, RequestPermission(e)
      PROVE  UnderWay(d)' \/ ~registered'
  <2>1. /\ UNCHANGED <<broadcasts, apc, adev>>
        /\ d \in asked => d \in asked'
    BY <1>3 DEF RequestPermission, asyncVars
  <2>2. Posts(d, queue) => Posts(d, queue')
    BY <1>0, <1>3, PostKeeps DEF RequestPermission, ProcessCancel,
       ProcessConnect
  <2>3. QED
    BY <2>1, <2>2 DEF Calls
<1>4. CASE Unregister \/ Destroy
  BY <1>4 DEF Unregister, Destroy, DoUnregister
<1>5. CASE DestroyEnd
  BY <1>5 DEF DestroyEnd, IInv, References, Ended
<1>6. CASE ReceivePermission
  <2>1. /\ mpc = "idle" /\ broadcasts # <<>> /\ broadcasts' = Tail(broadcasts)
        /\ Head(broadcasts).what \in {"granted", "denied"}
        /\ UNCHANGED <<asked, apc, adev>>
    BY <1>6 DEF ReceivePermission, Receive, worldVars, asyncVars
  <2>2. Head(broadcasts).device \in Devices
    BY <1>0, <2>1, HeadsAreDevices
  <2>3. /\ Posts(d, queue) => Posts(d, queue')
        /\ Posts(Head(broadcasts).device, queue')
    BY <1>0, <1>6, <2>1, <2>2, PostKeeps DEF ReceivePermission,
       ProcessConnect, ProcessCancel
  <2>4. Sends(d, broadcasts)
          => d = Head(broadcasts).device \/ Sends(d, broadcasts')
    BY <1>0, <2>1, RangeTail DEF Sends, Messages
  <2>5. QED
    BY <2>1, <2>3, <2>4 DEF Calls
<1>7. CASE ReceiveAttached \/ ReceiveDetached
  <2>1. /\ mpc = "idle" /\ broadcasts # <<>> /\ broadcasts' = Tail(broadcasts)
        /\ Head(broadcasts).what \in {"attached", "detached"}
        /\ UNCHANGED <<asked, apc, adev>>
    BY <1>7 DEF ReceiveAttached, ReceiveDetached, Receive, worldVars,
       asyncVars
  <2>2. Head(broadcasts).device \in Devices
    BY <1>0, <2>1, HeadsAreDevices
  <2>3. Posts(d, queue) => Posts(d, queue')
    BY <1>0, <1>7, <2>1, <2>2, PostKeeps DEF ReceiveAttached, ReceiveDetached
  <2>4. Sends(d, broadcasts) => Sends(d, broadcasts')
    BY <1>0, <2>1, RangeTail DEF Sends, Messages
  <2>5. QED
    BY <2>1, <2>3, <2>4 DEF Calls
<1>8. CASE ReceiveDetachedEnd
  <2>1. mdev \in Devices /\ UNCHANGED <<asked, broadcasts, apc, adev>>
    BY <1>0, <1>8 DEF ReceiveDetachedEnd, Types, worldVars, asyncVars
  <2>2. QED
    BY <1>0, <1>1, <1>8, <2>1, PostKeeps DEF ReceiveDetachedEnd
<1>9. CASE RunListener \/ RunCancel \/ RunConnect
  <2>1. /\ queue # <<>> /\ queue' = Tail(queue) /\ apc = "idle"
        /\ UNCHANGED <<asked, broadcasts>>
    BY <1>9 DEF RunListener, RunCancel, RunConnect, Take, worldVars
  <2>2. Posts(d, queue) => Posts(d, queue')
                           \/ (Head(queue).device = d
                               /\ Head(queue).what \in {"connect", "cancel"})
    BY <1>0, <2>1, RangeTail DEF Posts, Messages
  <2>3. ~(RunCancel /\ Head(queue).device = d)
    BY DEF RunCancel
  <2>4. CASE RunConnect
    BY <2>1, <2>2, <2>4 DEF RunConnect, Calls
  <2>5. CASE RunListener \/ RunCancel
    BY <2>1, <2>2, <2>3, <2>5 DEF RunListener, RunCancel, Take, Calls
  <2>6. QED
    BY <1>9, <2>4, <2>5
<1>10. CASE Put \/ OnConnect
  BY <1>10 DEF Put, OnConnect, worldVars, Calls
<1>11. CASE CheckDevices \/ CheckPermissions
  BY <1>11 DEF CheckDevices, CheckPermissions, worldVars, Calls
<1>12. CASE CheckReport
  <2>1. UNCHANGED <<asked, broadcasts, adev>> /\ ~Calls(d)
    BY <1>12 DEF CheckReport, worldVars, Calls
  <2>2. Posts(d, queue) => Posts(d, queue')
    <3>1. CASE UNCHANGED queue
      BY <3>1
    <3>2. CASE ~UNCHANGED queue
      <4>1. PICK order \in [1 .. Cardinality(snapshot) -> snapshot] :
              queue' = queue \o [i \in DOMAIN order |->
                                   [what |-> "attach", device |-> order[i]]]
        BY <1>12, <3>2 DEF CheckReport
      <4>2. Cardinality(snapshot) \in Nat
        BY <1>0, FS_Subset, FS_CardinalityType, MonitorAssumption DEF Types
      <4> DEFINE tell == [i \in DOMAIN order |->
                            [what |-> "attach", device |-> order[i]]]
      <4>3. tell \in [1 .. Cardinality(snapshot) -> Posted]
        BY <1>0 DEF Posted, Types
      <4>4. queue' = queue \o tell
        BY <4>1
      <4> HIDE DEF tell
      <4>5. tell \in Seq(Posted)
        BY <4>2, <4>3
      <4>6. QED
        BY <1>0, <4>4, <4>5, RangeJoined DEF Posts, Messages
    <3>3. QED
      BY <3>1, <3>2
  <2>3. QED
    BY <2>1, <2>2
<1>13. CASE Register \/ MainClose \/ MainForget
            \/ (\E e \in Devices : DestroyNext(e))
  BY <1>1, <1>13 DEF Register, MainClose, MainForget, DestroyNext, worldVars,
     asyncVars
<1>14. CASE (\E b \in Blocks : OpenClone(b)) \/ CloseClone \/ ForgetClone
  BY <1>1, <1>14 DEF OpenClone, CloseClone, ForgetClone, worldVars, asyncVars
<1>15. CASE UNCHANGED vars
  BY <1>1, <1>15 DEF vars, worldVars, asyncVars
<1>16. QED
  BY <1>2, <1>3, <1>4, <1>5, <1>6, <1>7, <1>8, <1>9, <1>10, <1>11, <1>12,
     <1>13, <1>14, <1>15 DEF Next, Destroying, Receiver, AsyncThread

LEMMA RequestsAreTaken ==
  ASSUME IInv, Ended, [Next]_vars, NEW d \in unanswered', d \notin unanswered
  PROVE  UnderWay(d)'
<1>1. RequestPermission(d) /\ d \in Devices
  <2>1. PICK e \in Devices : RequestPermission(e)
    BY DEF Next, vars, Attach, Detach, Answer, Register, Unregister, Destroy,
       Destroying, DestroyEnd, DestroyNext, Receiver, ReceivePermission,
       ReceiveAttached, ReceiveDetached, MainClose, MainForget,
       ReceiveDetachedEnd, AsyncThread, RunListener, RunCancel, RunConnect,
       Put, OnConnect, CheckDevices, CheckPermissions, CheckReport, OpenClone,
       CloseClone, ForgetClone
  <2>2. QED
    BY <2>1 DEF RequestPermission
<1>2. Messages /\ running
  BY <1>1 DEF IInv, Ended, RequestPermission
<1>3. d \in asked' \/ Posts(d, queue')
  BY <1>1, <1>2, PostKeeps DEF RequestPermission, ProcessCancel,
     ProcessConnect
<1>4. QED
  BY <1>3, UnderWayIs

\* USBMonitor: from requestPermission to onConnect or onCancel the answer to a
\* request is never dropped while the monitor is registered.
THEOREM AnswersAreNotLost == Spec => AnswerNotLost
<1>1. IInv /\ Ended /\ [Next]_vars =>
        [\A d \in unanswered' :
           d \notin unanswered \/ UnderWay(d)
             => UnderWay(d)' \/ ~registered']_vars
  BY AnswersMove, RequestsAreTaken
<1>2. Init => IInv /\ Ended
  BY InitIInv, EndedInit
<1>3. IInv /\ Ended /\ [Next]_vars => IInv' /\ Ended'
  BY StepIInv, EndedStep
<1>4. QED
  BY <1>1, <1>2, <1>3, PTL DEF Spec, AnswerNotLost
=============================================================================
