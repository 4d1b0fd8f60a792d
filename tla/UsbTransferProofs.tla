-------------------------- MODULE UsbTransferProofs --------------------------
(***************************************************************************)
(* For every number of URBs: a transfer that libusb accepts is called back *)
(* once, for a reason that its owner knows, after all its URBs, and as     *)
(* complete only when its data is; until then there is something that      *)
(* brings it back.                                                         *)
(***************************************************************************)
EXTENDS UsbTransfer, FiniteSetTheorems, TLAPS

\* The condition under which it holds; without it it does not: a bulk
\* endpoint that stalls is one whose URBs the kernel takes with continuation.
StallsAreCut == ~BulkStalls

UrbStatuses ==
  {"ok", "short", "error", "overflow", "stall", "cancelled", "gone"}
Results == [urb : 1 .. num_urbs, status : UrbStatuses, length : 0 .. 2]

Reportable == {"completed", "error", "stall", "overflow", "no_device"}

KernelType ==
  /\ kind \in Kinds
  /\ continuation \in BOOLEAN /\ (continuation => kind = "bulk")
  /\ urb \in [Urbs -> {"none", "kernel", "ready", "retired"}]
  /\ ready \in Seq(Results)
  /\ results \in [Urbs -> UrbStatuses \cup {"none"}]
  /\ plugged \in BOOLEAN /\ polled \in BOOLEAN

PrivType ==
  /\ allocated \in BOOLEAN
  /\ num_retired \in 0 .. num_urbs
  /\ reap_action \in {"normal", "submit_failed", "cancelled", "early", "error"}
  /\ reap_status \in Reportable
  /\ transferred \in 0 .. 2 * num_retired /\ torn \in BOOLEAN
  /\ flying \in BOOLEAN /\ timed_out \in BOOLEAN

RunType ==
  /\ pc \in [Threads ->
       {"idle", "urbs", "discard", "expired", "report", "callback"}]
  /\ pc["user"] \in {"idle", "urbs", "discard"}
  /\ pc["cancel"] \in {"idle", "discard"}
  /\ pc["timer"] \in {"idle", "expired", "discard"}
  /\ pc["events"] \in {"idle", "discard", "report", "callback"}
  /\ lock \in Threads \cup {"free"}
  /\ \A t \in Threads : pc[t] \in {"urbs", "discard"} <=> lock = t
  /\ next \in 0 .. num_urbs + 1 /\ first \in 1 .. num_urbs + 1
  /\ outcome \in Reportable \cup
       {"none", "late", "cancellation", "cancelled", "timed_out"}
  /\ busy \in BOOLEAN /\ asked \in BOOLEAN

Types == KernelType /\ PrivType /\ RunType

-----------------------------------------------------------------------------
(* The URBs *)

Kernel == {i \in Urbs : WithKernel(i)}
Outstanding == {i \in Urbs : urb[i] \in {"kernel", "ready"}}

\* The URBs that wait to be reaped are those of `ready', each once.
ReadyUrbs ==
  /\ \A k \in DOMAIN ready :
       /\ urb[ready[k].urb] = "ready"
       /\ results[ready[k].urb] = ready[k].status
  /\ \A k, l \in DOMAIN ready : ready[k].urb = ready[l].urb => k = l
  /\ \A i \in Urbs : urb[i] = "ready" => \E k \in DOMAIN ready : ready[k].urb = i

\* The kernel has one run of URBs, and none above those that are discarded.
KernelUrbs ==
  /\ \E lo \in 1 .. num_urbs + 1, hi \in 0 .. num_urbs : Kernel = lo .. hi
  /\ ~plugged => Kernel = {}
  /\ \A t \in Threads : pc[t] = "discard" =>
       next <= num_urbs /\ \A i \in Kernel : i <= next

\* Every URB that was not retired will be.
Counted ==
  /\ allocated /\ pc["user"] # "urbs" =>
       num_retired + Cardinality(Outstanding) = num_urbs
  /\ pc["user"] = "urbs" =>
       /\ next \in 1 .. num_urbs + 1 /\ Outstanding = 1 .. next - 1
       /\ \A i \in next .. num_urbs : urb[i] = "none"
       /\ num_retired = 0 /\ reap_action = "normal"
       /\ reap_status = "completed" /\ ~torn
  /\ ~allocated /\ polled => Outstanding = {}

Ordered ==
  /\ Outstanding =
       num_retired + 1 .. IF pc["user"] = "urbs" THEN next - 1 ELSE num_urbs
  /\ \A k, l \in DOMAIN ready : k < l => ready[k].urb < ready[l].urb
  /\ \A k \in DOMAIN ready : \A i \in Kernel : ready[k].urb < i

\* Until something goes wrong the URBs come back in their order.
InOrder == allocated /\ reap_action = "normal" => Ordered

\* What a result says of the URBs that follow.
Lengths ==
  \A k \in DOMAIN ready :
    LET e == ready[k]
    IN  /\ e.status = "ok" => e.length = 2
        /\ e.status = "short" => e.length = 1 /\ kind = "bulk"
        /\ e.status \in {"error", "stall"} => e.length = 0
        /\ e.status = "overflow" => e.urb = num_urbs

CutShort == {"short", "error", "stall"}

\* With continuation no URB behind one that is short or fails has data.
NoSurplus ==
  continuation =>
    /\ (\E i \in Urbs : results[i] \in CutShort) => Kernel = {}
    /\ \A k \in DOMAIN ready : ready[k].length > 0 =>
         /\ \A i \in Kernel : ready[k].urb < i
         /\ \A i \in 1 .. ready[k].urb - 1 : results[i] \notin CutShort

Ends ==
  /\ \A k \in DOMAIN ready :
       /\ ready[k].status = "stall" /\ kind = "bulk" =>
            continuation /\ Kernel = {}
       /\ ready[k].status = "gone" => ~plugged
  /\ reap_action = "normal" =>
       \A t \in Threads : pc[t] = "discard" => Kernel = {}
  /\ pc["events"] = "discard" => kind = "bulk"

\* A control transfer has one URB, which is cancelled only with it.
ControlCancelled ==
  kind = "control" =>
    /\ ~torn /\ reap_action \in {"normal", "cancelled"}
    /\ pc["user"] # "discard"
    /\ \/ \A t \in Threads : pc[t] # "discard"
       \/ reap_action = "cancelled"
    /\ \A k \in DOMAIN ready :
         ready[k].status = "cancelled" => reap_action = "cancelled"

UrbInv == ReadyUrbs /\ KernelUrbs /\ Counted /\ InOrder /\ Lengths
          /\ NoSurplus /\ Ends /\ ControlCancelled

-----------------------------------------------------------------------------
(* The owner *)

Owner ==
  /\ pc["user"] # "idle" => ~busy /\ allocated /\ pc["timer"] = "idle"
  /\ allocated => flying /\ polled
  /\ ~polled => ~plugged
  /\ flying /\ pc["user"] = "idle" => busy
  /\ allocated => pc["events"] \in {"idle", "discard"}
  /\ ~busy => ~asked
  /\ pc["events"] \in {"report", "callback"} => busy
  /\ pc["events"] = "callback" => ~flying

\* A transfer that ends as cancelled was cancelled, or has expired.
Cancelled ==
  /\ pc["timer"] = "expired" => timed_out
  /\ busy \/ pc["user"] # "idle" =>
       (reap_action = "cancelled" => asked \/ timed_out)
  /\ pc["events"] = "report" =>
       /\ outcome \in Reportable \cup {"late", "cancellation"}
       /\ outcome = "cancellation" => asked \/ timed_out
  /\ pc["events"] = "callback" =>
       /\ outcome \in Reportable \cup {"cancelled", "timed_out"}
       /\ outcome = "cancelled" => asked

OwnerInv == Owner /\ Cancelled

-----------------------------------------------------------------------------
(* The data *)

\* What CompletedIsComplete asks of a transfer that the kernel has taken whole.
Whole ==
  \/ continuation /\ \E i \in 1 .. num_urbs : urb[i] = "none"
  \/ /\ ~torn
     /\ \E end \in 1 .. num_urbs :
          /\ \A i \in 1 .. end : urb[i] = "retired"
          /\ \A i \in 1 .. end - 1 : results[i] = "ok"
          /\ \/ results[end] = "short"
             \/ results[end] = "ok" /\ end = num_urbs
          /\ \/ transferred = Received(end)
             \/ /\ ~continuation /\ end < num_urbs
                /\ transferred > Received(end)

Clean == kind = "bulk" /\ reap_status = "completed"

Data ==
  /\ allocated /\ Clean /\ reap_action = "normal" =>
       /\ ~torn /\ transferred = 2 * num_retired
       /\ \A i \in 1 .. num_retired : urb[i] = "retired" /\ results[i] = "ok"
       /\ \A k \in DOMAIN ready : ready[k].status = "cancelled" =>
            \E l \in 1 .. k - 1 : ready[l].status \in {"short", "error", "stall"}
  /\ allocated /\ Clean /\ reap_action = "early" => Whole
  /\ pc["events"] = "report" =>
       /\ outcome = "late" => kind = "bulk"
       /\ outcome = "late" /\ reap_status = "completed" => Whole
       /\ outcome = "completed" => kind # "bulk" /\ (kind = "control" => Whole)
  /\ pc["events"] = "callback" /\ outcome = "completed" /\ kind # "iso" => Whole

IInv == Types /\ UrbInv /\ OwnerInv /\ Data
-----------------------------------------------------------------------------
(* The kernel *)

\* The results in s are of URBs that the kernel has, each once.
Finishes(s) ==
  /\ s \in Seq(Results)
  /\ \A k \in DOMAIN s : s[k].urb \in Kernel
  /\ \A k, l \in DOMAIN s : s[k].urb = s[l].urb => k = l

LEMMA NumUrbsType == num_urbs \in Nat \ {0} /\ num_urbs <= NumUrbs
  BY UsbTransferAssumption DEF num_urbs

LEMMA UrbsBefore ==
  ASSUME NEW u \in Urbs
  PROVE  \A i \in 1 .. u - 1 : i \in Urbs /\ i < u
  BY UsbTransferAssumption DEF Urbs

LEMMA Concatenation ==
  ASSUME NEW S, NEW s \in Seq(S), NEW t \in Seq(S)
  PROVE  /\ s \o t \in Seq(S) /\ Len(s \o t) = Len(s) + Len(t)
         /\ DOMAIN (s \o t) = 1 .. Len(s) + Len(t)
         /\ \A k \in 1 .. Len(s) : (s \o t)[k] = s[k]
         /\ \A k \in 1 .. Len(t) : (s \o t)[Len(s) + k] = t[k]
         /\ \A k \in 1 .. Len(s) + Len(t) :
              k \in 1 .. Len(s) \/ k - Len(s) \in 1 .. Len(t)
  OBVIOUS

LEMMA ReadyResults ==
  ASSUME KernelType
  PROVE  /\ Len(ready) \in Nat /\ DOMAIN ready = 1 .. Len(ready)
         /\ \A k \in DOMAIN ready :
              /\ ready[k] \in Results
              /\ ready[k].urb \in Urbs /\ ready[k].urb \in 1 .. num_urbs
<1>1. Len(ready) \in Nat /\ DOMAIN ready = 1 .. Len(ready)
  BY DEF KernelType
<1>2. \A k \in DOMAIN ready : ready[k] \in Results
  BY DEF KernelType
<1>3. \A e \in Results : e.urb \in 1 .. num_urbs /\ e.urb \in Urbs
  BY NumUrbsType, UsbTransferAssumption DEF Results, Urbs
<1>4. QED
  BY <1>1, <1>2, <1>3

\* What Finish does to the URBs.
LEMMA FinishUrbs ==
  ASSUME KernelType, NEW s, Finishes(s), Finish(s)
  PROVE  /\ urb' \in [Urbs -> {"none", "kernel", "ready", "retired"}]
         /\ results' \in [Urbs -> UrbStatuses \cup {"none"}]
         /\ \A k \in DOMAIN s : /\ urb'[s[k].urb] = "ready"
                               /\ results'[s[k].urb] = s[k].status
         /\ \A i \in Urbs : (\A k \in DOMAIN s : s[k].urb # i) =>
              urb'[i] = urb[i] /\ results'[i] = results[i]
<1> DEFINE S == {s[k] : k \in DOMAIN s}
           R(i) == CHOOSE r \in S : r.urb = i
<1>1. \A k \in DOMAIN s : s[k] \in Results /\ s[k].urb \in Urbs
  BY DEF Finishes, Kernel
<1>2. \A k \in DOMAIN s : R(s[k].urb) = s[k]
  <2> SUFFICES ASSUME NEW k \in DOMAIN s PROVE R(s[k].urb) = s[k]
    OBVIOUS
  <2>1. s[k] \in S
    OBVIOUS
  <2>2. R(s[k].urb) \in S /\ R(s[k].urb).urb = s[k].urb
    BY <2>1
  <2>3. PICK l \in DOMAIN s : R(s[k].urb) = s[l]
    BY <2>2
  <2>4. QED
    BY <2>2, <2>3 DEF Finishes
<1>3. \A i \in Urbs : results'[i] = IF \E k \in DOMAIN s : s[k].urb = i
                                    THEN R(i).status ELSE results[i]
  BY Zenon DEF Finish
<1>4. \A i \in Urbs : urb'[i] = IF \E k \in DOMAIN s : s[k].urb = i
                                THEN "ready" ELSE urb[i]
  BY Zenon DEF Finish
<1>5. results' = [i \in Urbs |-> results'[i]] /\ urb' = [i \in Urbs |-> urb'[i]]
  <2>1. results' \in [Urbs -> {results'[i] : i \in Urbs}]
    BY DEF Finish
  <2>2. urb' \in [Urbs -> {urb'[i] : i \in Urbs}]
    BY DEF Finish
  <2>3. QED
    BY <2>1, <2>2
<1> HIDE DEF R, S
<1>6. \A k \in DOMAIN s : urb'[s[k].urb] = "ready"
                         /\ results'[s[k].urb] = s[k].status
  BY <1>1, <1>2, <1>3, <1>4
<1>7. \A i \in Urbs : (\A k \in DOMAIN s : s[k].urb # i) =>
        urb'[i] = urb[i] /\ results'[i] = results[i]
  BY <1>3, <1>4
<1>8. \A i \in Urbs : results'[i] \in UrbStatuses \cup {"none"}
  BY <1>1, <1>2, <1>3 DEF KernelType, Results
<1>9. \A i \in Urbs : urb'[i] \in {"none", "kernel", "ready", "retired"}
  BY <1>4 DEF KernelType
<1>10. QED
  BY <1>5, <1>6, <1>7, <1>8, <1>9

LEMMA FinishReady ==
  ASSUME KernelType, ReadyUrbs, NEW s, Finishes(s), Finish(s)
  PROVE  /\ ready' \in Seq(Results) /\ ReadyUrbs'
         /\ Outstanding' = Outstanding
         /\ Kernel' = Kernel \ {s[k].urb : k \in DOMAIN s}
         /\ Len(ready') = Len(ready) + Len(s)
         /\ \A k \in 1 .. Len(ready) : ready'[k] = ready[k]
         /\ \A k \in 1 .. Len(s) : ready'[Len(ready) + k] = s[k]
<1>1. /\ ready' \in Seq(Results) /\ Len(ready') = Len(ready) + Len(s)
      /\ \A k \in 1 .. Len(ready) : ready'[k] = ready[k]
      /\ \A k \in 1 .. Len(s) : ready'[Len(ready) + k] = s[k]
  BY Concatenation DEF Finish, Finishes, KernelType
<1>2. /\ Len(ready) \in Nat /\ DOMAIN ready = 1 .. Len(ready)
      /\ Len(s) \in Nat /\ DOMAIN s = 1 .. Len(s)
      /\ DOMAIN ready' = 1 .. Len(ready')
  BY <1>1 DEF Finishes, KernelType
<1>3. \A k \in DOMAIN ready' : \/ k \in DOMAIN ready /\ ready'[k] = ready[k]
                               \/ /\ k - Len(ready) \in DOMAIN s
                                  /\ ready'[k] = s[k - Len(ready)]
  <2> SUFFICES ASSUME NEW k \in DOMAIN ready', ~(k \in 1 .. Len(ready))
               PROVE  k - Len(ready) \in 1 .. Len(s)
                      /\ ready'[k] = s[k - Len(ready)]
    BY <1>1, <1>2
  <2>1. k - Len(ready) \in 1 .. Len(s) /\ Len(ready) + (k - Len(ready)) = k
    BY <1>1, <1>2
  <2>2. QED
    BY <1>1, <2>1
<1>4. \A k \in DOMAIN ready : urb[ready[k].urb] = "ready" /\ ready[k].urb \in Urbs
  BY ReadyResults DEF ReadyUrbs
<1>5. \A k \in DOMAIN s : urb[s[k].urb] = "kernel" /\ s[k].urb \in Urbs
  BY DEF Finishes, Kernel, WithKernel
<1>6. \A k \in DOMAIN ready, l \in DOMAIN s : ready[k].urb # s[l].urb
  BY <1>4, <1>5
<1>7. \A k \in DOMAIN ready' : /\ urb'[ready'[k].urb] = "ready"
                               /\ results'[ready'[k].urb] = ready'[k].status
  BY <1>3, <1>4, <1>6, FinishUrbs DEF ReadyUrbs
<1>8. \A k, l \in DOMAIN ready' : ready'[k].urb = ready'[l].urb => k = l
  <2> SUFFICES ASSUME NEW k \in DOMAIN ready', NEW l \in DOMAIN ready',
                      ready'[k].urb = ready'[l].urb
               PROVE  k = l
    OBVIOUS
  <2>1. CASE k \in DOMAIN ready /\ l \in DOMAIN ready
    BY <1>1, <1>2, <2>1 DEF ReadyUrbs
  <2>2. CASE k \notin DOMAIN ready /\ l \notin DOMAIN ready
    <3>1. k - Len(ready) = l - Len(ready)
      BY <1>3, <2>2 DEF Finishes
    <3>2. QED
      BY <1>2, <3>1
  <2>3. CASE (k \in DOMAIN ready) # (l \in DOMAIN ready)
    BY <1>1, <1>2, <1>3, <1>6, <2>3
  <2>4. QED
    BY <2>1, <2>2, <2>3
<1>9. \A i \in Urbs : urb'[i] = "ready" =>
        \E k \in DOMAIN ready' : ready'[k].urb = i
  <2> SUFFICES ASSUME NEW i \in Urbs, urb'[i] = "ready"
               PROVE  \E k \in DOMAIN ready' : ready'[k].urb = i
    OBVIOUS
  <2>1. CASE \E k \in DOMAIN s : s[k].urb = i
    <3>1. PICK k \in DOMAIN s : s[k].urb = i
      BY <2>1
    <3>2. Len(ready) + k \in DOMAIN ready' /\ ready'[Len(ready) + k] = s[k]
      BY <1>1, <1>2
    <3>3. QED
      BY <3>1, <3>2
  <2>2. CASE ~\E k \in DOMAIN s : s[k].urb = i
    <3>1. urb[i] = "ready"
      BY <2>2, FinishUrbs
    <3>2. PICK k \in DOMAIN ready : ready[k].urb = i
      BY <3>1 DEF ReadyUrbs
    <3>3. k \in DOMAIN ready' /\ ready'[k] = ready[k]
      BY <1>1, <1>2
    <3>4. QED
      BY <3>2, <3>3
  <2>3. QED
    BY <2>1, <2>2
<1>10. ReadyUrbs'
  BY <1>7, <1>8, <1>9 DEF ReadyUrbs
<1>11. \A i \in Urbs : (\E k \in DOMAIN s : s[k].urb = i) => urb'[i] = "ready"
  BY FinishUrbs
<1>12. Outstanding' = Outstanding
  <2>1. \A i \in Urbs : urb'[i] \in {"kernel", "ready"}
                        <=> urb[i] \in {"kernel", "ready"}
    BY <1>5, FinishUrbs
  <2>2. QED
    BY <2>1 DEF Outstanding, Urbs
<1>13. Kernel' = Kernel \ {s[k].urb : k \in DOMAIN s}
  <2>1. \A i \in Urbs : urb'[i] = "kernel"
          <=> urb[i] = "kernel" /\ ~\E k \in DOMAIN s : s[k].urb = i
    BY <1>5, FinishUrbs
  <2>2. QED
    BY <2>1 DEF Kernel, WithKernel, Urbs
<1>14. QED
  BY <1>1, <1>10, <1>12, <1>13

\* The URBs of s are the next ones that the kernel would finish.
InTurn(s) ==
  /\ \A k, l \in DOMAIN s : k < l => s[k].urb < s[l].urb
  /\ \A k \in DOMAIN s : \A j \in Kernel \ {s[l].urb : l \in DOMAIN s} :
       s[k].urb < j

\* What is still there to be finished after s is one run.
LEMMA FinishRun ==
  ASSUME NEW s, s \in Seq(Results), \A k \in DOMAIN s : s[k].urb \in Kernel,
         InTurn(s),
         \E lo \in 1 .. num_urbs + 1, hi \in 0 .. num_urbs : Kernel = lo .. hi
  PROVE  \E lo \in 1 .. num_urbs + 1, hi \in 0 .. num_urbs :
           Kernel \ {s[k].urb : k \in DOMAIN s} = lo .. hi
<1>1. PICK lo \in 1 .. num_urbs + 1, hi \in 0 .. num_urbs : Kernel = lo .. hi
  OBVIOUS
<1>2. Len(s) \in Nat /\ DOMAIN s = 1 .. Len(s)
  OBVIOUS
<1> DEFINE U == {s[k].urb : k \in DOMAIN s}
<1>3. CASE Len(s) = 0
  BY <1>1, <1>2, <1>3
<1>4. CASE Len(s) # 0
  <2> DEFINE m == s[Len(s)].urb
  <2>1. Len(s) \in DOMAIN s /\ m \in U /\ m \in lo .. hi
    BY <1>1, <1>2, <1>4
  <2>2. m + 1 \in 1 .. num_urbs + 1
    BY <2>1, NumUrbsType
  <2>3. \A k \in DOMAIN s : s[k].urb <= m /\ s[k].urb \in Int
    BY <1>1, <1>2, <2>1 DEF InTurn
  <2>4. \A j \in Kernel \ U : m < j
    BY <2>1 DEF InTurn
  <2>5. \A i \in m + 1 .. hi : i \in Kernel /\ i \notin U
    <3> SUFFICES ASSUME NEW i \in m + 1 .. hi PROVE i \in Kernel /\ i \notin U
      OBVIOUS
    <3>1. i \in Kernel /\ i > m /\ i \in Int
      BY <1>1, <2>1
    <3>2. QED
      BY <3>1, <2>1, <2>3
  <2>6. \A j \in Kernel \ U : j \in m + 1 .. hi
    BY <1>1, <2>1, <2>4
  <2> HIDE DEF m, U
  <2>7. Kernel \ U = m + 1 .. hi
    BY <2>5, <2>6
  <2>8. QED
    BY <2>2, <2>7 DEF U
<1>5. QED
  BY <1>2, <1>3, <1>4

LEMMA ReceivedType ==
  ASSUME NEW i \in 1 .. num_urbs
  PROVE  Received(i) \in Nat
<1>1. i \in Nat /\ i >= 1
  BY NumUrbsType
<1>2. QED
  BY <1>1 DEF Received

\* A transfer that is whole stays so while its URBs come back: without
\* continuation they may add to the data, with it those behind the end do not.
LEMMA WholeStays ==
  ASSUME Whole, UNCHANGED <<fixedVars, torn>>,
         transferred \in Nat, transferred' \in Nat, transferred' >= transferred,
         continuation \in BOOLEAN,
         \A i \in 1 .. num_urbs : urb[i] \in {"none", "retired"} =>
           urb'[i] = urb[i] /\ results'[i] = results[i],
         \A end \in 1 .. num_urbs :
           /\ \A i \in 1 .. end : urb[i] = "retired"
           /\ results[end] = "short" \/ end = num_urbs
           /\ continuation \/ end = num_urbs
           => transferred' = transferred
  PROVE  Whole'
<1>1. num_urbs' = num_urbs /\ continuation' = continuation
  BY DEF num_urbs, fixedVars
<1>2. CASE continuation /\ \E i \in 1 .. num_urbs : urb[i] = "none"
  BY <1>1, <1>2 DEF Whole
<1>3. CASE ~(continuation /\ \E i \in 1 .. num_urbs : urb[i] = "none")
  <2>1. PICK end \in 1 .. num_urbs :
          /\ \A i \in 1 .. end : urb[i] = "retired"
          /\ \A i \in 1 .. end - 1 : results[i] = "ok"
          /\ results[end] = "short" \/ (results[end] = "ok" /\ end = num_urbs)
          /\ \/ transferred = Received(end)
             \/ /\ ~continuation /\ end < num_urbs
                /\ transferred > Received(end)
    BY <1>3 DEF Whole
  <2>2. \A i \in 1 .. end : i \in 1 .. num_urbs
    BY NumUrbsType
  <2>3. /\ end \in 1 .. end /\ end \in Nat /\ num_urbs \in Nat
        /\ end <= num_urbs /\ \A i \in 1 .. end - 1 : i \in 1 .. end
    BY NumUrbsType
  <2>4. \A i \in 1 .. end : urb'[i] = "retired" /\ results'[i] = results[i]
    BY <2>1, <2>2
  <2>5. /\ \A i \in 1 .. end - 1 : results'[i] = "ok"
        /\ results'[end] = "short" \/ (results'[end] = "ok" /\ end = num_urbs)
    BY <2>1, <2>3, <2>4
  <2>6. ~torn'
    BY <1>3 DEF Whole
  <2>7. Received(end)' = Received(end) /\ Received(end) \in Nat
    BY <2>3, <2>4, ReceivedType DEF Received
  <2>8. \/ transferred' = Received(end)
        \/ /\ ~continuation /\ end < num_urbs
           /\ transferred' > Received(end)
    <3>1. CASE continuation \/ end = num_urbs
      <4>1. transferred' = transferred
        BY <2>1, <3>1
      <4>2. QED
        BY <2>1, <4>1
    <3>2. CASE ~continuation /\ end # num_urbs
      BY <2>1, <2>3, <2>7, <3>2
    <3>3. QED
      BY <3>1, <3>2
  <2>9. QED
    BY <1>1, <2>4, <2>5, <2>6, <2>7, <2>8 DEF Whole
<1>4. QED
  BY <1>2, <1>3

LEMMA TransferredType == PrivType => transferred \in Nat
<1> SUFFICES ASSUME PrivType PROVE transferred \in Nat
  OBVIOUS
<1>1. num_retired \in Nat
  BY NumUrbsType DEF PrivType
<1>2. QED
  BY <1>1 DEF PrivType

\* What the results of s say, for those that the kernel finishes by itself.
Says(s) ==
  \A k \in DOMAIN s :
    /\ s[k].status = "ok" => s[k].length = 2
    /\ s[k].status = "short" => s[k].length = 1 /\ kind = "bulk"
    /\ s[k].status \in {"error", "stall"} => s[k].length = 0
    /\ s[k].status = "overflow" => s[k].urb = num_urbs
    /\ s[k].status = "stall" /\ kind = "bulk" => continuation /\ Kernel' = {}
    /\ s[k].status = "gone" => ~plugged'
    /\ s[k].status = "cancelled" =>
         /\ kind = "bulk"
         /\ \E l \in 1 .. k - 1 : s[l].status \in {"short", "error", "stall"}
    /\ continuation =>
         /\ s[k].status \in CutShort => Kernel' = {}
         /\ s[k].length > 0 => k = 1

LEMMA KernelKeeps ==
  ASSUME IInv, NEW s, Finishes(s), Finish(s), InTurn(s), Says(s),
         plugged' \in BOOLEAN, plugged' => plugged, ~plugged' => Kernel' = {},
         UNCHANGED KernelFrame
  PROVE  IInv'
<1> USE DEF KernelFrame, fixedVars, privVars, dataVars, runVars, ownerVars
<1>1. num_urbs' = num_urbs /\ Results' = Results
  BY DEF num_urbs, Results
<1>2. KernelType /\ ReadyUrbs /\ KernelUrbs
  BY DEF IInv, Types, UrbInv
<1>3. /\ ready' \in Seq(Results) /\ ReadyUrbs'
      /\ Outstanding' = Outstanding
      /\ Kernel' = Kernel \ {s[k].urb : k \in DOMAIN s}
      /\ Len(ready') = Len(ready) + Len(s)
      /\ \A k \in 1 .. Len(ready) : ready'[k] = ready[k]
      /\ \A k \in 1 .. Len(s) : ready'[Len(ready) + k] = s[k]
  BY <1>2, FinishReady
<1>4. Len(s) \in Nat /\ DOMAIN s = 1 .. Len(s)
  BY DEF Finishes
<1>5. Len(ready) \in Nat /\ DOMAIN ready = 1 .. Len(ready)
      /\ DOMAIN ready' = 1 .. Len(ready) + Len(s)
  BY <1>2, <1>3, <1>4, ReadyResults
<1>6. ASSUME NEW k \in DOMAIN ready'
      PROVE  \/ k \in DOMAIN ready /\ ready'[k] = ready[k]
             \/ /\ k - Len(ready) \in DOMAIN s /\ k \notin DOMAIN ready
                /\ ready'[k] = s[k - Len(ready)]
  <2>1. CASE k \in 1 .. Len(ready)
    BY <1>3, <1>5, <2>1
  <2>2. CASE k \notin 1 .. Len(ready)
    <3>1. /\ k - Len(ready) \in 1 .. Len(s)
          /\ Len(ready) + (k - Len(ready)) = k
      BY <1>4, <1>5, <2>2
    <3>2. QED
      BY <1>3, <1>4, <1>5, <2>2, <3>1
  <2>3. QED
    BY <2>1, <2>2
<1>7. Kernel' \subseteq Kernel
  BY <1>3
<1>8. Types'
  <2>1. KernelType'
    BY <1>1, <1>2, <1>3, FinishUrbs DEF KernelType
  <2>2. PrivType' /\ RunType'
    BY <1>1 DEF IInv, Types, PrivType, RunType
  <2>3. QED
    BY <2>1, <2>2 DEF Types
<1>9. KernelUrbs'
  <2>1. \E lo \in 1 .. num_urbs + 1, hi \in 0 .. num_urbs : Kernel' = lo .. hi
    <3>1. s \in Seq(Results) /\ \A k \in DOMAIN s : s[k].urb \in Kernel
      BY DEF Finishes
    <3>2. \E lo \in 1 .. num_urbs + 1, hi \in 0 .. num_urbs : Kernel = lo .. hi
      BY <1>2 DEF KernelUrbs
    <3>3. \E lo \in 1 .. num_urbs + 1, hi \in 0 .. num_urbs :
            Kernel \ {s[k].urb : k \in DOMAIN s} = lo .. hi
      BY <3>1, <3>2, FinishRun, Zenon
    <3>4. QED
      BY <1>3, <3>3, Zenon
  <2>2. \A t \in Threads : pc'[t] = "discard" =>
          next' <= num_urbs' /\ \A i \in Kernel' : i <= next'
    BY <1>1, <1>2, <1>7 DEF KernelUrbs
  <2>3. QED
    BY <1>1, <2>1, <2>2 DEF KernelUrbs
<1>10. Counted'
  <2>1. ASSUME pc["user"] = "urbs"
        PROVE  \A i \in next .. num_urbs : urb'[i] = "none"
    <3>1. \A i \in next .. num_urbs : i \in Urbs /\ urb[i] = "none"
      BY <2>1, NumUrbsType, UsbTransferAssumption
      DEF IInv, UrbInv, Counted, Urbs
    <3>2. QED
      BY <1>2, <3>1, FinishUrbs DEF Finishes, Kernel, WithKernel
  <2>2. QED
    BY <1>1, <1>3, <2>1 DEF IInv, UrbInv, Counted
<1>11. InOrder'
  <2> SUFFICES ASSUME allocated', reap_action' = "normal"
               PROVE  Ordered'
    BY DEF InOrder
  <2>1. Ordered
    BY DEF IInv, UrbInv, InOrder
  <2>2. \A k, l \in DOMAIN ready' : k < l => ready'[k].urb < ready'[l].urb
    <3> SUFFICES ASSUME NEW k \in DOMAIN ready', NEW l \in DOMAIN ready', k < l
                 PROVE  ready'[k].urb < ready'[l].urb
      OBVIOUS
    <3>1. CASE l \in DOMAIN ready
      BY <1>3, <1>5, <2>1, <3>1 DEF Ordered
    <3>2. CASE k \notin DOMAIN ready
      <4>1. l \notin DOMAIN ready
        BY <1>5, <3>2
      <4>2. k - Len(ready) < l - Len(ready)
        BY <1>5
      <4>3. QED
        BY <1>6, <3>2, <4>1, <4>2 DEF InTurn
    <3>3. CASE k \in DOMAIN ready /\ l \notin DOMAIN ready
      BY <1>6, <2>1, <3>3 DEF Finishes, Ordered
    <3>4. QED
      BY <3>1, <3>2, <3>3
  <2>3. \A k \in DOMAIN ready' : \A i \in Kernel' : ready'[k].urb < i
    BY <1>3, <1>6, <1>7, <2>1 DEF InTurn, Ordered
  <2>4. QED
    BY <1>1, <1>3, <2>1, <2>2, <2>3 DEF Ordered
<1>12. Lengths'
  BY <1>1, <1>6 DEF IInv, UrbInv, Lengths, Says
<1>13. Ends'
  <2>1. \A k \in DOMAIN ready' :
          /\ ready'[k].status = "stall" /\ kind = "bulk" =>
               continuation /\ Kernel' = {}
          /\ ready'[k].status = "gone" => ~plugged'
    BY <1>6, <1>7 DEF IInv, UrbInv, Ends, Says
  <2>2. QED
    BY <1>7, <2>1 DEF IInv, UrbInv, Ends
<1>14. ControlCancelled'
  BY <1>6 DEF IInv, UrbInv, ControlCancelled, Says
<1>15. OwnerInv'
  BY DEF IInv, OwnerInv, Owner, Cancelled
<1>16. Data'
  <2>1. Whole => Whole'
    <3>1. \A i \in Urbs : urb[i] \in {"none", "retired"} =>
            urb'[i] = urb[i] /\ results'[i] = results[i]
      BY <1>2, FinishUrbs DEF Finishes, Kernel, WithKernel
    <3>2. transferred \in Nat /\ continuation \in BOOLEAN
      BY TransferredType DEF IInv, Types, KernelType
    <3>3. \A i \in 1 .. num_urbs : i \in Urbs
      BY NumUrbsType, UsbTransferAssumption DEF Urbs
    <3>4. QED
      BY <3>1, <3>2, <3>3, WholeStays
  <2>2. ASSUME allocated, Clean, reap_action = "normal"
        PROVE  /\ \A i \in 1 .. num_retired :
                    urb'[i] = "retired" /\ results'[i] = "ok"
               /\ \A k \in DOMAIN ready' : ready'[k].status = "cancelled" =>
                    \E l \in 1 .. k - 1 :
                      ready'[l].status \in {"short", "error", "stall"}
    <3>1. /\ \A i \in 1 .. num_retired : urb[i] = "retired" /\ results[i] = "ok"
          /\ \A k \in DOMAIN ready : ready[k].status = "cancelled" =>
               \E l \in 1 .. k - 1 :
                 ready[l].status \in {"short", "error", "stall"}
      BY <2>2 DEF IInv, Data
    <3>2. \A i \in 1 .. num_retired : i \in Urbs
      BY NumUrbsType, UsbTransferAssumption DEF Urbs, IInv, Types, PrivType
    <3>3. \A i \in 1 .. num_retired : urb'[i] = "retired" /\ results'[i] = "ok"
      BY <1>2, <3>1, <3>2, FinishUrbs DEF Finishes, Kernel, WithKernel
    <3>4. ASSUME NEW k \in DOMAIN ready', ready'[k].status = "cancelled"
          PROVE  \E l \in 1 .. k - 1 :
                   ready'[l].status \in {"short", "error", "stall"}
      <4>1. CASE k \in DOMAIN ready
        <5>1. PICK l \in 1 .. k - 1 :
                ready[l].status \in {"short", "error", "stall"}
          BY <1>6, <3>1, <3>4, <4>1
        <5>2. l \in DOMAIN ready
          BY <1>5, <4>1
        <5>3. QED
          BY <1>3, <1>5, <5>1, <5>2
      <4>2. CASE k \notin DOMAIN ready
        <5>1. k - Len(ready) \in DOMAIN s
              /\ s[k - Len(ready)].status = "cancelled"
          BY <1>6, <3>4, <4>2
        <5>2. PICK l \in 1 .. (k - Len(ready)) - 1 :
                s[l].status \in {"short", "error", "stall"}
          BY <5>1 DEF Says
        <5>3. l \in 1 .. Len(s) /\ Len(ready) + l \in 1 .. k - 1
          BY <1>4, <1>5, <5>1
        <5>4. ready'[Len(ready) + l] = s[l]
          BY <1>3, <5>3
        <5>5. QED
          BY <5>2, <5>3, <5>4
      <4>3. QED
        BY <4>1, <4>2
    <3>5. QED
      BY <3>3, <3>4
  <2>3. QED
    BY <2>1, <2>2 DEF IInv, Data, Clean
<1>17. NoSurplus'
  <2> SUFFICES ASSUME continuation
               PROVE  /\ (\E i \in Urbs : results'[i] \in CutShort) =>
                           Kernel' = {}
                      /\ \A k \in DOMAIN ready' : ready'[k].length > 0 =>
                           /\ \A i \in Kernel' : ready'[k].urb < i
                           /\ \A i \in 1 .. ready'[k].urb - 1 :
                                results'[i] \notin CutShort
    BY DEF NoSurplus
  <2>1. /\ (\E i \in Urbs : results[i] \in CutShort) => Kernel = {}
        /\ \A k \in DOMAIN ready : ready[k].length > 0 =>
             /\ \A i \in Kernel : ready[k].urb < i
             /\ \A i \in 1 .. ready[k].urb - 1 : results[i] \notin CutShort
    BY DEF IInv, UrbInv, NoSurplus
  <2>2. \A i \in Urbs : \/ results'[i] = results[i]
                        \/ \E k \in DOMAIN s : /\ s[k].urb = i
                                               /\ results'[i] = s[k].status
    BY <1>2, FinishUrbs
  <2>3. ASSUME NEW i \in Urbs, results'[i] \in CutShort
        PROVE  Kernel' = {}
    BY <1>7, <2>1, <2>2, <2>3 DEF Says
  <2>4. ASSUME NEW k \in DOMAIN ready', ready'[k].length > 0
        PROVE  /\ \A i \in Kernel' : ready'[k].urb < i
               /\ \A i \in 1 .. ready'[k].urb - 1 :
                    results'[i] \notin CutShort
    <3>1. CASE k \in DOMAIN ready /\ ready'[k] = ready[k]
      <4>1. \A i \in 1 .. ready[k].urb - 1 : i \in Urbs /\ i < ready[k].urb
        BY <1>2, <3>1, ReadyResults, UrbsBefore
      <4>2. /\ \A i \in Kernel : ready[k].urb < i
            /\ \A i \in 1 .. ready[k].urb - 1 : results[i] \notin CutShort
        BY <2>1, <2>4, <3>1
      <4>3. \A i \in 1 .. ready[k].urb - 1 : i \notin Kernel
        <5>1. ready[k].urb \in Nat
          BY <1>2, <3>1, ReadyResults DEF Urbs
        <5>2. \A i \in 1 .. ready[k].urb - 1 : ~(ready[k].urb < i)
          BY <5>1
        <5>3. QED
          BY <4>2, <5>2
      <4>4. \A i \in 1 .. ready[k].urb - 1 : results'[i] = results[i]
        BY <2>2, <4>1, <4>3 DEF Finishes
      <4>5. QED
        BY <1>7, <3>1, <4>2, <4>4
    <3>2. CASE k - Len(ready) \in DOMAIN s /\ ready'[k] = s[k - Len(ready)]
      <4> DEFINE l == k - Len(ready)
      <4>1. l = 1 /\ 1 \in DOMAIN s /\ ready'[k] = s[1]
        BY <2>4, <3>2 DEF Says
      <4>2. s[1].urb \in Kernel /\ s[1].urb \in Urbs
        BY <4>1 DEF Finishes, Kernel
      <4>3. \A i \in Urbs : results[i] \notin CutShort
        BY <2>1, <4>2
      <4>4. \A i \in 1 .. s[1].urb - 1 : i \in Urbs /\ i < s[1].urb
        BY <4>2, UrbsBefore
      <4>5. \A j \in DOMAIN s : s[1].urb <= s[j].urb
        <5>1. \A j \in DOMAIN s : j = 1 \/ 1 < j
          BY <1>4
        <5>2. \A j \in DOMAIN s : s[j].urb \in Nat
          BY DEF Finishes, Kernel, Urbs
        <5>3. QED
          BY <4>1, <5>1, <5>2 DEF InTurn
      <4>6. \A i \in 1 .. s[1].urb - 1 : results'[i] = results[i]
        <5>1. \A i \in 1 .. s[1].urb - 1 : \A j \in DOMAIN s : s[j].urb # i
          BY <4>2, <4>4, <4>5 DEF Finishes, Kernel, Urbs
        <5>2. QED
          BY <2>2, <4>4, <5>1
      <4>7. \A i \in Kernel' : s[1].urb < i
        BY <1>3, <4>1 DEF InTurn
      <4>8. QED
        BY <4>1, <4>3, <4>4, <4>6, <4>7
    <3>3. QED
      BY <1>6, <3>1, <3>2
  <2>5. QED
    BY <2>3, <2>4
<1>18. QED
  BY <1>3, <1>8, <1>9, <1>10, <1>11, <1>12, <1>13, <1>14, <1>15, <1>16, <1>17
  DEF IInv, UrbInv

\* The first URB with the kernel, and those behind it.
LEMMA LowestIsFirst ==
  ASSUME NEW i \in Urbs, Lowest(i), KernelUrbs
  PROVE  \E hi \in i .. num_urbs : Kernel = i .. hi
<1>1. PICK lo \in 1 .. num_urbs + 1, hi \in 0 .. num_urbs : Kernel = lo .. hi
  BY DEF KernelUrbs
<1>2. i \in Kernel
  BY DEF Lowest, Kernel
<1>3. \A j \in 1 .. i - 1 : j \in Urbs /\ j \notin Kernel
  BY UsbTransferAssumption DEF Lowest, Kernel, Urbs
<1>4. lo = i
  BY <1>1, <1>2, <1>3, NumUrbsType
<1>5. QED
  BY <1>1, <1>2, <1>4, NumUrbsType

LEMMA BehindUrbs ==
  ASSUME NEW i \in Urbs, Lowest(i), KernelUrbs, continuation \in BOOLEAN
  PROVE  /\ Len(Behind(i)) \in Nat /\ DOMAIN Behind(i) = 1 .. Len(Behind(i))
         /\ Behind(i) \in Seq(Results)
         /\ \A k \in DOMAIN Behind(i) : /\ Behind(i)[k].urb = i + k
                                        /\ Behind(i)[k].status = "cancelled"
                                        /\ Behind(i)[k].length = 0
         /\ i .. i + Len(Behind(i)) \subseteq Kernel
         /\ continuation => Kernel = i .. i + Len(Behind(i))
         /\ ~continuation => Len(Behind(i)) = 0
<1>1. PICK hi \in i .. num_urbs : Kernel = i .. hi
  BY LowestIsFirst
<1> DEFINE behind == {j \in Urbs : j > i /\ WithKernel(j)}
           n == IF continuation THEN Cardinality(behind) ELSE 0
<1>2. i \in Nat /\ hi \in Nat /\ i >= 1 /\ hi <= num_urbs
  BY <1>1, NumUrbsType DEF Urbs
<1>3. behind = i + 1 .. hi
  <2>1. behind = {j \in Kernel : j > i}
    BY DEF Kernel
  <2>2. QED
    BY <1>1, <1>2, <2>1
<1>4. Cardinality(behind) = hi - i
  <2>1. i + 1 \in Int /\ hi \in Int
    BY <1>2
  <2>2. Cardinality(i + 1 .. hi) = IF i + 1 > hi THEN 0 ELSE hi - (i + 1) + 1
    BY <2>1, FS_Interval
  <2>3. (IF i + 1 > hi THEN 0 ELSE hi - (i + 1) + 1) = hi - i
    BY <1>1, <1>2
  <2> HIDE DEF behind
  <2>4. QED
    BY <1>3, <2>2, <2>3, Zenon
<1>5. n \in Nat /\ n = IF continuation THEN hi - i ELSE 0
  BY <1>1, <1>2, <1>4
<1>6. Behind(i) = [k \in 1 .. n |-> Result(i + k, "cancelled", 0)]
  BY DEF Behind
<1> HIDE DEF n, behind
<1>7. \A k \in 1 .. n : Result(i + k, "cancelled", 0) \in Results
  <2>1. \A k \in 1 .. n : i + k \in 1 .. num_urbs
    BY <1>1, <1>2, <1>5, NumUrbsType
  <2>2. QED
    BY <2>1 DEF Result, Results, UrbStatuses
<1>8. Behind(i) \in Seq(Results) /\ Len(Behind(i)) = n
  BY <1>5, <1>6, <1>7
<1>9. \A k \in 1 .. n : /\ Behind(i)[k].urb = i + k
                        /\ Behind(i)[k].status = "cancelled"
                        /\ Behind(i)[k].length = 0
  BY <1>6 DEF Result
<1>10. i .. i + n \subseteq Kernel /\ (continuation => Kernel = i .. i + n)
  BY <1>1, <1>2, <1>5
<1>11. QED
  BY <1>5, <1>6, <1>8, <1>9, <1>10

\* The result of URB i, and the results b behind it.
Possible(i, st, n, b) ==
  /\ st \in UrbStatuses /\ n \in 0 .. 2 /\ b \in Seq(Results)
  /\ \/ b = <<>> /\ st \in {"ok", "overflow"}
     \/ b = Behind(i) /\ st \in {"short", "error", "stall"}
  /\ st = "ok" => n = 2
  /\ st = "short" => n = 1 /\ kind = "bulk"
  /\ st \in {"error", "stall"} => n = 0
  /\ st = "overflow" => i = num_urbs
  /\ st = "stall" /\ kind = "bulk" => continuation

\* The results s come from the URB i on, and only the first of them is not a
\* cancellation.
InRow(i, st, n, b, s) ==
  /\ i \in 1 .. num_urbs
  /\ Len(b) \in Nat /\ DOMAIN b = 1 .. Len(b)
  /\ continuation /\ st \in {"short", "error", "stall"} =>
       Kernel = i .. i + Len(b)
  /\ i .. i + Len(b) \subseteq Kernel
  /\ ~continuation => Len(b) = 0
  /\ Len(b) # 0 => st \in {"short", "error", "stall"}
  /\ s \in Seq(Results) /\ DOMAIN s = 1 .. Len(b) + 1
  /\ s[1].urb = i /\ s[1].status = st /\ s[1].length = n
  /\ \A k \in 1 .. Len(b) : s[k + 1] = b[k]
  /\ \A k \in DOMAIN s : s[k].urb = i + k - 1
  /\ \A k \in DOMAIN s : k = 1 \/ s[k].status = "cancelled"
  /\ Finishes(s)

LEMMA PossibleResults ==
  ASSUME KernelType, KernelUrbs, NEW i \in Urbs, Lowest(i),
         NEW st, NEW n, NEW b, Possible(i, st, n, b),
         NEW s, s = <<Result(i, st, n)>> \o b
  PROVE  InRow(i, st, n, b, s)
<1> DEFINE e == Result(i, st, n)
<1>1. continuation \in BOOLEAN
  BY DEF KernelType
<1> USE DEF Possible
<1>2. PICK hi \in i .. num_urbs : Kernel = i .. hi
  BY LowestIsFirst
<1>3. i \in Nat /\ hi \in Nat /\ i >= 1 /\ hi <= num_urbs /\ i \in 1 .. num_urbs
  BY <1>2, NumUrbsType DEF Urbs
<1>4. e \in Results /\ e.urb = i /\ e.status = st /\ e.length = n
  BY <1>3 DEF Result, Results
<1>5. /\ Len(b) \in Nat /\ DOMAIN b = 1 .. Len(b)
      /\ \A k \in DOMAIN b : b[k].urb = i + k /\ b[k].status = "cancelled"
      /\ i .. i + Len(b) \subseteq Kernel
      /\ continuation /\ st \in {"short", "error", "stall"} =>
           Kernel = i .. i + Len(b)
      /\ ~continuation => Len(b) = 0
      /\ Len(b) # 0 => st \in {"short", "error", "stall"}
  <2>1. CASE b = <<>> /\ st \in {"ok", "overflow"}
    BY <1>2, <1>3, <2>1
  <2>2. CASE b = Behind(i) /\ st \in {"short", "error", "stall"}
    BY <1>1, <2>2, BehindUrbs
  <2>3. QED
    BY <2>1, <2>2
<1> HIDE DEF e
<1>6. /\ s \in Seq(Results) /\ Len(s) = Len(b) + 1
      /\ DOMAIN s = 1 .. Len(b) + 1
      /\ s[1] = e /\ \A k \in 1 .. Len(b) : s[k + 1] = b[k]
  BY <1>4, <1>5 DEF e
<1>7. /\ \A k \in DOMAIN s : s[k].urb = i + k - 1
      /\ \A k \in DOMAIN s : k = 1 \/ s[k].status = "cancelled"
  <2> SUFFICES ASSUME NEW k \in DOMAIN s
               PROVE  s[k].urb = i + k - 1 /\ (k = 1 \/ s[k].status = "cancelled")
    OBVIOUS
  <2>1. CASE k = 1
    BY <1>3, <1>4, <1>6, <2>1
  <2>2. CASE k # 1
    <3>1. k - 1 \in 1 .. Len(b) /\ (k - 1) + 1 = k
      BY <1>5, <1>6, <2>2
    <3>2. s[k] = b[k - 1]
      BY <1>6, <3>1
    <3>3. QED
      BY <1>3, <1>5, <3>1, <3>2
  <2>3. QED
    BY <2>1, <2>2
<1>8. Finishes(s)
  <2>1. \A k \in DOMAIN s : s[k].urb \in i .. i + Len(b)
    BY <1>3, <1>5, <1>6, <1>7
  <2>2. \A k \in DOMAIN s : s[k].urb \in Kernel
    BY <1>5, <2>1
  <2>3. \A k, l \in DOMAIN s : s[k].urb = s[l].urb => k = l
    BY <1>3, <1>5, <1>6, <1>7
  <2>4. QED
    BY <1>6, <2>2, <2>3 DEF Finishes
<1>9. QED
  BY <1>3, <1>4, <1>5, <1>6, <1>7, <1>8 DEF InRow

LEMMA InRowKeeps ==
  ASSUME IInv, NEW i \in Urbs, Lowest(i),
         NEW st, NEW n, NEW b, Possible(i, st, n, b),
         NEW s, InRow(i, st, n, b, s), Finish(s),
         UNCHANGED <<plugged, KernelFrame>>
  PROVE  IInv'
<1>1. /\ KernelType /\ ReadyUrbs /\ KernelUrbs
      /\ continuation \in BOOLEAN /\ (continuation => kind = "bulk")
  BY DEF IInv, Types, UrbInv, KernelType
<1>2. PICK hi \in i .. num_urbs : Kernel = i .. hi
  BY <1>1, LowestIsFirst
<1>3. i \in Nat /\ hi \in Nat /\ i >= 1 /\ hi <= num_urbs
  BY <1>2, NumUrbsType DEF Urbs
<1>4. /\ i \in 1 .. num_urbs
      /\ Len(b) \in Nat /\ DOMAIN b = 1 .. Len(b)
      /\ continuation /\ st \in {"short", "error", "stall"} =>
           Kernel = i .. i + Len(b)
      /\ i .. i + Len(b) \subseteq Kernel
      /\ ~continuation => Len(b) = 0
      /\ Len(b) # 0 => st \in {"short", "error", "stall"}
  BY DEF InRow
<1>5. /\ s \in Seq(Results) /\ DOMAIN s = 1 .. Len(b) + 1
      /\ s[1].urb = i /\ s[1].status = st /\ s[1].length = n
      /\ \A k \in 1 .. Len(b) : s[k + 1] = b[k]
  BY DEF InRow
<1>6. /\ \A k \in DOMAIN s : s[k].urb = i + k - 1
      /\ \A k \in DOMAIN s : k = 1 \/ s[k].status = "cancelled"
  BY DEF InRow
<1>7. Finishes(s) /\ Finish(s)
  BY DEF InRow
<1> USE DEF Possible
<1>8. {s[k].urb : k \in DOMAIN s} = i .. i + Len(b)
  <2>1. ASSUME NEW j \in i .. i + Len(b)
        PROVE  j - i + 1 \in DOMAIN s /\ s[j - i + 1].urb = j
    <3>1. j - i + 1 \in 1 .. Len(b) + 1 /\ i + (j - i + 1) - 1 = j
      BY <1>3, <1>4
    <3>2. QED
      BY <1>5, <1>6, <3>1
  <2>2. \A k \in DOMAIN s : s[k].urb \in i .. i + Len(b)
    BY <1>3, <1>4, <1>5, <1>6
  <2>3. QED
    BY <2>1, <2>2
<1>9. Kernel' = i + Len(b) + 1 .. hi
  <2>1. Kernel' = Kernel \ (i .. i + Len(b))
    BY <1>1, <1>7, <1>8, FinishReady
  <2>2. QED
    BY <1>2, <1>3, <1>4, <2>1
<1>10. InTurn(s)
  <2>1. \A k, l \in DOMAIN s : k < l => s[k].urb < s[l].urb
    BY <1>3, <1>4, <1>5, <1>6
  <2>2. ASSUME NEW k \in DOMAIN s,
               NEW j \in Kernel \ {s[l].urb : l \in DOMAIN s}
        PROVE  s[k].urb < j
    <3>1. j \in i .. hi /\ j \notin i .. i + Len(b)
      BY <1>2, <1>8
    <3>2. s[k].urb \in i .. i + Len(b)
      BY <1>8
    <3>3. QED
      BY <1>3, <1>4, <3>1, <3>2
  <2>3. QED
    BY <2>1, <2>2 DEF InTurn
<1>11. Says(s)
  <2>1. /\ s[1].status = st /\ s[1].length = n /\ s[1].urb = i
        /\ st \notin {"gone", "cancelled"}
    BY <1>5
  <2>2. st = "stall" /\ kind = "bulk" => Kernel' = {}
    BY <1>2, <1>3, <1>4, <1>9
  <2>3. \A k \in DOMAIN s : k = 1 => k \in 1 .. 1
    OBVIOUS
  <2>4. \A k \in DOMAIN s : k # 1 =>
          /\ 1 \in 1 .. k - 1
          /\ s[k].status = "cancelled" /\ kind = "bulk"
          /\ s[1].status \in {"short", "error", "stall"}
    BY <1>1, <1>4, <1>5, <1>6, <2>1
  <2>5. continuation /\ st \in CutShort => Kernel' = {}
    BY <1>2, <1>3, <1>4, <1>9 DEF CutShort
  <2>6. \A k \in DOMAIN s : s[k].length > 0 => k = 1
    <3>1. \A k \in DOMAIN b : b[k].length = 0
      BY <1>1, BehindUrbs
    <3>2. ASSUME NEW k \in DOMAIN s, k # 1
          PROVE  k - 1 \in DOMAIN b /\ s[k] = b[k - 1]
      <4>1. k - 1 \in 1 .. Len(b) /\ (k - 1) + 1 = k
        BY <1>4, <1>5, <3>2
      <4>2. QED
        BY <1>4, <1>5, <4>1
    <3>3. QED
      BY <3>1, <3>2
  <2>7. \A k \in DOMAIN s : s[k].status \in CutShort => k = 1
    BY <2>4 DEF CutShort
  <2>8. QED
    BY <2>1, <2>2, <2>4, <2>5, <2>6, <2>7 DEF Says
<1>12. plugged' \in BOOLEAN /\ (plugged' => plugged)
       /\ (~plugged' => Kernel' = {})
  <2>1. plugged \in BOOLEAN /\ plugged
    BY <1>1, <1>2, <1>3 DEF KernelType, KernelUrbs
  <2>2. QED
    BY <2>1
<1>13. QED
  BY <1>7, <1>10, <1>11, <1>12, KernelKeeps

\* The kernel finishes a URB, and those behind it if it has failed.
LEMMA FinishKeeps ==
  ASSUME IInv, NEW i \in Urbs, Lowest(i),
         NEW st, NEW n, NEW b, Possible(i, st, n, b),
         Finish(<<Result(i, st, n)>> \o b),
         UNCHANGED <<plugged, KernelFrame>>
  PROVE  IInv'
<1>1. KernelType /\ KernelUrbs
  BY DEF IInv, Types, UrbInv
<1>2. PICK s : s = <<Result(i, st, n)>> \o b
  OBVIOUS
<1>3. InRow(i, st, n, b, s)
  BY <1>1, <1>2, PossibleResults
<1>4. QED
  BY <1>2, <1>3, InRowKeeps, Zenon

\* One of these is what the kernel does.
Finished(i, st, n, b) ==
  /\ Lowest(i) /\ Possible(i, st, n, b)
  /\ Finish(<<Result(i, st, n)>> \o b)
  /\ UNCHANGED <<plugged, KernelFrame>>

LEMMA KernelFinishes ==
  ASSUME IInv, StallsAreCut, KernelFinish
  PROVE  \E i \in Urbs, st \in UrbStatuses, n \in 0 .. 2 :
           \E b \in {<<>>, Behind(i)} : Finished(i, st, n, b)
<1>1. PICK i \in Urbs :
        /\ Lowest(i)
        /\ \/ Finish(<<Result(i, "ok", 2)>>)
           \/ kind = "bulk" /\ Finish(<<Result(i, "short", 1)>> \o Behind(i))
           \/ Finish(<<Result(i, "error", 0)>> \o Behind(i))
           \/ i = num_urbs /\ kind # "iso"
              /\ Finish(<<Result(i, "overflow", 2)>>)
           \/ /\ kind = "bulk" => continuation \/ BulkStalls
              /\ Finish(<<Result(i, "stall", 0)>> \o Behind(i))
        /\ UNCHANGED <<plugged, KernelFrame>>
  BY Zenon DEF KernelFinish
<1>2. continuation \in BOOLEAN /\ KernelUrbs
  BY DEF IInv, Types, KernelType, UrbInv
<1>3. Behind(i) \in Seq(Results) /\ i \in 1 .. num_urbs
  BY <1>1, <1>2, BehindUrbs, LowestIsFirst, NumUrbsType DEF Urbs
<1>4. \A st \in UrbStatuses, n \in 0 .. 2 :
        <<Result(i, st, n)>> \o <<>> = <<Result(i, st, n)>>
  BY <1>3 DEF Result
<1> USE <1>1, <1>3 DEF UrbStatuses, Possible, Finished
<1>5. CASE Finish(<<Result(i, "ok", 2)>>)
  <2>1. Possible(i, "ok", 2, <<>>)
    OBVIOUS
  <2>2. Finish(<<Result(i, "ok", 2)>> \o <<>>)
    BY <1>4, <1>5
  <2>3. QED
    BY <2>1, <2>2
<1>6. CASE kind = "bulk" /\ Finish(<<Result(i, "short", 1)>> \o Behind(i))
  <2>1. Possible(i, "short", 1, Behind(i))
    BY <1>6
  <2>2. QED
    BY <1>6, <2>1
<1>7. CASE Finish(<<Result(i, "error", 0)>> \o Behind(i))
  <2>1. Possible(i, "error", 0, Behind(i))
    OBVIOUS
  <2>2. QED
    BY <1>7, <2>1
<1>8. CASE i = num_urbs /\ Finish(<<Result(i, "overflow", 2)>>)
  <2>1. Possible(i, "overflow", 2, <<>>)
    BY <1>8
  <2>2. Finish(<<Result(i, "overflow", 2)>> \o <<>>)
    BY <1>4, <1>8
  <2>3. QED
    BY <2>1, <2>2
<1>9. CASE /\ kind = "bulk" => continuation \/ BulkStalls
           /\ Finish(<<Result(i, "stall", 0)>> \o Behind(i))
  <2>1. Possible(i, "stall", 0, Behind(i))
    BY <1>9 DEF StallsAreCut
  <2>2. QED
    BY <1>9, <2>1
<1>10. QED
  BY <1>5, <1>6, <1>7, <1>8, <1>9

LEMMA KernelFinishKeeps == ASSUME IInv, StallsAreCut, KernelFinish PROVE IInv'
  BY KernelFinishes, FinishKeeps, Zenon DEF Finished

\* When the device is gone no URB is left with the kernel.
LEMMA UnplugKeeps == ASSUME IInv, Unplug PROVE IInv'
<1>1. PICK u \in [1 .. Cardinality(Kernel) -> Kernel] :
        /\ \A k, l \in DOMAIN u : k < l => u[k] < u[l]
        /\ Finish([k \in DOMAIN u |-> Result(u[k], "gone", 0)])
  BY DEF Unplug, Kernel
<1>2. KernelType /\ ReadyUrbs /\ KernelUrbs
  BY DEF IInv, Types, UrbInv
<1> DEFINE n == Cardinality(Kernel)
           s == [k \in 1 .. n |-> Result(u[k], "gone", 0)]
<1>3. /\ IsFiniteSet(Kernel) /\ n \in Nat
      /\ Kernel \subseteq 1 .. num_urbs
  <2>1. PICK lo \in 1 .. num_urbs + 1, hi \in 0 .. num_urbs : Kernel = lo .. hi
    BY <1>2 DEF KernelUrbs
  <2>2. lo \in Int /\ hi \in Int
    BY NumUrbsType
  <2>3. IsFiniteSet(Kernel)
    BY <2>1, <2>2, FS_Interval
  <2>4. QED
    BY <2>1, <2>2, <2>3, FS_CardinalityType, NumUrbsType
<1>4. /\ \A k \in 1 .. n : u[k] \in Kernel /\ u[k] \in Nat
      /\ DOMAIN u = 1 .. n
  <2>1. DOMAIN u = 1 .. n /\ \A k \in 1 .. n : u[k] \in Kernel
    BY <1>1
  <2>2. Kernel \subseteq Nat
    BY <1>3, NumUrbsType
  <2> HIDE DEF n
  <2>3. QED
    BY <2>1, <2>2
<1>5. \A k, l \in 1 .. n : u[k] = u[l] => k = l
  BY <1>1, <1>3, <1>4
<1>6. \A j \in Kernel : \E k \in 1 .. n : u[k] = j
  <2>1. u \in Injection(1 .. n, Kernel)
    BY <1>1, <1>4, <1>5 DEF Injection, IsInjective
  <2>2. Cardinality(1 .. n) = n
    BY <1>3, FS_Interval
  <2>3. u \in Surjection(1 .. n, Kernel)
    BY <1>3, <2>1, <2>2, FS_Injection
  <2>4. QED
    BY <2>3 DEF Surjection
<1>7. \A k \in 1 .. n : /\ Result(u[k], "gone", 0) \in Results
                        /\ Result(u[k], "gone", 0).urb = u[k]
                        /\ Result(u[k], "gone", 0).status = "gone"
                        /\ Result(u[k], "gone", 0).length = 0
  BY <1>3, <1>4 DEF Result, Results, UrbStatuses
<1>8. Finish(s)
  BY <1>1, <1>4
<1>9. /\ s \in Seq(Results) /\ DOMAIN s = 1 .. n
      /\ \A k \in 1 .. n : /\ s[k].urb = u[k] /\ s[k].status = "gone"
                           /\ s[k].length = 0
  BY <1>3, <1>7
<1> HIDE DEF n, s
<1>10. Finishes(s)
  BY <1>4, <1>5, <1>9 DEF Finishes
<1>11. {s[k].urb : k \in DOMAIN s} = Kernel
  BY <1>4, <1>6, <1>9
<1>12. InTurn(s)
  BY <1>1, <1>4, <1>9, <1>11 DEF InTurn
<1>13. Kernel' = {}
  BY <1>2, <1>8, <1>10, <1>11, FinishReady
<1>14. plugged' = FALSE /\ UNCHANGED KernelFrame
  BY DEF Unplug
<1>15. Says(s)
  BY <1>9, <1>13, <1>14 DEF Says
<1>16. QED
  BY <1>8, <1>10, <1>12, <1>13, <1>14, <1>15, KernelKeeps

-----------------------------------------------------------------------------
(* The threads *)

\* What does not change while no URB does.
LEMMA UrbsStay ==
  ASSUME UNCHANGED <<fixedVars, kernelVars, dataVars>>
  PROVE  /\ num_urbs' = num_urbs /\ Results' = Results
         /\ Kernel' = Kernel /\ Outstanding' = Outstanding
         /\ ReadyUrbs => ReadyUrbs'
         /\ Lengths => Lengths'
         /\ NoSurplus => NoSurplus'
         /\ Whole => Whole'
<1> USE DEF fixedVars, kernelVars, dataVars
<1>1. num_urbs' = num_urbs /\ Results' = Results
  BY DEF num_urbs, Results
<1>2. Kernel' = Kernel /\ Outstanding' = Outstanding
  BY DEF Kernel, WithKernel, Outstanding
<1>3. (ReadyUrbs => ReadyUrbs') /\ (Lengths => Lengths')
  BY <1>1 DEF ReadyUrbs, Lengths
<1>4. Whole => Whole'
  BY <1>1 DEF Whole, Received
<1>5. NoSurplus => NoSurplus'
  BY <1>2 DEF NoSurplus
<1>6. QED
  BY <1>1, <1>2, <1>3, <1>4, <1>5

\* libusb has a transfer that has URBs with the kernel.
LEMMA KernelIsOutstanding ==
  ASSUME Types, UrbInv, OwnerInv
  PROVE  /\ Kernel \subseteq Outstanding
         /\ \A i \in Kernel : i \in Nat /\ i <= num_urbs
         /\ ~allocated => Kernel = {}
<1>1. Kernel \subseteq Outstanding
  BY DEF Kernel, WithKernel, Outstanding
<1>2. \A i \in Kernel : i \in Nat /\ i <= num_urbs
  BY NumUrbsType DEF UrbInv, KernelUrbs
<1>3. ~allocated => Kernel = {}
  BY <1>1 DEF Types, KernelType, UrbInv, KernelUrbs, Counted, OwnerInv, Owner
<1>4. QED
  BY <1>1, <1>2, <1>3

\* The thread that discards takes the last URB that the kernel has.
LEMMA DiscardKeeps == ASSUME IInv, NEW t \in Threads, Discard(t) PROVE IInv'
<1> USE DEF DiscardFrame, fixedVars, privVars, dataVars
<1>1. num_urbs' = num_urbs /\ Results' = Results
  BY DEF num_urbs, Results, Discard
<1>2. KernelType /\ ReadyUrbs /\ KernelUrbs /\ RunType /\ PrivType
  BY DEF IInv, Types, UrbInv
<1>3. /\ next \in 1 .. num_urbs /\ next \in Urbs /\ next' = next - 1
      /\ pc[t] = "discard" /\ \A i \in Kernel : i <= next
  BY <1>2, NumUrbsType, UsbTransferAssumption
  DEF Discard, RunType, KernelUrbs, Urbs
<1>4. PrivType' /\ RunType'
  BY <1>1, <1>2, <1>3, NumUrbsType DEF Discard, PrivType, RunType
<1>5. OwnerInv'
  BY DEF IInv, OwnerInv, Owner, Cancelled, Discard
<1>6. \A i \in Kernel : i \in Nat
  BY <1>2, NumUrbsType DEF KernelUrbs
<1>7. pc["user"] # "urbs"
  BY <1>2, <1>3 DEF RunType, Threads
<1>8. CASE ~WithKernel(next)
  <2>1. UNCHANGED kernelVars
    BY <1>8 DEF Discard
  <2>2. UNCHANGED <<fixedVars, kernelVars, dataVars>>
    BY <2>1 DEF Discard
  <2>3. \A i \in Kernel : i <= next - 1
    BY <1>3, <1>6, <1>8 DEF Kernel
  <2>4. KernelType'
    BY <1>1, <1>2, <2>2 DEF kernelVars, KernelType, Discard
  <2>5. KernelUrbs'
    <3>1. Kernel' = Kernel
      BY <2>2, UrbsStay
    <3>2. \A u \in Threads : pc'[u] = "discard" =>
            next' <= num_urbs' /\ \A i \in Kernel' : i <= next'
      BY <1>1, <1>3, <2>3, <3>1, NumUrbsType
    <3>3. QED
      BY <1>1, <1>2, <3>1, <3>2 DEF KernelUrbs, Discard
  <2>6. Counted' /\ InOrder' /\ Ends' /\ ControlCancelled'
    <3>1. Kernel' = Kernel /\ Outstanding' = Outstanding
      BY <2>2, UrbsStay
    <3>2. Counted' /\ InOrder'
      BY <1>1, <2>2, <3>1, <1>7
      DEF IInv, UrbInv, Counted, InOrder, Ordered, Discard, kernelVars
    <3>3. Ends' /\ ControlCancelled'
      BY <1>1, <2>2, <3>1
      DEF IInv, UrbInv, Ends, ControlCancelled, Discard, kernelVars
    <3>4. QED
      BY <3>2, <3>3
  <2>7. Data'
    BY <2>2, UrbsStay DEF IInv, Data, Clean, Discard, kernelVars
  <2>8. QED
    BY <1>4, <1>5, <2>2, <2>4, <2>5, <2>6, <2>7, UrbsStay
    DEF IInv, Types, UrbInv

<1>9. CASE WithKernel(next)
  <2>1. PICK n \in {0, 1} : /\ Finish(<<Result(next, "cancelled", n)>>)
                            /\ n = 1 => Lowest(next)
    <3>1. PICK n \in IF Lowest(next) /\ kind = "bulk" THEN {0, 1} ELSE {0} :
            Finish(<<Result(next, "cancelled", n)>>)
      BY <1>9, Zenon DEF Discard
    <3>2. CASE Lowest(next)
      BY <3>1, <3>2
    <3>3. CASE ~Lowest(next)
      <4>1. n \in {0} /\ n # 1
        BY <3>3
      <4>2. QED
        BY <3>1, <4>1
    <3>4. QED
      BY <3>2, <3>3
  <2> DEFINE e == Result(next, "cancelled", n)
             s == <<e>>
  <2>2. e \in Results /\ e.urb = next /\ e.status = "cancelled" /\ e.length = n
    BY <1>3 DEF Result, Results, UrbStatuses
  <2> HIDE DEF e
  <2>3. s \in Seq(Results) /\ Len(s) = 1 /\ DOMAIN s = 1 .. 1 /\ s[1] = e
    BY <2>2
  <2>4. Finish(s)
    <3>1. Finish(<<Result(next, "cancelled", n)>>)
      BY <2>1
    <3>2. QED
      BY <3>1, Zenon DEF e
  <2> HIDE DEF s
  <2>5. Finishes(s)
    BY <1>3, <1>9, <2>2, <2>3 DEF Finishes, Kernel
  <2>6. {s[k].urb : k \in DOMAIN s} = {next}
    BY <2>2, <2>3
  <2>7. /\ ready' \in Seq(Results) /\ ReadyUrbs'
        /\ Outstanding' = Outstanding /\ Kernel' = Kernel \ {next}
        /\ Len(ready') = Len(ready) + 1
        /\ \A k \in 1 .. Len(ready) : ready'[k] = ready[k]
        /\ ready'[Len(ready) + 1] = e
    <3>1. /\ ready' \in Seq(Results) /\ ReadyUrbs'
          /\ Outstanding' = Outstanding
          /\ Kernel' = Kernel \ {s[k].urb : k \in DOMAIN s}
          /\ Len(ready') = Len(ready) + Len(s)
          /\ \A k \in 1 .. Len(ready) : ready'[k] = ready[k]
          /\ \A k \in 1 .. Len(s) : ready'[Len(ready) + k] = s[k]
      BY <1>2, <2>4, <2>5, FinishReady
    <3>2. 1 \in 1 .. Len(s)
      BY <2>3
    <3>3. QED
      BY <2>3, <2>6, <3>1, <3>2
  <2>8. Len(ready) \in Nat /\ DOMAIN ready = 1 .. Len(ready)
        /\ DOMAIN ready' = 1 .. Len(ready) + 1
    BY <1>2, <2>7, ReadyResults
  <2>9. \A k \in DOMAIN ready' : \/ k \in DOMAIN ready /\ ready'[k] = ready[k]
                                 \/ ready'[k] = e
    BY <2>7, <2>8
  <2>10. next \in Kernel
    BY <1>3, <1>9 DEF Kernel
  <2>11. KernelType'
    BY <1>1, <1>2, <2>4, <2>5, <2>7, FinishUrbs DEF KernelType, Discard
  <2>12. KernelUrbs'
    <3>1. PICK lo \in 1 .. num_urbs + 1, hi \in 0 .. num_urbs :
            Kernel = lo .. hi
      BY <1>2 DEF KernelUrbs
    <3>2. hi = next
      BY <1>3, <2>10, <3>1, NumUrbsType
    <3>3. Kernel' = lo .. next - 1 /\ next - 1 \in 0 .. num_urbs
      BY <1>3, <2>7, <3>1, <3>2, NumUrbsType
    <3>4. ~plugged' => Kernel' = {}
      BY <1>2, <2>7 DEF KernelUrbs, Discard
    <3>5. \A u \in Threads : pc'[u] = "discard" =>
            next' <= num_urbs' /\ \A i \in Kernel' : i <= next'
      BY <1>1, <1>3, <3>1, <3>3, NumUrbsType
    <3>6. QED
      BY <1>1, <3>1, <3>3, <3>4, <3>5 DEF KernelUrbs
  <2>13. pc["user"] # "urbs" /\ reap_action # "normal"
    BY <1>2, <1>3, <2>10 DEF IInv, UrbInv, Ends, RunType, Threads
  <2>14. Counted' /\ InOrder'
    BY <1>1, <2>7, <2>13 DEF IInv, UrbInv, Counted, InOrder, Discard
  <2>15. Lengths' /\ Ends'
    BY <1>1, <2>2, <2>7, <2>9, <2>13 DEF IInv, UrbInv, Lengths, Ends, Discard
  <2>16. ControlCancelled'
    BY <1>3, <2>2, <2>9, <2>13 DEF IInv, UrbInv, ControlCancelled, Discard
  <2>17. Whole => Whole'
    <3>1. \A i \in Urbs : urb[i] \in {"none", "retired"} =>
            urb'[i] = urb[i] /\ results'[i] = results[i]
      BY <1>2, <2>4, <2>5, FinishUrbs DEF Finishes, Kernel, WithKernel
    <3>2. UNCHANGED <<fixedVars, torn, transferred>>
      BY DEF Discard
    <3>3. transferred \in Nat /\ continuation \in BOOLEAN
      BY <1>2, TransferredType DEF KernelType
    <3>4. \A i \in 1 .. num_urbs : i \in Urbs
      BY NumUrbsType, UsbTransferAssumption DEF Urbs
    <3>5. QED
      BY <3>1, <3>2, <3>3, <3>4, WholeStays
  <2>18. Data'
    BY <2>13, <2>17 DEF IInv, Data, Clean, Discard
  <2>19. NoSurplus'
    <3> SUFFICES ASSUME continuation
                 PROVE  /\ (\E i \in Urbs : results'[i] \in CutShort) =>
                             Kernel' = {}
                        /\ \A k \in DOMAIN ready' : ready'[k].length > 0 =>
                             /\ \A i \in Kernel' : ready'[k].urb < i
                             /\ \A i \in 1 .. ready'[k].urb - 1 :
                                  results'[i] \notin CutShort
      BY DEF NoSurplus, Discard
    <3>1. /\ (\E i \in Urbs : results[i] \in CutShort) => Kernel = {}
          /\ \A k \in DOMAIN ready : ready[k].length > 0 =>
               \A i \in Kernel : ready[k].urb < i
      BY DEF IInv, UrbInv, NoSurplus
    <3>2. \A i \in Urbs : results'[i] \in {results[i], "cancelled"}
      BY <1>2, <2>2, <2>3, <2>4, <2>5, FinishUrbs
    <3>3. \A i \in Urbs : results'[i] \notin CutShort
      BY <2>10, <3>1, <3>2 DEF CutShort
    <3>4. ASSUME NEW k \in DOMAIN ready', ready'[k].length > 0
          PROVE  /\ \A i \in Kernel' : ready'[k].urb < i
                 /\ ready'[k].urb \in Urbs
      <4>1. CASE k \in DOMAIN ready /\ ready'[k] = ready[k]
        BY <1>2, <2>7, <3>1, <3>4, <4>1, ReadyResults
      <4>2. CASE ready'[k] = e
        <5>1. n = 1 /\ Lowest(next)
          <6>1. n > 0
            BY <2>2, <3>4, <4>2
          <6>2. n = 1
            BY <6>1
          <6>3. QED
            BY <2>1, <6>2
        <5>2. \A i \in Kernel : i = next
          BY <1>3, <1>6, <5>1 DEF Lowest, Kernel, Urbs
        <5>3. Kernel' = {}
          BY <2>7, <5>2
        <5>4. QED
          BY <1>3, <2>2, <4>2, <5>3
      <4>3. QED
        BY <2>9, <3>4, <4>1, <4>2
    <3>5. \A k \in DOMAIN ready' : ready'[k].length > 0 =>
            \A i \in 1 .. ready'[k].urb - 1 : i \in Urbs
      BY <3>4, UrbsBefore
    <3>6. QED
      BY <3>3, <3>4, <3>5
  <2>20. QED
    BY <1>4, <1>5, <2>7, <2>11, <2>12, <2>14, <2>15, <2>16, <2>18, <2>19
    DEF IInv, Types, UrbInv
<1>10. QED
  BY <1>8, <1>9

\* The lock is given back; what the user has submitted is accepted.
LEMMA DiscardEndKeeps == ASSUME IInv, NEW t \in Threads, DiscardEnd(t) PROVE IInv'
<1> USE DEF kernelVars, DiscardEnd, DiscardFrame, Goto, fixedVars, privVars,
            dataVars
<1>1. UNCHANGED <<fixedVars, kernelVars, dataVars>>
  OBVIOUS
<1>2. /\ Types /\ UrbInv /\ OwnerInv /\ Data
      /\ num_urbs' = num_urbs /\ Results' = Results
      /\ Kernel' = Kernel /\ Outstanding' = Outstanding
      /\ ReadyUrbs' /\ Lengths' /\ NoSurplus' /\ (Whole => Whole')
      /\ Kernel \subseteq Outstanding
      /\ \A i \in Kernel : i \in Nat /\ i <= num_urbs
      /\ ~allocated => Kernel = {}
  BY <1>1, UrbsStay, KernelIsOutstanding DEF IInv, UrbInv
<1>3. KernelType'
  BY <1>1, <1>2 DEF Types, KernelType
<1>4. PrivType'
  BY <1>2, NumUrbsType DEF Types, PrivType, RunType, UrbInv, Counted
<1>5. RunType'
  BY <1>2, NumUrbsType
  DEF Types, RunType, Threads, OwnerInv, Cancelled, Reportable, PrivType
<1>6. KernelUrbs'
  BY <1>1, <1>2, NumUrbsType
  DEF Types, RunType, UrbInv, OwnerInv, Owner, KernelUrbs, Counted, Ends,
      Threads
<1>7. Counted'
  BY <1>1, <1>2, NumUrbsType
  DEF Types, RunType, PrivType, UrbInv, OwnerInv, Owner, Counted, Threads
<1>8. InOrder'
  BY <1>1, <1>2, NumUrbsType
  DEF Types, RunType, UrbInv, OwnerInv, Owner, InOrder, Ordered, Counted,
      Threads
<1>9. Ends'
  BY <1>1, <1>2 DEF Types, RunType, UrbInv, Ends, Threads
<1>10. ControlCancelled'
  BY <1>1, <1>2
  DEF Types, RunType, UrbInv, ControlCancelled, Threads, num_urbs
<1>11. OwnerInv'
  BY <1>2
  DEF Types, RunType, PrivType, UrbInv, Counted, OwnerInv, Owner, Cancelled,
      Reportable, Threads
<1>12. Data'
  BY <1>1, <1>2, UsbTransferAssumption
  DEF Types, KernelType, RunType, OwnerInv, Owner, Cancelled, UrbInv, Counted,
      Data, Clean, Whole, Threads
<1>13. QED
  BY <1>2, <1>3, <1>4, <1>6, <1>7, <1>8, <1>9, <1>10, <1>11, <1>12, <1>5
  DEF IInv, Types, UrbInv

\* The first URB is refused: there is none to wait for.
LEMMA SubmitRefusedKeeps == ASSUME IInv, SubmitRefused PROVE IInv'
<1> USE DEF kernelVars, SubmitRefused, SubmitFrame, Goto, fixedVars, dataVars
<1>1. UNCHANGED <<fixedVars, kernelVars, dataVars>>
  OBVIOUS
<1>2. /\ Types /\ UrbInv /\ OwnerInv /\ Data
      /\ num_urbs' = num_urbs /\ Results' = Results
      /\ Kernel' = Kernel /\ Outstanding' = Outstanding
      /\ ReadyUrbs' /\ Lengths' /\ NoSurplus' /\ (Whole => Whole')
      /\ Kernel \subseteq Outstanding
      /\ \A i \in Kernel : i \in Nat /\ i <= num_urbs
      /\ ~allocated => Kernel = {}
  BY <1>1, UrbsStay, KernelIsOutstanding DEF IInv, UrbInv
<1>3. KernelType'
  BY <1>1, <1>2 DEF Types, KernelType
<1>4. PrivType'
  BY <1>2, NumUrbsType DEF Types, PrivType, RunType, UrbInv, Counted
<1>5. RunType'
  BY <1>2, NumUrbsType
  DEF Types, RunType, Threads, OwnerInv, Cancelled, Reportable, PrivType
<1>6. KernelUrbs'
  BY <1>1, <1>2, NumUrbsType
  DEF Types, RunType, UrbInv, OwnerInv, Owner, KernelUrbs, Counted, Ends,
      Threads
<1>7. Counted'
  BY <1>1, <1>2, NumUrbsType
  DEF Types, RunType, PrivType, UrbInv, OwnerInv, Owner, Counted, Threads
<1>8. InOrder'
  BY <1>1, <1>2, NumUrbsType
  DEF Types, RunType, UrbInv, OwnerInv, Owner, InOrder, Ordered, Counted,
      Threads
<1>9. Ends'
  BY <1>1, <1>2 DEF Types, RunType, UrbInv, Ends, Threads
<1>10. ControlCancelled'
  BY <1>1, <1>2
  DEF Types, RunType, UrbInv, ControlCancelled, Threads, num_urbs
<1>11. OwnerInv'
  BY <1>2
  DEF Types, RunType, PrivType, UrbInv, Counted, OwnerInv, Owner, Cancelled,
      Reportable, Threads
<1>12. Data'
  BY <1>1, <1>2, UsbTransferAssumption
  DEF Types, KernelType, RunType, OwnerInv, Owner, Cancelled, UrbInv, Counted,
      Data, Clean, Whole, Threads
<1>13. QED
  BY <1>2, <1>3, <1>4, <1>6, <1>7, <1>8, <1>9, <1>10, <1>11, <1>12, <1>5
  DEF IInv, Types, UrbInv

\* The URBs that are not submitted any more count as retired ...
LEMMA SubmitEarlyKeeps == ASSUME IInv, SubmitEarly PROVE IInv'
<1> USE DEF kernelVars, SubmitEarly, Accepted, SubmitFrame, Goto, fixedVars,
            dataVars
<1>1. UNCHANGED <<fixedVars, kernelVars, dataVars>>
  OBVIOUS
<1>2. /\ Types /\ UrbInv /\ OwnerInv /\ Data
      /\ num_urbs' = num_urbs /\ Results' = Results
      /\ Kernel' = Kernel /\ Outstanding' = Outstanding
      /\ ReadyUrbs' /\ Lengths' /\ NoSurplus' /\ (Whole => Whole')
      /\ Kernel \subseteq Outstanding
      /\ \A i \in Kernel : i \in Nat /\ i <= num_urbs
      /\ ~allocated => Kernel = {}
  BY <1>1, UrbsStay, KernelIsOutstanding DEF IInv, UrbInv
<1>3. Cardinality(Outstanding) = next - 1
  <2>1. Outstanding = 1 .. next - 1 /\ next \in 1 .. num_urbs + 1
    BY <1>2 DEF UrbInv, Counted, Goto
  <2>2. QED
    BY <2>1, NumUrbsType, FS_Interval
<1>4. KernelType'
  BY <1>1, <1>2 DEF Types, KernelType
<1>5. PrivType'
  BY <1>2, NumUrbsType DEF Types, PrivType, RunType, UrbInv, Counted
<1>6. RunType'
  BY <1>2, NumUrbsType
  DEF Types, RunType, Threads, OwnerInv, Cancelled, Reportable, PrivType
<1>7. KernelUrbs'
  BY <1>1, <1>2, NumUrbsType
  DEF Types, RunType, UrbInv, OwnerInv, Owner, KernelUrbs, Counted, Ends,
      Threads
<1>8. Counted'
  BY <1>1, <1>2, NumUrbsType, <1>3
  DEF Types, RunType, PrivType, UrbInv, OwnerInv, Owner, Counted, Threads
<1>9. InOrder'
  BY <1>1, <1>2, NumUrbsType
  DEF Types, RunType, UrbInv, OwnerInv, Owner, InOrder, Ordered, Counted,
      Threads
<1>10. Ends'
  BY <1>1, <1>2 DEF Types, RunType, UrbInv, Ends, Threads
<1>11. ControlCancelled'
  BY <1>1, <1>2
  DEF Types, RunType, UrbInv, ControlCancelled, Threads, num_urbs
<1>12. OwnerInv'
  BY <1>2
  DEF Types, RunType, PrivType, UrbInv, Counted, OwnerInv, Owner, Cancelled,
      Reportable, Threads
<1>13. Data'
  BY <1>1, <1>2, UsbTransferAssumption
  DEF Types, KernelType, RunType, OwnerInv, Owner, Cancelled, UrbInv, Counted,
      Data, Clean, Whole, Threads, Cut
<1>14. QED
  BY <1>2, <1>4, <1>5, <1>7, <1>8, <1>9, <1>10, <1>11, <1>12, <1>13, <1>6
  DEF IInv, Types, UrbInv

\* ... and so they do when one is refused.
LEMMA SubmitFailsKeeps == ASSUME IInv, SubmitFails PROVE IInv'
<1> USE DEF kernelVars, SubmitFails, SubmitFrame, Goto, fixedVars, dataVars
<1>1. UNCHANGED <<fixedVars, kernelVars, dataVars>>
  OBVIOUS
<1>2. /\ Types /\ UrbInv /\ OwnerInv /\ Data
      /\ num_urbs' = num_urbs /\ Results' = Results
      /\ Kernel' = Kernel /\ Outstanding' = Outstanding
      /\ ReadyUrbs' /\ Lengths' /\ NoSurplus' /\ (Whole => Whole')
      /\ Kernel \subseteq Outstanding
      /\ \A i \in Kernel : i \in Nat /\ i <= num_urbs
      /\ ~allocated => Kernel = {}
  BY <1>1, UrbsStay, KernelIsOutstanding DEF IInv, UrbInv
<1>3. Cardinality(Outstanding) = next - 1
  <2>1. Outstanding = 1 .. next - 1 /\ next \in 1 .. num_urbs + 1
    BY <1>2 DEF UrbInv, Counted, Goto
  <2>2. QED
    BY <2>1, NumUrbsType, FS_Interval
<1>4. next - 1 <= num_urbs /\ \A i \in Kernel : i <= next - 1
  <2>1. Outstanding = 1 .. next - 1 /\ next \in 1 .. num_urbs + 1
    BY <1>2 DEF UrbInv, Counted
  <2>2. QED
    BY <1>2, <2>1, NumUrbsType
<1>5. KernelType'
  BY <1>1, <1>2 DEF Types, KernelType
<1>6. PrivType'
  BY <1>2, NumUrbsType DEF Types, PrivType, RunType, UrbInv, Counted
<1>7. RunType'
  BY <1>2, NumUrbsType
  DEF Types, RunType, Threads, OwnerInv, Cancelled, Reportable, PrivType
<1>8. KernelUrbs'
  BY <1>1, <1>2, NumUrbsType, <1>4
  DEF Types, RunType, UrbInv, OwnerInv, Owner, KernelUrbs, Counted, Ends,
      Threads
<1>9. Counted'
  BY <1>1, <1>2, NumUrbsType, <1>3
  DEF Types, RunType, PrivType, UrbInv, OwnerInv, Owner, Counted, Threads
<1>10. InOrder'
  BY <1>1, <1>2, NumUrbsType
  DEF Types, RunType, UrbInv, OwnerInv, Owner, InOrder, Ordered, Counted,
      Threads
<1>11. Ends'
  BY <1>1, <1>2 DEF Types, RunType, UrbInv, Ends, Threads
<1>12. ControlCancelled'
  BY <1>1, <1>2
  DEF Types, RunType, UrbInv, ControlCancelled, Threads, num_urbs
<1>13. OwnerInv'
  BY <1>2
  DEF Types, RunType, PrivType, UrbInv, Counted, OwnerInv, Owner, Cancelled,
      Reportable, Threads
<1>14. Data'
  BY <1>1, <1>2, UsbTransferAssumption
  DEF Types, KernelType, RunType, OwnerInv, Owner, Cancelled, UrbInv, Counted,
      Data, Clean, Whole, Threads
<1>15. QED
  BY <1>2, <1>5, <1>6, <1>8, <1>9, <1>10, <1>11, <1>12, <1>13, <1>14, <1>7
  DEF IInv, Types, UrbInv

\* Every URB is outstanding, or was already finished.
LEMMA SubmitEndKeeps == ASSUME IInv, SubmitEnd PROVE IInv'
<1> USE DEF kernelVars, SubmitEnd, Accepted, SubmitFrame, Goto, fixedVars,
            privVars, dataVars
<1>1. UNCHANGED <<fixedVars, kernelVars, dataVars>>
  OBVIOUS
<1>2. /\ Types /\ UrbInv /\ OwnerInv /\ Data
      /\ num_urbs' = num_urbs /\ Results' = Results
      /\ Kernel' = Kernel /\ Outstanding' = Outstanding
      /\ ReadyUrbs' /\ Lengths' /\ NoSurplus' /\ (Whole => Whole')
      /\ Kernel \subseteq Outstanding
      /\ \A i \in Kernel : i \in Nat /\ i <= num_urbs
      /\ ~allocated => Kernel = {}
  BY <1>1, UrbsStay, KernelIsOutstanding DEF IInv, UrbInv
<1>3. Cardinality(Outstanding) = next - 1
  <2>1. Outstanding = 1 .. next - 1 /\ next \in 1 .. num_urbs + 1
    BY <1>2 DEF UrbInv, Counted, Goto
  <2>2. QED
    BY <2>1, NumUrbsType, FS_Interval
<1>4. KernelType'
  BY <1>1, <1>2 DEF Types, KernelType
<1>5. PrivType'
  BY <1>2, NumUrbsType DEF Types, PrivType, RunType, UrbInv, Counted
<1>6. RunType'
  BY <1>2, NumUrbsType
  DEF Types, RunType, Threads, OwnerInv, Cancelled, Reportable, PrivType
<1>7. KernelUrbs'
  BY <1>1, <1>2, NumUrbsType
  DEF Types, RunType, UrbInv, OwnerInv, Owner, KernelUrbs, Counted, Ends,
      Threads
<1>8. Counted'
  BY <1>1, <1>2, NumUrbsType, <1>3
  DEF Types, RunType, PrivType, UrbInv, OwnerInv, Owner, Counted, Threads
<1>9. InOrder'
  BY <1>1, <1>2, NumUrbsType
  DEF Types, RunType, UrbInv, OwnerInv, Owner, InOrder, Ordered, Counted,
      Threads
<1>10. Ends'
  BY <1>1, <1>2 DEF Types, RunType, UrbInv, Ends, Threads
<1>11. ControlCancelled'
  BY <1>1, <1>2
  DEF Types, RunType, UrbInv, ControlCancelled, Threads, num_urbs
<1>12. OwnerInv'
  BY <1>2
  DEF Types, RunType, PrivType, UrbInv, Counted, OwnerInv, Owner, Cancelled,
      Reportable, Threads
<1>13. Data'
  BY <1>1, <1>2, UsbTransferAssumption
  DEF Types, KernelType, RunType, OwnerInv, Owner, Cancelled, UrbInv, Counted,
      Data, Clean, Whole, Threads
<1>14. QED
  BY <1>2, <1>4, <1>5, <1>7, <1>8, <1>9, <1>10, <1>11, <1>12, <1>13, <1>6
  DEF IInv, Types, UrbInv

\* The owner cancels: all URBs are to be discarded.
LEMMA CancelKeeps == ASSUME IInv, Cancel PROVE IInv'
<1> USE DEF kernelVars, Cancel, op_cancel_transfer, Acquire, Goto, fixedVars,
            dataVars
<1>1. UNCHANGED <<fixedVars, kernelVars, dataVars>>
  OBVIOUS
<1>2. /\ Types /\ UrbInv /\ OwnerInv /\ Data
      /\ num_urbs' = num_urbs /\ Results' = Results
      /\ Kernel' = Kernel /\ Outstanding' = Outstanding
      /\ ReadyUrbs' /\ Lengths' /\ NoSurplus' /\ (Whole => Whole')
      /\ Kernel \subseteq Outstanding
      /\ \A i \in Kernel : i \in Nat /\ i <= num_urbs
      /\ ~allocated => Kernel = {}
  BY <1>1, UrbsStay, KernelIsOutstanding DEF IInv, UrbInv
<1>3. KernelType'
  BY <1>1, <1>2 DEF Types, KernelType
<1>4. PrivType'
  BY <1>2, NumUrbsType DEF Types, PrivType, RunType, UrbInv, Counted
<1>5. RunType'
  BY <1>2, NumUrbsType
  DEF Types, RunType, Threads, OwnerInv, Cancelled, Reportable, PrivType
<1>6. KernelUrbs'
  BY <1>1, <1>2, NumUrbsType
  DEF Types, RunType, UrbInv, OwnerInv, Owner, KernelUrbs, Counted, Ends,
      Threads
<1>7. Counted'
  BY <1>1, <1>2, NumUrbsType
  DEF Types, RunType, PrivType, UrbInv, OwnerInv, Owner, Counted, Threads
<1>8. InOrder'
  BY <1>1, <1>2, NumUrbsType
  DEF Types, RunType, UrbInv, OwnerInv, Owner, InOrder, Ordered, Counted,
      Threads
<1>9. Ends'
  BY <1>1, <1>2 DEF Types, RunType, UrbInv, Ends, Threads
<1>10. ControlCancelled'
  BY <1>1, <1>2
  DEF Types, RunType, UrbInv, ControlCancelled, Threads, num_urbs
<1>11. OwnerInv'
  BY <1>2
  DEF Types, RunType, PrivType, UrbInv, Counted, OwnerInv, Owner, Cancelled,
      Reportable, Threads
<1>12. Data'
  BY <1>1, <1>2, UsbTransferAssumption
  DEF Types, KernelType, RunType, OwnerInv, Owner, Cancelled, UrbInv, Counted,
      Data, Clean, Whole, Threads
<1>13. QED
  BY <1>2, <1>3, <1>4, <1>6, <1>7, <1>8, <1>9, <1>10, <1>11, <1>12, <1>5
  DEF IInv, Types, UrbInv

\* A timeout is marked before it cancels.
LEMMA ExpireKeeps == ASSUME IInv, Expire PROVE IInv'
<1> USE DEF kernelVars, Expire, FlyingLockFree, Goto, fixedVars, privVars,
            dataVars, ownerVars
<1>1. UNCHANGED <<fixedVars, kernelVars, dataVars>>
  OBVIOUS
<1>2. /\ Types /\ UrbInv /\ OwnerInv /\ Data
      /\ num_urbs' = num_urbs /\ Results' = Results
      /\ Kernel' = Kernel /\ Outstanding' = Outstanding
      /\ ReadyUrbs' /\ Lengths' /\ NoSurplus' /\ (Whole => Whole')
      /\ Kernel \subseteq Outstanding
      /\ \A i \in Kernel : i \in Nat /\ i <= num_urbs
      /\ ~allocated => Kernel = {}
  BY <1>1, UrbsStay, KernelIsOutstanding DEF IInv, UrbInv
<1>3. KernelType'
  BY <1>1, <1>2 DEF Types, KernelType
<1>4. PrivType'
  BY <1>2, NumUrbsType DEF Types, PrivType, RunType, UrbInv, Counted
<1>5. RunType'
  BY <1>2, NumUrbsType
  DEF Types, RunType, Threads, OwnerInv, Cancelled, Reportable, PrivType
<1>6. KernelUrbs'
  BY <1>1, <1>2, NumUrbsType
  DEF Types, RunType, UrbInv, OwnerInv, Owner, KernelUrbs, Counted, Ends,
      Threads
<1>7. Counted'
  BY <1>1, <1>2, NumUrbsType
  DEF Types, RunType, PrivType, UrbInv, OwnerInv, Owner, Counted, Threads
<1>8. InOrder'
  BY <1>1, <1>2, NumUrbsType
  DEF Types, RunType, UrbInv, OwnerInv, Owner, InOrder, Ordered, Counted,
      Threads
<1>9. Ends'
  BY <1>1, <1>2 DEF Types, RunType, UrbInv, Ends, Threads
<1>10. ControlCancelled'
  BY <1>1, <1>2
  DEF Types, RunType, UrbInv, ControlCancelled, Threads, num_urbs
<1>11. OwnerInv'
  BY <1>2
  DEF Types, RunType, PrivType, UrbInv, Counted, OwnerInv, Owner, Cancelled,
      Reportable, Threads
<1>12. Data'
  BY <1>1, <1>2, UsbTransferAssumption
  DEF Types, KernelType, RunType, OwnerInv, Owner, Cancelled, UrbInv, Counted,
      Data, Clean, Whole, Threads
<1>13. QED
  BY <1>2, <1>3, <1>4, <1>6, <1>7, <1>8, <1>9, <1>10, <1>11, <1>12, <1>5
  DEF IInv, Types, UrbInv

\* A timeout cancels as the owner does.
LEMMA ExpireCancelKeeps == ASSUME IInv, ExpireCancel PROVE IInv'
<1> USE DEF kernelVars, ExpireCancel, op_cancel_transfer, Acquire, Goto,
            fixedVars, dataVars
<1>1. UNCHANGED <<fixedVars, kernelVars, dataVars>>
  OBVIOUS
<1>2. /\ Types /\ UrbInv /\ OwnerInv /\ Data
      /\ num_urbs' = num_urbs /\ Results' = Results
      /\ Kernel' = Kernel /\ Outstanding' = Outstanding
      /\ ReadyUrbs' /\ Lengths' /\ NoSurplus' /\ (Whole => Whole')
      /\ Kernel \subseteq Outstanding
      /\ \A i \in Kernel : i \in Nat /\ i <= num_urbs
      /\ ~allocated => Kernel = {}
  BY <1>1, UrbsStay, KernelIsOutstanding DEF IInv, UrbInv
<1>3. KernelType'
  BY <1>1, <1>2 DEF Types, KernelType
<1>4. PrivType'
  BY <1>2, NumUrbsType DEF Types, PrivType, RunType, UrbInv, Counted
<1>5. RunType'
  BY <1>2, NumUrbsType
  DEF Types, RunType, Threads, OwnerInv, Cancelled, Reportable, PrivType
<1>6. KernelUrbs'
  BY <1>1, <1>2, NumUrbsType
  DEF Types, RunType, UrbInv, OwnerInv, Owner, KernelUrbs, Counted, Ends,
      Threads
<1>7. Counted'
  BY <1>1, <1>2, NumUrbsType
  DEF Types, RunType, PrivType, UrbInv, OwnerInv, Owner, Counted, Threads
<1>8. InOrder'
  BY <1>1, <1>2, NumUrbsType
  DEF Types, RunType, UrbInv, OwnerInv, Owner, InOrder, Ordered, Counted,
      Threads
<1>9. Ends'
  BY <1>1, <1>2 DEF Types, RunType, UrbInv, Ends, Threads
<1>10. ControlCancelled'
  BY <1>1, <1>2
  DEF Types, RunType, UrbInv, ControlCancelled, Threads, num_urbs
<1>11. OwnerInv'
  BY <1>2
  DEF Types, RunType, PrivType, UrbInv, Counted, OwnerInv, Owner, Cancelled,
      Reportable, Threads
<1>12. Data'
  BY <1>1, <1>2, UsbTransferAssumption
  DEF Types, KernelType, RunType, OwnerInv, Owner, Cancelled, UrbInv, Counted,
      Data, Clean, Whole, Threads
<1>13. QED
  BY <1>2, <1>3, <1>4, <1>6, <1>7, <1>8, <1>9, <1>10, <1>11, <1>12, <1>5
  DEF IInv, Types, UrbInv

\* The status is settled when no timeout is being handled.
LEMMA ReportKeeps == ASSUME IInv, Report PROVE IInv'
<1> USE DEF kernelVars, Report, Settled, FlyingLockFree, Goto, fixedVars,
            privVars, dataVars, ownerVars
<1>1. UNCHANGED <<fixedVars, kernelVars, dataVars>>
  OBVIOUS
<1>2. /\ Types /\ UrbInv /\ OwnerInv /\ Data
      /\ num_urbs' = num_urbs /\ Results' = Results
      /\ Kernel' = Kernel /\ Outstanding' = Outstanding
      /\ ReadyUrbs' /\ Lengths' /\ NoSurplus' /\ (Whole => Whole')
      /\ Kernel \subseteq Outstanding
      /\ \A i \in Kernel : i \in Nat /\ i <= num_urbs
      /\ ~allocated => Kernel = {}
  BY <1>1, UrbsStay, KernelIsOutstanding DEF IInv, UrbInv
<1>3. KernelType'
  BY <1>1, <1>2 DEF Types, KernelType
<1>4. PrivType'
  BY <1>2, NumUrbsType DEF Types, PrivType, RunType, UrbInv, Counted
<1>5. RunType'
  BY <1>2, NumUrbsType
  DEF Types, RunType, Threads, OwnerInv, Cancelled, Reportable, PrivType
<1>6. KernelUrbs'
  BY <1>1, <1>2, NumUrbsType
  DEF Types, RunType, UrbInv, OwnerInv, Owner, KernelUrbs, Counted, Ends,
      Threads
<1>7. Counted'
  BY <1>1, <1>2, NumUrbsType
  DEF Types, RunType, PrivType, UrbInv, OwnerInv, Owner, Counted, Threads
<1>8. InOrder'
  BY <1>1, <1>2, NumUrbsType
  DEF Types, RunType, UrbInv, OwnerInv, Owner, InOrder, Ordered, Counted,
      Threads
<1>9. Ends'
  BY <1>1, <1>2 DEF Types, RunType, UrbInv, Ends, Threads
<1>10. ControlCancelled'
  BY <1>1, <1>2
  DEF Types, RunType, UrbInv, ControlCancelled, Threads, num_urbs
<1>11. OwnerInv'
  BY <1>2
  DEF Types, RunType, PrivType, UrbInv, Counted, OwnerInv, Owner, Cancelled,
      Reportable, Threads
<1>12. Data'
  BY <1>1, <1>2, UsbTransferAssumption
  DEF Types, KernelType, RunType, OwnerInv, Owner, Cancelled, UrbInv, Counted,
      Data, Clean, Whole, Threads
<1>13. QED
  BY <1>2, <1>3, <1>4, <1>6, <1>7, <1>8, <1>9, <1>10, <1>11, <1>12, <1>5
  DEF IInv, Types, UrbInv

\* The owner is called; the transfer is its own again.
LEMMA CallbackKeeps == ASSUME IInv, Callback PROVE IInv'
<1> USE DEF kernelVars, Callback, Goto, fixedVars, privVars, dataVars
<1>1. UNCHANGED <<fixedVars, kernelVars, dataVars>>
  OBVIOUS
<1>2. /\ Types /\ UrbInv /\ OwnerInv /\ Data
      /\ num_urbs' = num_urbs /\ Results' = Results
      /\ Kernel' = Kernel /\ Outstanding' = Outstanding
      /\ ReadyUrbs' /\ Lengths' /\ NoSurplus' /\ (Whole => Whole')
      /\ Kernel \subseteq Outstanding
      /\ \A i \in Kernel : i \in Nat /\ i <= num_urbs
      /\ ~allocated => Kernel = {}
  BY <1>1, UrbsStay, KernelIsOutstanding DEF IInv, UrbInv
<1>3. KernelType'
  BY <1>1, <1>2 DEF Types, KernelType
<1>4. PrivType'
  BY <1>2, NumUrbsType DEF Types, PrivType, RunType, UrbInv, Counted
<1>5. RunType'
  BY <1>2, NumUrbsType
  DEF Types, RunType, Threads, OwnerInv, Cancelled, Reportable, PrivType
<1>6. KernelUrbs'
  BY <1>1, <1>2, NumUrbsType
  DEF Types, RunType, UrbInv, OwnerInv, Owner, KernelUrbs, Counted, Ends,
      Threads
<1>7. Counted'
  BY <1>1, <1>2, NumUrbsType
  DEF Types, RunType, PrivType, UrbInv, OwnerInv, Owner, Counted, Threads
<1>8. InOrder'
  BY <1>1, <1>2, NumUrbsType
  DEF Types, RunType, UrbInv, OwnerInv, Owner, InOrder, Ordered, Counted,
      Threads
<1>9. Ends'
  BY <1>1, <1>2 DEF Types, RunType, UrbInv, Ends, Threads
<1>10. ControlCancelled'
  BY <1>1, <1>2
  DEF Types, RunType, UrbInv, ControlCancelled, Threads, num_urbs
<1>11. OwnerInv'
  BY <1>2
  DEF Types, RunType, PrivType, UrbInv, Counted, OwnerInv, Owner, Cancelled,
      Reportable, Threads
<1>12. Data'
  BY <1>1, <1>2, UsbTransferAssumption
  DEF Types, KernelType, RunType, OwnerInv, Owner, Cancelled, UrbInv, Counted,
      Data, Clean, Whole, Threads
<1>13. QED
  BY <1>2, <1>3, <1>4, <1>6, <1>7, <1>8, <1>9, <1>10, <1>11, <1>12, <1>5
  DEF IInv, Types, UrbInv

\* No step.
LEMMA StutterKeeps == ASSUME IInv, UNCHANGED vars PROVE IInv'
<1> USE DEF kernelVars, vars, fixedVars, privVars, dataVars, runVars,
            ownerVars
<1>1. UNCHANGED <<fixedVars, kernelVars, dataVars>>
  OBVIOUS
<1>2. /\ Types /\ UrbInv /\ OwnerInv /\ Data
      /\ num_urbs' = num_urbs /\ Results' = Results
      /\ Kernel' = Kernel /\ Outstanding' = Outstanding
      /\ ReadyUrbs' /\ Lengths' /\ NoSurplus' /\ (Whole => Whole')
      /\ Kernel \subseteq Outstanding
      /\ \A i \in Kernel : i \in Nat /\ i <= num_urbs
      /\ ~allocated => Kernel = {}
  BY <1>1, UrbsStay, KernelIsOutstanding DEF IInv, UrbInv
<1>3. KernelType'
  BY <1>1, <1>2 DEF Types, KernelType
<1>4. PrivType'
  BY <1>2, NumUrbsType DEF Types, PrivType, RunType, UrbInv, Counted
<1>5. RunType'
  BY <1>2, NumUrbsType
  DEF Types, RunType, Threads, OwnerInv, Cancelled, Reportable, PrivType
<1>6. KernelUrbs'
  BY <1>1, <1>2, NumUrbsType
  DEF Types, RunType, UrbInv, OwnerInv, Owner, KernelUrbs, Counted, Ends,
      Threads
<1>7. Counted'
  BY <1>1, <1>2, NumUrbsType
  DEF Types, RunType, PrivType, UrbInv, OwnerInv, Owner, Counted, Threads
<1>8. InOrder'
  BY <1>1, <1>2, NumUrbsType
  DEF Types, RunType, UrbInv, OwnerInv, Owner, InOrder, Ordered, Counted,
      Threads
<1>9. Ends'
  BY <1>1, <1>2 DEF Types, RunType, UrbInv, Ends, Threads
<1>10. ControlCancelled'
  BY <1>1, <1>2
  DEF Types, RunType, UrbInv, ControlCancelled, Threads, num_urbs
<1>11. OwnerInv'
  BY <1>2
  DEF Types, RunType, PrivType, UrbInv, Counted, OwnerInv, Owner, Cancelled,
      Reportable, Threads
<1>12. Data'
  BY <1>1, <1>2, UsbTransferAssumption
  DEF Types, KernelType, RunType, OwnerInv, Owner, Cancelled, UrbInv, Counted,
      Data, Clean, Whole, Threads
<1>13. QED
  BY <1>2, <1>3, <1>4, <1>6, <1>7, <1>8, <1>9, <1>10, <1>11, <1>12, <1>5
  DEF IInv, Types, UrbInv

\* A transfer that is submitted has no URB yet.
LEMMA SubmitKeeps == ASSUME IInv, Submit PROVE IInv'
<1> USE DEF Submit, SubmitFrame, FlyingLockFree, Acquire, Goto, fixedVars
<1>1. /\ Types /\ UrbInv /\ OwnerInv /\ Data
      /\ num_urbs' = num_urbs /\ Results' = Results
  BY DEF IInv, num_urbs, Results
<1>2. ~allocated /\ Outstanding = {} /\ ReadyUrbs
  BY <1>1 DEF OwnerInv, Owner, UrbInv, Counted
<1>3. ready \in Seq(Results) /\ DOMAIN ready = {}
  <2>1. ready \in Seq(Results)
    BY <1>1 DEF Types, KernelType
  <2>2. \A k \in DOMAIN ready : ready[k].urb \in Outstanding
    BY <1>1, <1>2, ReadyResults DEF Types, Outstanding, ReadyUrbs
  <2>3. QED
    BY <1>2, <2>1, <2>2
<1>4. \A i \in Urbs : urb'[i] = "none"
  OBVIOUS
<1>5. Kernel' = {} /\ Outstanding' = {}
  BY <1>4 DEF Kernel, WithKernel, Outstanding, Urbs
<1>6. KernelType'
  BY <1>1 DEF Types, KernelType
<1>7. PrivType'
  <2>1. num_retired' \in 0 .. num_urbs' /\ transferred' \in 0 .. 2 * num_retired'
    BY <1>1, NumUrbsType
  <2>2. allocated' \in BOOLEAN /\ torn' \in BOOLEAN /\ flying' \in BOOLEAN
        /\ timed_out' \in BOOLEAN
    OBVIOUS
  <2>3. QED
    BY <2>1, <2>2 DEF PrivType, Reportable
<1>8. RunType'
  BY <1>1, NumUrbsType DEF Types, RunType, Threads
<1>9. ReadyUrbs' /\ Lengths' /\ NoSurplus'
  BY <1>3, <1>4, <1>5 DEF ReadyUrbs, Lengths, NoSurplus
<1>10. KernelUrbs'
  <2>1. 1 \in 1 .. num_urbs + 1 /\ 0 \in 0 .. num_urbs /\ 1 .. 0 = {}
    BY NumUrbsType
  <2>2. \A t \in Threads : pc'[t] # "discard"
    BY <1>1 DEF Types, RunType, Threads
  <2>3. QED
    BY <1>1, <1>5, <2>1, <2>2 DEF KernelUrbs
<1>11. Counted'
  <2>1. \A i \in 1 .. num_urbs : i \in Urbs
    BY NumUrbsType, UsbTransferAssumption DEF Urbs
  <2>2. QED
    BY <1>1, <1>4, <1>5, <2>1, NumUrbsType
    DEF Counted, Types, RunType, Threads
<1>12. InOrder'
  BY <1>1, <1>3, <1>5, NumUrbsType
  DEF InOrder, Ordered, Types, RunType, Threads
<1>13. Ends' /\ ControlCancelled'
  BY <1>1, <1>3 DEF Ends, ControlCancelled, Types, RunType, Threads
<1>14. OwnerInv'
  BY <1>1, <1>2 DEF OwnerInv, Owner, Cancelled, Types, RunType, Threads
<1>15. Data'
  BY <1>1, <1>3, NumUrbsType
  DEF Data, Clean, OwnerInv, Owner, Types, RunType, Threads
<1>16. QED
  BY <1>6, <1>7, <1>8, <1>9, <1>10, <1>11, <1>12, <1>13, <1>14, <1>15
  DEF IInv, Types, UrbInv

\* URBs are given to the kernel in their order.
LEMMA SubmitUrbKeeps == ASSUME IInv, SubmitUrb PROVE IInv'
<1> USE DEF SubmitUrb, SubmitFrame, fixedVars, privVars, dataVars
<1>1. /\ Types /\ UrbInv /\ OwnerInv /\ Data
      /\ num_urbs' = num_urbs /\ Results' = Results
  BY DEF IInv, num_urbs, Results
<1>2. /\ next \in 1 .. num_urbs /\ next \in Urbs /\ next \in Nat
      /\ urb[next] = "none" /\ Outstanding = 1 .. next - 1
      /\ reap_action = "normal" /\ num_retired = 0
      /\ allocated /\ lock = "user"
  BY <1>1, NumUrbsType, UsbTransferAssumption
  DEF UrbInv, Counted, Urbs, OwnerInv, Owner, Types, RunType, Threads
<1>3. \A i \in Urbs : urb'[i] = IF i = next THEN "kernel" ELSE urb[i]
  BY <1>1 DEF Types, KernelType
<1>4. Kernel' = Kernel \cup {next} /\ Outstanding' = 1 .. next
  <2>1. Kernel' = Kernel \cup {next} /\ Outstanding' = Outstanding \cup {next}
    BY <1>2, <1>3 DEF Kernel, WithKernel, Outstanding, Urbs
  <2>2. QED
    BY <1>2, <2>1
<1>5. KernelType'
  BY <1>1 DEF Types, KernelType
<1>6. PrivType'
  BY <1>1 DEF Types, PrivType
<1>7. RunType'
  BY <1>1, <1>2, NumUrbsType DEF Types, RunType, Threads
<1>8. ReadyUrbs' /\ Lengths' /\ NoSurplus'
  <2>1. \A k \in DOMAIN ready : ready[k].urb \in Urbs /\ ready[k].urb # next
    BY <1>1, <1>2, ReadyResults DEF Types, UrbInv, ReadyUrbs
  <2>2. ReadyUrbs'
    BY <1>1, <1>2, <1>3, <2>1 DEF UrbInv, ReadyUrbs
  <2>3. Lengths'
    BY <1>1, <2>2 DEF UrbInv, Lengths
  <2>4. NoSurplus'
    <3>1. \A k \in DOMAIN ready : ready[k].urb < next
      BY <1>1, <1>2, <2>1, ReadyResults
      DEF Types, UrbInv, ReadyUrbs, Outstanding
    <3>2. continuation => \A i \in Urbs : results[i] \notin CutShort
      BY DEF Cut, CutShort
    <3>3. QED
      BY <1>1, <1>4, <3>1, <3>2 DEF UrbInv, NoSurplus
  <2>5. QED
    BY <2>2, <2>3, <2>4
<1>9. KernelUrbs'
  <2>1. PICK lo \in 1 .. num_urbs + 1, hi \in 0 .. num_urbs : Kernel = lo .. hi
    BY <1>1 DEF UrbInv, KernelUrbs
  <2>2. Kernel \subseteq 1 .. next - 1
    BY <1>1, <1>2, KernelIsOutstanding
  <2>3. \E l \in 1 .. num_urbs + 1, h \in 0 .. num_urbs : Kernel' = l .. h
    <3>1. CASE Kernel = {}
      <4>1. Kernel' = next .. next
        BY <1>2, <1>4, <3>1
      <4>2. QED
        BY <1>2, <4>1, NumUrbsType
    <3>2. CASE Kernel # {}
      <4>1. InOrder
        BY <1>1 DEF UrbInv
      <4>2. lo <= hi /\ hi \in Kernel
        BY <2>1, <3>2, NumUrbsType
      <4>3. hi = next - 1
        <5> SUFFICES ASSUME hi # next - 1 PROVE FALSE
          OBVIOUS
        <5>1. hi < next - 1 /\ next - 1 \in Outstanding
          BY <1>2, <2>1, <2>2, <4>2, NumUrbsType
        <5>2. next - 1 \notin Kernel
          BY <1>2, <2>1, <5>1, NumUrbsType
        <5>3. next - 1 \in Urbs /\ urb[next - 1] = "ready"
          BY <5>1, <5>2 DEF Outstanding, Kernel, WithKernel
        <5>4. PICK k \in DOMAIN ready : ready[k].urb = next - 1
          BY <1>1, <5>3 DEF UrbInv, ReadyUrbs
        <5>5. ready[k].urb < hi
          BY <1>2, <4>1, <4>2 DEF InOrder, Ordered
        <5>6. QED
          BY <1>2, <2>1, <5>1, <5>4, <5>5, NumUrbsType
      <4>4. lo \in Nat /\ hi \in Nat /\ next - 1 + 1 = next
        BY <1>2, <2>1, NumUrbsType
      <4>5. Kernel' = lo .. next
        BY <1>2, <1>4, <2>1, <4>2, <4>3, <4>4
      <4>6. next \in 0 .. num_urbs
        BY <1>2, NumUrbsType
      <4>7. QED
        BY <2>1, <4>5, <4>6
    <3>3. QED
      BY <3>1, <3>2
  <2>4. \A t \in Threads : pc'[t] # "discard"
    BY <1>1, <1>2 DEF Types, RunType, Threads
  <2>5. plugged'
    OBVIOUS
  <2>6. QED
    BY <1>1, <2>3, <2>4, <2>5 DEF KernelUrbs
<1>10. Counted'
  <2>1. Outstanding' = 1 .. next' - 1 /\ next' \in 1 .. num_urbs + 1
    BY <1>2, <1>4, NumUrbsType
  <2>2. \A i \in next' .. num_urbs :
          i \in Urbs /\ i # next /\ i \in next .. num_urbs
    BY <1>2, NumUrbsType, UsbTransferAssumption DEF Urbs
  <2>3. \A i \in next' .. num_urbs : urb'[i] = "none"
    BY <1>1, <1>3, <2>2 DEF UrbInv, Counted
  <2>4. pc["user"] = "urbs"
    OBVIOUS
  <2>5. QED
    BY <1>1, <1>2, <2>1, <2>3, <2>4 DEF UrbInv, Counted
<1>11. InOrder'
  <2>1. Ordered /\ pc["user"] = "urbs"
    BY <1>1, <1>2 DEF UrbInv, InOrder
  <2>2. \A k \in DOMAIN ready : ready[k].urb \in Outstanding
    BY <1>1, ReadyResults DEF Types, UrbInv, ReadyUrbs, Outstanding
  <2>3. \A k \in DOMAIN ready : ready[k].urb < next
    BY <1>2, <2>2
  <2>4. Outstanding' = num_retired' + 1 .. next' - 1
    BY <1>2, <1>4
  <2>5. QED
    BY <1>4, <2>1, <2>3, <2>4 DEF InOrder, Ordered
<1>12. Ends' /\ ControlCancelled'
  <2>1. ASSUME NEW k \in DOMAIN ready, ready[k].status = "stall", kind = "bulk"
        PROVE  FALSE
    BY <1>1, <2>1, ReadyResults
    DEF Types, UrbInv, ReadyUrbs, Ends, Cut
  <2>2. \A t \in Threads : pc'[t] # "discard"
    BY <1>1, <1>2 DEF Types, RunType, Threads
  <2>3. Ends'
    BY <1>1, <2>1, <2>2 DEF UrbInv, Ends, Threads
  <2>4. ControlCancelled'
    BY <1>1 DEF UrbInv, ControlCancelled
  <2>5. QED
    BY <2>3, <2>4
<1>13. OwnerInv'
  BY <1>1 DEF OwnerInv, Owner, Cancelled
<1>14. Data'
  BY <1>1, <1>2, NumUrbsType
  DEF Data, Clean, OwnerInv, Owner, Types, RunType, Threads
<1>15. QED
  BY <1>5, <1>6, <1>7, <1>8, <1>9, <1>10, <1>11, <1>12, <1>13, <1>14
  DEF IInv, Types, UrbInv

\* usbi_handle_disconnect ends the transfer that is flying.
LEMMA DisconnectKeeps == ASSUME IInv, Disconnect PROVE IInv'
<1> USE DEF Disconnect, Complete, FlyingLockFree, Goto, fixedVars, dataVars,
            ownerVars, runVars, kernelVars
<1>1. UNCHANGED <<fixedVars, kernelVars, dataVars>>
  OBVIOUS
<1>2. /\ Types /\ UrbInv /\ OwnerInv /\ Data
      /\ num_urbs' = num_urbs /\ Results' = Results
      /\ Kernel' = Kernel /\ Outstanding' = Outstanding
      /\ ReadyUrbs' /\ Lengths' /\ NoSurplus' /\ (Whole => Whole')
  BY <1>1, UrbsStay DEF IInv, UrbInv
<1>3. KernelType'
  <2>1. polled' \in BOOLEAN /\ plugged' = plugged
    OBVIOUS
  <2> HIDE DEF Disconnect
  <2>2. QED
    BY <1>1, <1>2, <2>1 DEF Types, KernelType
<1>4. ~allocated'
  BY <1>2 DEF OwnerInv, Owner
<1>5. PrivType'
  BY <1>2, <1>4 DEF Types, PrivType
<1>6. RunType'
  BY <1>2 DEF Types, RunType, Threads, Reportable
<1>7. KernelUrbs'
  BY <1>1, <1>2 DEF UrbInv, KernelUrbs, Types, RunType, Threads
<1>8. Counted' /\ InOrder'
  BY <1>1, <1>2, <1>4 DEF UrbInv, Counted, InOrder, Types, RunType, Threads
<1>9. Ends'
  BY <1>1, <1>2 DEF UrbInv, Ends, Types, RunType, Threads
<1>10. ControlCancelled'
  BY <1>1, <1>2 DEF UrbInv, ControlCancelled, Types, RunType, Threads
<1>11. OwnerInv'
  BY <1>2, <1>4
  DEF OwnerInv, Owner, Cancelled, Types, RunType, Threads, Reportable
<1>12. Data'
  BY <1>2, <1>4 DEF Data, Clean, Types, RunType, Threads
<1>13. QED
  BY <1>2, <1>3, <1>5, <1>6, <1>7, <1>8, <1>9, <1>10, <1>11, <1>12
  DEF IInv, Types, UrbInv

-----------------------------------------------------------------------------
(* The event thread *)

\* What every completion begins with: a URB is retired.
Retires ==
  /\ polled /\ pc["events"] = "idle" /\ lock = "free" /\ ready # <<>>
  /\ ready' = Tail(ready)
  /\ urb' = [urb EXCEPT ![Head(ready).urb] = "retired"]
  /\ num_retired' = num_retired + 1
  /\ pc'["user"] = pc["user"]
  /\ UNCHANGED <<fixedVars, results, plugged, polled, flying, timed_out,
                 ownerVars>>

LEMMA RetiredUrb ==
  ASSUME IInv, Retires, NEW e, e = Head(ready)
  PROVE  /\ e \in Results /\ e.urb \in Urbs /\ e.urb \in 1 .. num_urbs
         /\ e = ready[1] /\ 1 \in DOMAIN ready
         /\ results[e.urb] = e.status
         /\ \A i \in Urbs : urb'[i] = IF i = e.urb THEN "retired" ELSE urb[i]
         /\ ready' \in Seq(Results)
         /\ \A k \in DOMAIN ready' : /\ k \in Nat /\ k >= 1
                                     /\ k + 1 \in DOMAIN ready
                                     /\ ready'[k] = ready[k + 1]
         /\ ReadyUrbs' /\ Lengths' /\ NoSurplus' /\ Kernel' = Kernel
         /\ e.urb \in Outstanding /\ Outstanding' = Outstanding \ {e.urb}
<1> USE DEF Retires, fixedVars
<1>1. KernelType /\ ReadyUrbs
  BY DEF IInv, Types, UrbInv
<1>2. /\ ready \in Seq(Results) /\ Len(ready) \in Nat /\ Len(ready) # 0
      /\ DOMAIN ready = 1 .. Len(ready)
  BY <1>1 DEF KernelType
<1>3. /\ 1 \in DOMAIN ready /\ e = ready[1]
      /\ ready' \in Seq(Results) /\ DOMAIN ready' = 1 .. Len(ready) - 1
      /\ \A k \in 1 .. Len(ready) - 1 : ready'[k] = ready[k + 1]
  BY <1>2
<1>4. \A k \in DOMAIN ready' : /\ k \in Nat /\ k >= 1
                               /\ k + 1 \in DOMAIN ready
                               /\ ready'[k] = ready[k + 1]
  BY <1>2, <1>3
<1>5. e \in Results /\ e.urb \in Urbs /\ e.urb \in 1 .. num_urbs
      /\ urb[e.urb] = "ready" /\ results[e.urb] = e.status
  BY <1>1, <1>3, ReadyResults DEF ReadyUrbs
<1>6. \A i \in Urbs : urb'[i] = IF i = e.urb THEN "retired" ELSE urb[i]
  BY <1>1 DEF KernelType
<1>7. Kernel' = Kernel /\ e.urb \in Outstanding
      /\ Outstanding' = Outstanding \ {e.urb}
  BY <1>5, <1>6 DEF Kernel, WithKernel, Outstanding, Urbs
<1>8. ReadyUrbs'
  <2>1. \A k \in DOMAIN ready' : ready'[k].urb \in Urbs /\ ready'[k].urb # e.urb
    <3> SUFFICES ASSUME NEW k \in DOMAIN ready'
                 PROVE  ready'[k].urb \in Urbs /\ ready'[k].urb # e.urb
      OBVIOUS
    <3>1. k + 1 \in DOMAIN ready /\ ready'[k] = ready[k + 1] /\ k + 1 # 1
      BY <1>4
    <3>2. QED
      BY <1>1, <1>3, <3>1, ReadyResults DEF ReadyUrbs
  <2>2. \A k \in DOMAIN ready' : /\ urb'[ready'[k].urb] = "ready"
                                 /\ results'[ready'[k].urb] = ready'[k].status
    BY <1>1, <1>4, <1>6, <2>1 DEF ReadyUrbs
  <2>3. \A k, l \in DOMAIN ready' : ready'[k].urb = ready'[l].urb => k = l
    <3> SUFFICES ASSUME NEW k \in DOMAIN ready', NEW l \in DOMAIN ready',
                        ready'[k].urb = ready'[l].urb
                 PROVE  k = l
      OBVIOUS
    <3>1. k + 1 = l + 1
      BY <1>1, <1>4 DEF ReadyUrbs
    <3>2. QED
      BY <1>4, <3>1
  <2>4. \A i \in Urbs : urb'[i] = "ready" =>
          \E k \in DOMAIN ready' : ready'[k].urb = i
    <3> SUFFICES ASSUME NEW i \in Urbs, urb'[i] = "ready"
                 PROVE  \E k \in DOMAIN ready' : ready'[k].urb = i
      OBVIOUS
    <3>1. PICK l \in DOMAIN ready : ready[l].urb = i
      BY <1>1, <1>6 DEF ReadyUrbs
    <3>2. l # 1
      BY <1>3, <1>6, <3>1
    <3>3. l - 1 \in DOMAIN ready' /\ l - 1 + 1 = l
      BY <1>2, <1>3, <3>2
    <3>4. ready'[l - 1] = ready[l]
      BY <1>4, <3>3
    <3>5. QED
      BY <3>1, <3>3, <3>4
  <2>5. QED
    BY <2>2, <2>3, <2>4 DEF ReadyUrbs
<1>9. Lengths'
  <2>1. num_urbs' = num_urbs /\ kind' = kind
    BY DEF num_urbs
  <2>2. QED
    BY <1>4, <2>1 DEF IInv, UrbInv, Lengths
<1>10. NoSurplus'
  BY <1>4, <1>7 DEF IInv, UrbInv, NoSurplus
<1>11. QED
  BY <1>3, <1>4, <1>5, <1>6, <1>7, <1>8, <1>9, <1>10

\* The last URB leaves none, and while nothing is wrong it is the last one.
LEMMA RetiredCount ==
  ASSUME IInv, Retires, NEW e, e = Head(ready)
  PROVE  /\ allocated /\ flying /\ busy /\ pc["user"] = "idle"
         /\ num_retired' \in 0 .. num_urbs
         /\ num_retired' + Cardinality(Outstanding') = num_urbs
         /\ Last(e) => Outstanding' = {}
         /\ reap_action = "normal" =>
              /\ e.urb = num_retired + 1 /\ Ordered'
              /\ e.urb = num_urbs => Outstanding' = {}
<1> USE DEF Retires, fixedVars
<1>1. /\ Types /\ UrbInv /\ OwnerInv
      /\ num_urbs' = num_urbs /\ num_urbs \in Nat
  BY NumUrbsType DEF IInv, num_urbs
<1>2. /\ e.urb \in Outstanding /\ Outstanding' = Outstanding \ {e.urb}
      /\ e = ready[1] /\ 1 \in DOMAIN ready /\ Kernel' = Kernel
      /\ e.urb \in 1 .. num_urbs
      /\ \A k \in DOMAIN ready' : /\ k \in Nat /\ k >= 1
                                  /\ k + 1 \in DOMAIN ready
                                  /\ ready'[k] = ready[k + 1]
  BY RetiredUrb
<1>3. allocated /\ flying /\ busy /\ pc["user"] = "idle"
  BY <1>1, <1>2
  DEF Types, RunType, UrbInv, Counted, OwnerInv, Owner, Threads, KernelType,
      PrivType
<1>4. num_retired \in Nat /\ num_retired + Cardinality(Outstanding) = num_urbs
  BY <1>1, <1>3 DEF Types, PrivType, UrbInv, Counted
<1>5. /\ Cardinality(Outstanding) \in Nat /\ IsFiniteSet(Outstanding')
      /\ Cardinality(Outstanding') \in Nat
      /\ Cardinality(Outstanding') = Cardinality(Outstanding) - 1
  <2>1. IsFiniteSet(Urbs)
    BY FS_Interval, UsbTransferAssumption DEF Urbs
  <2>2. IsFiniteSet(Outstanding)
    BY <2>1, FS_Subset DEF Outstanding
  <2>3. QED
    BY <1>2, <2>2, FS_RemoveElement, FS_CardinalityType
<1>6. /\ num_retired' \in 0 .. num_urbs
      /\ num_retired' + Cardinality(Outstanding') = num_urbs
  BY <1>1, <1>4, <1>5
<1>7. Last(e) => Outstanding' = {}
  <2>1. Last(e) => Cardinality(Outstanding') = 0
    BY <1>1, <1>5, <1>6 DEF Last
  <2>2. Cardinality(Outstanding') = 0 => Outstanding' = {}
    BY <1>5, FS_EmptySet
  <2>3. QED
    BY <2>1, <2>2
<1>8. ASSUME reap_action = "normal"
      PROVE  /\ e.urb = num_retired + 1 /\ Ordered'
             /\ e.urb = num_urbs => Outstanding' = {}
  <2>1. Ordered /\ Outstanding = num_retired + 1 .. num_urbs
    BY <1>1, <1>3, <1>8 DEF UrbInv, InOrder, Ordered
  <2>2. e.urb = num_retired + 1
    <3> SUFFICES ASSUME num_retired + 1 # e.urb PROVE FALSE
      OBVIOUS
    <3>1. num_retired + 1 < e.urb /\ num_retired + 1 \in Outstanding
      BY <1>1, <1>2, <1>4, <2>1
    <3>2. num_retired + 1 \notin Kernel
      BY <1>2, <1>4, <2>1, <3>1 DEF Ordered
    <3>3. PICK k \in DOMAIN ready : ready[k].urb = num_retired + 1
      BY <1>1, <3>1, <3>2
      DEF Outstanding, Kernel, WithKernel, UrbInv, ReadyUrbs
    <3>4. k # 1 /\ 1 < k
      BY <1>1, <1>2, <3>1, <3>3, ReadyResults DEF Types
    <3>5. ready[1].urb < ready[k].urb
      BY <1>2, <2>1, <3>4 DEF Ordered
    <3>6. QED
      BY <1>2, <1>4, <3>1, <3>3, <3>5
  <2>3. Outstanding' = num_retired' + 1 .. num_urbs
    BY <1>2, <1>4, <2>1, <2>2
  <2>4. \A k, l \in DOMAIN ready' : k < l => ready'[k].urb < ready'[l].urb
    BY <1>2, <2>1 DEF Ordered
  <2>5. \A k \in DOMAIN ready' : \A i \in Kernel' : ready'[k].urb < i
    BY <1>2, <2>1 DEF Ordered
  <2>6. Ordered'
    BY <1>1, <1>3, <2>3, <2>4, <2>5 DEF Ordered
  <2>7. QED
    BY <1>1, <1>4, <2>2, <2>3, <2>6
<1>9. QED
  BY <1>3, <1>6, <1>7, <1>8

\* How the completion goes on: it waits for other URBs, it reports, or it
\* discards the URBs that are left.
Outcome(e) ==
  \/ GoOn
  \/ \E s \in Reportable \cup {"late", "cancellation"} :
       /\ Complete(s) /\ Outstanding' = {}
       /\ s = "cancellation" => reap_action = "cancelled"
  \/ /\ CancelRemaining(e) /\ kind = "bulk"
     /\ reap_action' = "normal" => Kernel = {}

LEMMA ReapKeepsUrbs ==
  ASSUME IInv, Retires, NEW e, e = Head(ready), Outcome(e),
         reap_action' \in {reap_action, "error", "early"},
         reap_action' # reap_action =>
           kind = "bulk" /\ reap_action = "normal",
         reap_status' \in Reportable,
         transferred' \in {transferred, transferred + e.length},
         torn' \in BOOLEAN, kind = "control" => torn' = torn
  PROVE  Types' /\ UrbInv' /\ OwnerInv'
<1> USE DEF Retires, fixedVars, ownerVars
<1>1. /\ Types /\ UrbInv /\ OwnerInv
      /\ num_urbs' = num_urbs /\ Results' = Results
      /\ num_urbs \in Nat \ {0} /\ num_urbs <= NumUrbs
  BY NumUrbsType DEF IInv, num_urbs, Results
<1>2. /\ e \in Results /\ e.urb \in Urbs /\ e.urb \in 1 .. num_urbs
      /\ \A i \in Urbs : urb'[i] = IF i = e.urb THEN "retired" ELSE urb[i]
      /\ ready' \in Seq(Results)
      /\ \A k \in DOMAIN ready' : /\ k \in Nat /\ k >= 1
                                  /\ k + 1 \in DOMAIN ready
                                  /\ ready'[k] = ready[k + 1]
      /\ ReadyUrbs' /\ Lengths' /\ NoSurplus' /\ Kernel' = Kernel
  BY RetiredUrb
<1>3. /\ allocated /\ flying /\ busy /\ pc["user"] = "idle"
      /\ num_retired' \in 0 .. num_urbs
      /\ num_retired' + Cardinality(Outstanding') = num_urbs
      /\ reap_action = "normal" => Ordered'
  BY RetiredCount
<1>4. KernelType'
  <2>1. urb' \in [Urbs -> {"none", "kernel", "ready", "retired"}]
    BY <1>1, <1>2 DEF Types, KernelType
  <2>2. QED
    BY <1>1, <1>2, <2>1 DEF Types, KernelType
<1>5. PrivType'
  <2>1. transferred' \in 0 .. 2 * num_retired'
    <3>1. e.length \in 0 .. 2
      BY <1>2 DEF Results
    <3>2. num_retired \in Nat /\ transferred \in 0 .. 2 * num_retired
      BY <1>1 DEF Types, PrivType
    <3>3. QED
      BY <3>1, <3>2
  <2>2. allocated' \in BOOLEAN
    BY <1>3 DEF Outcome, GoOn, Complete, CancelRemaining
  <2>3. QED
    BY <1>1, <1>3, <2>1, <2>2 DEF Types, PrivType
<1>6. \A t \in Threads : pc[t] \notin {"urbs", "discard"}
  BY <1>1 DEF Types, RunType, Threads
<1>7. \A t \in Threads : pc'[t] = "discard" =>
        t = "events" /\ CancelRemaining(e) /\ kind = "bulk"
        /\ (reap_action' = "normal" => Kernel = {})
  BY <1>1, <1>6
  DEF Outcome, GoOn, Complete, CancelRemaining, Goto, Types, RunType, Threads
<1>8. RunType'
  <2>1. CASE GoOn
    BY <1>1, <2>1 DEF GoOn, Types, RunType
  <2>2. CASE \E s \in Reportable \cup {"late", "cancellation"} : Complete(s)
    BY <1>1, <2>2 DEF Complete, Goto, Types, RunType, Threads, Reportable
  <2>3. CASE CancelRemaining(e)
    BY <1>1, <1>2, <2>3 DEF CancelRemaining, Goto, Types, RunType, Threads
  <2>4. QED
    BY <2>1, <2>2, <2>3 DEF Outcome
<1>9. KernelUrbs'
  <2>1. \A i \in Kernel : i \in Nat /\ i <= num_urbs
    BY <1>1, KernelIsOutstanding
  <2>2. \A t \in Threads : pc'[t] = "discard" =>
          next' <= num_urbs' /\ \A i \in Kernel' : i <= next'
    BY <1>1, <1>2, <1>7, <2>1 DEF CancelRemaining
  <2>3. QED
    BY <1>1, <1>2, <2>2 DEF UrbInv, KernelUrbs
<1>10. Counted'
  BY <1>1, <1>3
  DEF Outcome, GoOn, Complete, CancelRemaining, Counted
<1>11. InOrder'
  BY <1>3 DEF InOrder
<1>12. Ends'
  <2>1. \A k \in DOMAIN ready' :
          /\ ready'[k].status = "stall" /\ kind' = "bulk" =>
               continuation' /\ Kernel' = {}
          /\ ready'[k].status = "gone" => ~plugged'
    BY <1>1, <1>2 DEF UrbInv, Ends
  <2>2. QED
    BY <1>2, <1>7, <2>1 DEF Ends, Threads
<1>13. ControlCancelled'
  BY <1>1, <1>2, <1>3, <1>7 DEF UrbInv, ControlCancelled
<1>14. OwnerInv'
  <2>1. CASE GoOn
    BY <1>1, <1>3, <2>1 DEF GoOn, OwnerInv, Owner, Cancelled
  <2>2. ASSUME NEW s \in Reportable \cup {"late", "cancellation"}, Complete(s),
               s = "cancellation" => reap_action = "cancelled"
        PROVE  OwnerInv'
    BY <1>1, <1>3, <2>2
    DEF Complete, Goto, OwnerInv, Owner, Cancelled, Types, RunType, Threads
  <2>3. CASE CancelRemaining(e)
    BY <1>1, <1>3, <2>3
    DEF CancelRemaining, Goto, OwnerInv, Owner, Cancelled, Types, RunType,
        Threads
  <2>4. QED
    BY <2>1, <2>2, <2>3 DEF Outcome
<1>15. QED
  BY <1>2, <1>4, <1>5, <1>8, <1>9, <1>10, <1>11, <1>12, <1>13, <1>14
  DEF Types, UrbInv

\* What a completion leaves of the data: a URB that comes back after the end
\* has been seen is behind it, and has data only without continuation.
LEMMA BulkAbnormalData ==
  ASSUME IInv, Retires, kind = "bulk", BulkAbnormal(Head(ready))
  PROVE  Data'
<1> DEFINE e == Head(ready)
<1>1. Data /\ kind' = kind /\ allocated /\ pc["events"] = "idle"
  BY RetiredCount DEF IInv, Retires, fixedVars
<1>2. Whole => Whole'
  <2>1. \A i \in Urbs : urb'[i] = IF i = e.urb THEN "retired" ELSE urb[i]
    BY RetiredUrb
  <2>2. urb[e.urb] = "ready"
    BY RetiredUrb DEF IInv, UrbInv, ReadyUrbs
  <2>3. \A i \in 1 .. num_urbs : i \in Urbs
    BY NumUrbsType, UsbTransferAssumption DEF Urbs
  <2>4. UNCHANGED <<fixedVars, torn, results>>
        /\ transferred' = transferred + e.length
    BY DEF Retires, BulkAbnormal
  <2>5. /\ transferred \in Nat /\ e.length \in Nat /\ continuation \in BOOLEAN
        /\ e.urb \in 1 .. num_urbs /\ e = ready[1] /\ 1 \in DOMAIN ready
    BY RetiredUrb, TransferredType DEF IInv, Types, KernelType, Results
  <2>6. ASSUME NEW end \in 1 .. num_urbs,
               \A i \in 1 .. end : urb[i] = "retired",
               results[end] = "short" \/ end = num_urbs,
               continuation \/ end = num_urbs
        PROVE  e.length = 0
    <3>1. e.urb > end
      <4>1. end \in Nat /\ ~(e.urb \in 1 .. end)
        BY <2>2, <2>6, NumUrbsType
      <4>2. QED
        BY <2>5, <4>1, NumUrbsType
    <3>2. end # num_urbs
      BY <2>5, <3>1, NumUrbsType
    <3>3. continuation /\ results[end] = "short"
      BY <2>6, <3>2
    <3>4. end \in 1 .. e.urb - 1
      BY <2>5, <3>1, NumUrbsType
    <3>5. ~(e.length > 0)
      BY <2>5, <3>3, <3>4 DEF IInv, UrbInv, NoSurplus, CutShort
    <3>6. QED
      BY <2>5, <3>5
  <2>7. transferred' \in Nat /\ transferred' >= transferred
    BY <2>4, <2>5
  <2>8. \A i \in 1 .. num_urbs : urb[i] \in {"none", "retired"} =>
          urb'[i] = urb[i] /\ results'[i] = results[i]
    BY <2>1, <2>2, <2>3, <2>4
  <2>9. \A end \in 1 .. num_urbs :
          /\ \A i \in 1 .. end : urb[i] = "retired"
          /\ results[end] = "short" \/ end = num_urbs
          /\ continuation \/ end = num_urbs
          => transferred' = transferred
    BY <2>4, <2>5, <2>6
  <2> HIDE DEF e
  <2>10. QED
    BY <2>4, <2>5, <2>7, <2>8, <2>9, WholeStays
<1>3. reap_action' = reap_action /\ reap_action # "normal"
  BY DEF BulkAbnormal
<1>4. reap_status' = "completed" => reap_status = "completed"
  BY DEF BulkAbnormal
<1>5. CASE Last(e)
  <2>1. reap_status' = "completed" => reap_action = "early"
    BY <1>4, <1>5 DEF BulkAbnormal
  <2>2. reap_status' = "completed" => Whole'
    BY <1>1, <1>2, <1>4, <2>1 DEF Data, Clean
  <2>3. /\ ~allocated' /\ outcome' = "late"
        /\ pc' = [pc EXCEPT !["events"] = "report"]
    BY <1>5 DEF BulkAbnormal, Complete, Goto
  <2>4. pc'["events"] # "callback"
    BY <1>1, <2>3 DEF IInv, Types, RunType, Threads
  <2>5. QED
    BY <1>1, <2>2, <2>3, <2>4 DEF Data
<1>6. CASE ~Last(e)
  <2>1. UNCHANGED <<allocated, outcome, pc>>
    BY <1>6 DEF BulkAbnormal, GoOn
  <2>2. QED
    BY <1>1, <1>2, <1>3, <1>4, <2>1 DEF Data, Clean
<1>7. QED
  BY <1>5, <1>6

\* While nothing is wrong the data of the URBs is put together in order.
LEMMA BulkNormalData ==
  ASSUME IInv, Retires, kind = "bulk", BulkNormal(Head(ready))
  PROVE  Data'
<1> DEFINE e == Head(ready)
<1>1. /\ Types /\ UrbInv /\ Data /\ allocated /\ reap_action = "normal"
      /\ num_urbs' = num_urbs /\ kind' = kind /\ results' = results
      /\ num_urbs \in Nat \ {0} /\ num_retired' = num_retired + 1
  BY NumUrbsType, RetiredCount
  DEF IInv, num_urbs, BulkNormal, Retires, fixedVars
<1>2. /\ e = ready[1] /\ 1 \in DOMAIN ready /\ results[e.urb] = e.status
      /\ e.urb \in 1 .. num_urbs /\ e.urb \in Urbs
      /\ \A i \in Urbs : urb'[i] = IF i = e.urb THEN "retired" ELSE urb[i]
      /\ \A k \in DOMAIN ready' : /\ k \in Nat /\ k >= 1
                                  /\ k + 1 \in DOMAIN ready
                                  /\ ready'[k] = ready[k + 1]
      /\ e.status \in UrbStatuses
  BY RetiredUrb DEF Results
<1>3. e.urb = num_retired + 1 /\ num_retired \in Nat
  BY <1>1, RetiredCount DEF Types, PrivType
<1>4. \A i \in 1 .. num_urbs : i \in Urbs
  BY NumUrbsType, UsbTransferAssumption DEF Urbs
<1>5. /\ e.status = "ok" => e.length = 2
      /\ e.status = "short" => e.length = 1
  BY <1>1, <1>2 DEF UrbInv, Lengths
<1> HIDE DEF e
<1>6. BulkNormal(e)
  BY DEF e
<1>7. /\ reap_status' = IF e.status = "gone" THEN "no_device"
                        ELSE IF reap_status = "completed"
                             /\ e.status \in {"stall", "overflow", "error"}
                        THEN e.status ELSE reap_status
      /\ reap_action' = IF e.status = "error" THEN "error"
                        ELSE IF ~Fails(e) /\ EndsEarly(e) THEN "early"
                        ELSE "normal"
      /\ transferred' = transferred + e.length
      /\ torn' = (torn \/ (e.length > 0 /\ transferred # 2 * (e.urb - 1)))
  BY <1>6 DEF BulkNormal
<1>8. /\ ~allocated' => pc'["events"] = "report" /\ outcome' = "late"
      /\ allocated' => pc'["events"] \in {"idle", "discard"}
      /\ e.status = "ok" /\ e.urb = num_urbs => ~allocated'
  BY <1>1, <1>6
  DEF BulkNormal, Complete, GoOn, CancelRemaining, Goto, Fails, Retires,
      Types, RunType, Threads
<1>9. ASSUME Clean'
      PROVE  /\ ~torn' /\ transferred' = 2 * num_retired + e.length
             /\ e.status \in {"ok", "short"}
             /\ \A i \in 1 .. num_retired : urb'[i] = "retired"
                                            /\ results'[i] = "ok"
  <2>1. Clean /\ e.status \notin {"gone", "stall", "overflow", "error"}
    BY <1>1, <1>7, <1>9 DEF Clean
  <2>2. /\ ~torn /\ transferred = 2 * num_retired
        /\ \A i \in 1 .. num_retired : urb[i] = "retired" /\ results[i] = "ok"
        /\ \A k \in DOMAIN ready : ready[k].status = "cancelled" =>
             \E l \in 1 .. k - 1 :
               ready[l].status \in {"short", "error", "stall"}
    BY <1>1, <2>1 DEF Data
  <2>3. e.status # "cancelled"
    BY <1>2, <2>2
  <2>4. e.status \in {"ok", "short"}
    BY <1>2, <2>1, <2>3 DEF UrbStatuses
  <2>5. \A i \in 1 .. num_retired : i \in Urbs /\ i # e.urb
    BY <1>1, <1>2, <1>3, <1>4
  <2>6. \A i \in 1 .. num_retired : urb'[i] = "retired" /\ results'[i] = "ok"
    BY <1>1, <1>2, <2>2, <2>5
  <2>7. ~torn' /\ transferred' = 2 * num_retired + e.length
    <3>1. transferred = 2 * (e.urb - 1)
      BY <1>3, <2>2
    <3>2. /\ transferred' = transferred + e.length
          /\ torn' = (torn \/ (e.length > 0 /\ transferred # 2 * (e.urb - 1)))
      BY <1>7
    <3>3. ~torn'
      BY <2>2, <3>1, <3>2, Zenon
    <3>4. QED
      BY <2>2, <3>2, <3>3
  <2>8. QED
    BY <2>4, <2>6, <2>7
<1>10. Clean' /\ (e.status = "short" \/ e.urb = num_urbs) => Whole'
  <2> SUFFICES ASSUME Clean', e.status = "short" \/ e.urb = num_urbs
               PROVE  Whole'
    OBVIOUS
  <2>1. \A i \in 1 .. e.urb : urb'[i] = "retired"
    BY <1>2, <1>3, <1>9
  <2>2. \A i \in 1 .. e.urb - 1 : results'[i] = "ok"
    BY <1>3, <1>9
  <2>3. results'[e.urb] = "short" \/ (results'[e.urb] = "ok" /\ e.urb = num_urbs')
    BY <1>1, <1>2, <1>9
  <2>4. transferred' = 2 * e.urb - IF results'[e.urb] = "short" THEN 1 ELSE 0
    <3>1. e.status = "short" => e.length = 1 /\ results'[e.urb] = "short"
      BY <1>1, <1>2, <1>5
    <3>2. e.status = "ok" => e.length = 2 /\ results'[e.urb] = "ok"
      BY <1>1, <1>2, <1>5
    <3>3. transferred' = 2 * num_retired + e.length
      BY <1>9
    <3>4. CASE e.status = "short"
      BY <1>3, <3>1, <3>3, <3>4
    <3>5. CASE e.status = "ok"
      BY <1>3, <3>2, <3>3, <3>5
    <3>6. QED
      BY <1>9, <3>4, <3>5
  <2>5. ~torn' /\ e.urb \in 1 .. num_urbs'
    BY <1>1, <1>2, <1>9
  <2>6. PICK end \in 1 .. num_urbs' : end = e.urb
    BY <2>5
  <2>7. /\ end \in Nat
        /\ results'[end] = "short" => Received(end)' = 2 * (end - 1) + 1
        /\ results'[end] = "ok" => Received(end)' = 2 * (end - 1) + 2
    BY <2>5, NumUrbsType DEF Received
  <2>8. transferred' = Received(end)'
    BY <2>3, <2>4, <2>6, <2>7
  <2>9. /\ \A i \in 1 .. end : urb'[i] = "retired"
        /\ \A i \in 1 .. end - 1 : results'[i] = "ok"
        /\ results'[end] = "short" \/ (results'[end] = "ok" /\ end = num_urbs')
    BY <2>1, <2>2, <2>3, <2>6
  <2>10. QED
    BY <2>5, <2>8, <2>9 DEF Whole
<1>11. ASSUME Clean', reap_action' = "normal", allocated'
       PROVE  /\ transferred' = 2 * num_retired'
              /\ \A i \in 1 .. num_retired' : urb'[i] = "retired"
                                              /\ results'[i] = "ok"
              /\ \A k \in DOMAIN ready' : ready'[k].status = "cancelled" =>
                   \E l \in 1 .. k - 1 :
                     ready'[l].status \in {"short", "error", "stall"}
  <2>1. e.status = "ok"
    <3>1. e.status = "short" /\ e.urb # num_urbs => EndsEarly(e) /\ ~Fails(e)
      BY <1>1, <1>2, <1>5 DEF EndsEarly, Fails
    <3>2. e.status = "short" /\ e.urb = num_urbs => ~allocated'
      BY <1>6 DEF BulkNormal, Fails, Complete
    <3>3. QED
      BY <1>7, <1>9, <1>11, <3>1, <3>2
  <2>2. Clean
    BY <1>1, <1>7, <1>11 DEF Clean
  <2>3. ASSUME NEW k \in DOMAIN ready', ready'[k].status = "cancelled"
        PROVE  \E l \in 1 .. k - 1 :
                 ready'[l].status \in {"short", "error", "stall"}
    <3>1. k + 1 \in DOMAIN ready /\ ready[k + 1].status = "cancelled"
          /\ k \in Nat /\ k >= 1
      BY <1>2, <2>3
    <3>2. PICK l \in 1 .. (k + 1) - 1 :
            ready[l].status \in {"short", "error", "stall"}
      BY <1>1, <2>2, <3>1 DEF Data
    <3>3. l # 1
      BY <1>2, <2>1, <3>2
    <3>4. l - 1 \in 1 .. k - 1 /\ l - 1 + 1 = l
      BY <3>1, <3>2, <3>3
    <3>5. l - 1 \in DOMAIN ready'
      <4>1. Len(ready') \in Nat /\ DOMAIN ready' = 1 .. Len(ready')
        BY RetiredUrb
      <4>2. QED
        BY <3>1, <3>4, <4>1
    <3>6. ready'[l - 1] = ready[l]
      BY <1>2, <3>4, <3>5
    <3>7. QED
      BY <3>2, <3>4, <3>6
  <2>4. \A i \in 1 .. num_retired' : urb'[i] = "retired" /\ results'[i] = "ok"
    <3>1. \A i \in 1 .. num_retired' : i \in 1 .. num_retired \/ i = e.urb
      BY <1>1, <1>3
    <3>2. urb'[e.urb] = "retired" /\ results'[e.urb] = "ok"
      BY <1>1, <1>2, <2>1
    <3>3. QED
      BY <1>9, <1>11, <3>1, <3>2
  <2>5. transferred' = 2 * num_retired'
    <3>1. transferred' = 2 * num_retired + 2
      BY <1>5, <1>9, <1>11, <2>1
    <3>2. QED
      BY <1>1, <1>3, <3>1
  <2>6. QED
    BY <2>3, <2>4, <2>5
<1>12. reap_action' = "early" /\ Clean' => Whole'
  BY <1>5, <1>7, <1>9, <1>10 DEF EndsEarly
<1>13. ~allocated' /\ Clean' => Whole'
  <2> SUFFICES ASSUME ~allocated', Clean', e.status # "short" PROVE Whole'
    BY <1>10
  <2>1. e.status = "ok" /\ e.length = 2
    BY <1>5, <1>9
  <2>2. e.urb = num_urbs
    <3> SUFFICES ASSUME e.urb # num_urbs PROVE FALSE
      OBVIOUS
    <3>1. ~Fails(e) /\ ~EndsEarly(e)
      BY <2>1 DEF Fails, EndsEarly
    <3>2. GoOn
      BY <1>6, <2>1, <3>1 DEF BulkNormal
    <3>3. QED
      BY <1>1, <3>2 DEF GoOn
  <2>3. QED
    BY <1>10, <2>2
<1>14. QED
  BY <1>1, <1>8, <1>9, <1>11, <1>12, <1>13 DEF Data, Clean

LEMMA BulkKeeps ==
  ASSUME IInv, Retires, kind = "bulk",
         BulkAbnormal(Head(ready)) \/ BulkNormal(Head(ready))
  PROVE  IInv'
<1> DEFINE e == Head(ready)
<1>1. /\ PrivType /\ UrbInv /\ plugged \in BOOLEAN
      /\ num_urbs \in Nat /\ e.urb \in 1 .. num_urbs
      /\ e.status \in UrbStatuses /\ e = ready[1] /\ 1 \in DOMAIN ready
  BY RetiredUrb, NumUrbsType DEF IInv, Types, KernelType, Results
<1>2. /\ Last(e) => Outstanding' = {}
      /\ reap_action = "normal" /\ e.urb = num_urbs => Outstanding' = {}
  BY RetiredCount
<1>3. /\ e.status = "overflow" => e.urb = num_urbs
      /\ e.status = "stall" => Kernel = {}
      /\ e.status = "gone" => Kernel = {}
  BY <1>1 DEF UrbInv, Lengths, Ends, KernelUrbs
<1> HIDE DEF e
<1>4. CASE BulkAbnormal(e)
  <2>1. ASSUME Last(e) PROVE Outcome(e)
    BY <1>2, <1>4, <2>1 DEF BulkAbnormal, Outcome
  <2>2. ASSUME ~Last(e) PROVE Outcome(e)
    BY <1>4, <2>2 DEF BulkAbnormal, Outcome
  <2>3. Outcome(e)
    BY <2>1, <2>2
  <2>4. /\ reap_action' = reap_action /\ torn' = torn
        /\ reap_status' \in Reportable
        /\ transferred' = transferred + e.length /\ torn' \in BOOLEAN
    BY <1>1, <1>4 DEF BulkAbnormal, PrivType, Reportable
  <2>5. Types' /\ UrbInv' /\ OwnerInv'
    BY <2>3, <2>4, ReapKeepsUrbs DEF e
  <2>6. QED
    BY <1>4, <2>5, BulkAbnormalData DEF IInv, e
<1>5. CASE BulkNormal(e)
  <2>1. ASSUME ~Fails(e) /\ (e.status = "overflow" \/ e.urb = num_urbs)
        PROVE  Outcome(e)
    <3>1. Complete("late") /\ Outstanding' = {}
      BY <1>2, <1>3, <1>5, <2>1 DEF BulkNormal
    <3>2. QED
      BY <3>1 DEF Outcome
  <2>2. ASSUME ~(~Fails(e) /\ (e.status = "overflow" \/ e.urb = num_urbs)),
               Fails(e) \/ EndsEarly(e)
        PROVE  Outcome(e)
    <3>1. CASE Last(e)
      <4>1. Complete("late") /\ Outstanding' = {}
        BY <1>2, <1>5, <2>2, <3>1 DEF BulkNormal
      <4>2. QED
        BY <4>1 DEF Outcome
    <3>2. CASE ~Last(e)
      <4>1. CancelRemaining(e)
        BY <1>5, <2>2, <3>2 DEF BulkNormal
      <4>2. reap_action' = "normal" => Fails(e) /\ e.status # "error"
        BY <1>5, <2>2 DEF BulkNormal
      <4>3. reap_action' = "normal" => Kernel = {}
        BY <1>3, <4>2 DEF Fails
      <4>4. QED
        BY <4>1, <4>3 DEF Outcome
    <3>3. QED
      BY <3>1, <3>2
  <2>3. ASSUME ~(~Fails(e) /\ (e.status = "overflow" \/ e.urb = num_urbs)),
               ~(Fails(e) \/ EndsEarly(e))
        PROVE  Outcome(e)
    BY <1>5, <2>3 DEF BulkNormal, Outcome
  <2>4. Outcome(e)
    BY <2>1, <2>2, <2>3
  <2>5. /\ reap_action = "normal"
        /\ reap_action' \in {"normal", "error", "early"}
        /\ transferred' = transferred + e.length
    BY <1>5 DEF BulkNormal
  <2>6. reap_status' \in Reportable
    BY <1>1, <1>5 DEF BulkNormal, PrivType, Reportable
  <2>7. torn' \in BOOLEAN
    BY <1>1, <1>5 DEF BulkNormal, PrivType
  <2>8. Types' /\ UrbInv' /\ OwnerInv'
    BY <2>4, <2>5, <2>6, <2>7, ReapKeepsUrbs DEF e
  <2>9. QED
    BY <1>5, <2>8, BulkNormalData DEF IInv, e
<1>6. QED
  BY <1>4, <1>5 DEF e

LEMMA IsoKeeps ==
  ASSUME IInv, Retires, kind = "iso",
         IsoAbnormal(Head(ready)) \/ IsoNormal(Head(ready)),
         UNCHANGED <<reap_action, reap_status, dataVars>>
  PROVE  IInv'
<1> DEFINE e == Head(ready)
<1>1. /\ Types /\ Data /\ kind' = "iso"
  BY DEF IInv, Retires, fixedVars
<1>2. /\ Last(e) => Outstanding' = {}
      /\ reap_action = "normal" /\ e.urb = num_urbs => Outstanding' = {}
  BY RetiredCount
<1> HIDE DEF e
<1>3. IsoAbnormal(e) \/ IsoNormal(e)
  BY DEF e
<1>4. \/ GoOn
      \/ \E s \in Reportable \cup {"cancellation"} :
           /\ Complete(s) /\ Outstanding' = {}
           /\ s = "cancellation" => reap_action = "cancelled"
  <2>1. ASSUME IsoAbnormal(e), Last(e)
        PROVE  \E s \in Reportable \cup {"cancellation"} :
                 /\ Complete(s) /\ Outstanding' = {}
                 /\ s = "cancellation" => reap_action = "cancelled"
    BY <1>2, <2>1 DEF IsoAbnormal, Reportable
  <2>2. ASSUME IsoNormal(e), e.urb = num_urbs
        PROVE  \E s \in Reportable \cup {"cancellation"} :
                 /\ Complete(s) /\ Outstanding' = {}
                 /\ s = "cancellation" => reap_action = "cancelled"
    <3> DEFINE s == CASE e.status \in {"ok", "cancelled"} -> "completed"
                      [] e.status = "gone" -> "no_device"
                      [] OTHER -> "error"
    <3>1. Complete(s)
      BY <2>2 DEF IsoNormal
    <3>2. s \in Reportable /\ s # "cancellation"
      BY DEF Reportable
    <3>3. Outstanding' = {}
      BY <1>2, <2>2 DEF IsoNormal
    <3> HIDE DEF s
    <3>4. QED
      BY <3>1, <3>2, <3>3
  <2>3. QED
    BY <1>3, <2>1, <2>2 DEF IsoAbnormal, IsoNormal
<1>5. Outcome(e)
  BY <1>4 DEF Outcome
<1>6. /\ reap_status' \in Reportable /\ torn' \in BOOLEAN
      /\ transferred' = transferred /\ torn' = torn
      /\ reap_action' = reap_action
  BY <1>1 DEF Types, PrivType, dataVars
<1>7. Types' /\ UrbInv' /\ OwnerInv'
  BY <1>5, <1>6, ReapKeepsUrbs DEF e
<1>8. Data'
  <2>1. pc["events"] = "idle"
    BY DEF Retires
  <2>2. pc'["events"] = "report" => outcome' # "late"
    BY <1>1, <1>4, <2>1
    DEF GoOn, Complete, Goto, Reportable, Types, RunType, Threads
  <2>3. QED
    BY <1>1, <2>2 DEF Data, Clean
<1>9. QED
  BY <1>7, <1>8 DEF IInv

LEMMA ControlKeeps ==
  ASSUME IInv, Retires, kind = "control", ControlReap(Head(ready)),
         transferred' = transferred + Head(ready).length,
         UNCHANGED <<reap_action, reap_status, torn>>
  PROVE  IInv'
<1> DEFINE e == Head(ready)
           s == IF reap_action = "cancelled" THEN "cancellation"
                ELSE CASE e.status = "ok" -> "completed"
                       [] e.status = "gone" -> "no_device"
                       [] OTHER -> e.status
<1>1. /\ Types /\ UrbInv /\ Data
      /\ kind' = "control" /\ results' = results
      /\ num_urbs = 1 /\ num_urbs' = 1
  BY DEF IInv, Retires, fixedVars, num_urbs
<1>2. /\ e = ready[1] /\ 1 \in DOMAIN ready /\ e.urb = 1 /\ e.urb \in Urbs
      /\ results[e.urb] = e.status /\ urb'[e.urb] = "retired"
      /\ e.status \in UrbStatuses
  BY <1>1, RetiredUrb DEF Results
<1>3. Outstanding' = {}
  <2>1. num_retired \in Nat
    BY <1>1 DEF Types, PrivType
  <2>2. num_retired' \in 0 .. 1 /\ num_retired' = num_retired + 1
    BY <1>1, RetiredCount DEF Retires
  <2>3. Last(e)
    BY <1>1, <2>1, <2>2 DEF Last
  <2>4. QED
    BY <2>3, RetiredCount
<1>4. /\ e.status # "short"
      /\ e.status = "cancelled" => reap_action = "cancelled"
      /\ ~torn
  BY <1>1, <1>2 DEF UrbInv, Lengths, ControlCancelled
<1> HIDE DEF e
<1>5. s \in Reportable \cup {"cancellation"}
  BY <1>2, <1>4 DEF UrbStatuses, Reportable
<1>6. /\ s = "cancellation" => reap_action = "cancelled"
      /\ s = "completed" => e.status = "ok"
  BY <1>2, <1>4 DEF UrbStatuses
<1>7. Complete(s)
  BY DEF ControlReap, e
<1> HIDE DEF s
<1>8. Outcome(e)
  BY <1>3, <1>5, <1>6, <1>7 DEF Outcome
<1>9. reap_status' \in Reportable /\ torn' \in BOOLEAN
      /\ transferred' = transferred + e.length
  BY <1>1 DEF Types, PrivType, e
<1>10. Types' /\ UrbInv' /\ OwnerInv'
  BY <1>8, <1>9, ReapKeepsUrbs DEF e
<1>11. s = "completed" => Whole'
  <2> SUFFICES ASSUME s = "completed" PROVE Whole'
    OBVIOUS
  <2>1. e.status = "ok" /\ e.length = 2 /\ results'[1] = "ok"
    BY <1>1, <1>2, <1>6 DEF UrbInv, Lengths
  <2>2. transferred = 0
    <3>1. num_retired' \in 0 .. num_urbs /\ num_retired' = num_retired + 1
      BY RetiredCount DEF Retires
    <3>2. num_retired \in Nat /\ transferred \in 0 .. 2 * num_retired
      BY <1>1 DEF Types, PrivType
    <3>3. num_retired = 0
      BY <1>1, <3>1, <3>2
    <3>4. QED
      BY <3>2, <3>3
  <2>3. transferred' = Received(1)'
    BY <1>9, <2>1, <2>2 DEF Received
  <2>4. ~torn'
    BY <1>4
  <2>5. /\ 1 \in 1 .. num_urbs' /\ 1 = num_urbs'
        /\ \A i \in 1 .. 1 : urb'[i] = "retired"
        /\ \A i \in 1 .. 1 - 1 : results'[i] = "ok"
    BY <1>1, <1>2
  <2>6. QED
    BY <2>1, <2>3, <2>4, <2>5 DEF Whole
<1>12. pc'["events"] = "report" /\ outcome' = s /\ s # "late"
  BY <1>1, <1>5, <1>7 DEF Complete, Goto, Types, RunType, Threads, Reportable
<1>13. Data'
  BY <1>1, <1>11, <1>12 DEF Data, Clean
<1>14. QED
  BY <1>10, <1>13 DEF IInv

LEMMA ReapKeeps == ASSUME IInv, Reap PROVE IInv'
<1> DEFINE e == Head(ready)
<1>1. pc'["user"] = pc["user"]
  BY DEF Reap, BulkAbnormal, BulkNormal, IsoAbnormal, IsoNormal, ControlReap,
         Complete, GoOn, CancelRemaining, Goto, IInv, Types, RunType, Threads
<1>2. Retires
  BY <1>1 DEF Reap, Retires
<1>3. \/ kind = "bulk" /\ (BulkAbnormal(e) \/ BulkNormal(e))
      \/ /\ kind = "iso" /\ (IsoAbnormal(e) \/ IsoNormal(e))
         /\ UNCHANGED <<reap_action, reap_status, dataVars>>
      \/ /\ kind = "control" /\ ControlReap(e)
         /\ transferred' = transferred + e.length
         /\ UNCHANGED <<reap_action, reap_status, torn>>
  BY DEF Reap
<1>4. QED
  BY <1>2, <1>3, BulkKeeps, IsoKeeps, ControlKeeps

-----------------------------------------------------------------------------
(* The data of a transfer whose end the kernel refused *)

\* The first URB without all its data.
EndsAt(end) ==
  /\ results[end] \in CutShort
  /\ \A i \in 1 .. end - 1 : results[i] = "ok"

Refused == continuation /\ \E i \in 1 .. num_urbs : urb[i] = "none"

\* Such a transfer is reaped in its order, whatever it ended with.
Arriving ==
  /\ ~torn
  /\ \A k, l \in DOMAIN ready : k < l => ready[k].urb < ready[l].urb
  /\ \E lo, end \in Nat \ {0} : \E hi \in 1 .. num_urbs :
       /\ Outstanding = lo .. hi /\ end <= hi /\ EndsAt(end)
       /\ transferred = IF lo <= end THEN 2 * (lo - 1) ELSE Received(end)

Arrived ==
  ~torn /\ \E end \in 1 .. num_urbs : EndsAt(end) /\ transferred = Received(end)

CutInv ==
  /\ pc["user"] = "urbs" /\ Cut => \E end \in 1 .. next - 1 : EndsAt(end)
  /\ Refused =>
       /\ allocated /\ Clean /\ reap_action = "early" => Arriving
       /\ /\ pc["events"] = "report" /\ outcome = "late"
          /\ Clean /\ reap_action # "cancelled"
          => Arrived
       /\ pc["events"] = "callback" /\ outcome = "completed" => Arrived

LEMMA EndStays ==
  ASSUME UNCHANGED <<fixedVars, kernelVars, dataVars>>
  PROVE  /\ Cut' = Cut /\ Refused' = Refused
         /\ \A end : EndsAt(end)' = EndsAt(end)
         /\ Arriving => Arriving'
         /\ Arrived => Arrived'
<1> USE DEF fixedVars, kernelVars, dataVars
<1>1. num_urbs' = num_urbs /\ Outstanding' = Outstanding
  BY UrbsStay
<1>2. Cut' = Cut /\ Refused' = Refused
  BY <1>1 DEF Cut, Refused
<1>3. \A end : EndsAt(end)' = EndsAt(end) /\ Received(end)' = Received(end)
  BY DEF EndsAt, Received
<1>4. Arriving => Arriving'
  BY <1>1 DEF Arriving, EndsAt, Received
<1>5. Arrived => Arrived'
  BY <1>1 DEF Arrived, EndsAt, Received
<1>6. QED
  BY <1>2, <1>3, <1>4, <1>5

LEMMA CutStays ==
  ASSUME CutInv, UNCHANGED <<fixedVars, kernelVars, dataVars>>,
         pc'["user"] = "urbs" => pc["user"] = "urbs" /\ UNCHANGED next,
         allocated' /\ Clean' /\ reap_action' = "early" =>
           allocated /\ Clean /\ reap_action = "early",
         /\ pc'["events"] = "report" /\ outcome' = "late"
         /\ Clean' /\ reap_action' # "cancelled"
         => /\ pc["events"] = "report" /\ outcome = "late"
            /\ Clean /\ reap_action # "cancelled",
         pc'["events"] = "callback" /\ outcome' = "completed" =>
           pc["events"] = "callback" /\ outcome = "completed"
  PROVE  CutInv'
<1>1. Cut' = Cut /\ Refused' = Refused
      /\ (Arriving => Arriving') /\ (Arrived => Arrived')
  BY EndStays
<1>2. ASSUME pc'["user"] = "urbs", Cut'
      PROVE  \E end \in 1 .. next' - 1 : EndsAt(end)'
  <2>1. PICK end \in 1 .. next - 1 : EndsAt(end)
    BY <1>1, <1>2 DEF CutInv
  <2>2. EndsAt(end)'
    BY <2>1, EndStays
  <2>3. QED
    BY <1>2, <2>1, <2>2
<1>3. QED
  BY <1>1, <1>2 DEF CutInv

\* What the kernel still has to finish was not refused for a failure.
LEMMA CutFinish ==
  ASSUME IInv, CutInv, NEW s, Finish(s), Kernel # {},
         UNCHANGED <<fixedVars, allocated, reap_action, reap_status, dataVars,
                     pc, outcome>>,
         pc'["user"] = "urbs" /\ Cut' => \E end \in 1 .. next' - 1 : EndsAt(end)'
  PROVE  CutInv'
<1>1. num_urbs' = num_urbs /\ Clean' = Clean
  BY DEF num_urbs, Clean, fixedVars
<1>2. Refused' => Refused
  <2>1. \A i \in Urbs : urb'[i] \in {"ready", urb[i]}
    BY Zenon DEF Finish
  <2>2. 1 .. num_urbs \subseteq Urbs
    BY NumUrbsType, UsbTransferAssumption DEF Urbs
  <2>3. QED
    BY <1>1, <2>1, <2>2 DEF Refused, fixedVars
<1>3. allocated /\ pc["events"] \in {"idle", "discard"}
  BY KernelIsOutstanding DEF IInv, OwnerInv, Owner
<1>4. ~(Refused /\ allocated /\ Clean /\ reap_action = "early")
  <2> SUFFICES ASSUME Refused, Arriving PROVE FALSE
    BY DEF CutInv
  <2>1. PICK end \in Nat \ {0}, hi \in 1 .. num_urbs : end <= hi /\ EndsAt(end)
    BY DEF Arriving
  <2>2. end \in Urbs
    BY <2>1, NumUrbsType, UsbTransferAssumption DEF Urbs
  <2>3. QED
    BY <2>1, <2>2 DEF EndsAt, Refused, IInv, UrbInv, NoSurplus
<1>5. QED
  BY <1>1, <1>2, <1>3, <1>4 DEF CutInv

LEMMA KernelFinishKeepsCut ==
  ASSUME IInv, CutInv, StallsAreCut, KernelFinish PROVE CutInv'
<1>1. PICK i \in Urbs, st \in UrbStatuses, n \in 0 .. 2 :
        \E b \in {<<>>, Behind(i)} : Finished(i, st, n, b)
  BY KernelFinishes
<1>2. PICK b : Finished(i, st, n, b)
  BY <1>1
<1>3. PICK s : s = <<Result(i, st, n)>> \o b
  OBVIOUS
<1>4. /\ KernelType /\ ReadyUrbs /\ KernelUrbs /\ Lowest(i)
      /\ Possible(i, st, n, b) /\ UNCHANGED <<plugged, KernelFrame>>
  BY <1>2 DEF Finished, IInv, Types, UrbInv
<1>5. Finish(s)
  BY <1>2, <1>3 DEF Finished
<1>6. InRow(i, st, n, b, s)
  BY <1>3, <1>4, PossibleResults
<1>7. /\ i \in Kernel /\ i \in Nat /\ i \in 1 .. num_urbs
      /\ num_urbs \in Nat /\ num_urbs <= NumUrbs
  BY <1>4, <1>6, NumUrbsType DEF Lowest, Kernel, InRow, Urbs
<1>8. /\ results'[i] = st
      /\ \A j \in Urbs : results'[j] # results[j] /\ j # i =>
           j > i /\ results'[j] = "cancelled"
  <2>1. Finishes(s)
    BY <1>6 DEF InRow
  <2>2. /\ \A k \in DOMAIN s : results'[s[k].urb] = s[k].status
        /\ \A j \in Urbs : (\A k \in DOMAIN s : s[k].urb # j) =>
             results'[j] = results[j]
    BY <1>4, <1>5, <2>1, FinishUrbs, Zenon
  <2>3. 1 \in DOMAIN s /\ s[1].urb = i /\ s[1].status = st
    BY <1>6 DEF InRow
  <2>4. ASSUME NEW k \in DOMAIN s, k # 1
        PROVE  s[k].urb > i /\ s[k].status = "cancelled"
    <3>1. s[k].urb = i + k - 1 /\ k \in Nat /\ k > 1
      BY <1>6, <2>4 DEF InRow
    <3>2. s[k].status = "cancelled"
      BY <1>6, <2>4 DEF InRow
    <3>3. i + k - 1 > i
      BY <1>7, <3>1
    <3>4. QED
      BY <3>1, <3>2, <3>3
  <2>5. ASSUME NEW j \in Urbs, results'[j] # results[j], j # i
        PROVE  j > i /\ results'[j] = "cancelled"
    <3>1. PICK k \in DOMAIN s : s[k].urb = j
      BY <2>2, <2>5
    <3>2. k # 1
      BY <2>3, <2>5, <3>1
    <3>3. QED
      BY <2>2, <2>4, <3>1, <3>2
  <2>6. results'[i] = st
    BY <2>2, <2>3
  <2>7. \A j \in Urbs : results'[j] # results[j] /\ j # i =>
          j > i /\ results'[j] = "cancelled"
    BY <2>5
  <2>8. QED
    BY <2>6, <2>7
<1>9. ASSUME pc["user"] = "urbs", Cut'
      PROVE  i \in 1 .. next - 1 /\ EndsAt(i)'
  <2>1. /\ allocated /\ reap_action = "normal" /\ reap_status = "completed"
        /\ Outstanding = 1 .. next - 1 /\ next \in Nat
    BY <1>9 DEF IInv, UrbInv, Counted, OwnerInv, Owner, Types, RunType
  <2>2. continuation /\ kind = "bulk" /\ plugged
    BY <1>4, <1>7, <1>9
    DEF Cut, KernelFrame, fixedVars, KernelType, KernelUrbs
  <2>3. \A j \in Urbs : results[j] \notin CutShort
    BY <1>7, <2>2 DEF IInv, UrbInv, NoSurplus
  <2>4. st \in CutShort
    <3>1. PICK j \in Urbs : results'[j] \in CutShort
      BY <1>9 DEF Cut, CutShort
    <3>2. "cancelled" \notin CutShort
      BY DEF CutShort
    <3>3. QED
      BY <1>8, <2>3, <3>1, <3>2
  <2>5. ASSUME NEW j \in 1 .. i - 1 PROVE results'[j] = "ok"
    <3>1. j \in Urbs /\ j \notin Kernel /\ j < i /\ i < next
      BY <1>4, <1>7, <2>1, UsbTransferAssumption
      DEF Lowest, Kernel, WithKernel, Urbs, Outstanding
    <3>2. j \in Outstanding
      BY <1>7, <2>1, <3>1
    <3>3. PICK k \in DOMAIN ready :
            ready[k].urb = j /\ results[j] = ready[k].status
      BY <1>4, <3>1, <3>2 DEF Outstanding, Kernel, WithKernel, ReadyUrbs
    <3>4. ready[k].status \in UrbStatuses
      BY <1>4, ReadyResults DEF Results
    <3>5. ready[k].status # "overflow"
      BY <1>7, <3>1, <3>3 DEF IInv, UrbInv, Lengths
    <3>6. ready[k].status # "gone"
      BY <2>2 DEF IInv, UrbInv, Ends
    <3>7. ready[k].status # "cancelled"
      <4> SUFFICES ASSUME ready[k].status = "cancelled" PROVE FALSE
        OBVIOUS
      <4>1. PICK l \in 1 .. k - 1 :
              ready[l].status \in {"short", "error", "stall"}
        BY <2>1, <2>2 DEF IInv, Data, Clean
      <4>2. l \in DOMAIN ready
        BY <1>4, ReadyResults
      <4>3. ready[l].urb \in Urbs /\ results[ready[l].urb] = ready[l].status
        BY <1>4, <4>2, ReadyResults DEF ReadyUrbs
      <4>4. QED
        BY <2>3, <4>1, <4>3 DEF CutShort
    <3>8. results[j] = "ok"
      BY <2>3, <3>1, <3>3, <3>4, <3>5, <3>6, <3>7 DEF UrbStatuses, CutShort
    <3>9. QED
      BY <1>7, <1>8, <3>1, <3>8
  <2>6. i \in 1 .. next - 1
    BY <1>7, <2>1 DEF Outstanding, Kernel, WithKernel
  <2>7. QED
    BY <1>8, <2>4, <2>5, <2>6 DEF EndsAt
<1>10. UNCHANGED <<fixedVars, allocated, reap_action, reap_status, dataVars,
                   pc, next, outcome>>
  BY <1>4 DEF KernelFrame, privVars, runVars
<1>11. pc'["user"] = "urbs" /\ Cut' => \E end \in 1 .. next' - 1 : EndsAt(end)'
  BY <1>9, <1>10
<1>12. Kernel # {}
  BY <1>7
<1>13. QED
  BY <1>5, <1>10, <1>11, <1>12, CutFinish

LEMMA UnplugKeepsCut == ASSUME IInv, CutInv, Unplug PROVE CutInv'
<1>1. PICK u \in [1 .. Cardinality(Kernel) -> Kernel] :
        Finish([k \in DOMAIN u |-> Result(u[k], "gone", 0)])
  BY DEF Unplug, Kernel
<1>2. UNCHANGED <<fixedVars, allocated, reap_action, reap_status, dataVars,
                  pc, next, outcome>>
  BY DEF Unplug, KernelFrame, privVars, runVars
<1> DEFINE s == [k \in DOMAIN u |-> Result(u[k], "gone", 0)]
<1>3. CASE Kernel = {}
  <2>1. DOMAIN u = {}
    <3>1. Cardinality(Kernel) = 0
      BY <1>3, FS_EmptySet
    <3>2. QED
      BY <1>1, <3>1
  <2>2. s = <<>>
    BY <2>1
  <2>3. /\ ready \in Seq(Results)
        /\ urb \in [Urbs -> {"none", "kernel", "ready", "retired"}]
        /\ results \in [Urbs -> UrbStatuses \cup {"none"}]
    BY DEF IInv, Types, KernelType
  <2>4. UNCHANGED kernelVars
    <3>1. Finish(<<>>)
      BY <1>1, <2>2
    <3>2. ready' = ready
      BY <2>3, <3>1 DEF Finish
    <3>3. urb' = [i \in Urbs |-> urb[i]] /\ results' = [i \in Urbs |-> results[i]]
      BY <3>1 DEF Finish
    <3>4. QED
      BY <2>3, <3>2, <3>3 DEF kernelVars
  <2>5. QED
    BY <1>2, <2>4, CutStays DEF Clean, fixedVars
<1>4. CASE Kernel # {}
  <2>1. Finish(s)
    BY <1>1
  <2>2. \A j \in Urbs : results'[j] \in {results[j], "gone"}
    <3>1. \A r \in {s[k] : k \in DOMAIN s} : r.status = "gone"
      BY DEF Result
    <3>2. ASSUME NEW j \in Urbs, \E k \in DOMAIN s : s[k].urb = j
          PROVE  (CHOOSE r \in {s[k] : k \in DOMAIN s} : r.urb = j).status
                   = "gone"
      BY <3>1, <3>2
    <3> HIDE DEF s
    <3>3. QED
      BY <2>1, <3>2, Zenon DEF Finish
  <2>3. ~Cut'
    <3> SUFFICES ASSUME Cut' PROVE FALSE
      OBVIOUS
    <3>1. PICK j \in Urbs : results'[j] \in {"short", "error", "stall"}
      BY DEF Cut
    <3>2. results[j] \in CutShort /\ continuation
      BY <1>2, <2>2, <3>1 DEF CutShort, Cut, fixedVars
    <3>3. QED
      BY <1>4, <3>2 DEF IInv, UrbInv, NoSurplus
  <2> HIDE DEF s
  <2>4. QED
    BY <1>2, <1>4, <2>1, <2>3, CutFinish
<1>5. QED
  BY <1>3, <1>4

LEMMA DiscardKeepsCut ==
  ASSUME IInv, CutInv, NEW t \in Threads, Discard(t) PROVE CutInv'
<1>1. UNCHANGED <<fixedVars, allocated, reap_action, reap_status, dataVars,
                  pc, outcome>>
  BY DEF Discard, DiscardFrame, privVars
<1>2. pc["user"] # "urbs" /\ next \in Urbs
  <2>1. pc["user"] # "urbs"
    BY DEF Discard, IInv, Types, RunType, Threads
  <2>2. next \in 1 .. num_urbs
    BY NumUrbsType DEF Discard, IInv, Types, RunType, UrbInv, KernelUrbs
  <2>3. QED
    BY <2>1, <2>2, NumUrbsType, UsbTransferAssumption DEF Urbs
<1>3. CASE WithKernel(next)
  <2>1. PICK n : Finish(<<Result(next, "cancelled", n)>>)
    BY <1>3, Zenon DEF Discard
  <2>2. Kernel # {}
    BY <1>2, <1>3 DEF Kernel
  <2>3. PICK s : Finish(s)
    BY <2>1
  <2>4. QED
    BY <1>1, <1>2, <2>2, <2>3, CutFinish
<1>4. CASE ~WithKernel(next)
  <2>1. UNCHANGED kernelVars
    BY <1>4 DEF Discard
  <2>2. QED
    BY <1>1, <1>2, <2>1, CutStays DEF Clean, fixedVars
<1>5. QED
  BY <1>3, <1>4

LEMMA SubmitKeepsCut ==
  ASSUME IInv, CutInv, Submit \/ Submitting PROVE CutInv'
<1>1. /\ pc["user"] # "idle" => ~busy /\ allocated
      /\ ~busy => pc["events"] \in {"idle", "discard"}
      /\ pc \in [Threads ->
           {"idle", "urbs", "discard", "expired", "report", "callback"}]
  BY DEF IInv, OwnerInv, Owner, Types, RunType
<1>2. pc["user"] = "urbs" =>
        /\ allocated /\ reap_action = "normal" /\ ~torn
        /\ Outstanding = 1 .. next - 1 /\ next \in Nat
        /\ num_retired = 0 /\ transferred = 0
  BY <1>1 DEF IInv, UrbInv, Counted, Types, RunType, PrivType
<1>3. CASE Submit
  <2>1. /\ ~busy /\ \A i \in Urbs : results'[i] = "none"
        /\ reap_action' = "normal"
        /\ pc' = [pc EXCEPT !["user"] = "urbs"]
    BY <1>3 DEF Submit, Goto
  <2>2. ~Cut'
    BY <2>1 DEF Cut
  <2>3. pc'["events"] \in {"idle", "discard"}
    BY <1>1, <2>1 DEF Threads
  <2>4. QED
    BY <2>1, <2>2, <2>3 DEF CutInv
<1>4. CASE SubmitUrb
  <2>1. /\ pc["user"] = "urbs" /\ ~Cut
        /\ UNCHANGED <<fixedVars, results, reap_action, pc>>
    BY <1>4 DEF SubmitUrb, SubmitFrame, privVars
  <2>2. ~Cut'
    BY <2>1 DEF Cut, fixedVars
  <2>3. QED
    BY <1>1, <1>2, <2>1, <2>2 DEF CutInv
<1>5. CASE SubmitEarly
  <2>1. /\ pc["user"] = "urbs" /\ Cut /\ next \in 2 .. num_urbs
        /\ pc' = [pc EXCEPT !["user"] = "idle"]
        /\ UNCHANGED <<fixedVars, kernelVars, dataVars>>
    BY <1>5 DEF SubmitEarly, SubmitFrame, Goto
  <2>2. PICK end \in 1 .. next - 1 : EndsAt(end)
    BY <2>1 DEF CutInv
  <2>3. \A k, l \in DOMAIN ready : k < l => ready[k].urb < ready[l].urb
    BY <1>2, <2>1 DEF IInv, UrbInv, InOrder, Ordered
  <2>4. /\ next - 1 \in 1 .. num_urbs /\ end \in Nat \ {0}
        /\ end <= next - 1 /\ 1 <= end
    BY <2>1, <2>2, NumUrbsType
  <2>5. transferred = IF 1 <= end THEN 2 * (1 - 1) ELSE Received(end)
    BY <1>2, <2>1, <2>4
  <2>6. Arriving
    BY <1>2, <2>1, <2>2, <2>3, <2>4, <2>5 DEF Arriving
  <2>7. Arriving'
    BY <2>1, <2>6, EndStays
  <2>8. /\ pc'["user"] # "urbs"
        /\ pc'["events"] \in {"idle", "discard"}
    BY <1>1, <2>1 DEF Threads
  <2>9. QED
    BY <2>7, <2>8 DEF CutInv
<1>6. CASE SubmitRefused \/ SubmitFails \/ SubmitEnd
  <2>1. /\ pc["user"] = "urbs"
        /\ UNCHANGED <<fixedVars, kernelVars, dataVars>>
        /\ pc' = [pc EXCEPT !["user"] = "idle"]
           \/ pc' = [pc EXCEPT !["user"] = "discard"]
        /\ reap_action' \in {reap_action, "submit_failed"}
    BY <1>6
    DEF SubmitRefused, SubmitFails, SubmitEnd, Goto, SubmitFrame, privVars
  <2>2. /\ pc'["user"] # "urbs"
        /\ pc'["events"] \in {"idle", "discard"}
    BY <1>1, <2>1 DEF Threads
  <2>3. reap_action' # "early"
    BY <1>2, <2>1
  <2>4. QED
    BY <2>2, <2>3 DEF CutInv
<1>7. QED
  BY <1>3, <1>4, <1>5, <1>6 DEF Submitting

LEMMA CancelKeepsCut ==
  ASSUME IInv, CutInv, Cancel \/ Expire \/ ExpireCancel PROVE CutInv'
<1>1. /\ UNCHANGED <<fixedVars, kernelVars, dataVars, allocated, reap_status,
                     outcome>>
      /\ \/ reap_action' \in {"error", "cancelled"}
            /\ (reap_action' = "error" => reap_action = "error")
         \/ UNCHANGED reap_action
      /\ \E t \in {"cancel", "timer"}, to \in {"discard", "expired"} :
           pc' = [pc EXCEPT ![t] = to]
  BY DEF Cancel, Expire, ExpireCancel, op_cancel_transfer, Goto, privVars
<1>2. pc \in [Threads ->
        {"idle", "urbs", "discard", "expired", "report", "callback"}]
  BY DEF IInv, Types, RunType
<1>3. pc'["user"] = pc["user"] /\ pc'["events"] = pc["events"]
  BY <1>1, <1>2 DEF Threads
<1>4. pc["user"] # "urbs" /\ Clean' = Clean
  BY <1>1
  DEF Cancel, Expire, ExpireCancel, op_cancel_transfer, Acquire, FlyingLockFree,
      IInv, Types, RunType, Threads, Clean, fixedVars
<1>5. QED
  BY <1>1, <1>3, <1>4, CutStays

\* The URB that comes back is the lowest; when it is the last, that at the end
\* of the data has come back.
LEMMA ReapKeepsArriving ==
  ASSUME IInv, Retires, NEW e, e = Head(ready), Refused, Arriving,
         transferred' = transferred + e.length, UNCHANGED torn
  PROVE  Arriving' /\ (Last(e) => Arrived')
<1>1. /\ e \in Results /\ e.urb \in 1 .. num_urbs /\ 1 \in DOMAIN ready
      /\ e = ready[1] /\ results[e.urb] = e.status
      /\ e.urb \in Outstanding /\ Outstanding' = Outstanding \ {e.urb}
  BY RetiredUrb
<1>2. \A k \in DOMAIN ready' : /\ k \in Nat /\ k >= 1
                              /\ k + 1 \in DOMAIN ready
                              /\ ready'[k] = ready[k + 1]
  BY RetiredUrb
<1>3. PICK lo \in Nat \ {0}, end \in Nat \ {0}, hi \in 1 .. num_urbs :
        /\ Outstanding = lo .. hi /\ end <= hi /\ EndsAt(end)
        /\ transferred = IF lo <= end THEN 2 * (lo - 1) ELSE Received(end)
  BY DEF Arriving
<1>4. /\ num_urbs \in Nat /\ num_urbs' = num_urbs /\ hi \in Nat
      /\ end \in 1 .. num_urbs /\ end \in Urbs /\ continuation
      /\ results' = results
  BY <1>3, NumUrbsType, UsbTransferAssumption
  DEF Retires, fixedVars, num_urbs, Urbs, Refused
<1>5. \A k, l \in DOMAIN ready : k < l => ready[k].urb < ready[l].urb
  BY DEF Arriving
<1>6. Kernel = {}
  BY <1>3, <1>4 DEF EndsAt, IInv, UrbInv, NoSurplus
<1>7. e.urb = lo
  <2> SUFFICES ASSUME e.urb # lo PROVE FALSE
    OBVIOUS
  <2>1. lo < e.urb /\ lo \in Outstanding
    BY <1>1, <1>3, <1>4
  <2>2. lo \in Urbs /\ urb[lo] = "ready"
    BY <1>6, <2>1 DEF Outstanding, Kernel, WithKernel
  <2>3. PICK k \in DOMAIN ready : ready[k].urb = lo
    BY <2>2 DEF IInv, UrbInv, ReadyUrbs
  <2>4. k # 1 /\ 1 < k
    BY <1>1, <2>1, <2>3, ReadyResults DEF IInv, Types
  <2>5. ready[1].urb < ready[k].urb
    BY <1>1, <1>5, <2>4
  <2>6. QED
    BY <1>1, <1>3, <2>1, <2>3, <2>5
<1>8. lo <= hi /\ Outstanding' = lo + 1 .. hi
  BY <1>1, <1>3, <1>4, <1>7
<1>9. \A k, l \in DOMAIN ready' : k < l => ready'[k].urb < ready'[l].urb
  BY <1>2, <1>5
<1>10. /\ lo < end => e.length = 2
       /\ lo = end => transferred + e.length = Received(end)
       /\ lo > end => e.length = 0
  <2>1. ASSUME lo < end PROVE e.length = 2
    <3>1. e.status = "ok"
      BY <1>1, <1>3, <1>4, <1>7, <2>1 DEF EndsAt
    <3>2. QED
      BY <1>1, <3>1 DEF IInv, UrbInv, Lengths
  <2>2. ASSUME lo = end PROVE transferred + e.length = Received(end)
    <3>1. e.status = results[end] /\ transferred = 2 * (end - 1)
      BY <1>1, <1>3, <1>7, <2>2
    <3>2. /\ e.status = "short" => e.length = 1
          /\ e.status \in {"error", "stall"} => e.length = 0
      BY <1>1 DEF IInv, UrbInv, Lengths
    <3>3. e.status \in {"short", "error", "stall"}
      BY <1>3, <3>1 DEF EndsAt, CutShort
    <3>4. CASE e.status = "short"
      BY <1>3, <3>1, <3>2, <3>4 DEF Received
    <3>5. CASE e.status \in {"error", "stall"}
      BY <1>3, <3>1, <3>2, <3>5 DEF Received
    <3>6. QED
      BY <3>3, <3>4, <3>5
  <2>3. ASSUME lo > end PROVE e.length = 0
    <3>1. end \in 1 .. e.urb - 1 /\ results[end] \in CutShort
      BY <1>3, <1>4, <1>7, <2>3 DEF EndsAt
    <3>2. ~(e.length > 0)
      BY <1>1, <1>4, <3>1 DEF IInv, UrbInv, NoSurplus
    <3>3. QED
      BY <1>1, <3>2 DEF Results
  <2>4. QED
    BY <2>1, <2>2, <2>3
<1>11. transferred' = IF lo + 1 <= end THEN 2 * lo ELSE Received(end)
  <2>1. Received(end) \in Nat /\ e.length \in Nat
    BY <1>1, <1>4, ReceivedType DEF Results
  <2>2. CASE lo < end
    BY <1>3, <1>10, <2>2
  <2>3. CASE lo = end
    BY <1>3, <1>10, <2>3
  <2>4. CASE lo > end
    BY <1>3, <1>10, <2>1, <2>4
  <2>5. QED
    BY <1>3, <2>2, <2>3, <2>4
<1>12. EndsAt(end)' /\ Received(end)' = Received(end)
  BY <1>3, <1>4 DEF EndsAt, Received
<1>13. Arriving'
  <2>1. lo + 1 \in Nat \ {0} /\ (lo + 1) - 1 = lo
    BY <1>3
  <2>2. transferred' = IF lo + 1 <= end THEN 2 * ((lo + 1) - 1)
                       ELSE Received(end)'
    BY <1>11, <1>12, <2>1
  <2>3. ~torn'
    BY DEF Arriving
  <2>4. QED
    BY <1>3, <1>4, <1>8, <1>9, <1>12, <2>1, <2>2, <2>3 DEF Arriving
<1>14. ASSUME Last(e) PROVE Arrived'
  <2>1. Outstanding' = {}
    BY <1>14, RetiredCount
  <2>2. ~(lo + 1 <= end)
    BY <1>3, <1>4, <1>8, <2>1
  <2>3. ~torn'
    BY DEF Arriving
  <2>4. QED
    BY <1>4, <1>11, <1>12, <2>2, <2>3 DEF Arrived
<1>15. QED
  BY <1>13, <1>14

LEMMA ReapKeepsCut == ASSUME IInv, CutInv, Reap PROVE CutInv'
<1> DEFINE e == Head(ready)
<1>1. pc'["user"] = pc["user"]
  BY DEF Reap, BulkAbnormal, BulkNormal, IsoAbnormal, IsoNormal, ControlReap,
         Complete, GoOn, CancelRemaining, Goto, IInv, Types, RunType, Threads
<1>2. Retires
  BY <1>1 DEF Reap, Retires
<1>3. /\ allocated /\ pc["user"] = "idle" /\ pc'["user"] = "idle"
      /\ pc["events"] = "idle" /\ UNCHANGED fixedVars
      /\ reap_action = "normal" => e.urb = num_retired + 1
  BY <1>1, <1>2, RetiredCount DEF Retires
<1>4. pc \in [Threads ->
        {"idle", "urbs", "discard", "expired", "report", "callback"}]
  BY DEF IInv, Types, RunType
<1>5. /\ num_urbs' = num_urbs /\ 1 .. num_urbs \subseteq Urbs
      /\ \A i \in Urbs : urb'[i] = IF i = e.urb THEN "retired" ELSE urb[i]
  BY <1>2, <1>3, RetiredUrb, NumUrbsType, UsbTransferAssumption
  DEF num_urbs, fixedVars, Urbs
<1>6. Refused' => Refused
  BY <1>3, <1>5 DEF Refused, fixedVars
<1>7. pc'["events"] # "callback"
  BY <1>3, <1>4
  DEF Reap, BulkAbnormal, BulkNormal, IsoAbnormal, IsoNormal, ControlReap,
      Complete, GoOn, CancelRemaining, Goto, Threads
<1>8. CASE kind # "bulk"
  BY <1>3, <1>6, <1>7, <1>8 DEF CutInv, Refused, IInv, Types, KernelType
<1>9. CASE kind = "bulk" /\ BulkAbnormal(e)
  <2>1. /\ transferred' = transferred + e.length
        /\ UNCHANGED <<reap_action, torn>>
    BY <1>9 DEF BulkAbnormal
  <2>2. ASSUME Refused', Clean', reap_action = "early"
        PROVE  Arriving' /\ (Last(e) => Arrived')
    <3>1. Clean
      BY <1>9, <2>2 DEF BulkAbnormal, Clean
    <3>2. Refused /\ Arriving
      BY <1>3, <1>6, <2>2, <3>1 DEF CutInv
    <3>3. QED
      BY <1>2, <2>1, <3>2, ReapKeepsArriving
  <2>3. CASE Last(e)
    <3>1. ~allocated'
      BY <1>9, <2>3 DEF BulkAbnormal, Complete
    <3>2. Clean' => reap_action = "early"
      BY <1>9, <2>3 DEF BulkAbnormal, Clean
    <3>3. QED
      BY <1>3, <1>7, <2>2, <2>3, <3>1, <3>2 DEF CutInv
  <2>4. CASE ~Last(e)
    <3>1. pc' = pc
      BY <1>9, <2>4 DEF BulkAbnormal, GoOn
    <3>2. QED
      BY <1>3, <2>1, <2>2, <3>1 DEF CutInv
  <2>5. QED
    BY <2>3, <2>4
<1>10. CASE kind = "bulk" /\ BulkNormal(e)
  <2>1. ~(Refused' /\ Clean')
    <3> SUFFICES ASSUME Refused, Clean' PROVE FALSE
      BY <1>6
    <3>1. Clean /\ reap_action = "normal"
      BY <1>10 DEF BulkNormal, Clean
    <3>2. /\ \A i \in 1 .. num_retired : urb[i] = "retired"
          /\ Outstanding = num_retired + 1 .. num_urbs
          /\ num_retired \in Nat /\ num_urbs \in Nat
      BY <1>3, <3>1, NumUrbsType
      DEF IInv, Data, UrbInv, InOrder, Ordered, Types, PrivType
    <3>3. \A i \in 1 .. num_urbs :
            i \in 1 .. num_retired \/ i \in num_retired + 1 .. num_urbs
      BY <3>2
    <3>4. QED
      BY <3>2, <3>3 DEF Refused, Outstanding
  <2>2. QED
    BY <1>3, <1>7, <2>1 DEF CutInv
<1>11. QED
  BY <1>8, <1>9, <1>10 DEF Reap

LEMMA ReportKeepsCut ==
  ASSUME IInv, CutInv, Report \/ Callback \/ Disconnect PROVE CutInv'
<1>1. /\ UNCHANGED <<fixedVars, kernelVars, dataVars, reap_action, reap_status>>
      /\ Clean' = Clean
  BY DEF Report, Callback, Disconnect, Complete, privVars, fixedVars, Clean
<1>2. pc \in [Threads ->
        {"idle", "urbs", "discard", "expired", "report", "callback"}]
  BY DEF IInv, Types, RunType
<1>3. CASE Report
  <2>1. /\ pc["user"] = "idle" /\ pc["events"] = "report"
        /\ pc' = [pc EXCEPT !["events"] = "callback"]
        /\ UNCHANGED allocated /\ outcome' = Settled
    BY <1>3 DEF Report, FlyingLockFree, Goto, privVars
  <2>2. pc'["user"] = "idle" /\ pc'["events"] = "callback" /\ ~allocated
    BY <1>2, <2>1 DEF Threads, IInv, OwnerInv, Owner
  <2>3. ASSUME Refused, outcome' = "completed" PROVE Arrived
    <3>1. continuation /\ kind = "bulk"
      BY <2>3 DEF Refused, IInv, Types, KernelType
    <3>2. outcome # "completed" /\ outcome # "cancellation"
      BY <2>1, <2>3, <3>1 DEF Settled, IInv, Data
    <3>3. /\ outcome = "late" /\ reap_action # "cancelled"
          /\ reap_status = "completed"
      BY <2>1, <2>3, <3>2 DEF Settled
    <3>4. QED
      BY <2>1, <2>3, <3>1, <3>3 DEF CutInv, Clean
  <2>4. Refused' = Refused /\ (Arrived => Arrived')
    BY <1>1, EndStays
  <2>5. QED
    BY <2>1, <2>2, <2>3, <2>4 DEF CutInv
<1>4. CASE Callback
  <2>1. /\ pc' = [pc EXCEPT !["events"] = "idle"]
        /\ UNCHANGED <<allocated, next, outcome>>
    BY <1>4 DEF Callback, Goto, privVars
  <2>2. pc'["user"] = pc["user"] /\ pc'["events"] = "idle"
    BY <1>2, <2>1 DEF Threads
  <2>3. QED
    BY <1>1, <2>1, <2>2, CutStays
<1>5. CASE Disconnect
  <2>1. CASE flying
    <3>1. /\ pc' = [pc EXCEPT !["events"] = "report"] /\ ~allocated'
          /\ outcome' = "no_device" /\ UNCHANGED next
      BY <1>5, <2>1 DEF Disconnect, Complete, Goto
    <3>2. pc'["user"] = pc["user"] /\ pc'["events"] = "report"
      BY <1>2, <3>1 DEF Threads
    <3>3. QED
      BY <1>1, <3>1, <3>2, CutStays
  <2>2. CASE ~flying
    <3>1. UNCHANGED <<allocated, outcome, pc, next>>
      BY <1>5, <2>2 DEF Disconnect, runVars
    <3>2. QED
      BY <1>1, <3>1, CutStays
  <2>3. QED
    BY <2>1, <2>2
<1>6. QED
  BY <1>3, <1>4, <1>5

LEMMA StepKeepsCut ==
  ASSUME IInv, CutInv, StallsAreCut, [Next]_vars PROVE CutInv'
<1>1. CASE UNCHANGED vars
  BY <1>1, CutStays
  DEF vars, fixedVars, kernelVars, privVars, dataVars, runVars, Clean
<1>2. ASSUME NEW t \in Threads, DiscardEnd(t) PROVE CutInv'
  <2>1. /\ UNCHANGED <<fixedVars, kernelVars, dataVars, allocated, reap_action,
                       reap_status, next, outcome>>
        /\ pc' = [pc EXCEPT ![t] = "idle"]
    BY <1>2 DEF DiscardEnd, DiscardFrame, Goto, privVars
  <2>2. \A u \in Threads : pc'[u] = pc[u] \/ pc'[u] = "idle"
    BY <2>1 DEF IInv, Types, RunType
  <2>3. Clean' = Clean
    BY <2>1 DEF Clean, fixedVars
  <2>4. QED
    BY <2>1, <2>2, <2>3, CutStays DEF Threads
<1>3. CASE Discarding
  BY <1>2, <1>3, DiscardKeepsCut DEF Discarding
<1>4. QED
  BY <1>1, <1>3, KernelFinishKeepsCut, UnplugKeepsCut, SubmitKeepsCut,
     CancelKeepsCut, ReapKeepsCut, ReportKeepsCut
  DEF Next, Events

LEMMA InitCut == Init => CutInv
  BY DEF Init, CutInv, Threads

-----------------------------------------------------------------------------
(* The theorems *)

LEMMA InitIInv == Init => IInv
<1> SUFFICES ASSUME Init PROVE IInv
  OBVIOUS
<1> USE DEF Init
<1>1. num_urbs \in Nat \ {0}
  BY NumUrbsType
<1>2. \A i \in Urbs : urb[i] = "none" /\ results[i] = "none"
  OBVIOUS
<1>3. Kernel = {} /\ Outstanding = {}
  BY <1>2 DEF Kernel, WithKernel, Outstanding
<1>4. KernelType /\ PrivType
  <2>1. ready \in Seq(Results) /\ num_retired \in 0 .. num_urbs
        /\ transferred \in 0 .. 2 * num_retired
    BY <1>1
  <2>2. continuation \in BOOLEAN /\ (continuation => kind = "bulk")
    OBVIOUS
  <2>3. QED
    BY <2>1, <2>2 DEF KernelType, PrivType, Reportable
<1>5. RunType
  <2>1. next \in 0 .. num_urbs + 1 /\ first \in 1 .. num_urbs + 1
    BY <1>1
  <2>2. QED
    BY <2>1 DEF RunType, Threads
<1>6. ReadyUrbs /\ Lengths /\ NoSurplus
  BY <1>2, <1>3 DEF ReadyUrbs, Lengths, NoSurplus
<1>7. KernelUrbs
  <2>1. 1 \in 1 .. num_urbs + 1 /\ 0 \in 0 .. num_urbs /\ 1 .. 0 = {}
    BY <1>1
  <2>2. QED
    BY <1>3, <2>1 DEF KernelUrbs
<1>8. Counted /\ InOrder /\ Ends /\ ControlCancelled
  BY <1>3 DEF Counted, InOrder, Ends, ControlCancelled, Threads
<1>9. OwnerInv /\ Data
  BY DEF OwnerInv, Owner, Cancelled, Data, Threads
<1>10. QED
  BY <1>4, <1>5, <1>6, <1>7, <1>8, <1>9 DEF IInv, Types, UrbInv

LEMMA StepKeeps == ASSUME IInv, StallsAreCut, [Next]_vars PROVE IInv'
<1>1. CASE KernelFinish \/ Unplug
  BY <1>1, KernelFinishKeeps, UnplugKeeps
<1>2. CASE Submit \/ Submitting
  BY <1>2, SubmitKeeps, SubmitUrbKeeps, SubmitRefusedKeeps, SubmitEarlyKeeps,
     SubmitFailsKeeps, SubmitEndKeeps DEF Submitting
<1>3. CASE Discarding
  BY <1>3, DiscardKeeps, DiscardEndKeeps DEF Discarding
<1>4. CASE Cancel \/ Expire \/ ExpireCancel
  BY <1>4, CancelKeeps, ExpireKeeps, ExpireCancelKeeps
<1>5. CASE Events
  BY <1>5, ReapKeeps, ReportKeeps, CallbackKeeps, DisconnectKeeps DEF Events
<1>6. CASE UNCHANGED vars
  BY <1>6, StutterKeeps
<1>7. QED
  BY <1>1, <1>2, <1>3, <1>4, <1>5, <1>6 DEF Next

LEMMA TransferInvariant == ASSUME StallsAreCut PROVE Spec => []IInv
<1>1. Init => IInv
  BY InitIInv
<1>2. IInv /\ [Next]_vars => IInv'
  BY StepKeeps
<1>3. QED
  BY <1>1, <1>2, PTL DEF Spec

\* The results that wait are of different URBs: no more than there are.
LEMMA ReadyFits == ASSUME IInv PROVE Len(ready) <= num_urbs
<1> DEFINE n == Len(ready)
           f == [k \in 1 .. n |-> ready[k].urb]
<1>1. /\ n \in Nat /\ DOMAIN ready = 1 .. n
      /\ \A k \in 1 .. n : ready[k].urb \in 1 .. num_urbs
  BY ReadyResults DEF IInv, Types
<1>2. \A k, l \in 1 .. n : ready[k].urb = ready[l].urb => k = l
  BY <1>1 DEF IInv, UrbInv, ReadyUrbs
<1> HIDE DEF n
<1>3. f \in Injection(1 .. n, 1 .. num_urbs)
  BY <1>1, <1>2 DEF Injection, IsInjective
<1>4. /\ IsFiniteSet(1 .. num_urbs) /\ Cardinality(1 .. num_urbs) = num_urbs
      /\ Cardinality(1 .. n) = n
  BY <1>1, NumUrbsType, FS_Interval
<1>5. Cardinality(1 .. n) <= Cardinality(1 .. num_urbs)
  BY <1>3, <1>4, FS_Injection
<1>6. QED
  BY <1>4, <1>5 DEF n

\* Every count and every status of a transfer is in its range, for every
\* number of URBs: in particular no URB is counted twice as retired, and what
\* waits to be reaped never exceeds the URBs (android_usbfs.c:2906-2944).
THEOREM TransferTypes == ASSUME StallsAreCut PROVE Spec => []TypeOK
<1>1. IInv => TypeOK
  <2> SUFFICES ASSUME IInv PROVE TypeOK
    OBVIOUS
  <2>1. transferred \in 0 .. 2 * num_urbs
    BY NumUrbsType DEF IInv, Types, PrivType
  <2>2. outcome \in {"none", "late", "cancellation", "completed", "error",
                     "stall", "overflow", "no_device", "cancelled",
                     "timed_out"}
    BY DEF IInv, Types, RunType, Reportable
  <2>3. QED
    BY <2>1, <2>2, ReadyFits
    DEF TypeOK, IInv, Types, KernelType, PrivType, RunType
<1>2. QED
  BY <1>1, TransferInvariant, PTL

\* free in op_clear_transfer_priv and in the completions: whatever is
\* cancelled, refused, short, timed out or lost, libusb frees the URBs of a
\* transfer only when none of them can be reaped any more.
THEOREM UrbsOutliveTransfer == ASSUME StallsAreCut PROVE Spec => []UrbsOutlived
<1>1. IInv => UrbsOutlived
  <2> SUFFICES ASSUME IInv, ~allocated, polled, NEW i \in Urbs
               PROVE  urb[i] \in {"none", "retired"}
    BY DEF UrbsOutlived
  <2>1. i \notin Outstanding
    BY DEF IInv, UrbInv, Counted
  <2>2. QED
    BY <2>1 DEF Outstanding, IInv, Types, KernelType
<1>2. QED
  BY <1>1, TransferInvariant, PTL

\* handle_bulk_completion and handle_control_completion: a transfer that is
\* reported as completed has all the data up to its end, a short URB or the
\* last, without a hole, and no URB before the end failed.  Where the kernel
\* takes URBs with continuation nothing else is counted; a failure is taken for
\* the end only if the kernel took no more URBs because of it.
THEOREM CompletedHasItsData ==
  ASSUME StallsAreCut PROVE Spec => []CompletedIsComplete
<1>1. Init => CutInv
  BY InitCut
<1>2. IInv /\ CutInv /\ [Next]_vars => CutInv'
  BY StepKeepsCut
<1>3. IInv /\ CutInv => CompletedIsComplete
  <2> SUFFICES ASSUME IInv, CutInv, pc["events"] = "callback",
                      outcome = "completed", kind # "iso"
               PROVE  CompletedIsComplete
    BY DEF CompletedIsComplete
  <2>1. Whole
    BY DEF IInv, Data
  <2>2. CASE Refused
    <3>1. PICK end \in 1 .. num_urbs :
            EndsAt(end) /\ transferred = Received(end) /\ ~torn
      BY <2>2 DEF CutInv, Arrived
    <3>2. results[end] = "short" \/ CutOff(end)
      BY <2>2, <3>1 DEF EndsAt, CutShort, Refused, CutOff
    <3>3. QED
      BY <3>1, <3>2 DEF CompletedIsComplete, EndsAt
  <2>3. CASE ~Refused
    BY <2>1, <2>3 DEF Whole, Refused, CompletedIsComplete
  <2>4. QED
    BY <2>2, <2>3
<1>4. QED
  BY <1>1, <1>2, <1>3, TransferInvariant, PTL DEF Spec

\* libusb_submit_transfer, libusb_cancel_transfer and the callback implement
\* the contract: an accepted transfer is called back once, and as cancelled
\* only if its owner cancelled it.
THEOREM ImplementsContract == ASSUME StallsAreCut PROVE Spec => IsContract
<1> USE DEF Contract!Next, Contract!Submit, Contract!Cancel, Contract!Call,
            ownerVars
<1>1. Init => Contract!Init
  BY DEF Init, Contract!Init
<1>2. IInv /\ [Next]_vars => [Contract!Next]_<<busy, asked, status>>
  <2> SUFFICES ASSUME IInv, [Next]_vars
               PROVE  Contract!Next \/ UNCHANGED <<busy, asked, status>>
    OBVIOUS
  <2>1. CASE KernelFinish \/ Unplug
    BY <2>1 DEF KernelFinish, Unplug, KernelFrame
  <2>2. CASE Submit \/ SubmitUrb \/ SubmitRefused \/ SubmitFails
    BY <2>2 DEF Submit, SubmitUrb, SubmitRefused, SubmitFails, SubmitFrame
  <2>3. CASE SubmitEarly \/ SubmitEnd
    <3>1. ~busy /\ asked = FALSE
      BY <2>3 DEF SubmitEarly, SubmitEnd, Goto, IInv, OwnerInv, Owner, Types,
                  RunType
    <3>2. busy' = TRUE /\ UNCHANGED <<asked, status>>
      BY <2>3 DEF SubmitEarly, SubmitEnd, Accepted, SubmitFrame
    <3>3. QED
      BY <3>1, <3>2
  <2>4. ASSUME NEW t \in Threads, Discard(t) \/ DiscardEnd(t)
        PROVE  Contract!Next \/ UNCHANGED <<busy, asked, status>>
    <3>1. UNCHANGED <<asked, status>>
      BY <2>4 DEF Discard, DiscardEnd, DiscardFrame
    <3>2. \/ busy' = busy
          \/ busy' = TRUE /\ pc["user"] = "discard"
      BY <2>4
      DEF Discard, DiscardEnd, Goto, IInv, Types, RunType
    <3>3. pc["user"] = "discard" => ~busy /\ ~asked
      BY DEF IInv, OwnerInv, Owner
    <3>4. QED
      BY <3>1, <3>2, <3>3
  <2>5. CASE Cancel \/ Expire \/ ExpireCancel
    BY <2>5 DEF Cancel, Expire, ExpireCancel, op_cancel_transfer
  <2>6. CASE Reap \/ Report \/ Disconnect
    BY <2>6 DEF Reap, Report, Disconnect
  <2>7. CASE Callback
    <3>1. /\ busy /\ busy' = FALSE /\ asked' = FALSE /\ status' = outcome
          /\ outcome \in Reportable \cup {"cancelled", "timed_out"}
          /\ outcome = "cancelled" => asked
      BY <2>7 DEF Callback, Goto, IInv, OwnerInv, Owner, Cancelled
    <3>2. QED
      BY <3>1 DEF Reportable
  <2>8. CASE UNCHANGED vars
    BY <2>8 DEF vars
  <2>9. QED
    BY <2>1, <2>2, <2>3, <2>4, <2>5, <2>6, <2>7, <2>8
    DEF Next, Submitting, Discarding, Events
<1>3. QED
  BY <1>1, <1>2, TransferInvariant, PTL DEF Spec, IsContract, Contract!Spec

-----------------------------------------------------------------------------
(* The return of a transfer *)

\* A transfer has URBs to retire until it is reported, and none with the
\* kernel once it is cancelled or has expired.
Returning ==
  /\ busy => allocated \/ pc["events"] \in {"report", "callback"}
  /\ allocated => num_retired < num_urbs
  /\ pc["user"] # "idle" => ~timed_out
  /\ pc["cancel"] = "discard" \/ pc["timer"] = "discard" => first = 1
  /\ asked /\ pc["cancel"] = "idle" => Kernel = {}
  /\ timed_out /\ pc["timer"] = "idle" => Kernel = {}

\* The kernel takes URBs only from a submit.
LEMMA KernelShrinks ==
  ASSUME \A i \in Urbs : urb'[i] = "kernel" => urb[i] = "kernel"
  PROVE  Kernel = {} => Kernel' = {}
  BY DEF Kernel, WithKernel

LEMMA FinishShrinks ==
  ASSUME NEW s, Finish(s)
  PROVE  Kernel = {} => Kernel' = {}
<1>1. \A i \in Urbs : urb'[i] \in {"ready", urb[i]}
  BY Zenon DEF Finish
<1>2. QED
  BY <1>1, KernelShrinks

LEMMA InitReturning == Init => Returning
<1>1. Init => Kernel = {}
  BY DEF Init, Kernel, WithKernel
<1>2. QED
  BY <1>1 DEF Init, Returning, Threads

LEMMA KernelKeepsReturning ==
  ASSUME Returning, KernelFinish \/ Unplug PROVE Returning'
<1>1. Kernel = {} => Kernel' = {}
  BY FinishShrinks DEF KernelFinish, Unplug
<1>2. num_urbs' = num_urbs
  BY DEF num_urbs, KernelFinish, Unplug, KernelFrame, fixedVars
<1>3. QED
  <2>1. UNCHANGED <<busy, asked, allocated, num_retired, timed_out, pc, first>>
    BY DEF KernelFinish, Unplug, KernelFrame, privVars, ownerVars, runVars
  <2>2. QED
    BY <1>1, <1>2, <2>1 DEF Returning

\* A submit: it fills the kernel before the owner can cancel the transfer.
LEMMA SubmitKeepsReturning ==
  ASSUME IInv, Returning, Submit \/ Submitting PROVE Returning'
<1>1. num_urbs' = num_urbs /\ num_urbs \in Nat \ {0}
  BY NumUrbsType DEF num_urbs, Submit, Submitting, SubmitUrb, SubmitRefused,
     SubmitEarly, SubmitFails, SubmitEnd, SubmitFrame, fixedVars
<1>2. /\ pc["user"] # "idle" => ~busy /\ ~asked /\ allocated
      /\ ~busy => ~asked
      /\ pc["user"] = "urbs" => num_retired = 0 /\ next \in Nat
  BY DEF IInv, OwnerInv, Owner, UrbInv, Counted, Types, RunType
<1>3. pc \in [Threads ->
        {"idle", "urbs", "discard", "expired", "report", "callback"}]
      /\ \A t \in Threads : pc[t] \in {"urbs", "discard"} <=> lock = t
  BY DEF IInv, Types, RunType
<1>4. CASE Submit
  <2>1. ~asked' /\ ~timed_out' /\ ~busy' /\ num_retired' = 0
        /\ UNCHANGED first
    BY <1>2, <1>4 DEF Submit, SubmitFrame
  <2>2. \A t \in Threads \ {"user"} : pc'[t] = pc[t]
    BY <1>3, <1>4 DEF Submit, Goto
  <2>3. QED
    BY <1>1, <2>1, <2>2 DEF Returning, Threads
<1>5. CASE SubmitUrb
  <2>1. ~asked' /\ ~timed_out' /\ ~busy'
        /\ UNCHANGED <<pc, first, allocated, num_retired>>
    BY <1>2, <1>5 DEF SubmitUrb, SubmitFrame, privVars, Returning
  <2>2. QED
    BY <1>1, <2>1 DEF Returning
<1>6. CASE SubmitRefused \/ SubmitEarly \/ SubmitFails \/ SubmitEnd
  <2>1. /\ ~asked' /\ ~timed_out' /\ ~timed_out
        /\ allocated' => allocated /\ num_retired' < num_urbs
        /\ busy' => allocated'
    <3>1. CASE SubmitRefused
      BY <1>2, <3>1 DEF SubmitRefused, SubmitFrame, Goto, Returning
    <3>2. CASE SubmitEarly
      BY <1>1, <1>2, <3>2 DEF SubmitEarly, SubmitFrame, Goto, Returning
    <3>3. CASE SubmitFails
      BY <1>1, <1>2, <3>3 DEF SubmitFails, SubmitFrame, Goto, Returning
    <3>4. CASE SubmitEnd
      BY <1>1, <1>2, <3>4
      DEF SubmitEnd, SubmitFrame, Goto, Returning, privVars
    <3>5. QED
      BY <1>6, <3>1, <3>2, <3>3, <3>4
  <2>2. /\ \A t \in Threads \ {"user"} : pc'[t] = pc[t]
        /\ pc["user"] = "urbs"
        /\ first' = first \/ first' = 1
    BY <1>3, <1>6 DEF SubmitRefused, SubmitEarly, SubmitFails, SubmitEnd, Goto
  <2>3. QED
    BY <1>1, <2>1, <2>2 DEF Returning, Threads
<1>7. QED
  BY <1>4, <1>5, <1>6 DEF Submitting

\* A discard of all URBs ends when the kernel has none.
LEMMA DiscardKeepsReturning ==
  ASSUME IInv, Returning, Discarding PROVE Returning'
<1>1. PICK t \in Threads : Discard(t) \/ DiscardEnd(t)
  BY DEF Discarding
<1>2. num_urbs' = num_urbs
  BY <1>1 DEF num_urbs, Discard, DiscardEnd, DiscardFrame, fixedVars
<1>3. Kernel = {} => Kernel' = {}
  <2>1. CASE UNCHANGED kernelVars
    BY <2>1, KernelShrinks DEF kernelVars
  <2>2. CASE \E s : Finish(s)
    BY <2>2, FinishShrinks
  <2>3. QED
    BY <1>1, <2>1, <2>2 DEF Discard, DiscardEnd
<1>4. CASE Discard(t)
  BY <1>2, <1>3, <1>4 DEF Discard, DiscardFrame, privVars, Returning
<1>5. CASE DiscardEnd(t)
  <2>1. /\ \A u \in Threads \ {t} : pc'[u] = pc[u]
        /\ pc[t] = "discard" /\ pc'[t] = "idle" /\ next < first
        /\ UNCHANGED <<allocated, num_retired, first, asked, timed_out>>
        /\ busy' => busy \/ pc["user"] = "discard"
    BY <1>5
    DEF DiscardEnd, Goto, DiscardFrame, privVars, IInv, Types, RunType
  <2>2. pc["user"] # "idle" => allocated
    BY DEF IInv, OwnerInv, Owner
  <2>3. first = 1 => Kernel' = {}
    <3>1. next \in Nat /\ \A i \in Kernel : i <= next
      BY <2>1, NumUrbsType DEF IInv, Types, RunType, UrbInv, KernelUrbs
    <3>2. \A i \in Kernel : i \in Nat /\ i > 0
      BY UsbTransferAssumption DEF Kernel, Urbs
    <3>3. first = 1 => Kernel = {}
      BY <2>1, <3>1, <3>2
    <3>4. QED
      BY <1>3, <3>3
  <2>4. QED
    BY <1>2, <1>3, <2>1, <2>2, <2>3 DEF Returning, Threads
<1>6. QED
  BY <1>1, <1>4, <1>5

\* A cancellation: from now on the URBs are discarded.
LEMMA CancelKeepsReturning ==
  ASSUME IInv, Returning, Cancel \/ Expire \/ ExpireCancel PROVE Returning'
<1>1. /\ num_urbs' = num_urbs /\ Kernel' = Kernel
      /\ UNCHANGED <<allocated, num_retired, busy>>
  BY DEF num_urbs, Kernel, WithKernel, Cancel, Expire, ExpireCancel,
         op_cancel_transfer, fixedVars, kernelVars, privVars, ownerVars
<1>2. pc \in [Threads ->
        {"idle", "urbs", "discard", "expired", "report", "callback"}]
      /\ \A t \in Threads : pc[t] \in {"urbs", "discard"} <=> lock = t
  BY DEF IInv, Types, RunType
<1>3. CASE Cancel
  <2>1. /\ \A u \in Threads \ {"cancel"} : pc'[u] = pc[u]
        /\ pc'["cancel"] = "discard" /\ first' = 1
        /\ UNCHANGED timed_out
    BY <1>2, <1>3 DEF Cancel, op_cancel_transfer, Goto, Threads
  <2>2. QED
    BY <1>1, <2>1 DEF Returning, Threads
<1>4. CASE Expire
  <2>1. /\ \A u \in Threads \ {"timer"} : pc'[u] = pc[u]
        /\ pc'["timer"] = "expired" /\ pc["user"] = "idle"
        /\ UNCHANGED <<first, asked>>
    BY <1>2, <1>4 DEF Expire, FlyingLockFree, Goto, Threads, ownerVars
  <2>2. QED
    BY <1>1, <2>1 DEF Returning, Threads
<1>5. CASE ExpireCancel
  <2>1. /\ \A u \in Threads \ {"timer"} : pc'[u] = pc[u]
        /\ pc'["timer"] = "discard" /\ first' = 1
        /\ UNCHANGED <<asked, timed_out>>
    BY <1>2, <1>5 DEF ExpireCancel, op_cancel_transfer, Goto, Threads
  <2>2. QED
    BY <1>1, <2>1 DEF Returning, Threads
<1>6. QED
  BY <1>3, <1>4, <1>5

\* A URB that is reaped is the last one, or others are outstanding.
LEMMA ReapKeepsReturning ==
  ASSUME IInv, Returning, Reap PROVE Returning'
<1> DEFINE e == Head(ready)
<1>1. pc'["user"] = pc["user"]
  BY DEF Reap, BulkAbnormal, BulkNormal, IsoAbnormal, IsoNormal, ControlReap,
         Complete, GoOn, CancelRemaining, Goto, IInv, Types, RunType, Threads
<1>2. Retires
  BY <1>1 DEF Reap, Retires
<1>3. /\ num_urbs' = num_urbs /\ num_urbs \in Nat /\ num_retired \in Nat
      /\ num_retired' = num_retired + 1 /\ num_retired' <= num_urbs
      /\ reap_action = "normal" => e.urb = num_retired + 1
      /\ pc["user"] = "idle" /\ pc["events"] = "idle" /\ allocated
      /\ UNCHANGED <<asked, timed_out, busy>>
  <2>1. num_retired' \in 0 .. num_urbs /\ allocated /\ pc["user"] = "idle"
        /\ (reap_action = "normal" => e.urb = num_retired + 1)
    BY <1>2, RetiredCount
  <2>2. num_retired \in Nat
    BY NumUrbsType DEF IInv, Types, PrivType
  <2>3. QED
    <3>1. num_urbs' = num_urbs /\ num_urbs \in Nat
      BY <1>2, NumUrbsType DEF Retires, num_urbs, fixedVars
    <3>2. /\ num_retired' = num_retired + 1 /\ pc["events"] = "idle"
          /\ UNCHANGED <<asked, timed_out, busy>>
      BY <1>2 DEF Retires, ownerVars
    <3>3. QED
      BY <2>1, <2>2, <3>1, <3>2
<1>4. Kernel = {} => Kernel' = {}
  <2>1. \A i \in Urbs : urb'[i] \in {"retired", urb[i]}
    BY <1>2, RetiredUrb
  <2>2. QED
    BY <2>1, KernelShrinks
<1>5. \/ /\ ~allocated' /\ pc'["events"] = "report"
         /\ \A t \in Threads \ {"events"} : pc'[t] = pc[t]
         /\ first' = first
      \/ /\ UNCHANGED <<allocated, pc, first>> /\ num_retired' # num_urbs
      \/ /\ UNCHANGED allocated /\ num_retired' # num_urbs /\ lock = "free"
         /\ \A t \in Threads \ {"events"} : pc'[t] = pc[t]
  <2>1. pc \in [Threads ->
          {"idle", "urbs", "discard", "expired", "report", "callback"}]
    BY DEF IInv, Types, RunType
  <2>2. ASSUME NEW s, Complete(s)
        PROVE  /\ ~allocated' /\ pc'["events"] = "report"
               /\ \A t \in Threads \ {"events"} : pc'[t] = pc[t]
               /\ first' = first
    BY <2>1, <2>2 DEF Complete, Goto, Threads
  <2>3. CASE kind = "bulk" /\ BulkAbnormal(e)
    BY <1>3, <2>2, <2>3 DEF BulkAbnormal, Last, GoOn
  <2>4. CASE kind = "bulk" /\ BulkNormal(e)
    <3>1. CancelRemaining(e) => /\ UNCHANGED allocated
                                /\ \A t \in Threads \ {"events"} : pc'[t] = pc[t]
      BY <2>1 DEF CancelRemaining, Goto
    <3>2. lock = "free"
      BY DEF Reap
    <3>3. QED
      BY <1>3, <2>2, <2>4, <3>1, <3>2 DEF BulkNormal, Last, GoOn, EndsEarly
  <2>5. CASE kind = "iso" /\ (IsoAbnormal(e) \/ IsoNormal(e))
    BY <1>3, <2>2, <2>5 DEF IsoAbnormal, IsoNormal, Last, GoOn
  <2>6. CASE kind = "control" /\ ControlReap(e)
    BY <2>2, <2>6 DEF ControlReap
  <2>7. QED
    BY <2>3, <2>4, <2>5, <2>6 DEF Reap
<1>6. \A t \in Threads : pc[t] = "discard" => lock = t
  BY DEF IInv, Types, RunType
<1>7. pc["cancel"] # "discard" /\ pc["timer"] # "discard"
  BY <1>6 DEF Reap, Threads
<1> HIDE DEF e
<1>8. (allocated' => num_retired' < num_urbs')
      /\ (busy' => allocated' \/ pc'["events"] \in {"report", "callback"})
  <2>1. num_retired' # num_urbs => num_retired' < num_urbs'
    BY <1>3
  <2>2. QED
    BY <1>3, <1>5, <2>1 DEF Threads
<1>9. /\ pc'["user"] = "idle" /\ pc'["cancel"] = pc["cancel"]
      /\ pc'["timer"] = pc["timer"]
  BY <1>3, <1>5 DEF Threads
<1>10. QED
  BY <1>3, <1>4, <1>7, <1>8, <1>9 DEF Returning

\* The end of a transfer: it is not called back before it is reported.
LEMMA ReportKeepsReturning ==
  ASSUME IInv, Returning, Report \/ Callback \/ Disconnect PROVE Returning'
<1>1. /\ num_urbs' = num_urbs /\ Kernel' = Kernel
      /\ UNCHANGED <<num_retired, first, timed_out>>
  BY DEF num_urbs, Kernel, WithKernel, Report, Callback, Disconnect, Complete,
         fixedVars, kernelVars, privVars, runVars
<1>2. pc \in [Threads ->
        {"idle", "urbs", "discard", "expired", "report", "callback"}]
  BY DEF IInv, Types, RunType
<1>3. CASE Report
  BY <1>1, <1>2, <1>3
  DEF Report, Goto, Returning, Threads, privVars, ownerVars
<1>4. CASE Callback
  BY <1>1, <1>2, <1>4 DEF Callback, Goto, Returning, Threads, privVars
<1>5. CASE Disconnect
  <2>1. allocated => flying
    BY DEF IInv, OwnerInv, Owner
  <2>2. QED
    BY <1>1, <1>2, <1>5, <2>1
    DEF Disconnect, Complete, Goto, Returning, Threads, ownerVars, runVars
<1>6. QED
  BY <1>3, <1>4, <1>5

LEMMA StepKeepsReturning ==
  ASSUME IInv, Returning, [Next]_vars PROVE Returning'
<1>1. CASE UNCHANGED vars
  BY <1>1 DEF Returning, vars, num_urbs, Kernel, WithKernel, fixedVars,
              kernelVars, privVars, ownerVars, runVars
<1>2. QED
  BY <1>1, KernelKeepsReturning, SubmitKeepsReturning, DiscardKeepsReturning,
     CancelKeepsReturning, ReapKeepsReturning, ReportKeepsReturning
  DEF Next, Events

\* A transfer is never left without anything that would bring it back, however
\* the URBs come back, the owner cancels, the timer expires and the device is
\* unplugged: in particular no URB of it is with the kernel when it has been
\* cancelled or has expired.
THEOREM ReturnsAreUnderWay ==
  ASSUME StallsAreCut PROVE Spec => []ReturnUnderWay
<1>1. Init => Returning
  BY InitReturning
<1>2. IInv /\ Returning /\ [Next]_vars => Returning'
  BY StepKeepsReturning
<1>3. IInv /\ Returning => ReturnUnderWay
  <2> SUFFICES ASSUME IInv, Returning, busy,
                      pc["events"] \notin {"report", "callback"},
                      \A t \in Threads : pc[t] \notin {"discard", "expired"}
               PROVE  \/ polled /\ ready # <<>>
                      \/ /\ polled /\ plugged /\ ~asked /\ ~timed_out
                         /\ \E i \in Urbs : WithKernel(i)
    BY DEF ReturnUnderWay
  <2>1. allocated /\ polled /\ num_retired < num_urbs /\ pc["user"] = "idle"
    BY DEF Returning, IInv, OwnerInv, Owner
  <2>2. pc["cancel"] = "idle" /\ pc["timer"] = "idle"
    BY DEF IInv, Types, RunType, Threads
  <2>3. Outstanding # {}
    <3>1. num_retired + Cardinality(Outstanding) = num_urbs
          /\ num_retired \in Nat /\ num_urbs \in Nat
      BY <2>1, NumUrbsType DEF IInv, UrbInv, Counted, Types, PrivType
    <3>2. Cardinality({}) = 0
      BY FS_EmptySet
    <3>3. QED
      BY <2>1, <3>1, <3>2
  <2>4. PICK i \in Urbs : urb[i] \in {"kernel", "ready"}
    BY <2>3 DEF Outstanding
  <2>5. CASE urb[i] = "ready"
    <3>1. PICK k \in DOMAIN ready : ready[k].urb = i
      BY <2>5 DEF IInv, UrbInv, ReadyUrbs
    <3>2. ready # <<>>
      BY <3>1
    <3>3. QED
      BY <2>1, <3>2
  <2>6. CASE urb[i] = "kernel"
    <3>1. WithKernel(i) /\ Kernel # {}
      BY <2>6 DEF WithKernel, Kernel
    <3>2. plugged
      BY <3>1 DEF IInv, UrbInv, KernelUrbs
    <3>3. QED
      BY <2>1, <2>2, <3>1, <3>2 DEF Returning
  <2>7. QED
    BY <2>4, <2>5, <2>6
<1>4. QED
  BY <1>1, <1>2, <1>3, TransferInvariant, PTL DEF Spec
=============================================================================
