--------------------------- MODULE FramePoolProofs ---------------------------
(***************************************************************************)
(* What each operation of FramePool does to the ownership of the frames:   *)
(* every one of them keeps FrameInv.  A specification that uses FramePool  *)
(* cites one lemma per action.                                             *)
(***************************************************************************)
EXTENDS FramePool, FiniteSetTheorems, TLAPS

\* The inductive invariant: types and ownership together.
FrameInv == FrameTypeOK /\ FrameOwnership

USE FramePoolAssumption

\* The same facts element by element, the form the proofs use.
Unshared ==
  /\ \A s, t \in Slots : hold[s] = hold[t] /\ hold[s] # NULL => s = t
  /\ \A i, j \in 1 .. Len(previewFrames) :
       previewFrames[i] = previewFrames[j] => i = j
  /\ \A s \in Slots, i \in 1 .. Len(previewFrames) : hold[s] # previewFrames[i]
  /\ \A s \in Slots : hold[s] \notin heap /\ hold[s] \notin mFramePool
  /\ \A i \in 1 .. Len(previewFrames) :
       previewFrames[i] \notin heap /\ previewFrames[i] \notin mFramePool
  /\ \A f \in heap : f \notin mFramePool

\* Ownership is what Unshared says of each slot, entry and free frame.
LEMMA UnsharedIsOwnership ==
  ASSUME FrameTypeOK
  PROVE  FrameOwnership <=> Unshared
<1> USE DEF FrameTypeOK
<1>1. DOMAIN previewFrames = 1 .. Len(previewFrames)
  OBVIOUS
<1>2. \A i \in 1 .. Len(previewFrames) : previewFrames[i] \in Frames
  OBVIOUS
<1>3. NULL \notin heap \cup mFramePool \cup Queued
  BY <1>1, <1>2 DEF Queued
<1>4. Held \cap Queued = {} <=>
        \A s \in Slots, i \in 1 .. Len(previewFrames) : hold[s] # previewFrames[i]
  BY <1>1, <1>2 DEF Held, Queued
<1>5. (heap \cup mFramePool) \cap (Held \cup Queued) = {} <=>
        /\ \A s \in Slots : hold[s] \notin heap /\ hold[s] \notin mFramePool
        /\ \A i \in 1 .. Len(previewFrames) :
             previewFrames[i] \notin heap /\ previewFrames[i] \notin mFramePool
  BY <1>1, <1>2, <1>3 DEF Held, Queued
<1>6. heap \cap mFramePool = {} <=> \A f \in heap : f \notin mFramePool
  OBVIOUS
<1> QED
  BY <1>1, <1>4, <1>5, <1>6
     DEF FrameOwnership, HoldersDisjoint, FreeNotHeld, Unshared

\* The same of the next state.
LEMMA UnsharedNext ==
  ASSUME FrameTypeOK'
  PROVE  FrameOwnership' <=> Unshared'
BY UnsharedIsOwnership, PTL

\* Initially no frame is allocated.
LEMMA InitKeeps == InitFrames => FrameInv
<1> SUFFICES ASSUME InitFrames PROVE FrameInv
  OBVIOUS
<1>1. FrameTypeOK
  BY DEF InitFrames, FrameTypeOK
<1>2. Unshared
  BY DEF InitFrames, Unshared
<1> QED
  BY <1>1, <1>2, UnsharedIsOwnership DEF FrameInv

\* A step that leaves the frames alone.
LEMMA UnchangedKeeps ==
  ASSUME FrameInv, UNCHANGED frameVars
  PROVE  FrameInv'
BY DEF FrameInv, FrameTypeOK, FrameOwnership, HoldersDisjoint, FreeNotHeld,
       Held, Queued, frameVars

\* get_frame into a slot: the frame was free, so nobody else holds it.
LEMMA GetKeeps ==
  ASSUME FrameInv, NEW s \in Slots, GetInto(s), UNCHANGED previewFrames
  PROVE  FrameInv'
<1>1. PICK f \in Frames : GetFrame(f) /\ hold' = [hold EXCEPT ![s] = f]
  BY DEF GetInto
<1>2. FrameTypeOK'
  BY <1>1 DEF FrameInv, FrameTypeOK, GetFrame
<1>3. Unshared
  BY UnsharedIsOwnership DEF FrameInv
<1>4. Unshared'
  BY <1>1, <1>3 DEF Unshared, GetFrame, FrameInv, FrameTypeOK
<1> QED
  BY <1>2, <1>4, UnsharedNext DEF FrameInv

\* recycle_frame moves frames to the pool and to the heap and nowhere else.
LEMMA RecycleSplits ==
  ASSUME NEW S, Recycle(S)
  PROVE  \E kept \in SUBSET S :
           /\ mFramePool' = mFramePool \cup kept
           /\ heap' = heap \cup (S \ kept)
BY DEF Recycle

\* A slot gives its frame back and forgets it.
LEMMA RecycleKeeps ==
  ASSUME FrameInv, NEW s \in Slots, RecycleSlot(s), UNCHANGED previewFrames
  PROVE  FrameInv'
<1>1. hold' = [hold EXCEPT ![s] = NULL]
  BY DEF RecycleSlot
<1>2. PICK kept \in SUBSET FrameOf(s) :
        /\ mFramePool' = mFramePool \cup kept
        /\ heap' = heap \cup (FrameOf(s) \ kept)
  BY RecycleSplits DEF RecycleSlot
<1>3. Unshared
  BY UnsharedIsOwnership DEF FrameInv
<1>4. FrameTypeOK'
  BY <1>1, <1>2 DEF FrameInv, FrameTypeOK, FrameOf
<1>5. Unshared'
  BY <1>1, <1>2, <1>3 DEF Unshared, FrameOf, FrameInv, FrameTypeOK
<1> QED
  BY <1>4, <1>5, UnsharedNext DEF FrameInv

\* A frame goes from one slot to another.
LEMMA MoveKeeps ==
  ASSUME FrameInv, NEW s \in Slots, NEW t \in Slots, s # t, MoveFrame(s, t),
         UNCHANGED previewFrames
  PROVE  FrameInv'
<1>1. Unshared
  BY UnsharedIsOwnership DEF FrameInv
<1>2. FrameTypeOK'
  BY DEF FrameInv, FrameTypeOK, MoveFrame
<1>3. Unshared'
  BY <1>1 DEF Unshared, MoveFrame, FrameInv, FrameTypeOK
<1> QED
  BY <1>2, <1>3, UnsharedNext DEF FrameInv

\* A slot forgets its frame: the frame is lost, and shared by nobody.
LEMMA DropKeeps ==
  ASSUME FrameInv, NEW s \in Slots, hold' = [hold EXCEPT ![s] = NULL],
         UNCHANGED <<heap, mFramePool, previewFrames>>
  PROVE  FrameInv'
<1>1. Unshared
  BY UnsharedIsOwnership DEF FrameInv
<1>2. FrameTypeOK'
  BY DEF FrameInv, FrameTypeOK
<1>3. Unshared'
  BY <1>1 DEF Unshared, FrameInv, FrameTypeOK
<1> QED
  BY <1>2, <1>3, UnsharedNext DEF FrameInv

\* addCaptureFrame: slot t gives its frame back and takes over that of s.
LEMMA ExchangeKeeps ==
  ASSUME FrameInv, NEW s \in Slots, NEW t \in Slots, s # t,
         Recycle(FrameOf(t)),
         hold' = [hold EXCEPT ![t] = hold[s], ![s] = NULL],
         UNCHANGED previewFrames
  PROVE  FrameInv'
<1>1. PICK kept \in SUBSET FrameOf(t) :
        /\ mFramePool' = mFramePool \cup kept
        /\ heap' = heap \cup (FrameOf(t) \ kept)
  BY RecycleSplits
<1>2. Unshared
  BY UnsharedIsOwnership DEF FrameInv
<1>3. FrameTypeOK'
  BY <1>1 DEF FrameInv, FrameTypeOK, FrameOf
<1>4. Unshared'
  BY <1>1, <1>2 DEF Unshared, FrameOf, FrameInv, FrameTypeOK
<1> QED
  BY <1>3, <1>4, UnsharedNext DEF FrameInv

\* The oldest frame of the queue goes to a slot.
LEMMA TakeKeeps ==
  ASSUME FrameInv, NEW s \in Slots, TakeInto(s)
  PROVE  FrameInv'
<1>1. /\ previewFrames \in Seq(Frames)
      /\ previewFrames # <<>>
      /\ previewFrames' = Tail(previewFrames)
  BY DEF TakeInto, FrameInv, FrameTypeOK
<1>2. /\ Len(previewFrames') = Len(previewFrames) - 1
      /\ Len(previewFrames) \in Nat \ {0}
      /\ \A i \in 1 .. Len(previewFrames') :
           previewFrames'[i] = previewFrames[i + 1]
  BY <1>1
<1>3. hold' = [hold EXCEPT ![s] = previewFrames[1]]
  BY <1>1 DEF TakeInto
<1>4. Unshared
  BY UnsharedIsOwnership DEF FrameInv
<1>5. FrameTypeOK'
  BY <1>1, <1>2, <1>3 DEF FrameInv, FrameTypeOK, TakeInto
<1>6. Unshared'
  BY <1>2, <1>3, <1>4 DEF Unshared, TakeInto, FrameInv, FrameTypeOK
<1> QED
  BY <1>5, <1>6, UnsharedNext DEF FrameInv

\* The frame of a slot goes to the end of the queue.
LEMMA PutKeeps ==
  ASSUME FrameInv, NEW s \in Slots, hold[s] # NULL, PutFrom(s)
  PROVE  FrameInv'
<1>1. /\ previewFrames \in Seq(Frames)
      /\ hold[s] \in Frames
      /\ previewFrames' = Append(previewFrames, hold[s])
  BY DEF PutFrom, FrameInv, FrameTypeOK
<1>2. /\ Len(previewFrames) \in Nat
      /\ Len(previewFrames') = Len(previewFrames) + 1
      /\ \A i \in 1 .. Len(previewFrames) : previewFrames'[i] = previewFrames[i]
      /\ previewFrames'[Len(previewFrames) + 1] = hold[s]
  BY <1>1
<1>3. Unshared
  BY UnsharedIsOwnership DEF FrameInv
<1>4. FrameTypeOK'
  BY <1>1 DEF FrameInv, FrameTypeOK, PutFrom
<1>5. Unshared'
  BY <1>1, <1>2, <1>3 DEF Unshared, PutFrom, FrameInv, FrameTypeOK
<1> QED
  BY <1>4, <1>5, UnsharedNext DEF FrameInv

\* clearPreviewFrame.
LEMMA ClearKeeps ==
  ASSUME FrameInv, ClearQueue
  PROVE  FrameInv'
<1>1. PICK kept \in SUBSET Queued :
        /\ mFramePool' = mFramePool \cup kept
        /\ heap' = heap \cup (Queued \ kept)
  BY RecycleSplits DEF ClearQueue
<1>2. \A f \in Queued : \E i \in 1 .. Len(previewFrames) : f = previewFrames[i]
  BY DEF Queued, FrameInv, FrameTypeOK
<1>3. Queued \subseteq Frames
  BY DEF Queued, FrameInv, FrameTypeOK
<1>4. previewFrames' = <<>> /\ hold' = hold
  BY DEF ClearQueue
<1>5. Unshared
  BY UnsharedIsOwnership DEF FrameInv
<1>6. FrameTypeOK'
  BY <1>1, <1>3, <1>4 DEF FrameInv, FrameTypeOK
<1>7. Unshared'
  BY <1>1, <1>2, <1>4, <1>5 DEF Unshared, FrameInv, FrameTypeOK
<1> QED
  BY <1>6, <1>7, UnsharedNext DEF FrameInv

\* What a step may do to the pool and to the queue.
PoolStep ==
  mFramePool' \subseteq mFramePool \/ \E S \in SUBSET Frames : Recycle(S)

QueueStep ==
  \/ UNCHANGED previewFrames
  \/ previewFrames' = <<>>
  \/ previewFrames # <<>> /\ previewFrames' = Tail(previewFrames)
  \/ \E f \in Frames : /\ Len(previewFrames) < MAX_FRAME
                       /\ previewFrames' = Append(previewFrames, f)

\* Neither the pool nor the queue ever outgrows its limit.
LEMMA BoundsKept ==
  ASSUME FrameTypeOK, FrameBounds, PoolStep, QueueStep
  PROVE  FrameBounds'
<1> USE DEF FrameTypeOK, FrameBounds, FRAME_POOL_SZ
<1>1. Len(previewFrames') <= MAX_FRAME
  BY DEF QueueStep
<1>2. IsFiniteSet(mFramePool) /\ Cardinality(mFramePool) \in Nat
  BY FS_Subset, FS_CardinalityType
<1>3. CASE mFramePool' \subseteq mFramePool
  <2>1. Cardinality(mFramePool') <= Cardinality(mFramePool)
          /\ Cardinality(mFramePool') \in Nat
    BY <1>2, <1>3, FS_Subset, FS_CardinalityType
  <2> QED
    BY <1>1, <1>2, <2>1
<1>4. ASSUME NEW S \in SUBSET Frames, Recycle(S)
      PROVE  Cardinality(mFramePool') <= FRAME_POOL_SZ
  <2>1. PICK kept \in SUBSET S :
          /\ Cardinality(mFramePool) + Cardinality(kept) <= FRAME_POOL_SZ
          /\ mFramePool' = mFramePool \cup kept
    BY <1>4, <1>2, FS_Subset, FS_CardinalityType DEF Recycle
  <2>2. IsFiniteSet(kept) /\ Cardinality(kept) \in Nat
    BY FS_Subset, FS_CardinalityType
  <2>3. /\ IsFiniteSet(mFramePool \cap kept)
        /\ Cardinality(mFramePool \cap kept) \in Nat
    BY <2>2, FS_Subset, FS_CardinalityType
  <2>4. Cardinality(mFramePool') =
          Cardinality(mFramePool) + Cardinality(kept)
            - Cardinality(mFramePool \cap kept)
    BY <1>2, <2>1, <2>2, FS_Union
  <2> QED
    BY <1>2, <2>1, <2>2, <2>3, <2>4
<1> QED
  BY <1>1, <1>3, <1>4 DEF PoolStep

(***************************************************************************)
(* What each operation does to the frames that are not lost.               *)
(***************************************************************************)

\* f is free, queued, or held by a slot: the contrary of Leaked.
InUse(f) ==
  \/ f \in heap \/ f \in mFramePool
  \/ \E i \in 1 .. Len(previewFrames) : previewFrames[i] = f
  \/ \E s \in Slots : hold[s] = f

LEMMA LeakedIsUnused ==
  ASSUME FrameTypeOK
  PROVE  Leaked = {f \in Frames : ~InUse(f)}
<1>1. DOMAIN previewFrames = 1 .. Len(previewFrames)
  BY DEF FrameTypeOK
<1> QED
  BY <1>1 DEF Leaked, InUse, Queued, Held

LEMMA LeakedNext ==
  ASSUME FrameTypeOK'
  PROVE  (Leaked = {f \in Frames : ~InUse(f)})'
BY LeakedIsUnused, PTL

\* A step loses no frame when it leaves in use what was in use.
LEMMA LosesNone ==
  ASSUME FrameTypeOK, FrameTypeOK',
         \A f \in Frames : InUse(f) => InUse(f)'
  PROVE  Leaked' \subseteq Leaked
BY LeakedIsUnused, LeakedNext

LEMMA UnchangedLoses ==
  ASSUME UNCHANGED frameVars
  PROVE  Leaked' \subseteq Leaked
BY DEF Leaked, Queued, Held, frameVars

LEMMA GetLoses ==
  ASSUME FrameInv, NEW s \in Slots, hold[s] = NULL, GetInto(s),
         UNCHANGED previewFrames
  PROVE  Leaked' \subseteq Leaked
<1>1. PICK g \in Frames : GetFrame(g) /\ hold' = [hold EXCEPT ![s] = g]
  BY DEF GetInto
<1>2. \A f \in Frames : InUse(f) => InUse(f)'
  BY <1>1 DEF InUse, GetFrame, FrameInv, FrameTypeOK
<1> QED
  BY <1>2, GetKeeps, LosesNone DEF FrameInv

LEMMA RecycleLoses ==
  ASSUME FrameInv, NEW s \in Slots, RecycleSlot(s), UNCHANGED previewFrames
  PROVE  Leaked' \subseteq Leaked
<1>1. PICK kept \in SUBSET FrameOf(s) :
        /\ mFramePool' = mFramePool \cup kept
        /\ heap' = heap \cup (FrameOf(s) \ kept)
  BY RecycleSplits DEF RecycleSlot
<1>2. hold' = [hold EXCEPT ![s] = NULL]
  BY DEF RecycleSlot
<1>3. \A f \in Frames : InUse(f) => InUse(f)'
  BY <1>1, <1>2 DEF InUse, FrameOf, FrameInv, FrameTypeOK
<1> QED
  BY <1>3, RecycleKeeps, LosesNone DEF FrameInv

LEMMA MoveLoses ==
  ASSUME FrameInv, NEW s \in Slots, NEW t \in Slots, s # t, hold[t] = NULL,
         MoveFrame(s, t), UNCHANGED previewFrames
  PROVE  Leaked' \subseteq Leaked
<1>1. \A f \in Frames : InUse(f) => InUse(f)'
  BY DEF InUse, MoveFrame, FrameInv, FrameTypeOK
<1> QED
  BY <1>1, MoveKeeps, LosesNone DEF FrameInv

LEMMA ExchangeLoses ==
  ASSUME FrameInv, NEW s \in Slots, NEW t \in Slots, s # t,
         Recycle(FrameOf(t)),
         hold' = [hold EXCEPT ![t] = hold[s], ![s] = NULL],
         UNCHANGED previewFrames
  PROVE  Leaked' \subseteq Leaked
<1>1. PICK kept \in SUBSET FrameOf(t) :
        /\ mFramePool' = mFramePool \cup kept
        /\ heap' = heap \cup (FrameOf(t) \ kept)
  BY RecycleSplits
<1>2. \A f \in Frames : InUse(f) => InUse(f)'
  BY <1>1 DEF InUse, FrameOf, FrameInv, FrameTypeOK
<1> QED
  BY <1>2, ExchangeKeeps, LosesNone DEF FrameInv

LEMMA TakeLoses ==
  ASSUME FrameInv, NEW s \in Slots, hold[s] = NULL, TakeInto(s)
  PROVE  Leaked' \subseteq Leaked
<1>1. /\ previewFrames \in Seq(Frames)
      /\ previewFrames # <<>>
      /\ previewFrames' = Tail(previewFrames)
  BY DEF TakeInto, FrameInv, FrameTypeOK
<1>2. /\ Len(previewFrames') = Len(previewFrames) - 1
      /\ Len(previewFrames) \in Nat \ {0}
      /\ \A i \in 1 .. Len(previewFrames') :
           previewFrames'[i] = previewFrames[i + 1]
  BY <1>1
<1>3. hold' = [hold EXCEPT ![s] = previewFrames[1]]
  BY <1>1 DEF TakeInto
<1>4. ASSUME NEW i \in 1 .. Len(previewFrames)
      PROVE  \/ i = 1
             \/ i - 1 \in 1 .. Len(previewFrames')
                /\ previewFrames'[i - 1] = previewFrames[i]
  BY <1>2
<1>5. \A f \in Frames : InUse(f) => InUse(f)'
  BY <1>3, <1>4 DEF InUse, TakeInto, FrameInv, FrameTypeOK
<1> QED
  BY <1>5, TakeKeeps, LosesNone DEF FrameInv

LEMMA PutLoses ==
  ASSUME FrameInv, NEW s \in Slots, hold[s] # NULL, PutFrom(s)
  PROVE  Leaked' \subseteq Leaked
<1>1. /\ previewFrames \in Seq(Frames)
      /\ hold[s] \in Frames
      /\ previewFrames' = Append(previewFrames, hold[s])
  BY DEF PutFrom, FrameInv, FrameTypeOK
<1>2. /\ Len(previewFrames) \in Nat
      /\ Len(previewFrames') = Len(previewFrames) + 1
      /\ \A i \in 1 .. Len(previewFrames) : previewFrames'[i] = previewFrames[i]
      /\ previewFrames'[Len(previewFrames) + 1] = hold[s]
  BY <1>1
<1>3. \A f \in Frames : InUse(f) => InUse(f)'
  BY <1>2 DEF InUse, PutFrom, FrameInv, FrameTypeOK
<1> QED
  BY <1>3, PutKeeps, LosesNone DEF FrameInv

LEMMA ClearLoses ==
  ASSUME FrameInv, ClearQueue
  PROVE  Leaked' \subseteq Leaked
<1>1. PICK kept \in SUBSET Queued :
        /\ mFramePool' = mFramePool \cup kept
        /\ heap' = heap \cup (Queued \ kept)
  BY RecycleSplits DEF ClearQueue
<1>2. \A i \in 1 .. Len(previewFrames) : previewFrames[i] \in Queued
  BY DEF Queued, FrameInv, FrameTypeOK
<1>3. \A f \in Frames : InUse(f) => InUse(f)'
  BY <1>1, <1>2 DEF InUse, ClearQueue
<1> QED
  BY <1>3, ClearKeeps, LosesNone DEF FrameInv

\* The one operation that loses a frame.
LEMMA DropLoses ==
  ASSUME FrameInv, NEW s \in Slots, hold' = [hold EXCEPT ![s] = NULL],
         UNCHANGED <<heap, mFramePool, previewFrames>>
  PROVE  Leaked' \subseteq Leaked \cup {hold[s]}
<1>1. \A f \in Frames \ {hold[s]} : InUse(f) => InUse(f)'
  BY DEF InUse, FrameInv, FrameTypeOK
<1> QED
  BY <1>1, DropKeeps, LeakedIsUnused, LeakedNext DEF FrameInv

\* A step that may lose f alone adds at most one to the lost frames.
LEMMA LeakedGrows ==
  ASSUME NEW f, Leaked' \subseteq Leaked \cup {f}
  PROVE  /\ Cardinality(Leaked) \in Nat /\ Cardinality(Leaked') \in Nat
         /\ Cardinality(Leaked') <= Cardinality(Leaked) + 1
         /\ Leaked' \subseteq Leaked =>
              Cardinality(Leaked') <= Cardinality(Leaked)
<1>1. IsFiniteSet(Leaked) /\ Cardinality(Leaked) \in Nat
  BY FS_Subset, FS_CardinalityType DEF Leaked
<1>2. /\ IsFiniteSet(Leaked \cup {f})
      /\ Cardinality(Leaked \cup {f}) \in Nat
      /\ Cardinality(Leaked \cup {f}) <= Cardinality(Leaked) + 1
  <2>1. CASE f \in Leaked
    <3>1. Leaked \cup {f} = Leaked
      BY <2>1
    <3> QED
      BY <1>1, <3>1
  <2>2. CASE f \notin Leaked
    <3>1. /\ IsFiniteSet(Leaked \cup {f})
          /\ Cardinality(Leaked \cup {f}) = Cardinality(Leaked) + 1
      BY <1>1, <2>2, FS_AddElement
    <3> QED
      BY <1>1, <3>1
  <2> QED
    BY <2>1, <2>2
<1>3. /\ Cardinality(Leaked') \in Nat
      /\ Cardinality(Leaked') <= Cardinality(Leaked \cup {f})
  BY <1>2, FS_Subset, FS_CardinalityType
<1>4. Leaked' \subseteq Leaked => Cardinality(Leaked') <= Cardinality(Leaked)
  BY <1>1, FS_Subset
<1> QED
  BY <1>1, <1>2, <1>3, <1>4
=============================================================================
