------------------------------ MODULE FramePool ------------------------------
(***************************************************************************)
(* The frame buffers of UVCPreview (jni/UVCCamera/UVCPreview.cpp): a pool  *)
(* of recycled uvc_frame_t, the bounded queue between the streaming        *)
(* callback and the preview thread, and the places that hold one frame     *)
(* each: the local variables of the threads and the single entry queue of  *)
(* the capture thread.  A frame is an identity: its contents are           *)
(* abstracted, and so is the order of the pool, from which get_frame pops  *)
(* the last element: here any element.                                     *)
(*                                                                         *)
(* pool_mutex is held for one field access at a time, so every operation   *)
(* on the pool is one atomic update.                                       *)
(***************************************************************************)
EXTENDS Naturals, FiniteSets, Sequences

CONSTANTS
  Frames,      \* every frame the heap can provide: bounds the memory
  Slots,       \* the variables that hold at most one frame
  MAX_FRAME,   \* capacity of the preview queue
  NULL

ASSUME FramePoolAssumption ==
  /\ IsFiniteSet(Frames)
  /\ NULL \notin Frames
  /\ MAX_FRAME \in Nat \ {0}

VARIABLES
  heap,            \* frames that are not allocated
  mFramePool,      \* the pool of frames ready for use
  previewFrames,   \* the queue of frames to show, oldest first
  hold             \* for each slot, the frame it points to or NULL

frameVars == <<heap, mFramePool, previewFrames, hold>>

FRAME_POOL_SZ == MAX_FRAME + 2

Queued == {previewFrames[i] : i \in DOMAIN previewFrames}

Held == {hold[s] : s \in Slots} \ {NULL}

\* Allocated frames nothing points to any more.
Leaked == Frames \ (heap \cup mFramePool \cup Queued \cup Held)

InitFrames ==
  /\ heap = Frames
  /\ mFramePool = {}
  /\ previewFrames = <<>>
  /\ hold = [s \in Slots |-> NULL]

(***************************************************************************)
(* Operations.  Each one says what becomes of the pool and the heap; the   *)
(* action that uses it updates hold and previewFrames.                     *)
(***************************************************************************)

\* get_frame: f comes from the pool, or from the heap when the pool is empty.
GetFrame(f) ==
  \/ /\ f \in mFramePool
     /\ mFramePool' = mFramePool \ {f}
     /\ UNCHANGED heap
  \/ /\ mFramePool = {}
     /\ f \in heap
     /\ heap' = heap \ {f}
     /\ UNCHANGED mFramePool

\* get_frame returns NULL: the pool is empty and uvc_allocate_frame fails.
NoFrame ==
  /\ mFramePool = {}
  /\ heap = {}
  /\ UNCHANGED <<heap, mFramePool>>

\* recycle_frame for every frame of S: kept while the pool has room, freed
\* otherwise.
Recycle(S) ==
  \E kept \in SUBSET S :
    /\ \/ kept = S /\ Cardinality(mFramePool) + Cardinality(S) <= FRAME_POOL_SZ
       \/ /\ Cardinality(mFramePool) + Cardinality(S) > FRAME_POOL_SZ
          /\ Cardinality(mFramePool) + Cardinality(kept) = FRAME_POOL_SZ
    /\ mFramePool' = mFramePool \cup kept
    /\ heap' = heap \cup (S \ kept)

\* The frame of a slot as a set, empty when the slot is NULL.
FrameOf(s) == {hold[s]} \ {NULL}

\* Slot s gets a frame of the pool or the heap.
GetInto(s) ==
  \E f \in Frames :
    /\ GetFrame(f)
    /\ hold' = [hold EXCEPT ![s] = f]

\* The frame of slot s is recycled and the slot forgets it.
RecycleSlot(s) ==
  /\ Recycle(FrameOf(s))
  /\ hold' = [hold EXCEPT ![s] = NULL]

\* Slot t takes over the frame of slot s.
MoveFrame(s, t) ==
  /\ hold' = [hold EXCEPT ![s] = NULL, ![t] = hold[s]]
  /\ UNCHANGED <<heap, mFramePool>>

\* previewFrames.remove(0) into slot s.
TakeInto(s) ==
  /\ previewFrames # <<>>
  /\ hold' = [hold EXCEPT ![s] = Head(previewFrames)]
  /\ previewFrames' = Tail(previewFrames)
  /\ UNCHANGED <<heap, mFramePool>>

\* previewFrames.put of the frame of slot s.
PutFrom(s) ==
  /\ Len(previewFrames) < MAX_FRAME
  /\ previewFrames' = Append(previewFrames, hold[s])
  /\ hold' = [hold EXCEPT ![s] = NULL]
  /\ UNCHANGED <<heap, mFramePool>>

\* clearPreviewFrame: every queued frame is recycled.
ClearQueue ==
  /\ Recycle(Queued)
  /\ previewFrames' = <<>>
  /\ UNCHANGED hold

(***************************************************************************)
(* Properties.                                                             *)
(***************************************************************************)

FrameTypeOK ==
  /\ heap \in SUBSET Frames
  /\ mFramePool \in SUBSET Frames
  /\ previewFrames \in Seq(Frames)
  /\ hold \in [Slots -> Frames \cup {NULL}]

\* No slot and no queue entry points to a frame another one points to: a
\* frame that two threads write, or that is recycled twice, would need this.
HoldersDisjoint ==
  /\ \A s, t \in Slots : hold[s] = hold[t] /\ hold[s] # NULL => s = t
  /\ \A i, j \in DOMAIN previewFrames :
       previewFrames[i] = previewFrames[j] => i = j
  /\ Held \cap Queued = {}

\* A frame in the pool or returned to the heap is held by nobody.
FreeNotHeld ==
  /\ heap \cap mFramePool = {}
  /\ (heap \cup mFramePool) \cap (Held \cup Queued) = {}

FrameOwnership == HoldersDisjoint /\ FreeNotHeld

\* addPreviewFrame checks the size of the queue under preview_mutex and
\* recycle_frame the size of the pool under pool_mutex.
FrameBounds ==
  /\ Len(previewFrames) <= MAX_FRAME
  /\ Cardinality(mFramePool) <= FRAME_POOL_SZ
=============================================================================
