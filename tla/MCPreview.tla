------------------------------ MODULE MCPreview ------------------------------
(***************************************************************************)
(* Preview for TLC: the slots are those of the preview, and the frames are *)
(* interchangeable; so are the capture threads and the callbacks, which no *)
(* action tells apart.                                                     *)
(***************************************************************************)
EXTENDS Preview, TLC

Symmetry == Permutations(Frames)

AllSymmetry ==
    Permutations(Frames) \cup Permutations(CaptureThreads)
        \cup Permutations(Callbacks)
=============================================================================
