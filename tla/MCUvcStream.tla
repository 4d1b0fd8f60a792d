----------------------------- MODULE MCUvcStream -----------------------------
(* UvcStream for TLC.  Transfers are interchangeable. *)
EXTENDS UvcStream, TLC

TransferSymmetry == Permutations(Transfers)
=============================================================================
