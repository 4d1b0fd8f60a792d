----------------------------- MODULE FrameMailbox -----------------------------
(***************************************************************************)
(* What a stream promises about frames, numbered by the camera from 1: a   *)
(* box holds the latest one; a newer one replaces it whether it was taken  *)
(* or not; what is taken is the content of the box, never anything older   *)
(* than what was taken before.  Both are emptied for a new stream.         *)
(***************************************************************************)
EXTENDS Naturals

CONSTANT Last

VARIABLES box, taken

Init == box = 0 /\ taken = 0

Publish ==
  /\ box' \in box + 1 .. Last
  /\ UNCHANGED taken

Take ==
  /\ taken < box
  /\ taken' = box
  /\ UNCHANGED box

Reset == box' = 0 /\ taken' = 0

Next == Publish \/ Take \/ Reset

Spec == Init /\ [][Next]_<<box, taken>>
=============================================================================
