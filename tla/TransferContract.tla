--------------------------- MODULE TransferContract ---------------------------
(***************************************************************************)
(* What libusb promises the owner of a transfer (jni/libuvc/src/stream.c   *)
(* and libusb/sync.c rely on it): a transfer that is accepted is called    *)
(* back once, with a status that says why it ended.                        *)
(***************************************************************************)
CONSTANTS Statuses, Unasked    \* statuses for a transfer nobody cancelled

VARIABLES busy,     \* accepted and not yet called back
          asked,    \* it was cancelled since
          status    \* of the last callback

Init == busy = FALSE /\ asked = FALSE /\ status = "none"

Submit == ~busy /\ busy' = TRUE /\ asked' = FALSE /\ UNCHANGED status

Cancel == busy /\ asked' = TRUE /\ UNCHANGED <<busy, status>>

Call ==
    /\ busy /\ busy' = FALSE
    /\ status' \in IF asked THEN Statuses ELSE Unasked
    /\ asked' = FALSE

Next == Submit \/ Cancel \/ Call

Spec == Init /\ [][Next]_<<busy, asked, status>>
=============================================================================
