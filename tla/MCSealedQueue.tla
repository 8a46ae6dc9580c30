--------------------------- MODULE MCSealedQueue ----------------------------
(* Instance of SealedQueue for TLC: one capsule in two tabs.  updateItem    *)
(* and tick map over the capsules one by one.                               *)
EXTENDS SealedQueue
=============================================================================
