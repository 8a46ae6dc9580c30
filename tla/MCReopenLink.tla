---------------------------- MODULE MCReopenLink ----------------------------
(* Instance of ReopenLink for TLC. *)
EXTENDS ReopenLink, TLC

CapsuleSymmetry == Permutations(Capsules)
=============================================================================
