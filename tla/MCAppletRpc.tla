---------------------------- MODULE MCAppletRpc -----------------------------
(* Instances of AppletRpc for TLC: connections are interchangeable.         *)
EXTENDS AppletRpc, TLC

ConnSymmetry == Permutations(Conns)
=============================================================================
