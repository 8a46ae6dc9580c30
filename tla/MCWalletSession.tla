-------------------------- MODULE MCWalletSession ---------------------------
(* Instance of WalletSession for TLC. *)
EXTENDS WalletSession, FiniteSets, TLC

Symmetry == Permutations(Accounts) \cup Permutations(Names)

(* The recipient, the connection and the seal have little in common: the    *)
(* recipient is explored while no account is known, a second call of        *)
(* connect before ENS has answered anything, a capsule while nothing        *)
(* connects; at most two lookups are in flight.                             *)
OneAtATime ==
  LET inFlight == {c \in Calls : calls[c] # free}
  IN  /\ \/ recipient = None /\ field = None
         \/ account = None /\ inFlight = {}
      /\ Cardinality(inFlight) > 1 => lookups = {} /\ cache = NothingCached
      /\ capsules # {} \/ sealing # None => inFlight = {}
      /\ Cardinality(lookups) <= 2
      /\ Cardinality(capsules) <= 1
=============================================================================
