------------------------- MODULE TrustedEdgeOracle --------------------------
(***************************************************************************)
(* The contract trusted-edge-oracle/src/TrustedEdgeOracle.sol: a list of   *)
(* attestations that only grows, the event emitted for each of them, and   *)
(* the relayers that may add to it.  A transaction is atomic; a failed     *)
(* require reverts it, so a call that is not allowed is no step.           *)
(***************************************************************************)
EXTENDS Naturals, Sequences

CONSTANTS
  Accounts,       (* addresses                                             *)
  Deployer,       (* the account that ran the constructor: owner           *)
  Statements      (* the arguments of submitInference                      *)

VARIABLES
  attestations,
  events,             (* the InferenceAttested events, in order            *)
  authorizedRelayers

contractVars == <<attestations, events, authorizedRelayers>>

Init ==
  /\ attestations = <<>>
  /\ events = <<>>
  /\ authorizedRelayers = {Deployer}

authorizeRelayer(sender, relayer) ==
  /\ sender = Deployer
  /\ authorizedRelayers' = authorizedRelayers \cup {relayer}
  /\ UNCHANGED <<attestations, events>>

submitInference(sender, s) ==
  /\ sender \in authorizedRelayers
  /\ attestations' = Append(attestations, [statement |-> s, relayer |-> sender])
  /\ events' = Append(events, [id |-> Len(attestations') - 1, statement |-> s,
                               relayer |-> sender])
  /\ UNCHANGED authorizedRelayers
=============================================================================
