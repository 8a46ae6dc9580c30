------------------------------ MODULE CallPool ------------------------------
(***************************************************************************)
(* What the two applet channels of docker/trusted_os/rpc.go promise as a   *)
(* pair: every call that was queued is answered at most once, each answer  *)
(* is handed to exactly one caller that is still blocked, and nobody gets  *)
(* an answer to a call that was never made.  It does not promise WHICH     *)
(* blocked caller gets an answer; the channels carry no correlation.       *)
(***************************************************************************)
CONSTANT Conns      (* bridge connections; each one makes at most one call *)

VARIABLES
  fresh,            (* connections that have made no call yet              *)
  blocked,          (* callers inside CallApplet                           *)
  unanswered,       (* calls accepted whose answer is not delivered        *)
  answers           (* pairs <<caller, call>>: caller received the answer  *)
                    (* the applet gave to call                             *)

vars == <<fresh, blocked, unanswered, answers>>

Init ==
  /\ fresh = Conns
  /\ blocked = {}
  /\ unanswered = {}
  /\ answers = {}

(* A connection that closes without making a call. *)
Leave(c) ==
  /\ c \in fresh
  /\ fresh' = fresh \ {c}
  /\ UNCHANGED <<blocked, unanswered, answers>>

Submit(c) ==
  /\ c \in fresh
  /\ fresh' = fresh \ {c}
  /\ blocked' = blocked \cup {c}
  /\ unanswered' = unanswered \cup {c}
  /\ UNCHANGED answers

Deliver(c, d) ==
  /\ c \in unanswered
  /\ d \in blocked
  /\ unanswered' = unanswered \ {c}
  /\ blocked' = blocked \ {d}
  /\ answers' = answers \cup {<<d, c>>}
  /\ UNCHANGED fresh

Lose(c) ==
  /\ c \in unanswered
  /\ unanswered' = unanswered \ {c}
  /\ UNCHANGED <<fresh, blocked, answers>>

(* A reset of the device forgets every call and every caller. *)
Forget ==
  /\ unanswered' = {}
  /\ blocked' = {}
  /\ UNCHANGED <<fresh, answers>>

Next ==
  \/ \E c \in Conns : Leave(c) \/ Submit(c) \/ Lose(c)
  \/ \E c, d \in Conns : Deliver(c, d)
  \/ Forget

Spec == Init /\ [][Next]_vars
=============================================================================
