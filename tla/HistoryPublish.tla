--------------------------- MODULE HistoryPublish ---------------------------
(***************************************************************************)
(* The relayer publishes its validation history as ENS text records        *)
(* (backend/server.js: /publish-validation-ens, /read-validation-ens).  A  *)
(* publication reads the file, then waits for NameStone; requests overlap, *)
(* and a write whose connection is lost may still be applied.              *)
(*                                                                         *)
(* Records are their positions 1, 2, ... in the file; what OracleBackend   *)
(* says of them does not matter here.  A text record set (a row) is the    *)
(* interval of records in it.                                              *)
(***************************************************************************)
EXTENDS Naturals, Functions

CONSTANTS
  Requests,       (* callers of the publish route, one call at a time each *)
  MaxRecords,     (* bound on the history                                  *)
  Length,         (* the length of each record in JSON                     *)
  MaxLen,         (* maxLen, 45000 in the code                             *)
  MaxEntries,     (* maxEntries, which every client sets to 200            *)
  Nothing         (* no row                                                *)

defaultSub == [full |-> "oracle-validation", last |-> "oracle-validation-last"]
Scopes == DOMAIN defaultSub
Labels == {defaultSub[s] : s \in Scopes}

Body == [label : Labels,
         first : 1..MaxRecords,            (* validation_history runs from *)
         total : 0..MaxRecords]            (* first to total, the newest   *)

ASSUME PublishAssumption ==
  /\ MaxRecords \in Nat \ {0} /\ MaxLen \in Nat /\ MaxEntries \in Nat \ {0}
  /\ Length \in [1..MaxRecords -> Nat]
  /\ Nothing \notin Body

VARIABLES
  history,        (* the number of records in the file                     *)
  stage,          (* per request: "idle", "sent" to NameStone, "applied"   *)
                  (* there, "thrown", and its answer, "success" or         *)
                  (* "failure", until the caller has it                    *)
  body,           (* per request: what its handler has sent                *)
  late,           (* writes under way whose caller has given up            *)
  row,            (* NameStone: the text records of each name              *)
  read,           (* one call of the read route                            *)
  tangled,        (* names with a publication begun while the write of     *)
                  (* another was under way                                 *)
  acked           (* per name: the largest total a success has reported    *)

publishing == <<stage, body, late, tangled, acked>>
vars == <<history, publishing, row, read>>

NotReading == [step |-> 0, label |-> Nothing, history |-> 0, total |-> 0,
               source |-> "none"]

Init ==
  /\ history = 0
  /\ stage = [r \in Requests |-> "idle"]
  /\ body = [r \in Requests |-> Nothing]
  /\ late = {}
  /\ row = [l \in Labels |-> Nothing]
  /\ read = NotReading
  /\ tangled = {}
  /\ acked = [l \in Labels |-> 0]

(* appendHistory: the other routes record an event.                         *)
Append ==
  /\ history < MaxRecords
  /\ history' = history + 1
  /\ UNCHANGED <<publishing, row, read>>

-----------------------------------------------------------------------------
(* publishValidationHistoryToEns. *)

size(first, last) ==
  FoldFunctionOnSet(LAMBDA a, b : a + b, 0, Length, first..last)

(* Mutation: one record too many is cut off. *)
sliceTooShort(from, n) ==
  LET cut[k \in from..n] ==
        IF size(k, n) >= MaxLen /\ k < n THEN cut[k + 1] ELSE k
  IN  IF n = 0 THEN from ELSE cut[from]

(* The loop that cuts off the oldest records until the rest fits. *)
slice(from, n) ==
  LET cut[k \in from..n] ==
        IF size(k, n) > MaxLen /\ k < n THEN cut[k + 1] ELSE k
  IN  IF n = 0 THEN from ELSE cut[from]

underWay(label) ==
  \/ \E r \in Requests : stage[r] = "sent" /\ body[r].label = label
  \/ \E b \in late : b.label = label

(* Up to the fetch; both clients name the subdomain of the scope.  It       *)
(* throws when there is nothing to publish, when it does not fit, and when  *)
(* NameStone is not configured or the file does not parse.                  *)
Publish(r, scope) ==
  LET label == defaultSub[scope]
      wanted == IF scope = "last" THEN 1 ELSE MaxEntries
      from == IF history <= wanted THEN 1 ELSE history - wanted + 1
      first == slice(from, history)
  IN  /\ stage[r] = "idle"
      /\ \/ /\ stage' = [stage EXCEPT ![r] = "thrown"]
            /\ UNCHANGED <<body, tangled>>
         \/ /\ scope = "last" => history > 0
            /\ size(first, history) <= MaxLen
            /\ stage' = [stage EXCEPT ![r] = "sent"]
            /\ body' = [body EXCEPT ![r] =
                 [label |-> label, first |-> first, total |-> history]]
            /\ tangled' = IF underWay(label) THEN tangled \cup {label}
                          ELSE tangled
      /\ UNCHANGED <<history, late, row, read, acked>>

(* Mutation: what was sent is forgotten before the answer is made of it. *)
ApplyForgets(r) ==
  /\ stage[r] = "sent"
  /\ row' = [row EXCEPT ![body[r].label] = body[r]]
  /\ stage' = [stage EXCEPT ![r] = "applied"]
  /\ body' = [body EXCEPT ![r] = Nothing]
  /\ UNCHANGED <<history, late, read, tangled, acked>>

(* NameStone executes set-name. *)
Apply(r) ==
  /\ stage[r] = "sent"
  /\ row' = [row EXCEPT ![body[r].label] = body[r]]
  /\ stage' = [stage EXCEPT ![r] = "applied"]
  /\ UNCHANGED <<history, body, late, read, tangled, acked>>

ApplyLate(b) ==
  /\ row' = [row EXCEPT ![b.label] = b]
  /\ late' = late \ {b}
  /\ UNCHANGED <<history, stage, body, read, tangled, acked>>

succeed(r) ==
  /\ stage' = [stage EXCEPT ![r] = "success"]
  /\ acked' = [acked EXCEPT ![body[r].label] = IF @ < body[r].total
                                               THEN body[r].total ELSE @]
  /\ UNCHANGED <<history, body, late, row, read, tangled>>

Succeed(r) == stage[r] = "applied" /\ succeed(r)

(* Mutation: r.ok is not looked at. *)
HttpErrorIgnored(r) == stage[r] = "sent" /\ succeed(r)

(* NameStone refuses: !r.ok. *)
HttpError(r) ==
  /\ stage[r] = "sent"
  /\ stage' = [stage EXCEPT ![r] = "thrown"]
  /\ UNCHANGED <<history, body, late, row, read, tangled, acked>>

(* fetch rejects: the request or its answer is lost, or only given up.      *)
ConnectionLost(r) ==
  /\ stage[r] \in {"sent", "applied"}
  /\ stage' = [stage EXCEPT ![r] = "thrown"]
  /\ \/ stage[r] = "sent" /\ late' = late \cup {body[r]}
     \/ UNCHANGED late
  /\ UNCHANGED <<history, body, row, read, tangled, acked>>

(* Mutation: the error is logged and nobody is answered. *)
RefuseSilently(r) == stage[r] = "thrown" /\ UNCHANGED vars

(* The catch block of the route: 400. *)
Refuse(r) ==
  /\ stage[r] = "thrown"
  /\ stage' = [stage EXCEPT ![r] = "failure"]
  /\ UNCHANGED <<history, body, late, row, read, tangled, acked>>

(* The caller has the answer. *)
Answered(r) ==
  /\ stage[r] \in {"success", "failure"}
  /\ stage' = [stage EXCEPT ![r] = "idle"]
  /\ body' = [body EXCEPT ![r] = Nothing]
  /\ UNCHANGED <<history, late, row, read, tangled, acked>>

-----------------------------------------------------------------------------
(* The read route: NameStone's row at once, or else ENS key by key. *)

(* Mutation: the other order. *)
totalFirst == <<"total", "history">>

(* VALIDATION_ENS_TEXT_KEYS: the records are read in this order. *)
keys == <<"history", "total">>

total(label) == IF row[label] = Nothing THEN 0 ELSE row[label].total

readKeeps == UNCHANGED <<history, publishing, row>>

(* The row is in the answer of get-names; what it holds of either record is *)
(* represented by the newest event.                                         *)
ReadNameStone(label) ==
  /\ read.step = 0 /\ row[label] # Nothing
  /\ read' = [step |-> 3, label |-> label, history |-> total(label),
              total |-> total(label), source |-> "namestone"]
  /\ readKeeps

(* It is not among the first 500, or the call failed: the first provider.   *)
ReadFallsBack(label) ==
  /\ read.step = 0
  /\ read' = [NotReading EXCEPT !.step = 1, !.label = label, !.source = "ens"]
  /\ readKeeps

(* getText of one key, or null; the last one ends the call. *)
ReadKey ==
  /\ read.step \in 1..2
  /\ \/ read' = [read EXCEPT ![keys[read.step]] = total(read.label),
                             !.step = @ + 1]
     \/ read' = [read EXCEPT !.step = @ + 1]
  /\ readKeeps

(* No provider finds a resolver: 502.                                       *)
ProviderFails ==
  /\ read.step = 1
  /\ read' = NotReading
  /\ readKeeps

(* The caller has its answer. *)
ReadDone ==
  /\ read.step = 3
  /\ read' = NotReading
  /\ readKeeps

-----------------------------------------------------------------------------
ServerNext ==
  \/ Append \/ ReadKey \/ ProviderFails \/ ReadDone
  \/ \E r \in Requests :
       Apply(r) \/ Succeed(r) \/ HttpError(r) \/ ConnectionLost(r) \/ Refuse(r)
  \/ \E b \in late : ApplyLate(b)
  \/ \E l \in Labels : ReadNameStone(l) \/ ReadFallsBack(l)

(* Every call to NameStone ends somehow, and a handler runs to its end.     *)
Fairness ==
  \A r \in Requests :
    /\ WF_vars(Apply(r) \/ HttpError(r) \/ ConnectionLost(r) \/ Succeed(r))
    /\ WF_vars(Refuse(r))

(* Types; what has been sent is there. *)
TypeOK ==
  /\ history \in 0..MaxRecords
  /\ stage \in [Requests ->
       {"idle", "sent", "applied", "thrown", "success", "failure"}]
  /\ body \in [Requests -> Body \cup {Nothing}]
  /\ late \subseteq Body
  /\ row \in [Labels -> Body \cup {Nothing}]
  /\ read \in [step : 0..3, label : Labels \cup {Nothing},
               history : 0..MaxRecords, total : 0..MaxRecords,
               source : {"none", "namestone", "ens"}]
  /\ tangled \subseteq Labels
  /\ acked \in [Labels -> 0..MaxRecords]
  /\ \A r \in Requests :
       stage[r] \in {"sent", "applied", "success"} => body[r] # Nothing

=============================================================================
