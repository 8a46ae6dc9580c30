---------------------------- MODULE HistoryPanel ----------------------------
(***************************************************************************)
(* The validation history panel of the page (components/                   *)
(* ValidationHistoryPanel.tsx) over the relayer that serves and publishes  *)
(* the history.  It shows the last records of GET /history, reloads when   *)
(* the page says that one was added, and publishes to ENS.                 *)
(*                                                                         *)
(* A list of records is represented by the newest one in it.               *)
(***************************************************************************)
EXTENDS HistoryPublish

CONSTANTS
  Loads,          (* bound on the calls of loadHistory in flight           *)
  Panel           (* the panel's publications: a member of Requests        *)

ASSUME PanelAssumption == Panel \in Requests

VARIABLES
  loads,          (* calls of loadHistory, and what the relayer answered   *)
  items,          (* the newest record shown, 0 if none                    *)
  busy,
  announced,      (* the history when loadHistory was last called          *)
  overtaking,     (* a call of loadHistory began during another one        *)
  ens             (* publishToEns, and its card: step, ensPublish,         *)
                  (* ensPublishLatest                                      *)

list == <<loads, items, busy, announced, overtaking>>
panelVars == <<vars, list, ens>>

free == [step |-> "free", newest |-> 0]
NoCard == [step |-> "idle", published |-> Nothing, latest |-> Nothing]
ensBusy == ens.step # "idle"

PanelInit ==
  /\ Init
  /\ loads = [i \in Loads |-> free]
  /\ items = 0
  /\ busy = FALSE
  /\ announced = 0
  /\ overtaking = FALSE
  /\ ens = NoCard

-----------------------------------------------------------------------------
(* loadHistory *)

inFlight == {i \in Loads : loads[i] # free}

(* Mutation: a call during another one is dropped. *)
loadUnlessBusy(i) ==
  /\ loads[i] = free
  /\ announced' = history
  /\ busy' = TRUE
  /\ overtaking' = (overtaking /\ inFlight # {})
  /\ loads' = IF busy THEN loads ELSE [loads EXCEPT ![i].step = "asked"]
  /\ UNCHANGED <<vars, items, ens>>

loadHistory(i) ==
  /\ loads[i] = free
  /\ announced' = history
  /\ busy' = TRUE
  /\ overtaking' = (inFlight # {})
  /\ loads' = [loads EXCEPT ![i].step = "asked"]
  /\ UNCHANGED <<vars, items, ens>>

(* The effect on mount (twice under StrictMode) and the window's event      *)
(* sealedsky-validation-history, which the sign panel dispatches after each *)
(* answer.                                                                  *)
OnRefresh(i) == loadHistory(i)

Refresh(i) == ~busy /\ ~ensBusy /\ loadHistory(i)

(* GET /history *)
Serve(i) ==
  /\ loads[i].step = "asked"
  /\ loads' = [loads EXCEPT ![i] = [step |-> "answered", newest |-> history]]
  /\ UNCHANGED <<vars, items, busy, announced, overtaking, ens>>

Loaded(i) ==
  /\ loads[i].step = "answered"
  /\ items' = loads[i].newest
  /\ busy' = FALSE
  /\ loads' = [loads EXCEPT ![i] = free]
  /\ UNCHANGED <<vars, announced, overtaking, ens>>

LoadError(i) ==
  /\ i \in inFlight
  /\ items' = 0
  /\ busy' = FALSE
  /\ loads' = [loads EXCEPT ![i] = free]
  /\ UNCHANGED <<vars, announced, overtaking, ens>>

-----------------------------------------------------------------------------
(* publishToEns *)

newCard == [NoCard EXCEPT !.step = "publishing"]

PublishToEns(scope) ==
  /\ ~ensBusy
  /\ ens' = newCard
  /\ Publish(Panel, scope)
  /\ UNCHANGED list

(* The relayer has answered: setEnsPublish, then the latest row is fetched; *)
(* or its answer says, or the browser sees, an error.                       *)
PublishAnswered ==
  /\ Answered(Panel)
  /\ \/ /\ stage[Panel] = "success"
        /\ ens' = [ens EXCEPT !.step = "latest",
                              !.published = body[Panel].total]
     \/ ens' = NoCard
  /\ UNCHANGED list

(* GET /history?limit=1; any failure is ignored. *)
Latest ==
  /\ ens.step = "latest"
  /\ \/ history > 0 /\ ens' = [ens EXCEPT !.step = "idle", !.latest = history]
     \/ ens' = [ens EXCEPT !.step = "idle"]
  /\ UNCHANGED <<vars, list>>

PanelNext ==
  \/ ServerNext /\ UNCHANGED <<list, ens>>
  \/ \E r \in Requests \ {Panel}, s \in Scopes :
       Publish(r, s) /\ UNCHANGED <<list, ens>>
  \/ \E r \in Requests \ {Panel} : Answered(r) /\ UNCHANGED <<list, ens>>
  \/ \E i \in Loads :
       OnRefresh(i) \/ Refresh(i) \/ Serve(i) \/ Loaded(i) \/ LoadError(i)
  \/ \E s \in Scopes : PublishToEns(s)
  \/ PublishAnswered \/ Latest

Spec == PanelInit /\ [][PanelNext]_panelVars

FairSpec ==
  /\ Spec
  /\ Fairness
  /\ WF_panelVars(PublishAnswered) /\ WF_panelVars(Latest)

-----------------------------------------------------------------------------
(* Types, of the panel and of the relayer. *)
PanelTypeOK ==
  /\ TypeOK
  /\ loads \in [Loads -> [step : {"free", "asked", "answered"},
                       newest : 0..MaxRecords]]
  /\ items \in 0..MaxRecords
  /\ busy \in BOOLEAN /\ overtaking \in BOOLEAN
  /\ announced \in 0..MaxRecords
  /\ ens \in [step : {"idle", "publishing", "latest"},
              published : (0..MaxRecords) \cup {Nothing},
              latest : (1..MaxRecords) \cup {Nothing}]

(* What is published holds the newest record of its snapshot, fits a text   *)
(* record, and leaves out an older record only if that one is not asked for *)
(* (maxEntries) or does not fit (the loop of publishValidationHistoryToEns).*)
RowsFit ==
  \A l \in Labels : LET b == row[l] IN
    b # Nothing =>
      /\ b.first <= b.total \/ b.total = 0
      /\ b.total <= history
      /\ size(b.first, b.total) <= MaxLen
      /\ l = defaultSub.last => b.first = b.total
      /\ l = defaultSub.full /\ b.first > 1 =>
           \/ b.total - b.first + 1 = MaxEntries
           \/ size(b.first - 1, b.total) > MaxLen

(* A success reported to a caller means that the name holds that much of    *)
(* the history and, unless a publication began while the write of another   *)
(* was under way, goes on holding it: a lost connection leaves such a write *)
(* behind (publishValidationHistoryToEns, the two routes).                  *)
AcknowledgedIsKept ==
  \A l \in Labels \ tangled : acked[l] <= total(l)

(* The count that the read route answers is not below the events it         *)
(* answers with, and through NameStone it is the count of just those: an    *)
(* update between two keys of the ENS read cannot take events away, unless  *)
(* two publications were tangled (/read-validation-ens).                    *)
ReadsAgree ==
  read.step = 3 /\ read.total # 0 =>
    /\ read.source = "namestone" => read.total = read.history
    /\ read.label \notin tangled => read.total >= read.history

(* When nothing is being loaded the panel shows nothing, or all that was    *)
(* recorded when it was last told to look, unless calls of loadHistory      *)
(* overtook each other; and the row shown beside a publication is not older *)
(* than what was published (loadHistory, publishToEns).                     *)
PanelIsCurrent ==
  /\ inFlight = {} /\ ~overtaking /\ items # 0 => items >= announced
  /\ ens.published # Nothing /\ ens.latest # Nothing
       => ens.latest >= ens.published

(* A caller of the publish route is answered, and the panel's buttons come  *)
(* back (the catch of the route, the finally of publishToEns).              *)
PublicationsAnswered ==
  /\ \A r \in Requests :
       stage[r] # "idle" ~> stage[r] \in {"success", "failure", "idle"}
  /\ ensBusy ~> ~ensBusy
=============================================================================
