----------------------------- MODULE ReopenLink -----------------------------
(***************************************************************************)
(* A capsule on its way from the page that seals it to a page that opens   *)
(* its link: the times in it (lib/drand.ts, lib/ctrng.ts), the link        *)
(* (lib/share.ts), its ENS records (lib/namestone.ts) and the effect of    *)
(* App.tsx that imports what the URL names.  Under React's StrictMode, as  *)
(* in development, a page load runs the effect twice and cancels the first *)
(* run; both read and clear the one URL.                                   *)
(***************************************************************************)
EXTENDS Integers, Sequences, SequencesExt

CONSTANTS
  Capsules,
  Times,          (* unlock times that are asked for                       *)
  Genesis, Period,                  (* drand's genesis_time and period     *)
  BlockTime, SecondsPerBlock,       (* the last cTRNG block: its timestamp;*)
                                    (* its sequence number is 0            *)
  None            (* no capsule; not sealed; no round or target            *)

ASSUME LinkAssumption ==
  /\ Times \subseteq Nat /\ Genesis \in Nat /\ BlockTime \in Nat
  /\ Period \in Nat \ {0} /\ SecondsPerBlock \in Nat \ {0}
  /\ None \notin Capsules

VARIABLES
  sealed,         (* per capsule: what its envelope says, and the time     *)
                  (* asked for                                             *)
  names,          (* capsules whose envelope NameStone has                 *)
  location,       (* the URL of the receiving page                         *)
  carriesKey,     (* the URL had a key when the page was loaded            *)
  runs,           (* the import effect: its two runs                       *)
  items           (* the receiving page's queue                            *)

vars == <<sealed, names, location, carriesKey, runs, items>>

Nowhere == [ens |-> None, env |-> None, k |-> FALSE]
Off == [pc |-> "off", cancelled |-> FALSE, capsule |-> None,
        byName |-> FALSE, k |-> FALSE]

Init ==
  /\ sealed = [c \in Capsules |-> [backend |-> "none"]]
  /\ names = {}
  /\ location = Nowhere /\ carriesKey = FALSE
  /\ runs = [r \in 1..2 |-> Off]
  /\ items = <<>>

-----------------------------------------------------------------------------
(* Times. *)

ceilDiv(a, b) == -((-a) \div b)

(* Mutation: Math.floor. *)
roundBefore(time) ==
  LET round == (time - Genesis) \div Period
  IN  IF round < 1 THEN 1 ELSE round

roundAtTime(time) ==
  LET round == ceilDiv(time - Genesis, Period)
  IN  IF round < 1 THEN 1 ELSE round

(* What the pages take for the time a round unlocks: the end of its period. *)
timeAtRound(round) == Genesis + round * Period

(* The time at which drand issues a round, by its own convention: the       *)
(* start of the round's period, so that round 1 is out at genesis_time.     *)
issuedAt(round) == Genesis + (round - 1) * Period

estimateTargetSequence(time) ==
  IF time <= BlockTime THEN 0 ELSE ceilDiv(time - BlockTime, SecondsPerBlock)

-----------------------------------------------------------------------------
(* The sealing page. *)

Seal(c, time) ==
  /\ sealed[c].backend = "none"
  /\ \/ sealed' = [sealed EXCEPT ![c] =
          [backend |-> "drand", asked |-> time, round |-> roundAtTime(time),
           unlock |-> timeAtRound(roundAtTime(time))]]
     \/ \E target \in {None, estimateTargetSequence(time)} :
          sealed' = [sealed EXCEPT ![c] =
            [backend |-> "ctrng", asked |-> time, target |-> target,
             unlock |-> time]]
  /\ UNCHANGED <<names, location, carriesKey, runs, items>>

(* Mutation: the publication does not wait for the envelope. *)
PublishEarly(c) ==
  /\ names' = names \cup {c}
  /\ UNCHANGED <<sealed, location, carriesKey, runs, items>>

(* publishToNameStone *)
Publish(c) ==
  /\ sealed[c].backend # "none"
  /\ names' = names \cup {c}
  /\ UNCHANGED <<sealed, location, carriesKey, runs, items>>

buildShareUrl(item) ==
  IF item.named THEN [ens |-> item.capsule, env |-> None, k |-> item.key]
  ELSE [ens |-> None, env |-> item.capsule, k |-> item.key]

(* Links that are around: the sealing page's, copied before or after the    *)
(* publication; the receiving page's own; a name typed in.                  *)
Links ==
  {buildShareUrl([capsule |-> c, named |-> named,
                  key |-> sealed[c].backend = "ctrng"]) :
     c \in {d \in Capsules : sealed[d].backend # "none"}, named \in {FALSE}}
  \cup {buildShareUrl([capsule |-> c, named |-> TRUE,
                       key |-> sealed[c].backend = "ctrng"]) : c \in names}
  \cup {buildShareUrl(items[i]) : i \in DOMAIN items}
  \cup {[Nowhere EXCEPT !.ens = c] : c \in names}

-----------------------------------------------------------------------------
(* The receiving page: the queue. *)

(* buildItemFromImport and the fix-up of its time. *)
finalised(run) ==
  LET envelope == sealed[run.capsule]
  IN  [capsule |-> run.capsule, key |-> run.k, named |-> run.byName,
       unlock |-> IF envelope.backend = "drand"
                  THEN timeAtRound(envelope.round) ELSE envelope.unlock,
       owed |-> /\ carriesKey
                /\ run.byName => runs[2].pc = "off"]

(* Mutation: findByEnvelope is not asked. *)
appended(queue, item) == Append(queue, item)

(* The update of the queue: a capsule that is there already stays as it is. *)
imported(queue, item) ==
  IF \E i \in DOMAIN queue : queue[i].capsule = item.capsule
  THEN queue ELSE Append(queue, item)

-----------------------------------------------------------------------------
(* The import effect. *)

(* The finally block: clearFragment, and ?ens= is stripped.                 *)
cleared == Nowhere

start(c, pc, byName, k, cancelled) ==
  [pc |-> pc, cancelled |-> cancelled, capsule |-> c, byName |-> byName, k |-> k]

(* A load of the page; the fragment of a cTRNG capsule is imported before   *)
(* the effect returns, so that a second run finds nothing.                  *)
Load(url) ==
  /\ carriesKey' = url.k
  /\ \E strict \in BOOLEAN :
       LET both(c, pc, byName, k) ==
             [r \in 1..2 |->
                IF r = 1 THEN start(c, pc, byName, k, strict)
                ELSE IF strict THEN start(c, pc, byName, k, FALSE) ELSE Off]
       IN  \/ /\ url.ens # None
              /\ runs' = both(url.ens, "fetch", TRUE, FALSE)
              /\ location' = url /\ UNCHANGED items
           \/ /\ url.ens = None /\ url.env # None
              /\ sealed[url.env].backend = "drand"
              /\ runs' = both(url.env, "info", FALSE, url.k)
              /\ location' = url /\ UNCHANGED items
           \/ /\ url.ens = None /\ url.env # None
              /\ sealed[url.env].backend = "ctrng"
              /\ items' = imported(items,
                   [finalised(start(url.env, "info", FALSE, url.k, FALSE))
                      EXCEPT !.owed = url.k])
              /\ runs' = [r \in 1..2 |-> Off]
              /\ location' = cleared
           \/ /\ url = Nowhere
              /\ runs' = [r \in 1..2 |-> Off]
              /\ location' = url /\ UNCHANGED items
  /\ UNCHANGED <<sealed, names>>

Open(url) == Load(url)

Reload == Load(location)

ends(r) ==
  /\ runs' = [runs EXCEPT ![r].pc = "done"]
  /\ location' = cleared
  /\ UNCHANGED <<sealed, names, carriesKey>>

(* if (cancelled) return, or the item is added. *)
conclude(r, run) ==
  /\ items' = IF run.cancelled THEN items ELSE imported(items, finalised(run))
  /\ ends(r)

(* Mutation: the key that parseFragment found, which wants an envelope. *)
parsedKey == FALSE

(* readKeyFragment: what the URL holds when the records have come. *)
readKeyFragment == location.k

(* fetchCapsuleByEns has the records. *)
Fetched(r) ==
  /\ runs[r].pc = "fetch"
  /\ LET run == [runs[r] EXCEPT !.k = readKeyFragment]
     IN  IF sealed[run.capsule].backend = "drand"
         THEN /\ runs' = [runs EXCEPT ![r] = [run EXCEPT !.pc = "info"]]
              /\ UNCHANGED <<sealed, names, location, carriesKey, items>>
         ELSE conclude(r, run)

(* getChainInfo *)
Informed(r) ==
  /\ runs[r].pc = "info"
  /\ conclude(r, runs[r])

(* No records, or no chain info: bootError. *)
Fails(r) ==
  /\ runs[r].pc \in {"fetch", "info"}
  /\ ends(r) /\ UNCHANGED items

(* The receiver deletes a row. *)
Delete(i) ==
  /\ items' = RemoveAt(items, i)
  /\ UNCHANGED <<sealed, names, location, carriesKey, runs>>

Next ==
  \/ \E c \in Capsules : Publish(c) \/ \E time \in Times : Seal(c, time)
  \/ \E url \in Links : Open(url)
  \/ Reload
  \/ \E r \in 1..2 : Fetched(r) \/ Informed(r) \/ Fails(r)
  \/ \E i \in DOMAIN items : Delete(i)

Spec == Init /\ [][Next]_vars

-----------------------------------------------------------------------------
Envelope ==
  [backend : {"none"}]
  \cup [backend : {"drand"}, asked : Times, round : Nat, unlock : Nat]
  \cup [backend : {"ctrng"}, asked : Times, target : Nat \cup {None}, unlock : Nat]

Item == [capsule : Capsules, key : BOOLEAN, named : BOOLEAN, unlock : Nat,
         owed : BOOLEAN]

(* Types; what is imported is a capsule that has been sealed. *)
TypeOK ==
  /\ sealed \in [Capsules -> Envelope]
  /\ names \subseteq {c \in Capsules : sealed[c].backend # "none"}
  /\ location \in [ens : Capsules \cup {None}, env : Capsules \cup {None},
                   k : BOOLEAN]
  /\ carriesKey \in BOOLEAN
  /\ runs \in [1..2 -> [pc : {"off", "fetch", "info", "done"},
                        cancelled : BOOLEAN, capsule : Capsules \cup {None},
                        byName : BOOLEAN, k : BOOLEAN]]
  /\ items \in Seq(Item)

(* However often its links are opened and the page is reloaded, a capsule   *)
(* is in the queue once (findByEnvelope in the update, the cleared URL).    *)
OneItemPerCapsule ==
  \A i, j \in DOMAIN items : items[i].capsule = items[j].capsule => i = j

(* Both pages show the same unlock time for a capsule, at or after the time *)
(* it was sealed for and less than a drand period later. drand issues the   *)
(* round, and with it the key, a period before the time shown: earlier than *)
(* the time asked for, though by no more than a period (sealed-sky-web/     *)
(* README.md:116 promises a round published at that time or later). The     *)
(* cTRNG block that is named is not before the time asked for (roundAtTime, *)
(* timeAtRound, estimateTargetSequence, buildItemFromImport).               *)
UnlocksWithinAPeriod ==
  /\ \A c \in Capsules : LET e == sealed[c] IN
       /\ e.backend = "drand" =>
            /\ e.asked <= e.unlock
            /\ e.asked <= issuedAt(e.round) + Period
            /\ e.asked > Genesis =>
                 /\ e.unlock < e.asked + Period
                 /\ issuedAt(e.round) < e.asked
       /\ e.backend = "ctrng" /\ e.target # None =>
            e.unlock <= BlockTime + e.target * SecondsPerBlock
  /\ \A i \in DOMAIN items : items[i].unlock = sealed[items[i].capsule].unlock

(* A capsule imported from a link with a key has the key, unless an ENS     *)
(* link was opened under StrictMode: there the cancelled run may strip the  *)
(* key from the URL before the other one reads it (readKeyFragment,         *)
(* clearFragment).                                                          *)
KeysArrive ==
  \A i \in DOMAIN items : items[i].owed => items[i].key
=============================================================================
