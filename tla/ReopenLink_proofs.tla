-------------------------- MODULE ReopenLink_proofs --------------------------
(***************************************************************************)
(* Proofs about ReopenLink, for any set of capsules, any times and any     *)
(* drand chain and cTRNG block: the type invariant, that a capsule is in   *)
(* the receiving queue once, that it opens within a period of the time it  *)
(* was meant to, and that a key that was in the link arrives with it.      *)
(***************************************************************************)
EXTENDS ReopenLink, TLAPS

-----------------------------------------------------------------------------
(* The arithmetic of rounds. *)

(* The product of natural numbers, for the solver. *)
LEMMA Products ==
  ASSUME NEW a \in Nat, NEW b \in Nat
  PROVE  a * b \in Nat
OBVIOUS

(* Math.ceil(a / d) is the least number of d's that reach a. *)
LEMMA CeilDiv ==
  ASSUME NEW a \in Int, NEW d \in Nat \ {0}
  PROVE  /\ ceilDiv(a, d) \in Int
         /\ a <= ceilDiv(a, d) * d
         /\ ceilDiv(a, d) * d < a + d
<1> DEFINE q == (-a) \div d
           m == (-a) % d
<1>1. q \in Int /\ m \in 0..(d - 1) /\ -a = d * q + m
  OBVIOUS
<1>2. (-q) * d = a + m
  BY <1>1
<1> QED
  BY <1>1, <1>2 DEF ceilDiv

(* The period of the round chosen ends at the time asked for or, unless     *)
(* that is before the chain began, less than a period after it; the round   *)
(* is issued at the start of the period.                                    *)
LEMMA RoundTimes ==
  ASSUME NEW time \in Nat
  PROVE  /\ roundAtTime(time) \in Nat
         /\ timeAtRound(roundAtTime(time)) \in Nat
         /\ time <= timeAtRound(roundAtTime(time))
         /\ time <= issuedAt(roundAtTime(time)) + Period
         /\ time > Genesis =>
              /\ timeAtRound(roundAtTime(time)) < time + Period
              /\ issuedAt(roundAtTime(time)) < time
<1> DEFINE a == time - Genesis
           c == ceilDiv(a, Period)
<1>1. a \in Int /\ Genesis \in Nat /\ Period \in Nat \ {0}
  BY LinkAssumption
<1>2. c \in Int /\ a <= c * Period /\ c * Period < a + Period
  BY <1>1, CeilDiv
<1> HIDE DEF c
<1>3. CASE c < 1
  <2>1. c * Period <= 0
    BY <1>1, <1>2, <1>3
  <2> QED
    BY <1>1, <1>2, <1>3, <2>1 DEF roundAtTime, timeAtRound, issuedAt, c
<1>4. CASE ~(c < 1)
  <2>1. c \in Nat /\ c * Period \in Nat
    BY <1>1, <1>2, <1>4, Products
  <2>2. (c - 1) * Period = c * Period - Period
    BY <1>1, <2>1
  <2> QED
    BY <1>1, <1>2, <1>4, <2>1, <2>2 DEF roundAtTime, timeAtRound, issuedAt, c
<1> QED
  BY <1>3, <1>4

(* The block named for a time is not before it. *)
LEMMA TargetTimes ==
  ASSUME NEW time \in Nat
  PROVE  /\ estimateTargetSequence(time) \in Nat
         /\ time <= BlockTime + estimateTargetSequence(time) * SecondsPerBlock
<1> DEFINE a == time - BlockTime
           c == ceilDiv(a, SecondsPerBlock)
<1>1. a \in Int /\ BlockTime \in Nat /\ SecondsPerBlock \in Nat \ {0}
  BY LinkAssumption
<1>2. c \in Int /\ a <= c * SecondsPerBlock
  BY <1>1, CeilDiv
<1> HIDE DEF c
<1>3. CASE time <= BlockTime
  BY <1>1, <1>3 DEF estimateTargetSequence
<1>4. CASE ~(time <= BlockTime)
  <2>1. c < 0 => c * SecondsPerBlock <= 0
    BY <1>1, <1>2
  <2>2. c \in Nat
    BY <1>1, <1>2, <1>4, <2>1
  <2> QED
    BY <1>1, <1>2, <1>4, <2>2 DEF estimateTargetSequence, c
<1> QED
  BY <1>3, <1>4

-----------------------------------------------------------------------------
(* The queue. *)

(* In both, an item is there once and comes from the old queue, or is new.  *)
Once(queue) ==
  \A i, j \in DOMAIN queue : queue[i].capsule = queue[j].capsule => i = j

LEMMA ImportedOnce ==
  ASSUME NEW queue \in Seq(Item), NEW item \in Item, Once(queue)
  PROVE  /\ imported(queue, item) \in Seq(Item)
         /\ Once(imported(queue, item))
         /\ \A i \in DOMAIN imported(queue, item) :
              \/ imported(queue, item)[i] = item
              \/ i \in DOMAIN queue /\ imported(queue, item)[i] = queue[i]
<1>1. CASE \E i \in DOMAIN queue : queue[i].capsule = item.capsule
  BY <1>1 DEF imported
<1>2. CASE ~\E i \in DOMAIN queue : queue[i].capsule = item.capsule
  <2> DEFINE new == Append(queue, item)
  <2>1. /\ imported(queue, item) = new
        /\ new \in Seq(Item)
        /\ DOMAIN queue = 1..Len(queue) /\ Len(queue) \in Nat
        /\ DOMAIN new = 1..(Len(queue) + 1)
        /\ \A i \in 1..Len(queue) : new[i] = queue[i]
        /\ new[Len(queue) + 1] = item
    BY <1>2 DEF imported
  <2> HIDE DEF new
  <2>2. \A i \in DOMAIN new : i \in DOMAIN queue \/ i = Len(queue) + 1
    BY <2>1
  <2>3. Once(new)
    BY <1>2, <2>1, <2>2 DEF Once
  <2> QED
    BY <2>1, <2>2, <2>3
<1> QED
  BY <1>1, <1>2

LEMMA RemovedOnce ==
  ASSUME NEW queue \in Seq(Item), NEW k \in DOMAIN queue, Once(queue)
  PROVE  /\ RemoveAt(queue, k) \in Seq(Item)
         /\ Once(RemoveAt(queue, k))
         /\ \A i \in DOMAIN RemoveAt(queue, k) :
              \E j \in DOMAIN queue : RemoveAt(queue, k)[i] = queue[j]
<1> DEFINE n == Len(queue)
           a == SubSeq(queue, 1, k - 1)
           b == SubSeq(queue, k + 1, n)
           new == RemoveAt(queue, k)
<1>1. n \in Nat /\ DOMAIN queue = 1..n /\ k \in 1..n
  OBVIOUS
<1>2. a \in Seq(Item) /\ Len(a) = k - 1 /\ \A i \in 1..(k - 1) : a[i] = queue[i]
  BY <1>1
<1>3. b \in Seq(Item) /\ Len(b) = n - k /\ \A i \in 1..(n - k) : b[i] = queue[k + i]
  BY <1>1
<1>4. new = a \o b
  BY DEF RemoveAt
<1> HIDE DEF n, a, b, new
<1>5. /\ new \in Seq(Item) /\ DOMAIN new = 1..(n - 1)
      /\ \A i \in 1..(n - 1) :
           new[i] = IF i < k THEN a[i] ELSE b[i - (k - 1)]
  BY <1>1, <1>2, <1>3, <1>4
<1>6. \A i \in 1..(n - 1) : new[i] = IF i < k THEN queue[i] ELSE queue[i + 1]
  <2> SUFFICES ASSUME NEW i \in 1..(n - 1)
               PROVE  new[i] = IF i < k THEN queue[i] ELSE queue[i + 1]
    OBVIOUS
  <2>1. CASE i < k
    BY <1>1, <1>2, <1>5, <2>1
  <2>2. CASE ~(i < k)
    <3>1. i - (k - 1) \in 1..(n - k) /\ k + (i - (k - 1)) = i + 1
      BY <1>1, <2>2
    <3> QED
      BY <1>1, <1>3, <1>5, <2>2, <3>1
  <2> QED
    BY <2>1, <2>2
<1>7. Once(new)
  <2> SUFFICES ASSUME NEW i \in 1..(n - 1), NEW j \in 1..(n - 1),
                      new[i].capsule = new[j].capsule
               PROVE  i = j
    BY <1>5 DEF Once
  <2> DEFINE f(x) == IF x < k THEN x ELSE x + 1
  <2>1. /\ f(i) \in 1..n /\ new[i] = queue[f(i)]
        /\ f(j) \in 1..n /\ new[j] = queue[f(j)]
        /\ f(i) = f(j) => i = j
    BY <1>1, <1>6
  <2> HIDE DEF f
  <2> QED
    BY <1>1, <2>1 DEF Once
<1>8. \A i \in 1..(n - 1) : \E j \in 1..n : new[i] = queue[j]
  BY <1>1, <1>6
<1> QED
  BY <1>1, <1>5, <1>7, <1>8 DEF new

-----------------------------------------------------------------------------
(* The inductive invariant: of what is sealed, of a load of the receiving   *)
(* page, and of its queue.                                                  *)

Url == [ens : Capsules \cup {None}, env : Capsules \cup {None}, k : BOOLEAN]

Run == [pc : {"off", "fetch", "info", "done"}, cancelled : BOOLEAN,
        capsule : Capsules \cup {None}, byName : BOOLEAN, k : BOOLEAN]

isSealed(c) == c \in Capsules /\ sealed[c].backend # "none"

(* The times of an envelope, and that a drand round tells the receiver the  *)
(* time that the sender was told.                                           *)
EnvelopeTimes(e) ==
  /\ e.backend = "drand" =>
       /\ e.unlock = timeAtRound(e.round)
       /\ e.asked <= e.unlock
       /\ e.asked <= issuedAt(e.round) + Period
       /\ e.asked > Genesis =>
            /\ e.unlock < e.asked + Period
            /\ issuedAt(e.round) < e.asked
  /\ e.backend = "ctrng" /\ e.target # None =>
       e.unlock <= BlockTime + e.target * SecondsPerBlock

SealingInv ==
  /\ sealed \in [Capsules -> Envelope]
  /\ \A c \in names : isSealed(c)
  /\ \A c \in Capsules : EnvelopeTimes(sealed[c])

(* A link names capsules that have been sealed. *)
LinkLeads(url) ==
  /\ url \in Url
  /\ url.ens # None => isSealed(url.ens)
  /\ url.env # None => isSealed(url.env)

(* The key is on its way: a run that has the records has the key, a run     *)
(* that waits for them still finds it in the URL, and for a capsule by name *)
(* that is so as long as no second run can take it away.                    *)
KeyOnItsWay ==
  /\ \A r \in 1..2 :
       /\ runs[r].pc = "fetch" => runs[r].byName
       /\ runs[r].pc = "info" /\ ~runs[r].byName /\ carriesKey => runs[r].k
  /\ runs[2].pc = "off" /\ carriesKey =>
       /\ runs[1].pc = "fetch" => location.k
       /\ runs[1].pc = "info" => runs[1].k

LoadInv ==
  /\ LinkLeads(location)
  /\ carriesKey \in BOOLEAN
  /\ runs \in [1..2 -> Run]
  /\ \A r \in 1..2 : runs[r].pc \in {"fetch", "info"} => isSealed(runs[r].capsule)
  /\ KeyOnItsWay

ItemRight(item) ==
  /\ isSealed(item.capsule)
  /\ item.unlock = sealed[item.capsule].unlock
  /\ item.owed => item.key

QueueInv ==
  /\ items \in Seq(Item)
  /\ Once(items)
  /\ \A i \in DOMAIN items : ItemRight(items[i])

LinkInv == SealingInv /\ LoadInv /\ QueueInv

LEMMA LinkInvImplies ==
  LinkInv => TypeOK /\ OneItemPerCapsule /\ UnlocksWithinAPeriod /\ KeysArrive
<1> SUFFICES ASSUME LinkInv
             PROVE  TypeOK /\ OneItemPerCapsule /\ UnlocksWithinAPeriod /\ KeysArrive
  OBVIOUS
<1> USE DEF LinkInv
<1>1. names \subseteq {c \in Capsules : sealed[c].backend # "none"}
  BY DEF SealingInv, isSealed
<1>2. TypeOK
  BY <1>1 DEF TypeOK, SealingInv, LoadInv, QueueInv, LinkLeads, Url, Run
<1>3. OneItemPerCapsule
  BY DEF OneItemPerCapsule, QueueInv, Once
<1>4. UnlocksWithinAPeriod
  BY DEF UnlocksWithinAPeriod, SealingInv, EnvelopeTimes, QueueInv, ItemRight
<1>5. KeysArrive
  BY DEF KeysArrive, QueueInv, ItemRight
<1> QED
  BY <1>2, <1>3, <1>4, <1>5

LEMMA LinkInitial == Init => LinkInv
<1> SUFFICES ASSUME Init PROVE LinkInv
  OBVIOUS
<1>1. /\ sealed = [c \in Capsules |-> [backend |-> "none"]] /\ names = {}
      /\ location = Nowhere /\ carriesKey = FALSE
      /\ runs = [r \in 1..2 |-> Off] /\ items = <<>>
  BY DEF Init
<1>2. SealingInv
  BY <1>1 DEF SealingInv, EnvelopeTimes, Envelope
<1>3. Nowhere \in Url /\ LinkLeads(Nowhere)
  BY DEF Nowhere, Url, LinkLeads
<1>4. Off \in Run /\ Off.pc = "off"
  BY DEF Off, Run
<1>5. LoadInv
  BY <1>1, <1>3, <1>4 DEF LoadInv, KeyOnItsWay
<1>6. QueueInv
  BY <1>1 DEF QueueInv, Once
<1> QED
  BY <1>2, <1>5, <1>6 DEF LinkInv

-----------------------------------------------------------------------------
(* The sealing page. *)

LEMMA SealingSteps ==
  ASSUME SealingInv,
         \/ \E c \in Capsules, time \in Times : Seal(c, time)
         \/ \E c \in Capsules : Publish(c)
         \/ UNCHANGED <<sealed, names>>
  PROVE  /\ SealingInv'
         /\ \A c \in Capsules : isSealed(c) => isSealed(c)' /\ sealed'[c] = sealed[c]
<1>1. CASE UNCHANGED <<sealed, names>>
  BY <1>1 DEF SealingInv, EnvelopeTimes, isSealed
<1>2. ASSUME NEW c \in Capsules, Publish(c) PROVE SealingInv' /\ sealed' = sealed
  BY <1>2 DEF Publish, SealingInv, EnvelopeTimes, isSealed
<1>3. ASSUME NEW c \in Capsules, NEW time \in Times, Seal(c, time)
      PROVE  /\ SealingInv'
             /\ \A d \in Capsules : isSealed(d) => sealed'[d] = sealed[d]
  <2> DEFINE drand == [backend |-> "drand", asked |-> time,
                       round |-> roundAtTime(time),
                       unlock |-> timeAtRound(roundAtTime(time))]
             ctrng(target) == [backend |-> "ctrng", asked |-> time,
                               target |-> target, unlock |-> time]
  <2>1. time \in Nat
    BY LinkAssumption
  <2>2. /\ drand \in Envelope /\ EnvelopeTimes(drand) /\ drand.backend # "none"
    BY <2>1, RoundTimes DEF Envelope, EnvelopeTimes
  <2>3. ASSUME NEW target \in {None, estimateTargetSequence(time)}
        PROVE  /\ ctrng(target) \in Envelope /\ EnvelopeTimes(ctrng(target))
               /\ ctrng(target).backend # "none"
    BY <2>1, TargetTimes DEF Envelope, EnvelopeTimes
  <2>4. PICK e \in Envelope : /\ EnvelopeTimes(e) /\ e.backend # "none"
                              /\ sealed' = [sealed EXCEPT ![c] = e]
    BY <1>3, <2>2, <2>3 DEF Seal
  <2>5. /\ sealed \in [Capsules -> Envelope] /\ names' = names
        /\ sealed[c].backend = "none"
    BY <1>3 DEF Seal, SealingInv
  <2>6. /\ sealed' \in [Capsules -> Envelope] /\ sealed'[c] = e
        /\ \A d \in Capsules \ {c} : sealed'[d] = sealed[d]
    BY <2>4, <2>5
  <2>7. \A d \in Capsules : EnvelopeTimes(sealed'[d])
    BY <2>4, <2>6 DEF SealingInv
  <2>8. \A d \in names' : d \in Capsules /\ sealed'[d].backend # "none"
    BY <2>4, <2>5, <2>6 DEF SealingInv, isSealed
  <2>9. SealingInv'
    BY <2>6, <2>7, <2>8 DEF SealingInv, isSealed, EnvelopeTimes
  <2>10. \A d \in Capsules : isSealed(d) => sealed'[d] = sealed[d]
    BY <2>5, <2>6 DEF isSealed
  <2> QED
    BY <2>9, <2>10
<1>4. \A c \in Capsules : isSealed(c) /\ sealed'[c] = sealed[c] => isSealed(c)'
  BY DEF isSealed
<1> QED
  BY <1>1, <1>2, <1>3, <1>4

(* What the receiving page holds is not touched by a later sealing. *)
LEMMA ReceiverKept ==
  ASSUME LoadInv, QueueInv, UNCHANGED <<location, carriesKey, runs, items>>,
         \A c \in Capsules : isSealed(c) => isSealed(c)' /\ sealed'[c] = sealed[c]
  PROVE  LoadInv' /\ QueueInv'
<1>1. LoadInv'
  <2>1. LinkLeads(location)'
    BY DEF LoadInv, LinkLeads, isSealed
  <2>2. \A r \in 1..2 : runs'[r].pc \in {"fetch", "info"} => isSealed(runs[r].capsule)'
    BY DEF LoadInv, isSealed
  <2>3. KeyOnItsWay'
    BY DEF LoadInv, KeyOnItsWay
  <2> QED
    BY <2>1, <2>2, <2>3 DEF LoadInv
<1>2. QueueInv'
  BY DEF QueueInv, Once, ItemRight, isSealed
<1> QED
  BY <1>1, <1>2

-----------------------------------------------------------------------------
(* The receiving page. *)

(* The item made of a sealed capsule. *)
LEMMA Finalised ==
  ASSUME SealingInv, carriesKey \in BOOLEAN, NEW run \in Run, isSealed(run.capsule)
  PROVE  /\ finalised(run) \in Item
         /\ finalised(run).capsule = run.capsule
         /\ finalised(run).unlock = sealed[run.capsule].unlock
         /\ finalised(run).key = run.k
         /\ finalised(run).owed <=> /\ carriesKey
                                    /\ run.byName => runs[2].pc = "off"
<1> DEFINE e == sealed[run.capsule]
           unlock == IF e.backend = "drand" THEN timeAtRound(e.round) ELSE e.unlock
           owed == carriesKey /\ (run.byName => runs[2].pc = "off")
<1>1. run.capsule \in Capsules /\ e \in Envelope /\ e.backend # "none"
      /\ EnvelopeTimes(e)
  BY DEF SealingInv, isSealed
<1>2. e.unlock \in Nat
  BY <1>1 DEF Envelope
<1>3. unlock = e.unlock
  BY <1>1 DEF EnvelopeTimes
<1>4. owed \in BOOLEAN /\ run.k \in BOOLEAN /\ run.byName \in BOOLEAN
  BY DEF Run
<1>5. finalised(run) = [capsule |-> run.capsule, key |-> run.k,
                        named |-> run.byName, unlock |-> unlock, owed |-> owed]
  BY DEF finalised
<1> HIDE DEF unlock, owed, e
<1>6. /\ finalised(run) \in Item /\ finalised(run).capsule = run.capsule
      /\ finalised(run).unlock = unlock /\ finalised(run).key = run.k
      /\ finalised(run).owed = owed
  BY <1>1, <1>2, <1>3, <1>4, <1>5 DEF Item
<1> QED
  BY <1>3, <1>6 DEF owed, e

(* Adding an item that is right, or none. *)
LEMMA QueueGrows ==
  ASSUME QueueInv, sealed' = sealed, NEW item \in Item, ItemRight(item),
         items' \in {items, imported(items, item)}
  PROVE  QueueInv'
<1>1. CASE items' = items
  BY <1>1 DEF QueueInv, Once, ItemRight, isSealed
<1>2. CASE items' = imported(items, item)
  <2>1. /\ items' \in Seq(Item) /\ Once(items')
        /\ \A i \in DOMAIN items' :
             items'[i] = item \/ (i \in DOMAIN items /\ items'[i] = items[i])
    BY <1>2, ImportedOnce DEF QueueInv
  <2>2. \A i \in DOMAIN items' : ItemRight(items'[i])
    BY <2>1 DEF QueueInv
  <2> QED
    BY <2>1, <2>2 DEF QueueInv, Once, ItemRight, isSealed
<1> QED
  BY <1>1, <1>2

(* Every link that is around leads to a capsule. *)
LEMMA LinksLead ==
  ASSUME SealingInv, QueueInv, NEW url \in Links
  PROVE  LinkLeads(url)
<1>1. ASSUME NEW c \in Capsules, isSealed(c), NEW named \in BOOLEAN, NEW key \in BOOLEAN,
             NEW item, item.capsule = c, item.named = named, item.key = key
      PROVE  LinkLeads(buildShareUrl(item))
  BY <1>1, LinkAssumption DEF LinkLeads, buildShareUrl, Url
<1>2. ASSUME NEW c \in Capsules, isSealed(c), NEW named \in BOOLEAN
      PROVE  LinkLeads(buildShareUrl([capsule |-> c, named |-> named,
                                      key |-> sealed[c].backend = "ctrng"]))
  <2> DEFINE item == [capsule |-> c, named |-> named, key |-> sealed[c].backend = "ctrng"]
  <2>1. /\ item.capsule = c /\ item.named = named
        /\ item.key = (sealed[c].backend = "ctrng")
        /\ (sealed[c].backend = "ctrng") \in BOOLEAN
    OBVIOUS
  <2> HIDE DEF item
  <2>2. LinkLeads(buildShareUrl(item))
    BY <1>1, <1>2, <2>1
  <2> QED
    BY <2>2 DEF item
<1>3. ASSUME NEW i \in DOMAIN items
      PROVE  LinkLeads(buildShareUrl(items[i]))
  <2>1. items[i] \in Item /\ isSealed(items[i].capsule)
    BY DEF QueueInv, ItemRight
  <2> QED
    BY <1>1, <2>1 DEF Item
<1>4. ASSUME NEW c \in names
      PROVE  LinkLeads([Nowhere EXCEPT !.ens = c])
  BY DEF LinkLeads, Nowhere, Url, SealingInv, isSealed
<1>5. /\ \A c \in names : c \in Capsules /\ isSealed(c)
      /\ \A c \in Capsules : sealed[c].backend # "none" => isSealed(c)
  BY DEF SealingInv, isSealed
<1> DEFINE link(c, named) == buildShareUrl([capsule |-> c, named |-> named,
                                             key |-> sealed[c].backend = "ctrng"])
<1>6. CASE \E c \in {d \in Capsules : sealed[d].backend # "none"}, named \in {FALSE} :
             url = link(c, named)
  BY <1>2, <1>5, <1>6
<1>7. CASE \E c \in names : url = link(c, TRUE)
  BY <1>2, <1>5, <1>7
<1>8. CASE \E i \in DOMAIN items : url = buildShareUrl(items[i])
  BY <1>3, <1>8
<1>9. CASE \E c \in names : url = [Nowhere EXCEPT !.ens = c]
  BY <1>4, <1>9
<1> QED
  BY <1>6, <1>7, <1>8, <1>9 DEF Links

(* A load of the page, from any link that leads to a capsule. *)
LEMMA LoadSteps ==
  ASSUME SealingInv, LoadInv, QueueInv, NEW url, LinkLeads(url), Load(url)
  PROVE  LoadInv' /\ QueueInv' /\ UNCHANGED <<sealed, names>>
<1> DEFINE both(strict, c, pc, byName, k) ==
             [r \in 1..2 |->
                IF r = 1 THEN start(c, pc, byName, k, strict)
                ELSE IF strict THEN start(c, pc, byName, k, FALSE) ELSE Off]
<1>1. /\ UNCHANGED <<sealed, names>> /\ carriesKey' = url.k /\ url.k \in BOOLEAN
      /\ url \in Url
  BY DEF Load, LinkLeads, Url
<1>2. /\ Off \in Run /\ Off.pc = "off"
      /\ Nowhere \in Url /\ Nowhere.ens = None /\ Nowhere.env = None
  BY DEF Off, Run, Nowhere, Url
<1>3. LinkLeads(Nowhere)' /\ LinkLeads(url)'
  BY <1>1, <1>2 DEF LinkLeads, isSealed
<1>4. UNCHANGED items => QueueInv'
  BY <1>1 DEF QueueInv, Once, ItemRight, isSealed
<1>5. ASSUME runs' = [r \in 1..2 |-> Off], location' = url \/ location' = Nowhere
      PROVE  LoadInv'
  BY <1>1, <1>2, <1>3, <1>5 DEF LoadInv, KeyOnItsWay
<1>6. ASSUME NEW strict \in BOOLEAN, NEW c \in Capsules, isSealed(c),
             NEW byName \in BOOLEAN, NEW k \in BOOLEAN, NEW pc \in {"fetch", "info"},
             pc = "fetch" => byName, pc = "info" => k = url.k /\ ~byName,
             location' = url, runs' = both(strict, c, pc, byName, k)
      PROVE  LoadInv'
  <2> DEFINE run(cancelled) == start(c, pc, byName, k, cancelled)
  <2>1. \A b \in BOOLEAN :
          /\ run(b) \in Run /\ run(b).pc = pc /\ run(b).capsule = c
          /\ run(b).byName = byName /\ run(b).k = k
    BY DEF start, Run
  <2>2. /\ runs' \in [1..2 -> Run]
        /\ runs'[1] = run(strict)
        /\ runs'[2] = IF strict THEN run(FALSE) ELSE Off
    <3> DEFINE second == IF strict THEN run(FALSE) ELSE Off
    <3>1. runs' = [r \in 1..2 |-> IF r = 1 THEN run(strict) ELSE second]
      BY <1>6
    <3>2. run(strict) \in Run /\ second \in Run
      BY <1>2, <2>1
    <3> HIDE DEF run, second
    <3>3. runs' \in [1..2 -> Run] /\ runs'[1] = run(strict) /\ runs'[2] = second
      BY <3>1, <3>2
    <3> QED
      BY <3>3 DEF second
  <2> HIDE DEF run, both
  <2>3. /\ runs'[1].pc = pc /\ runs'[1].capsule = c /\ runs'[1].byName = byName
        /\ runs'[1].k = k
        /\ runs'[2].pc # "off" => /\ runs'[2].pc = pc /\ runs'[2].capsule = c
                                  /\ runs'[2].byName = byName /\ runs'[2].k = k
    BY <1>2, <1>6, <2>1, <2>2
  <2>4. isSealed(c)'
    BY <1>1, <1>6 DEF isSealed
  <2>5. \A r \in 1..2 : runs'[r].pc \in {"fetch", "info"} => isSealed(runs[r].capsule)'
    BY <2>3, <2>4 DEF isSealed
  <2>6. KeyOnItsWay'
    BY <1>1, <1>6, <2>3 DEF KeyOnItsWay
  <2> QED
    BY <1>1, <1>3, <1>6, <2>2, <2>5, <2>6 DEF LoadInv
<1>7. ASSUME NEW strict \in BOOLEAN, url.ens # None,
             runs' = both(strict, url.ens, "fetch", TRUE, FALSE),
             location' = url, UNCHANGED items
      PROVE  LoadInv' /\ QueueInv'
  BY <1>4, <1>6, <1>7 DEF LinkLeads, isSealed
<1>8. ASSUME NEW strict \in BOOLEAN, url.env # None,
             runs' = both(strict, url.env, "info", FALSE, url.k),
             location' = url, UNCHANGED items
      PROVE  LoadInv' /\ QueueInv'
  BY <1>1, <1>4, <1>6, <1>8 DEF LinkLeads, isSealed
<1>9. ASSUME url.env # None, runs' = [r \in 1..2 |-> Off], location' = cleared,
             items' = imported(items,
                        [finalised(start(url.env, "info", FALSE, url.k, FALSE))
                           EXCEPT !.owed = url.k])
      PROVE  LoadInv' /\ QueueInv'
  <2> DEFINE run == start(url.env, "info", FALSE, url.k, FALSE)
             made == finalised(run)
             item == [made EXCEPT !.owed = url.k]
  <2>1. run \in Run /\ run.capsule = url.env /\ run.k = url.k /\ isSealed(run.capsule)
    BY <1>1, <1>9 DEF start, Run, LinkLeads, isSealed
  <2>2. /\ made \in Item /\ made.capsule = run.capsule
        /\ made.unlock = sealed[run.capsule].unlock /\ made.key = run.k
    BY <2>1, Finalised DEF LoadInv
  <2> HIDE DEF made
  <2>3. /\ item \in Item /\ item.capsule = made.capsule /\ item.unlock = made.unlock
        /\ item.key = made.key /\ item.owed = url.k
    BY <1>1, <2>2 DEF Item
  <2>4. ItemRight(item)
    BY <2>1, <2>2, <2>3 DEF ItemRight
  <2>5. items' = imported(items, item)
    BY <1>9 DEF made
  <2> HIDE DEF item
  <2>6. QueueInv'
    BY <1>1, <2>3, <2>4, <2>5, QueueGrows
  <2> QED
    BY <1>5, <1>9, <2>6 DEF cleared
<1>10. ASSUME runs' = [r \in 1..2 |-> Off], location' = url, UNCHANGED items
       PROVE  LoadInv' /\ QueueInv'
  BY <1>4, <1>5, <1>10
<1> QED
  BY <1>1, <1>7, <1>8, <1>9, <1>10 DEF Load

(* The end of a run, with or without its item. *)
LEMMA RunEnds ==
  ASSUME LoadInv, NEW r \in 1..2, runs[r].pc \in {"fetch", "info"}, ends(r)
  PROVE  LoadInv' /\ UNCHANGED <<sealed, names>>
<1>1. /\ UNCHANGED <<sealed, names, carriesKey>> /\ location' = Nowhere
      /\ runs \in [1..2 -> Run]
      /\ runs' = [runs EXCEPT ![r].pc = "done"]
  BY DEF ends, cleared, LoadInv
<1> DEFINE run == [runs[r] EXCEPT !.pc = "done"]
<1>2. run \in Run /\ run.pc = "done"
  BY <1>1 DEF Run
<1>3. runs' = [runs EXCEPT ![r] = run]
  BY <1>1
<1> HIDE DEF run
<1>4. /\ runs' \in [1..2 -> Run] /\ runs'[r] = run
      /\ \A s \in (1..2) \ {r} : runs'[s] = runs[s]
  BY <1>1, <1>2, <1>3
<1>5. LinkLeads(location)'
  BY <1>1 DEF LinkLeads, Nowhere, Url
<1>6. \A s \in 1..2 : runs'[s].pc \in {"fetch", "info"} => isSealed(runs[s].capsule)'
  BY <1>1, <1>2, <1>4 DEF LoadInv, isSealed
<1>7. KeyOnItsWay'
  <2>1. \A s \in 1..2 : runs'[s] = runs[s] \/ (s = r /\ runs'[s].pc = "done")
    BY <1>2, <1>4
  <2>2. \A s \in 1..2 :
          /\ runs'[s].pc = "fetch" => runs'[s].byName
          /\ runs'[s].pc = "info" /\ ~runs'[s].byName /\ carriesKey' => runs'[s].k
    BY <1>1, <2>1 DEF LoadInv, KeyOnItsWay
  <2>3. runs'[2].pc = "off" => r = 1 /\ runs'[1].pc = "done"
    BY <1>2, <1>4
  <2> QED
    BY <2>2, <2>3 DEF KeyOnItsWay
<1> QED
  BY <1>1, <1>4, <1>5, <1>6, <1>7 DEF LoadInv

(* What a run makes of its capsule is right, however far it is. *)
LEMMA RunMakesItem ==
  ASSUME SealingInv, LoadInv, NEW r \in 1..2, NEW run \in Run,
         runs[r].pc \in {"fetch", "info"},
         run.capsule = runs[r].capsule, run.byName = runs[r].byName,
         run.k = IF runs[r].pc = "fetch" THEN location.k ELSE runs[r].k
  PROVE  finalised(run) \in Item /\ ItemRight(finalised(run))
<1>1. isSealed(run.capsule)
  BY DEF LoadInv
<1>2. carriesKey \in BOOLEAN
  BY DEF LoadInv
<1> DEFINE made == finalised(run)
<1>3. /\ made \in Item /\ made.capsule = run.capsule
      /\ made.unlock = sealed[run.capsule].unlock /\ made.key = run.k
      /\ made.owed <=> carriesKey /\ (run.byName => runs[2].pc = "off")
  BY <1>1, <1>2, Finalised
<1> HIDE DEF made
<1>4. ASSUME carriesKey, run.byName => runs[2].pc = "off"
      PROVE  run.k
  <2>1. CASE runs[r].byName
    <3>1. runs[2].pc = "off" /\ r = 1
      BY <1>4, <2>1
    <3> QED
      BY <1>4, <3>1 DEF LoadInv, KeyOnItsWay
  <2>2. CASE ~runs[r].byName
    BY <1>4, <2>2 DEF LoadInv, KeyOnItsWay
  <2> QED
    BY <2>1, <2>2
<1> QED
  BY <1>1, <1>3, <1>4 DEF ItemRight, made

LEMMA EffectSteps ==
  ASSUME SealingInv, LoadInv, QueueInv, NEW r \in 1..2,
         Fetched(r) \/ Informed(r) \/ Fails(r)
  PROVE  LoadInv' /\ QueueInv' /\ UNCHANGED <<sealed, names>>
<1>1. runs[r].pc \in {"fetch", "info"} /\ runs \in [1..2 -> Run] /\ runs[r] \in Run
  BY DEF Fetched, Informed, Fails, LoadInv
<1>2. ASSUME NEW run \in Run, conclude(r, run),
             run.capsule = runs[r].capsule, run.byName = runs[r].byName,
             run.k = IF runs[r].pc = "fetch" THEN location.k ELSE runs[r].k
      PROVE  LoadInv' /\ QueueInv' /\ UNCHANGED <<sealed, names>>
  <2>1. finalised(run) \in Item /\ ItemRight(finalised(run))
    BY <1>1, <1>2, RunMakesItem
  <2>2. ends(r) /\ items' \in {items, imported(items, finalised(run))}
    BY <1>2 DEF conclude
  <2>3. LoadInv' /\ UNCHANGED <<sealed, names>>
    BY <1>1, <2>2, RunEnds
  <2> QED
    BY <2>1, <2>2, <2>3, QueueGrows
<1>3. CASE Fetched(r)
  <2> DEFINE run == [runs[r] EXCEPT !.k = location.k]
             next == [run EXCEPT !.pc = "info"]
  <2>1. runs[r].pc = "fetch" /\ location.k \in BOOLEAN
    BY <1>3 DEF Fetched, LoadInv, LinkLeads, Url
  <2>2. /\ run \in Run /\ run.capsule = runs[r].capsule
        /\ run.byName = runs[r].byName /\ run.k = location.k
        /\ run.cancelled = runs[r].cancelled
    BY <1>1, <2>1 DEF Run
  <2>3. CASE conclude(r, run)
    <3> HIDE DEF run
    <3> QED
      BY <1>2, <2>1, <2>2, <2>3
  <2>4. CASE /\ runs' = [runs EXCEPT ![r] = next]
             /\ UNCHANGED <<sealed, names, location, carriesKey, items>>
    <3> HIDE DEF run
    <3>1. /\ next \in Run /\ next.pc = "info" /\ next.capsule = runs[r].capsule
          /\ next.byName = runs[r].byName /\ next.k = location.k
      BY <2>2 DEF Run
    <3> HIDE DEF next
    <3>2. /\ runs' \in [1..2 -> Run] /\ runs'[r] = next
          /\ \A s \in (1..2) \ {r} : runs'[s] = runs[s]
      BY <1>1, <2>4, <3>1
    <3>3. runs[r].byName
      BY <2>1 DEF LoadInv, KeyOnItsWay
    <3>4. \A s \in 1..2 : runs'[s].pc \in {"fetch", "info"} => isSealed(runs[s].capsule)'
      BY <2>1, <2>4, <3>1, <3>2 DEF LoadInv, isSealed
    <3>5. KeyOnItsWay'
      <4>1. \A s \in 1..2 :
              /\ runs'[s].pc = "fetch" => runs'[s].byName
              /\ runs'[s].pc = "info" /\ ~runs'[s].byName /\ carriesKey' => runs'[s].k
        BY <2>4, <3>1, <3>2, <3>3 DEF LoadInv, KeyOnItsWay
      <4>2. ASSUME runs'[2].pc = "off", carriesKey
            PROVE  r = 1 /\ runs'[1] = next /\ location.k
        BY <2>1, <3>1, <3>2, <4>2 DEF LoadInv, KeyOnItsWay
      <4> QED
        BY <2>4, <3>1, <4>1, <4>2 DEF KeyOnItsWay
    <3>6. LoadInv'
      BY <2>4, <3>2, <3>4, <3>5 DEF LoadInv, LinkLeads, isSealed
    <3> QED
      BY <2>4, <3>6 DEF QueueInv, Once, ItemRight, isSealed
  <2> QED
    BY <1>3, <2>3, <2>4 DEF Fetched, readKeyFragment
<1>4. CASE Informed(r)
  BY <1>1, <1>2, <1>4 DEF Informed
<1>5. CASE Fails(r)
  <2>1. ends(r) /\ UNCHANGED items
    BY <1>5 DEF Fails
  <2>2. LoadInv' /\ UNCHANGED <<sealed, names>>
    BY <1>1, <2>1, RunEnds
  <2> QED
    BY <2>1, <2>2 DEF QueueInv, Once, ItemRight, isSealed
<1> QED
  BY <1>3, <1>4, <1>5

LEMMA DeleteSteps ==
  ASSUME LoadInv, QueueInv, NEW i \in DOMAIN items, Delete(i)
  PROVE  LoadInv' /\ QueueInv' /\ UNCHANGED <<sealed, names>>
<1>1. /\ UNCHANGED <<sealed, names, location, carriesKey, runs>>
      /\ items' = RemoveAt(items, i)
  BY DEF Delete
<1>2. LoadInv'
  BY <1>1 DEF LoadInv, LinkLeads, KeyOnItsWay, isSealed
<1>3. /\ items' \in Seq(Item) /\ Once(items')
      /\ \A j \in DOMAIN items' : \E l \in DOMAIN items : items'[j] = items[l]
  BY <1>1, RemovedOnce DEF QueueInv
<1>4. \A j \in DOMAIN items' : ItemRight(items'[j])
  BY <1>3 DEF QueueInv
<1>5. QueueInv'
  BY <1>1, <1>3, <1>4 DEF QueueInv, Once, ItemRight, isSealed
<1> QED
  BY <1>1, <1>2, <1>5

-----------------------------------------------------------------------------
(* Whatever the capsules, the links and their order, the inductive          *)
(* invariant holds: capsules are sealed for their times and stay as they    *)
(* are, links lead to capsules that exist, and a key that was in the URL    *)
(* is in the URL, in the run or in the item.                                *)
THEOREM LinkInvariant == Spec => []LinkInv
<1>1. LinkInv /\ [Next]_vars => LinkInv'
  <2> SUFFICES ASSUME LinkInv, [Next]_vars PROVE LinkInv'
    OBVIOUS
  <2>1. SealingInv /\ LoadInv /\ QueueInv
    BY DEF LinkInv
  <2>2. CASE \/ \E c \in Capsules, time \in Times : Seal(c, time)
             \/ \E c \in Capsules : Publish(c)
             \/ UNCHANGED vars
    <3>1. UNCHANGED <<location, carriesKey, runs, items>>
      BY <2>2 DEF Seal, Publish, vars
    <3>2. /\ SealingInv'
          /\ \A c \in Capsules : isSealed(c) => isSealed(c)' /\ sealed'[c] = sealed[c]
      BY <2>1, <2>2, SealingSteps DEF vars
    <3> QED
      BY <2>1, <3>1, <3>2, ReceiverKept DEF LinkInv
  <2>3. CASE UNCHANGED <<sealed, names>> /\ LoadInv' /\ QueueInv'
    BY <2>1, <2>3, SealingSteps DEF LinkInv
  <2>4. ASSUME NEW url \in Links \cup {location}, Load(url)
        PROVE  UNCHANGED <<sealed, names>> /\ LoadInv' /\ QueueInv'
    <3>1. LinkLeads(url)
      BY <2>1, LinksLead DEF LoadInv
    <3> QED
      BY <2>1, <2>4, <3>1, LoadSteps
  <2>5. ASSUME NEW r \in 1..2, Fetched(r) \/ Informed(r) \/ Fails(r)
        PROVE  UNCHANGED <<sealed, names>> /\ LoadInv' /\ QueueInv'
    BY <2>1, <2>5, EffectSteps
  <2>6. ASSUME NEW i \in DOMAIN items, Delete(i)
        PROVE  UNCHANGED <<sealed, names>> /\ LoadInv' /\ QueueInv'
    BY <2>1, <2>6, DeleteSteps
  <2> QED
    BY <2>2, <2>3, <2>4, <2>5, <2>6 DEF Next, Open, Reload
<1> QED
  BY <1>1, LinkInitial, PTL DEF Spec

(* What the sealing page, the link and the queue hold is of its type, and   *)
(* only capsules that have been sealed are published (Load, Fetched,        *)
(* Informed).                                                               *)
THEOREM LinkTypeCorrect == Spec => []TypeOK
BY LinkInvariant, LinkInvImplies, PTL

(* However often its links are opened, and with the effect run twice, a     *)
(* capsule is in the queue once (findByEnvelope).                           *)
THEOREM LinkOneItemPerCapsule == Spec => []OneItemPerCapsule
BY LinkInvariant, LinkInvImplies, PTL

(* For every genesis, period, block and time asked for, the unlock time     *)
(* shown is the same on either page, not before the time asked for and less *)
(* than a period after it, and drand issues the round at most a period      *)
(* before the time asked for, but before it (roundAtTime, timeAtRound,      *)
(* estimateTargetSequence).                                                 *)
THEOREM LinkUnlocksWithinAPeriod == Spec => []UnlocksWithinAPeriod
BY LinkInvariant, LinkInvImplies, PTL

(* A key that was in the link is with the item, except where a run of the   *)
(* effect may strip it before the other reads it (readKeyFragment,          *)
(* clearFragment).                                                          *)
THEOREM LinkKeysArrive == Spec => []KeysArrive
BY LinkInvariant, LinkInvImplies, PTL

=============================================================================
