-------------------------- MODULE HistoryPanel_proofs --------------------------
(***************************************************************************)
(* Proofs about HistoryPanel and the publication under it, for any number  *)
(* of callers and of calls of loadHistory, any lengths of the records and  *)
(* any limits: types, that what is published fits and leaves out no more   *)
(* than it must, that an acknowledged publication is kept, that a read     *)
(* answers with no fewer events than it counts, and that the panel is up   *)
(* to date when nothing is being loaded.                                   *)
(***************************************************************************)
EXTENDS HistoryPanel, WellFoundedInduction, TLAPS

-----------------------------------------------------------------------------
(* The loop that cuts off the oldest records.                               *)

(* A nonempty set of numbers has a least one. *)
LEMMA LeastNumber ==
  ASSUME NEW S, S \subseteq Nat, S # {}
  PROVE  \E x \in S : \A y \in S : x <= y
<1>1. IsWellFoundedOn(OpToRel(<, Nat), Nat)
  BY NatLessThanWellFounded
<1>2. PICK x \in S : \A y \in S : ~(<<y, x>> \in OpToRel(<, Nat))
  BY <1>1, WFMin
<1>3. \A y \in S : ~(y < x)
  BY <1>2 DEF OpToRel
<1> QED
  BY <1>3

CutsOff(k, n) == size(k, n) > MaxLen /\ k < n

(* Where the loop stops if it is at record k: at the first record that is   *)
(* not cut off.                                                             *)
Stops(k, n) == {j \in k..n : ~CutsOff(j, n)}
firstStop(k, n) == CHOOSE j \in Stops(k, n) : \A i \in Stops(k, n) : j <= i

LEMMA FirstStop ==
  ASSUME NEW n \in Nat, NEW k \in 1..n
  PROVE  firstStop(k, n) = IF CutsOff(k, n) THEN firstStop(k + 1, n) ELSE k
<1>1. CASE CutsOff(k, n)
  <2>1. Stops(k, n) = Stops(k + 1, n)
    BY <1>1 DEF Stops
  <2> QED
    BY <1>1, <2>1 DEF firstStop
<1>2. CASE ~CutsOff(k, n)
  <2>1. k \in Stops(k, n) /\ \A i \in Stops(k, n) : k <= i /\ i \in Nat
    BY <1>2 DEF Stops
  <2>2. /\ firstStop(k, n) \in Stops(k, n)
        /\ \A i \in Stops(k, n) : firstStop(k, n) <= i
    BY <2>1 DEF firstStop
  <2>3. firstStop(k, n) <= k /\ k <= firstStop(k, n) /\ firstStop(k, n) \in Nat
    BY <2>1, <2>2
  <2> QED
    BY <1>2, <2>3
<1> QED
  BY <1>1, <1>2

(* What the loop leaves starts at or after the record it began with, and a  *)
(* record was cut off only because the rest did not fit with it.            *)
LEMMA SliceFacts ==
  ASSUME NEW n \in Nat, NEW from \in 1..n
  PROVE  /\ slice(from, n) \in from..n
         /\ slice(from, n) > from => size(slice(from, n) - 1, n) > MaxLen
<1> DEFINE Cut(g) == g = [k \in from..n |-> IF CutsOff(k, n) THEN g[k + 1] ELSE k]
           cut == CHOOSE g : Cut(g)
           f == [k \in from..n |-> firstStop(k, n)]
<1>1. slice(from, n) = cut[from]
  <2>1. slice(from, n) = IF n = 0 THEN from ELSE cut[from]
    BY DEF slice, CutsOff
  <2> QED
    BY <2>1
<1>2. Cut(f)
  <2>1. ASSUME NEW k \in from..n
        PROVE  f[k] = IF CutsOff(k, n) THEN f[k + 1] ELSE k
    <3>1. f[k] = IF CutsOff(k, n) THEN firstStop(k + 1, n) ELSE k
      BY FirstStop
    <3>2. CutsOff(k, n) => k + 1 \in from..n
      BY DEF CutsOff
    <3> QED
      BY <3>1, <3>2
  <2>2. f = [k \in from..n |-> f[k]]
    OBVIOUS
  <2> HIDE DEF f
  <2> QED
    BY <2>1, <2>2
<1>3. Cut(cut)
  BY <1>2
<1>4. \A k \in from..n : cut[k] = IF CutsOff(k, n) THEN cut[k + 1] ELSE k
  BY <1>3
<1> HIDE DEF cut
<1> DEFINE Good(k) == /\ cut[k] \in k..n
                      /\ cut[k] > k => size(cut[k] - 1, n) > MaxLen
           bad == {d \in 0..(n - from) : ~Good(n - d)}
<1>5. \A k \in from..n : Good(k)
  <2> SUFFICES ASSUME bad # {} PROVE FALSE
    <3>1. ASSUME NEW k \in from..n, bad = {}
          PROVE  Good(k)
      <4>1. n - k \in 0..(n - from) /\ n - (n - k) = k
        OBVIOUS
      <4> QED
        BY <3>1, <4>1
    <3> QED
      BY <3>1
  <2>1. PICK d \in bad : \A e \in bad : d <= e
    <3>1. bad \subseteq Nat
      OBVIOUS
    <3> HIDE DEF bad
    <3> QED
      BY <3>1, LeastNumber
  <2> DEFINE k == n - d
  <2>2. k \in from..n /\ ~Good(k) /\ d \in 0..(n - from)
    BY <2>1
  <2>3. CASE ~CutsOff(k, n)
    BY <1>4, <2>2, <2>3
  <2>4. CASE CutsOff(k, n)
    <3>1. k < n /\ size(k, n) > MaxLen /\ cut[k] = cut[k + 1]
      BY <1>4, <2>2, <2>4 DEF CutsOff
    <3>2. d - 1 \in 0..(n - from) /\ n - (d - 1) = k + 1
      BY <2>2, <3>1
    <3>3. Good(k + 1)
      BY <2>1, <3>2
    <3>4. (k + 1) - 1 = k
      BY <2>2
    <3> QED
      BY <2>2, <3>1, <3>3, <3>4
  <2> QED
    BY <2>3, <2>4
<1>6. Good(from)
  BY <1>5
<1> QED
  BY <1>1, <1>6

-----------------------------------------------------------------------------
(* What is sent to NameStone, under way there or held by it.                *)

Fits(b) ==
  /\ b.first <= b.total \/ b.total = 0
  /\ b.total <= history
  /\ size(b.first, b.total) <= MaxLen
  /\ b.label = defaultSub.last => b.first = b.total
  /\ b.label = defaultSub.full /\ b.first > 1 =>
       \/ b.total - b.first + 1 = MaxEntries
       \/ size(b.first - 1, b.total) > MaxLen

WritesFit ==
  /\ \A r \in Requests : body[r] # Nothing => Fits(body[r])
  /\ \A b \in late : Fits(b)
  /\ \A l \in Labels : row[l] # Nothing => row[l].label = l /\ Fits(row[l])

(* While a name is not tangled at most one write to it is under way, which  *)
(* does not take back what the name holds; so what was applied stays.       *)
Sent(r, l) == stage[r] = "sent" /\ body[r].label = l

Kept(l) ==
  /\ \A r, q \in Requests : Sent(r, l) /\ Sent(q, l) => r = q
  /\ \A b, c \in late : b.label = l /\ c.label = l => b = c
  /\ \A r \in Requests, b \in late : Sent(r, l) => b.label # l
  /\ \A r \in Requests : Sent(r, l) => total(l) <= body[r].total
  /\ \A b \in late : b.label = l => total(l) <= b.total
  /\ \A r \in Requests : stage[r] = "applied" /\ body[r].label = l =>
       body[r].total <= total(l)
  /\ acked[l] <= total(l)

UntangledAreKept == \A l \in Labels \ tangled : Kept(l)

(* The events read so far are held by the name still. *)
ReadIsBehind ==
  /\ read.step # 0 => read.label \in Labels
  /\ read.step \in 1..2 => read.source = "ens" /\ read.total = 0
  /\ read.step = 1 => read.history = 0
  /\ read.step = 2 /\ read.label \notin tangled => read.history <= total(read.label)

ServerInv ==
  /\ TypeOK
  /\ WritesFit
  /\ UntangledAreKept
  /\ ReadIsBehind
  /\ ReadsAgree

(* Every step of the relayer, NameStone and its callers. *)
AnyServerStep ==
  \/ ServerNext
  \/ \E r \in Requests, s \in Scopes : Publish(r, s)
  \/ \E r \in Requests : Answered(r)
  \/ UNCHANGED vars

(* The names that stay untangled lose nothing. *)
RowsGrow ==
  /\ tangled \subseteq tangled'
  /\ \A l \in Labels \ tangled' : total(l) <= total(l)'

LEMMA Names ==
  /\ Scopes = {"full", "last"}
  /\ Labels = {"oracle-validation", "oracle-validation-last"}
  /\ defaultSub["full"] = "oracle-validation"
  /\ defaultSub["last"] = "oracle-validation-last"
  /\ defaultSub.full = "oracle-validation"
  /\ defaultSub.last = "oracle-validation-last"
<1>1. Scopes = {"full", "last"}
  BY DEF Scopes, defaultSub
<1> QED
  BY <1>1 DEF Labels, defaultSub

LEMMA TotalType ==
  ASSUME TypeOK, NEW l \in Labels
  PROVE  total(l) \in 0..MaxRecords
BY PublishAssumption DEF TypeOK, total, Body

(* What a publication sends is a row that fits, up to the newest record.    *)
LEMMA PublishFacts ==
  ASSUME TypeOK, NEW r \in Requests, NEW scope \in Scopes, Publish(r, scope)
  PROVE  /\ stage[r] = "idle"
         /\ UNCHANGED <<history, late, row, read, acked>>
         /\ \/ /\ stage' = [stage EXCEPT ![r] = "thrown"]
               /\ UNCHANGED <<body, tangled>>
            \/ \E b \in Body :
                 /\ Fits(b) /\ b.total = history
                 /\ stage' = [stage EXCEPT ![r] = "sent"]
                 /\ body' = [body EXCEPT ![r] = b]
                 /\ tangled' = IF underWay(b.label) THEN tangled \cup {b.label}
                               ELSE tangled
<1> DEFINE label == defaultSub[scope]
           wanted == IF scope = "last" THEN 1 ELSE MaxEntries
           from == IF history <= wanted THEN 1 ELSE history - wanted + 1
           first == slice(from, history)
           b == [label |-> label, first |-> first, total |-> history]
<1>1. /\ stage[r] = "idle"
      /\ UNCHANGED <<history, late, row, read, acked>>
      /\ \/ /\ stage' = [stage EXCEPT ![r] = "thrown"]
            /\ UNCHANGED <<body, tangled>>
         \/ /\ scope = "last" => history > 0
            /\ size(first, history) <= MaxLen
            /\ stage' = [stage EXCEPT ![r] = "sent"]
            /\ body' = [body EXCEPT ![r] = b]
            /\ tangled' = IF underWay(label) THEN tangled \cup {label} ELSE tangled
  BY DEF Publish
<1>2. SUFFICES ASSUME scope = "last" => history > 0, size(first, history) <= MaxLen
               PROVE  b \in Body /\ Fits(b) /\ b.total = history /\ b.label = label
  BY <1>1
<1>3. /\ MaxRecords \in Nat \ {0} /\ MaxEntries \in Nat \ {0}
      /\ history \in 0..MaxRecords
  BY PublishAssumption DEF TypeOK
<1>4. /\ label \in Labels
      /\ label = defaultSub.last <=> scope = "last"
      /\ label = defaultSub.full <=> scope = "full"
  BY Names
<1>5. wanted \in Nat \ {0}
  BY <1>3
<1>6. from \in Nat /\ from >= 1 /\ (history > 0 => from \in 1..history)
  BY <1>3, <1>5
<1>7. from > 1 => history - from + 1 = wanted
  BY <1>3, <1>5
<1>8. scope = "last" => from = history
  BY <1>2, <1>3
<1>9. scope = "full" => wanted = MaxEntries
  OBVIOUS
<1> HIDE DEF label, wanted, from
<1>10. CASE history = 0
  <2>1. first = from /\ from = 1
    BY <1>3, <1>5, <1>10 DEF slice, from
  <2> QED
    BY <1>2, <1>3, <1>4, <1>10, <2>1 DEF Body, Fits
<1>11. CASE history > 0
  <2>1. /\ first \in from..history
        /\ first > from => size(first - 1, history) > MaxLen
    BY <1>3, <1>6, <1>11, SliceFacts
  <2> HIDE DEF first
  <2>2. b \in Body /\ b.total = history /\ b.label = label /\ b.first = first
    BY <1>3, <1>4, <1>6, <1>11, <2>1 DEF Body
  <2>3. b.label = defaultSub.last => b.first = b.total
    BY <1>3, <1>4, <1>6, <1>8, <1>11, <2>1, <2>2
  <2>4. ASSUME b.label = defaultSub.full, b.first > 1
        PROVE  \/ b.total - b.first + 1 = MaxEntries
               \/ size(b.first - 1, b.total) > MaxLen
    <3>1. CASE first = from
      BY <1>4, <1>7, <1>9, <2>2, <2>4, <3>1
    <3>2. CASE first > from
      BY <2>1, <2>2, <3>2
    <3> QED
      BY <1>3, <1>6, <1>11, <2>1, <3>1, <3>2
  <2> QED
    BY <1>2, <1>3, <1>6, <1>11, <2>1, <2>2, <2>3, <2>4 DEF Fits
<1> QED
  BY <1>3, <1>10, <1>11

-----------------------------------------------------------------------------
(* The steps that write nothing to NameStone and start no publication.      *)

(* A record that is added makes no row wrong. *)
LEMMA FitsLater ==
  ASSUME TypeOK, history' \in Nat, history <= history', NEW b \in Body, Fits(b)
  PROVE  Fits(b)'
<1>1. b.total \in Nat /\ history \in Nat
  BY PublishAssumption DEF Body, TypeOK
<1> QED
  BY <1>1 DEF Fits

LEMMA AppendKeeps ==
  ASSUME ServerInv, Append
  PROVE  ServerInv' /\ RowsGrow
<1>1. /\ history' = history + 1 /\ history \in 0..MaxRecords /\ history < MaxRecords
      /\ UNCHANGED <<stage, body, late, tangled, acked, row, read>>
  BY DEF Append, publishing, ServerInv, TypeOK
<1>2. history' \in 0..MaxRecords /\ history' \in Nat /\ history <= history'
  BY <1>1, PublishAssumption
<1>3. TypeOK'
  BY <1>1, <1>2 DEF ServerInv, TypeOK
<1>4. WritesFit'
  <2>1. \A b \in Body : Fits(b) => Fits(b)'
    BY <1>2, FitsLater DEF ServerInv
  <2>2. /\ \A r \in Requests : body[r] # Nothing => body[r] \in Body
        /\ \A b \in late : b \in Body
        /\ \A l \in Labels : row[l] # Nothing => row[l] \in Body
    BY DEF ServerInv, TypeOK
  <2> QED
    BY <1>1, <2>1, <2>2 DEF ServerInv, WritesFit, Fits
<1>5. UntangledAreKept'
  BY <1>1 DEF ServerInv, UntangledAreKept, Kept, Sent, total
<1>6. RowsGrow
  BY <1>1, TotalType DEF ServerInv, RowsGrow, total
<1>7. ReadIsBehind' /\ ReadsAgree'
  BY <1>1 DEF ServerInv, ReadIsBehind, ReadsAgree, total
<1> QED
  BY <1>3, <1>4, <1>5, <1>6, <1>7 DEF ServerInv

(* The read route: it changes nothing but its own progress. *)
ReadStep ==
  \/ ReadKey \/ ProviderFails \/ ReadDone
  \/ \E l \in Labels : ReadNameStone(l) \/ ReadFallsBack(l)

ReadType == [step : 0..3, label : Labels \cup {Nothing},
             history : 0..MaxRecords, total : 0..MaxRecords,
             source : {"none", "namestone", "ens"}]

ReadOk == read \in ReadType /\ ReadIsBehind /\ ReadsAgree

LEMMA ReadStepOk ==
  ASSUME ServerInv, ReadStep
  PROVE  ReadOk'
<1>1. /\ UNCHANGED <<history, stage, body, late, tangled, acked, row>>
      /\ read \in ReadType /\ MaxRecords \in Nat /\ ReadIsBehind
  BY PublishAssumption
  DEF ServerInv, TypeOK, ReadType, ReadStep, ReadKey, ProviderFails, ReadDone,
      ReadNameStone, ReadFallsBack, readKeeps, publishing
<1>2. \A l \in Labels : total(l)' = total(l) /\ total(l) \in 0..MaxRecords
  BY <1>1, TotalType DEF ServerInv, total
<1>3. ASSUME NEW new \in ReadType, read' = new, new.step = 0
      PROVE  ReadOk'
  BY <1>3 DEF ReadOk, ReadIsBehind, ReadsAgree
<1>4. CASE ProviderFails \/ ReadDone
  <2>1. read' = NotReading
    BY <1>4 DEF ProviderFails, ReadDone
  <2>2. NotReading \in ReadType /\ NotReading.step = 0
    BY <1>1 DEF NotReading, ReadType
  <2> QED
    BY <1>3, <2>1, <2>2
<1>5. ASSUME NEW l \in Labels, ReadNameStone(l)
      PROVE  ReadOk'
  <2>1. read' = [step |-> 3, label |-> l, history |-> total(l),
                 total |-> total(l), source |-> "namestone"]
    BY <1>5 DEF ReadNameStone
  <2> QED
    BY <1>1, <1>2, <2>1 DEF ReadOk, ReadType, ReadIsBehind, ReadsAgree
<1>6. ASSUME NEW l \in Labels, ReadFallsBack(l)
      PROVE  ReadOk'
  <2>1. read' = [step |-> 1, label |-> l, history |-> 0, total |-> 0,
                 source |-> "ens"]
    BY <1>6 DEF ReadFallsBack, NotReading
  <2> QED
    BY <1>1, <2>1 DEF ReadOk, ReadType, ReadIsBehind, ReadsAgree
<1>7. CASE ReadKey
  <2>0. read.step \in 1..2
    BY <1>7 DEF ReadKey
  <2>1. read.step = 1 \/ read.step = 2
    BY <2>0
  <2>2. read.label \in Labels /\ read.source = "ens" /\ read.total = 0
    BY <1>1, <2>0 DEF ReadIsBehind
  <2>3. PICK l \in Labels : l = read.label
    BY <2>2
  <2>4. \/ read' = [read EXCEPT ![keys[read.step]] = total(l), !.step = @ + 1]
        \/ read' = [read EXCEPT !.step = @ + 1]
    BY <1>7, <2>3 DEF ReadKey
  <2>5. CASE read.step = 1
    <3>1. keys[read.step] = "history" /\ read.history = 0
      BY <1>1, <2>5 DEF keys, ReadIsBehind
    <3>2. PICK q \in {read, [read EXCEPT !["history"] = total(l)]} :
            read' = [q EXCEPT !.step = @ + 1]
      BY <2>4, <3>1
    <3>3. /\ q \in ReadType /\ q.step = 1 /\ q.label = l /\ q.source = "ens"
          /\ q.total = 0 /\ q.history \in {0, total(l)}
      BY <1>1, <1>2, <2>2, <2>3, <2>5, <3>1 DEF ReadType
    <3>4. /\ read'.step = 2 /\ read'.label = l /\ read'.source = "ens"
          /\ read'.total = 0 /\ read'.history \in {0, total(l)}
          /\ read' \in ReadType
      BY <3>2, <3>3 DEF ReadType
    <3>5. read'.history <= total(l)
      BY <1>1, <1>2, <3>4
    <3>6. total(read.label)' = total(l)
      BY <1>1, <3>4 DEF total
    <3> QED
      BY <3>4, <3>5, <3>6 DEF ReadOk, ReadIsBehind, ReadsAgree
  <2>6. CASE read.step = 2
    <3>1. keys[read.step] = "total"
      BY <2>6 DEF keys
    <3>2. PICK q \in {read, [read EXCEPT !["total"] = total(l)]} :
            read' = [q EXCEPT !.step = @ + 1]
      BY <2>4, <3>1
    <3>3. /\ q \in ReadType /\ q.step = 2 /\ q.label = l /\ q.source = "ens"
          /\ q.total \in {0, total(l)} /\ q.history = read.history
      BY <1>1, <1>2, <2>2, <2>3, <2>6 DEF ReadType
    <3>4. /\ read'.step = 3 /\ read'.label = l /\ read'.source = "ens"
          /\ read'.total \in {0, total(l)} /\ read'.history = read.history
          /\ read' \in ReadType
      BY <3>2, <3>3 DEF ReadType
    <3>5. l \notin tangled => read.history <= total(l)
      BY <1>1, <2>3, <2>6 DEF ReadIsBehind
    <3> QED
      BY <1>1, <3>4, <3>5 DEF ReadOk, ReadIsBehind, ReadsAgree
  <2> QED
    BY <2>1, <2>5, <2>6
<1> QED
  BY <1>4, <1>5, <1>6, <1>7 DEF ReadStep

LEMMA ReadStepKeeps ==
  ASSUME ServerInv, ReadStep \/ UNCHANGED vars
  PROVE  ServerInv' /\ RowsGrow
<1>1. UNCHANGED <<history, stage, body, late, tangled, acked, row>>
  BY DEF ReadStep, ReadKey, ProviderFails, ReadDone, ReadNameStone, ReadFallsBack,
         readKeeps, publishing, vars
<1>2. ReadOk'
  <2>1. CASE UNCHANGED vars
    BY <2>1 DEF vars, publishing, ServerInv, TypeOK, ReadOk, ReadType, ReadIsBehind,
                ReadsAgree, total
  <2> QED
    BY <2>1, ReadStepOk
<1>3. TypeOK'
  BY <1>1, <1>2 DEF ReadOk, ReadType, ServerInv, TypeOK
<1>4. WritesFit' /\ UntangledAreKept'
  BY <1>1 DEF ServerInv, WritesFit, Fits, UntangledAreKept, Kept, Sent, total
<1>5. RowsGrow
  BY <1>1, TotalType, PublishAssumption DEF ServerInv, RowsGrow, total
<1> QED
  BY <1>2, <1>3, <1>4, <1>5 DEF ReadOk, ServerInv

(* What a step of the publications leaves of the read. *)
LEMMA ReadKeeps ==
  ASSUME ServerInv, RowsGrow, TypeOK', UNCHANGED read
  PROVE  ReadIsBehind' /\ ReadsAgree'
<1>1. /\ read.step # 0 => read.label \in Labels
      /\ read.history \in Nat /\ read.step \in 0..3
  BY PublishAssumption DEF ServerInv, TypeOK, ReadIsBehind
<1>2. \A l \in Labels : total(l) \in Nat /\ total(l)' \in Nat
  <2>1. \A l \in Labels : total(l) \in 0..MaxRecords
    BY TotalType DEF ServerInv
  <2>2. \A l \in Labels : total(l)' \in 0..MaxRecords
    BY TotalType, PublishAssumption DEF TypeOK, total, Body
  <2> QED
    BY <2>1, <2>2, PublishAssumption
<1> QED
  BY <1>1, <1>2 DEF ServerInv, ReadIsBehind, ReadsAgree, RowsGrow

-----------------------------------------------------------------------------
(* The steps of the publications. *)

LEMMA KeptTypes ==
  ASSUME ServerInv
  PROVE  /\ MaxRecords \in Nat
         /\ \A l \in Labels : total(l) \in Nat /\ acked[l] \in Nat
         /\ \A r \in Requests : stage[r] \in {"sent", "applied", "success"} =>
              /\ body[r] \in Body /\ body[r].label \in Labels
              /\ body[r].total \in Nat
         /\ \A b \in late : b \in Body /\ b.label \in Labels /\ b.total \in Nat
         /\ history \in Nat
         /\ \A l \in Labels : total(l) <= history
<1>1. MaxRecords \in Nat /\ TypeOK /\ WritesFit
  BY PublishAssumption DEF ServerInv
<1>2. ASSUME NEW b \in Body
      PROVE  b.label \in Labels /\ b.total \in Nat
  BY <1>1 DEF Body
<1>3. ASSUME NEW l \in Labels
      PROVE  total(l) \in Nat /\ acked[l] \in Nat /\ total(l) <= history
  <2>1. total(l) \in Nat /\ acked[l] \in Nat /\ history \in Nat
    BY <1>1, TotalType DEF TypeOK
  <2>2. total(l) <= history
    BY <1>1, <2>1 DEF total, WritesFit, Fits
  <2> QED
    BY <2>1, <2>2
<1>4. /\ \A r \in Requests : stage[r] \in {"sent", "applied", "success"} =>
           body[r] \in Body
      /\ \A b \in late : b \in Body
      /\ history \in Nat
  BY <1>1 DEF TypeOK
<1> QED
  BY <1>1, <1>2, <1>3, <1>4

LEMMA PublishKeeps ==
  ASSUME ServerInv, NEW r \in Requests, NEW scope \in Scopes, Publish(r, scope)
  PROVE  ServerInv' /\ RowsGrow
<1>1. /\ stage[r] = "idle"
      /\ UNCHANGED <<history, late, row, read, acked>>
  BY PublishFacts DEF ServerInv
<1>2. /\ stage \in [Requests ->
                     {"idle", "sent", "applied", "thrown", "success", "failure"}]
      /\ body \in [Requests -> Body \cup {Nothing}] /\ tangled \subseteq Labels
  BY DEF ServerInv, TypeOK
<1>3. \A l \in Labels : total(l)' = total(l)
  BY <1>1 DEF total
<1>4. CASE /\ stage' = [stage EXCEPT ![r] = "thrown"]
           /\ UNCHANGED <<body, tangled>>
  <2>1. TypeOK'
    BY <1>1, <1>2, <1>4 DEF ServerInv, TypeOK
  <2>2. WritesFit'
    BY <1>1, <1>4 DEF ServerInv, WritesFit, Fits
  <2>3. \A q \in Requests, l \in Labels : Sent(q, l)' => Sent(q, l)
    BY <1>2, <1>4 DEF Sent
  <2>4. \A q \in Requests : stage'[q] = "applied" => stage[q] = "applied"
    BY <1>2, <1>4
  <2>5. UntangledAreKept'
    BY <1>1, <1>3, <1>4, <2>3, <2>4 DEF ServerInv, UntangledAreKept, Kept
  <2>6. RowsGrow
    BY <1>3, <1>4, KeptTypes DEF RowsGrow
  <2> QED
    BY <1>1, <2>1, <2>2, <2>5, <2>6, ReadKeeps DEF ServerInv
<1>5. ASSUME NEW b \in Body, Fits(b), b.total = history,
             stage' = [stage EXCEPT ![r] = "sent"],
             body' = [body EXCEPT ![r] = b],
             tangled' = IF underWay(b.label) THEN tangled \cup {b.label} ELSE tangled
      PROVE  ServerInv' /\ RowsGrow
  <2>1. /\ stage'[r] = "sent" /\ body'[r] = b /\ b.label \in Labels
        /\ \A q \in Requests \ {r} : stage'[q] = stage[q] /\ body'[q] = body[q]
    BY <1>2, <1>5 DEF Body
  <2>2. tangled \subseteq tangled' /\ tangled' \subseteq Labels
    BY <1>2, <1>5, <2>1
  <2>3. TypeOK'
    <3>1. /\ stage' \in [Requests ->
                     {"idle", "sent", "applied", "thrown", "success", "failure"}]
          /\ body' \in [Requests -> Body \cup {Nothing}]
      BY <1>2, <1>5
    <3>2. \A q \in Requests :
            stage'[q] \in {"sent", "applied", "success"} => body'[q] # Nothing
      BY <2>1, PublishAssumption DEF ServerInv, TypeOK
    <3> QED
      BY <1>1, <2>2, <3>1, <3>2 DEF ServerInv, TypeOK
  <2>4. WritesFit'
    <3>1. ASSUME NEW q \in Requests, body'[q] # Nothing
          PROVE  Fits(body[q])'
      <4>1. Fits(body'[q])
        BY <1>5, <2>1, <3>1 DEF ServerInv, WritesFit
      <4> QED
        BY <1>1, <4>1 DEF Fits
    <3> QED
      BY <1>1, <3>1 DEF ServerInv, WritesFit, Fits
  <2>5. ASSUME NEW l \in Labels \ tangled'
        PROVE  Kept(l)'
    <3>1. Kept(l)
      BY <2>2 DEF ServerInv, UntangledAreKept
    <3>2. total(l)' = total(l) /\ total(l) <= history
      BY <1>3, KeptTypes
    <3>3. \A q \in Requests : q # r => (Sent(q, l)' <=> Sent(q, l))
      BY <2>1 DEF Sent
    <3>4. \A q \in Requests : stage'[q] = "applied" => q # r /\ stage[q] = "applied"
      BY <2>1
    <3>5. CASE b.label # l
      <4>1. ~Sent(r, l)'
        BY <2>1, <3>5 DEF Sent
      <4> QED
        BY <1>1, <2>1, <3>1, <3>2, <3>3, <3>4, <4>1 DEF Kept
    <3>6. CASE b.label = l
      <4>1. ~underWay(l)
        BY <1>5, <3>6
      <4>2. /\ \A q \in Requests : ~Sent(q, l)
            /\ \A c \in late : c.label # l
        BY <4>1 DEF underWay, Sent
      <4> QED
        BY <1>1, <1>5, <2>1, <3>1, <3>2, <3>3, <3>4, <4>2 DEF Kept
    <3> QED
      BY <3>5, <3>6
  <2>6. RowsGrow
    BY <1>3, <2>2, KeptTypes DEF RowsGrow
  <2> QED
    BY <1>1, <2>3, <2>4, <2>5, <2>6, ReadKeeps DEF ServerInv, UntangledAreKept
<1> QED
  BY <1>4, <1>5, PublishFacts DEF ServerInv

(* NameStone executes a write that is under way, of a caller who waits or   *)
(* has given up.                                                            *)
Executes(b) ==
  /\ b \in Body /\ Fits(b)
  /\ row' = [row EXCEPT ![b.label] = b]
  /\ UNCHANGED <<history, body, read, tangled, acked>>

LEMMA RowFacts ==
  ASSUME ServerInv, NEW b, Executes(b)
  PROVE  /\ row' \in [Labels -> Body \cup {Nothing}]
         /\ total(b.label)' = b.total
         /\ \A l \in Labels : l # b.label => total(l)' = total(l)
         /\ \A l \in Labels : row'[l] # Nothing => row'[l].label = l /\ Fits(row'[l])
<1>1. /\ row \in [Labels -> Body \cup {Nothing}] /\ b.label \in Labels
      /\ b \in Body /\ b # Nothing
      /\ row' = [row EXCEPT ![b.label] = b]
  BY PublishAssumption DEF ServerInv, TypeOK, Executes, Body
<1>2. row'[b.label] = b /\ \A l \in Labels : l # b.label => row'[l] = row[l]
  BY <1>1
<1>3. /\ total(b.label)' = b.total
      /\ \A l \in Labels : l # b.label => total(l)' = total(l)
  BY <1>1, <1>2 DEF total
<1>4. \A l \in Labels : row'[l] # Nothing => row'[l].label = l /\ Fits(row'[l])
  BY <1>2 DEF ServerInv, WritesFit, Executes
<1> QED
  BY <1>1, <1>3, <1>4

LEMMA ApplyKeeps ==
  ASSUME ServerInv, NEW r \in Requests, Apply(r)
  PROVE  ServerInv' /\ RowsGrow
<1>1. /\ stage[r] = "sent" /\ stage' = [stage EXCEPT ![r] = "applied"]
      /\ row' = [row EXCEPT ![body[r].label] = body[r]]
      /\ UNCHANGED <<history, body, late, read, tangled, acked>>
  BY DEF Apply
<1>2. PICK b \in Body : b = body[r] /\ Fits(b)
  BY <1>1, KeptTypes DEF ServerInv, WritesFit, TypeOK
<1>3. Executes(b)
  BY <1>1, <1>2 DEF Executes
<1>4. /\ row' \in [Labels -> Body \cup {Nothing}]
      /\ total(b.label)' = b.total
      /\ \A l \in Labels : l # b.label => total(l)' = total(l)
      /\ \A l \in Labels : row'[l] # Nothing => row'[l].label = l /\ Fits(row'[l])
  BY <1>3, RowFacts
<1>5. /\ stage \in [Requests ->
                     {"idle", "sent", "applied", "thrown", "success", "failure"}]
      /\ stage'[r] = "applied" /\ \A q \in Requests : q # r => stage'[q] = stage[q]
  BY <1>1 DEF ServerInv, TypeOK
<1>6. TypeOK'
  BY <1>1, <1>4, <1>5 DEF ServerInv, TypeOK
<1>7. WritesFit'
  BY <1>1, <1>4 DEF ServerInv, WritesFit, Fits
<1>8. ASSUME NEW l \in Labels \ tangled
      PROVE  Kept(l)' /\ total(l) <= total(l)'
  <2>1. Kept(l) /\ total(l) \in Nat
    BY KeptTypes DEF ServerInv, UntangledAreKept
  <2>2. \A q \in Requests : Sent(q, l)' <=> Sent(q, l) /\ q # r
    BY <1>1, <1>5 DEF Sent
  <2>3. CASE l # b.label
    <3>1. total(l)' = total(l)
      BY <1>4, <2>3
    <3>2. \A q \in Requests : stage'[q] = "applied" /\ body[q].label = l =>
            stage[q] = "applied"
      BY <1>2, <1>5, <2>3
    <3> QED
      BY <1>1, <2>1, <2>2, <3>1, <3>2 DEF Kept
  <2>4. CASE l = b.label
    <3>1. Sent(r, l) /\ total(l)' = body[r].total /\ total(l) <= body[r].total
      BY <1>1, <1>2, <1>4, <2>1, <2>4 DEF Sent, Kept
    <3>2. /\ \A q \in Requests : ~Sent(q, l)'
          /\ \A c \in late : c.label # l
      BY <2>1, <2>2, <3>1 DEF Kept
    <3>3. body[r].total \in Nat /\ acked[l] \in Nat
      BY <1>1, KeptTypes
    <3>4. ASSUME NEW q \in Requests, stage'[q] = "applied", body[q].label = l
          PROVE  body[q].total <= body[r].total
      <4>1. CASE q = r
        BY <3>3, <4>1
      <4>2. CASE q # r
        <5>1. stage[q] = "applied"
          BY <1>5, <3>4, <4>2
        <5>2. body[q].total <= total(l) /\ body[q].total \in Nat
          BY <2>1, <3>4, <5>1, KeptTypes DEF Kept
        <5> QED
          BY <2>1, <3>1, <3>3, <5>2
      <4> QED
        BY <4>1, <4>2
    <3>5. acked[l] <= body[r].total
      BY <2>1, <3>1, <3>3 DEF Kept
    <3> QED
      BY <1>1, <3>1, <3>2, <3>4, <3>5 DEF Kept
  <2> QED
    BY <2>3, <2>4
<1>9. RowsGrow /\ UntangledAreKept'
  BY <1>1, <1>8 DEF RowsGrow, UntangledAreKept
<1> QED
  BY <1>1, <1>6, <1>7, <1>9, ReadKeeps DEF ServerInv

LEMMA ApplyLateKeeps ==
  ASSUME ServerInv, NEW b \in late, ApplyLate(b)
  PROVE  ServerInv' /\ RowsGrow
<1>1. /\ row' = [row EXCEPT ![b.label] = b] /\ late' = late \ {b}
      /\ UNCHANGED <<history, stage, body, read, tangled, acked>>
  BY DEF ApplyLate
<1>2. b \in Body /\ Fits(b) /\ b.label \in Labels /\ b.total \in Nat
  BY KeptTypes DEF ServerInv, WritesFit
<1>3. Executes(b)
  BY <1>1, <1>2 DEF Executes
<1>4. /\ row' \in [Labels -> Body \cup {Nothing}]
      /\ total(b.label)' = b.total
      /\ \A l \in Labels : l # b.label => total(l)' = total(l)
      /\ \A l \in Labels : row'[l] # Nothing => row'[l].label = l /\ Fits(row'[l])
  BY <1>3, RowFacts
<1>5. TypeOK'
  BY <1>1, <1>4 DEF ServerInv, TypeOK
<1>6. WritesFit'
  BY <1>1, <1>4 DEF ServerInv, WritesFit, Fits
<1>7. ASSUME NEW l \in Labels \ tangled
      PROVE  Kept(l)' /\ total(l) <= total(l)'
  <2>1. Kept(l) /\ total(l) \in Nat /\ acked[l] \in Nat
    BY KeptTypes DEF ServerInv, UntangledAreKept
  <2>2. \A q \in Requests : Sent(q, l)' <=> Sent(q, l)
    BY <1>1 DEF Sent
  <2>3. CASE l # b.label
    <3>1. total(l)' = total(l)
      BY <1>4, <2>3
    <3> QED
      BY <1>1, <2>1, <2>2, <3>1 DEF Kept
  <2>4. CASE l = b.label
    <3>1. total(l)' = b.total /\ total(l) <= b.total
      BY <1>4, <2>1, <2>4 DEF Kept
    <3>2. /\ \A q \in Requests : ~Sent(q, l)'
          /\ \A c \in late' : c.label # l
      BY <1>1, <2>1, <2>2, <2>4 DEF Kept
    <3>3. ASSUME NEW q \in Requests, stage[q] = "applied", body[q].label = l
          PROVE  body[q].total <= b.total
      <4>1. body[q].total <= total(l) /\ body[q].total \in Nat
        BY <2>1, <3>3, KeptTypes DEF Kept
      <4> QED
        BY <1>2, <2>1, <3>1, <4>1
    <3>4. acked[l] <= b.total
      BY <1>2, <2>1, <3>1 DEF Kept
    <3> QED
      BY <1>1, <3>1, <3>2, <3>3, <3>4 DEF Kept
  <2> QED
    BY <2>3, <2>4
<1>8. RowsGrow /\ UntangledAreKept'
  BY <1>1, <1>7 DEF RowsGrow, UntangledAreKept
<1> QED
  BY <1>1, <1>5, <1>6, <1>8, ReadKeeps DEF ServerInv

(* A success reports what was applied. *)
LEMMA SucceedKeeps ==
  ASSUME ServerInv, NEW r \in Requests, Succeed(r)
  PROVE  ServerInv' /\ RowsGrow
<1> DEFINE m == body[r].label
           larger == IF acked[m] < body[r].total THEN body[r].total ELSE acked[m]
<1>1. /\ stage[r] = "applied" /\ stage' = [stage EXCEPT ![r] = "success"]
      /\ acked' = [acked EXCEPT ![m] = larger]
      /\ UNCHANGED <<history, body, late, row, read, tangled>>
  BY DEF Succeed, succeed
<1>2. /\ m \in Labels /\ body[r].total \in 0..MaxRecords
      /\ acked \in [Labels -> 0..MaxRecords]
      /\ stage \in [Requests ->
                     {"idle", "sent", "applied", "thrown", "success", "failure"}]
  BY <1>1 DEF ServerInv, TypeOK, Body
<1> HIDE DEF m
<1>3. larger \in 0..MaxRecords
  BY <1>2
<1>4. TypeOK'
  BY <1>1, <1>2, <1>3 DEF ServerInv, TypeOK
<1>5. WritesFit'
  BY <1>1 DEF ServerInv, WritesFit, Fits
<1>6. \A l \in Labels : total(l)' = total(l)
  BY <1>1 DEF total
<1>7. ASSUME NEW l \in Labels \ tangled
      PROVE  Kept(l)'
  <2>1. Kept(l)
    BY DEF ServerInv, UntangledAreKept
  <2>2. /\ \A q \in Requests : Sent(q, l)' => Sent(q, l)
        /\ \A q \in Requests : stage'[q] = "applied" => stage[q] = "applied"
    BY <1>1, <1>2 DEF Sent
  <2>3. acked'[l] <= total(l)
    <3>1. CASE l = m
      BY <1>1, <1>2, <2>1, <3>1 DEF Kept, m
    <3>2. CASE l # m
      BY <1>1, <1>2, <2>1, <3>2 DEF Kept
    <3> QED
      BY <3>1, <3>2
  <2> QED
    BY <1>1, <1>6, <2>1, <2>2, <2>3 DEF Kept
<1>8. RowsGrow /\ UntangledAreKept'
  BY <1>1, <1>6, <1>7, KeptTypes DEF RowsGrow, UntangledAreKept
<1> QED
  BY <1>1, <1>4, <1>5, <1>8, ReadKeeps DEF ServerInv

(* A request ends otherwise; its write may go on without it. *)
LEMMA EndKeeps ==
  ASSUME ServerInv, NEW r \in Requests,
         HttpError(r) \/ ConnectionLost(r) \/ Refuse(r) \/ Answered(r)
  PROVE  ServerInv' /\ RowsGrow
<1>1. /\ UNCHANGED <<history, row, read, tangled, acked>>
      /\ \E s \in {"thrown", "failure", "idle"} : stage' = [stage EXCEPT ![r] = s]
      /\ body' \in {body, [body EXCEPT ![r] = Nothing]}
      /\ \/ late' = late
         \/ stage[r] = "sent" /\ late' = late \cup {body[r]}
  BY DEF HttpError, ConnectionLost, Refuse, Answered
<1>2. /\ stage \in [Requests ->
                     {"idle", "sent", "applied", "thrown", "success", "failure"}]
      /\ body \in [Requests -> Body \cup {Nothing}]
  BY DEF ServerInv, TypeOK
<1>3. /\ stage'[r] \notin {"sent", "applied", "success"}
      /\ \A q \in Requests : q # r => stage'[q] = stage[q] /\ body'[q] = body[q]
      /\ body'[r] \in {body[r], Nothing}
  BY <1>1, <1>2
<1>4. stage[r] = "sent" => body[r] \in Body /\ Fits(body[r])
  BY KeptTypes, PublishAssumption DEF ServerInv, WritesFit
<1>5. TypeOK'
  <2>1. /\ stage' \in [Requests ->
                     {"idle", "sent", "applied", "thrown", "success", "failure"}]
        /\ body' \in [Requests -> Body \cup {Nothing}]
        /\ late' \subseteq Body
    BY <1>1, <1>2, <1>4 DEF ServerInv, TypeOK
  <2> QED
    BY <1>1, <1>3, <2>1 DEF ServerInv, TypeOK
<1>6. WritesFit'
  <2>1. \A b : Fits(b)' <=> Fits(b)
    BY <1>1 DEF Fits
  <2>2. /\ \A q \in Requests : body'[q] # Nothing => Fits(body'[q])
        /\ \A b \in late' : Fits(b)
    BY <1>1, <1>3, <1>4 DEF ServerInv, WritesFit
  <2> QED
    BY <1>1, <2>2 DEF ServerInv, WritesFit, Fits
<1>7. \A l \in Labels : total(l)' = total(l)
  BY <1>1 DEF total
<1>8. ASSUME NEW l \in Labels \ tangled
      PROVE  Kept(l)'
  <2>1. Kept(l)
    BY DEF ServerInv, UntangledAreKept
  <2>2. /\ \A q \in Requests : Sent(q, l)' <=> Sent(q, l) /\ q # r
        /\ \A q \in Requests : stage'[q] = "applied" => stage[q] = "applied" /\ q # r
    BY <1>3 DEF Sent
  <2>3. CASE late' = late
    BY <1>1, <1>3, <1>7, <2>1, <2>2, <2>3 DEF Kept
  <2>4. CASE stage[r] = "sent" /\ late' = late \cup {body[r]}
    <3>1. CASE body[r].label # l
      BY <1>1, <1>3, <1>7, <2>1, <2>2, <2>4, <3>1 DEF Kept
    <3>2. CASE body[r].label = l
      <4>1. Sent(r, l)
        BY <2>4, <3>2 DEF Sent
      <4>2. /\ \A q \in Requests : ~Sent(q, l)'
            /\ \A c \in late : c.label # l
            /\ total(l) <= body[r].total
        BY <2>1, <2>2, <4>1 DEF Kept
      <4> QED
        BY <1>1, <1>3, <1>7, <2>1, <2>2, <2>4, <4>2 DEF Kept
    <3> QED
      BY <3>1, <3>2
  <2> QED
    BY <1>1, <2>3, <2>4
<1>9. RowsGrow /\ UntangledAreKept'
  BY <1>1, <1>7, <1>8, KeptTypes DEF RowsGrow, UntangledAreKept
<1> QED
  BY <1>1, <1>5, <1>6, <1>9, ReadKeeps DEF ServerInv

LEMMA ServerStepKeeps ==
  ASSUME ServerInv, AnyServerStep
  PROVE  ServerInv' /\ RowsGrow
BY AppendKeeps, ReadStepKeeps, PublishKeeps, ApplyKeeps, ApplyLateKeeps, SucceedKeeps,
   EndKeeps DEF AnyServerStep, ServerNext, ReadStep

LEMMA ServerInitial == Init => ServerInv
<1> SUFFICES ASSUME Init PROVE ServerInv
  OBVIOUS
<1>1. /\ history = 0 /\ stage = [r \in Requests |-> "idle"]
      /\ body = [r \in Requests |-> Nothing] /\ late = {}
      /\ row = [l \in Labels |-> Nothing] /\ read = NotReading
      /\ tangled = {} /\ acked = [l \in Labels |-> 0]
      /\ MaxRecords \in Nat
  BY PublishAssumption DEF Init
<1>2. TypeOK
  BY <1>1 DEF TypeOK, NotReading
<1>3. WritesFit
  BY <1>1 DEF WritesFit
<1>4. \A l \in Labels : total(l) = 0
  BY <1>1 DEF total
<1>5. UntangledAreKept
  BY <1>1, <1>4 DEF UntangledAreKept, Kept, Sent
<1>6. ReadIsBehind /\ ReadsAgree
  BY <1>1 DEF NotReading, ReadIsBehind, ReadsAgree
<1> QED
  BY <1>2, <1>3, <1>5, <1>6 DEF ServerInv

-----------------------------------------------------------------------------
(* The list of the panel.  Unless calls overtook each other one at most is  *)
(* in flight, and it brings what was recorded when it began.                *)

LoadType == [step : {"free", "asked", "answered"}, newest : 0..MaxRecords]

ListInv ==
  /\ loads \in [Loads -> LoadType]
  /\ items \in 0..MaxRecords
  /\ busy \in BOOLEAN /\ overtaking \in BOOLEAN
  /\ announced \in 0..MaxRecords /\ announced <= history
  /\ ~overtaking =>
       /\ \A i, j \in inFlight : i = j
       /\ \A i \in Loads : loads[i].step = "answered" => loads[i].newest >= announced
       /\ inFlight = {} /\ items # 0 => items >= announced

LEMMA ListFrame ==
  ASSUME ListInv, TypeOK, TypeOK', history <= history', UNCHANGED list
  PROVE  ListInv'
<1>1. history \in Nat /\ history' \in Nat /\ announced \in Nat
  BY PublishAssumption DEF TypeOK, ListInv
<1>2. UNCHANGED <<loads, items, busy, announced, overtaking>>
  BY DEF list
<1>3. announced' <= history'
  BY <1>1, <1>2 DEF ListInv
<1> QED
  BY <1>2, <1>3 DEF ListInv, inFlight

LEMMA ListSteps ==
  ASSUME ListInv, TypeOK, NEW i \in Loads,
         loadHistory(i) \/ Serve(i) \/ Loaded(i) \/ LoadError(i)
  PROVE  ListInv'
<1>1. /\ loads \in [Loads -> LoadType] /\ history \in 0..MaxRecords
      /\ MaxRecords \in Nat /\ history' = history
      /\ items \in 0..MaxRecords /\ announced \in 0..MaxRecords
      /\ busy \in BOOLEAN /\ overtaking \in BOOLEAN /\ announced <= history
  BY PublishAssumption
  DEF ListInv, TypeOK, loadHistory, Serve, Loaded, LoadError, vars
<1>2. free \in LoadType /\ free.step = "free"
  BY <1>1 DEF free, LoadType
<1>3. \A j \in Loads : j \in inFlight <=> loads[j] # free
  BY DEF inFlight
<1>4. CASE loadHistory(i)
  <2> DEFINE asked == [loads[i] EXCEPT !.step = "asked"]
  <2>1. /\ loads[i] = free /\ announced' = history /\ busy' = TRUE
        /\ overtaking' = (inFlight # {})
        /\ loads' = [loads EXCEPT ![i] = asked]
        /\ UNCHANGED items
    BY <1>4 DEF loadHistory
  <2>2. asked \in LoadType /\ asked.step = "asked" /\ asked # free
    BY <1>1, <1>2 DEF LoadType
  <2> HIDE DEF asked
  <2>3. /\ loads' \in [Loads -> LoadType] /\ loads'[i] = asked
        /\ \A j \in Loads : j # i => loads'[j] = loads[j]
    BY <1>1, <2>1, <2>2
  <2>4. inFlight' = inFlight \cup {i}
    BY <2>2, <2>3 DEF inFlight
  <2>5. ASSUME ~overtaking'
        PROVE  /\ inFlight' = {i}
               /\ \A j \in Loads : loads'[j].step # "answered"
    <3>1. inFlight = {}
      BY <2>1, <2>5
    <3> QED
      BY <1>2, <1>3, <2>2, <2>3, <2>4, <3>1
  <2> QED
    BY <1>1, <2>1, <2>3, <2>5 DEF ListInv
<1>5. CASE Serve(i)
  <2> DEFINE new == [step |-> "answered", newest |-> history]
  <2>1. /\ loads[i].step = "asked" /\ loads' = [loads EXCEPT ![i] = new]
        /\ UNCHANGED <<items, busy, announced, overtaking>>
    BY <1>5 DEF Serve
  <2>2. new \in LoadType /\ new.step = "answered" /\ new.newest = history
    BY <1>1 DEF LoadType
  <2> HIDE DEF new
  <2>3. /\ loads' \in [Loads -> LoadType] /\ loads'[i] = new
        /\ \A j \in Loads : j # i => loads'[j] = loads[j]
    BY <1>1, <2>1, <2>2
  <2>4. inFlight' = inFlight
    BY <1>2, <2>1, <2>2, <2>3 DEF inFlight
  <2>5. \A j \in Loads : loads'[j].step = "answered" /\ ~overtaking =>
          loads'[j].newest >= announced
    BY <1>1, <2>2, <2>3 DEF ListInv
  <2> QED
    BY <1>1, <2>1, <2>3, <2>4, <2>5 DEF ListInv
<1>6. CASE Loaded(i) \/ LoadError(i)
  <2>1. /\ i \in inFlight
        /\ loads' = [loads EXCEPT ![i] = free] /\ busy' = FALSE
        /\ UNCHANGED <<announced, overtaking>>
        /\ \/ items' = 0
           \/ loads[i].step = "answered" /\ items' = loads[i].newest
    BY <1>2, <1>3, <1>6 DEF Loaded, LoadError
  <2>2. /\ loads' \in [Loads -> LoadType] /\ loads'[i] = free
        /\ \A j \in Loads : j # i => loads'[j] = loads[j]
    BY <1>1, <1>2, <2>1
  <2>3. inFlight' \subseteq inFlight
    BY <2>2 DEF inFlight
  <2>4. items' \in 0..MaxRecords
    BY <1>1, <2>1 DEF LoadType
  <2>5. \A j \in Loads : loads'[j].step = "answered" =>
          loads[j].step = "answered" /\ loads'[j] = loads[j]
    BY <1>2, <2>2
  <2>6. ~overtaking /\ items' # 0 => items' >= announced
    BY <2>1 DEF ListInv
  <2> QED
    BY <1>1, <2>1, <2>2, <2>3, <2>4, <2>5, <2>6 DEF ListInv
<1> QED
  BY <1>4, <1>5, <1>6

-----------------------------------------------------------------------------
(* The card of a publication: while it is being published there is no       *)
(* latest row, and what was published is in the history.                    *)

CardInv ==
  /\ ens \in [step : {"idle", "publishing", "latest"},
              published : (0..MaxRecords) \cup {Nothing},
              latest : (1..MaxRecords) \cup {Nothing}]
  /\ stage[Panel] # "idle" => ens.step = "publishing"
  /\ ens.step \in {"publishing", "latest"} => ens.latest = Nothing
  /\ ens.published # Nothing => ens.published <= history
  /\ ens.published # Nothing /\ ens.latest # Nothing => ens.latest >= ens.published

LEMMA CardFrame ==
  ASSUME CardInv, TypeOK, TypeOK', history <= history', UNCHANGED ens,
         stage'[Panel] # "idle" => stage[Panel] # "idle"
  PROVE  CardInv'
<1>1. history \in Nat /\ history' \in Nat
  BY PublishAssumption DEF TypeOK
<1>2. ens.published # Nothing => ens.published \in Nat
  BY PublishAssumption DEF CardInv
<1>3. ens.published # Nothing => ens.published <= history'
  BY <1>1, <1>2 DEF CardInv
<1> QED
  BY <1>3 DEF CardInv

LEMMA CardSteps ==
  ASSUME CardInv, ServerInv,
         (\E s \in Scopes : PublishToEns(s)) \/ PublishAnswered \/ Latest
  PROVE  CardInv'
<1> DEFINE EnsType == [step : {"idle", "publishing", "latest"},
                       published : (0..MaxRecords) \cup {Nothing},
                       latest : (1..MaxRecords) \cup {Nothing}]
<1>1. /\ Panel \in Requests /\ MaxRecords \in Nat /\ history \in 0..MaxRecords
      /\ stage \in [Requests ->
                     {"idle", "sent", "applied", "thrown", "success", "failure"}]
      /\ ens \in EnsType
  BY PublishAssumption, PanelAssumption DEF ServerInv, TypeOK, CardInv
<1>2. history' = history
  BY DEF PublishToEns, Publish, PublishAnswered, Latest, Answered, vars
<1>3. /\ NoCard \in EnsType /\ NoCard.published = Nothing /\ NoCard.latest = Nothing
      /\ NoCard.step = "idle"
      /\ newCard \in EnsType /\ newCard.published = Nothing
      /\ newCard.latest = Nothing /\ newCard.step = "publishing"
  BY DEF NoCard, newCard
<1>4. CASE \E s \in Scopes : PublishToEns(s)
  BY <1>2, <1>3, <1>4 DEF PublishToEns, CardInv
<1>5. CASE PublishAnswered
  <2>1. /\ stage[Panel] \in {"success", "failure"} /\ stage'[Panel] = "idle"
    BY <1>1, <1>5 DEF PublishAnswered, Answered
  <2>2. ens.step = "publishing" /\ ens.latest = Nothing
    BY <2>1 DEF CardInv
  <2>3. CASE ens' = NoCard
    BY <1>2, <1>3, <2>1, <2>3 DEF CardInv
  <2>4. CASE /\ stage[Panel] = "success"
             /\ ens' = [ens EXCEPT !.step = "latest", !.published = body[Panel].total]
    <3>1. body[Panel] \in Body /\ body[Panel] # Nothing /\ Fits(body[Panel])
      BY <1>1, <2>4, PublishAssumption DEF ServerInv, TypeOK, WritesFit
    <3>2. body[Panel].total \in 0..MaxRecords /\ body[Panel].total <= history
      BY <3>1 DEF Body, Fits
    <3> DEFINE t == body[Panel].total
               e == [ens EXCEPT !.published = t]
    <3>3. ens' = [e EXCEPT !.step = "latest"]
      BY <1>1, <2>4
    <3> HIDE DEF t
    <3>4. e \in EnsType /\ e.latest = Nothing /\ e.published = t
      BY <1>1, <2>2, <3>2 DEF t
    <3> HIDE DEF e
    <3>5. /\ ens' \in EnsType /\ ens'.step = "latest" /\ ens'.latest = Nothing
          /\ ens'.published = t
      BY <3>3, <3>4
    <3> QED
      BY <1>2, <2>1, <3>2, <3>5 DEF CardInv, t
  <2> QED
    BY <1>5, <2>3, <2>4 DEF PublishAnswered
<1>6. CASE Latest
  <2>1. ens.step = "latest" /\ ens.latest = Nothing /\ stage' = stage
    BY <1>6 DEF Latest, CardInv, vars, publishing
  <2>2. CASE ens' = [ens EXCEPT !.step = "idle"]
    <3>1. /\ ens' \in EnsType /\ ens'.step = "idle" /\ ens'.latest = ens.latest
          /\ ens'.published = ens.published
      BY <1>1, <2>2
    <3> QED
      BY <1>2, <2>1, <3>1 DEF CardInv
  <2>3. CASE history > 0 /\ ens' = [ens EXCEPT !.step = "idle", !.latest = history]
    <3> DEFINE e == [ens EXCEPT !.latest = history]
    <3>1. ens' = [e EXCEPT !.step = "idle"]
      BY <1>1, <2>3
    <3>2. e \in EnsType /\ e.latest = history /\ e.published = ens.published
      BY <1>1, <2>3
    <3> HIDE DEF e
    <3>3. /\ ens' \in EnsType /\ ens'.step = "idle" /\ ens'.latest = history
          /\ ens'.published = ens.published
      BY <3>1, <3>2
    <3> QED
      BY <1>2, <2>1, <3>3 DEF CardInv
  <2> QED
    BY <1>6, <2>2, <2>3 DEF Latest
<1> QED
  BY <1>4, <1>5, <1>6

-----------------------------------------------------------------------------
(* The inductive invariant. *)
PanelInv == ServerInv /\ ListInv /\ CardInv

LEMMA PanelInitial == PanelInit => PanelInv
<1> SUFFICES ASSUME PanelInit PROVE PanelInv
  OBVIOUS
<1>1. ServerInv /\ history = 0 /\ stage = [r \in Requests |-> "idle"]
  BY ServerInitial DEF PanelInit, Init
<1>2. /\ loads = [i \in Loads |-> free] /\ items = 0 /\ busy = FALSE
      /\ announced = 0 /\ overtaking = FALSE /\ ens = NoCard
      /\ MaxRecords \in Nat /\ Panel \in Requests
  BY PublishAssumption, PanelAssumption DEF PanelInit
<1>3. free \in LoadType /\ free.step = "free"
  BY <1>2 DEF free, LoadType
<1>4. \A i \in Loads : loads[i] = free /\ loads[i].step = "free"
  BY <1>2, <1>3
<1>5. /\ inFlight = {} /\ loads \in [Loads -> LoadType]
      /\ items \in 0..MaxRecords /\ announced \in 0..MaxRecords
  BY <1>2, <1>3, <1>4 DEF inFlight
<1>6. ListInv
  <2>0. 0 <= 0
    OBVIOUS
  <2>1. announced <= history /\ busy \in BOOLEAN /\ overtaking \in BOOLEAN
    BY <1>1, <1>2, <2>0, Zenon
  <2>2. \A i \in Loads : loads[i].step # "answered"
    BY <1>4
  <2>3. /\ \A i, j \in inFlight : i = j
        /\ \A i \in Loads : loads[i].step = "answered" => loads[i].newest >= announced
        /\ inFlight = {} /\ items # 0 => items >= announced
    BY <1>2, <1>5, <2>2
  <2> QED
    BY <1>5, <2>1, <2>3 DEF ListInv
<1>7. CardInv
  BY <1>1, <1>2 DEF CardInv, NoCard
<1> QED
  BY <1>1, <1>6, <1>7 DEF PanelInv

(* Nobody but the panel begins or ends a publication of the panel. *)
LEMMA OthersLeaveThePanel ==
  ASSUME TypeOK,
         \/ ServerNext
         \/ \E r \in Requests \ {Panel}, s \in Scopes : Publish(r, s)
         \/ \E r \in Requests \ {Panel} : Answered(r)
         \/ UNCHANGED vars
  PROVE  AnyServerStep /\ (stage'[Panel] # "idle" <=> stage[Panel] # "idle")
<1>1. AnyServerStep
  BY DEF AnyServerStep
<1>2. stage \in [Requests ->
                  {"idle", "sent", "applied", "thrown", "success", "failure"}]
  BY DEF TypeOK
<1>3. CASE ServerNext
  <2>1. ASSUME NEW r \in Requests, Apply(r) \/ Succeed(r) \/ HttpError(r)
                                   \/ ConnectionLost(r) \/ Refuse(r)
        PROVE  /\ stage[r] # "idle"
               /\ \E s : s # "idle" /\ stage' = [stage EXCEPT ![r] = s]
    BY <2>1 DEF Apply, Succeed, succeed, HttpError, ConnectionLost, Refuse
  <2>2. ASSUME \/ Append \/ ReadKey \/ ProviderFails \/ ReadDone
               \/ \E b \in late : ApplyLate(b)
               \/ \E l \in Labels : ReadNameStone(l) \/ ReadFallsBack(l)
        PROVE  stage' = stage
    BY <2>2 DEF Append, ReadKey, ProviderFails, ReadDone, ApplyLate, ReadNameStone,
                ReadFallsBack, readKeeps, publishing
  <2>3. CASE stage' = stage
    BY <1>1, <2>3
  <2>4. CASE \E r \in Requests :
               /\ stage[r] # "idle"
               /\ \E s : s # "idle" /\ stage' = [stage EXCEPT ![r] = s]
    <3>1. PICK r \in Requests :
            /\ stage[r] # "idle"
            /\ \E s : s # "idle" /\ stage' = [stage EXCEPT ![r] = s]
      BY <2>4
    <3>2. IF Panel = r THEN stage'[Panel] # "idle" ELSE stage'[Panel] = stage[Panel]
      BY <1>2, <3>1, PanelAssumption
    <3> QED
      BY <1>1, <3>1, <3>2
  <2> QED
    BY <1>3, <2>1, <2>2, <2>3, <2>4 DEF ServerNext
<1>4. ASSUME NEW r \in Requests \ {Panel}, NEW s \in Scopes, Publish(r, s)
      PROVE  stage'[Panel] = stage[Panel]
  BY <1>2, <1>4, PanelAssumption DEF Publish
<1>5. ASSUME NEW r \in Requests \ {Panel}, Answered(r)
      PROVE  stage'[Panel] = stage[Panel]
  BY <1>2, <1>5, PanelAssumption DEF Answered
<1> QED
  BY <1>1, <1>3, <1>4, <1>5 DEF vars, publishing

LEMMA HistoryGrows ==
  ASSUME TypeOK, AnyServerStep
  PROVE  history <= history'
<1>1. history \in Nat
  BY PublishAssumption DEF TypeOK
<1>2. history' = history \/ history' = history + 1
  BY DEF AnyServerStep, ServerNext, Append, ReadKey, ProviderFails, ReadDone, Apply,
         Succeed, succeed, HttpError, ConnectionLost, Refuse, ApplyLate,
         ReadNameStone, ReadFallsBack, readKeeps, Publish, Answered, vars
<1> QED
  BY <1>1, <1>2

LEMMA PanelStepKeeps == PanelInv /\ [PanelNext]_panelVars => PanelInv'
<1> SUFFICES ASSUME PanelInv, [PanelNext]_panelVars PROVE PanelInv'
  OBVIOUS
<1>1. ServerInv /\ ListInv /\ CardInv /\ TypeOK
  BY DEF PanelInv, ServerInv
<1>2. CASE /\ UNCHANGED <<list, ens>>
           /\ \/ ServerNext
              \/ \E r \in Requests \ {Panel}, s \in Scopes : Publish(r, s)
              \/ \E r \in Requests \ {Panel} : Answered(r)
              \/ UNCHANGED vars
  <2>1. AnyServerStep /\ (stage'[Panel] # "idle" <=> stage[Panel] # "idle")
    BY <1>1, <1>2, OthersLeaveThePanel
  <2>2. ServerInv' /\ TypeOK' /\ history <= history'
    BY <1>1, <2>1, ServerStepKeeps, HistoryGrows DEF ServerInv
  <2> QED
    BY <1>1, <1>2, <2>1, <2>2, ListFrame, CardFrame DEF PanelInv
<1>3. ASSUME NEW i \in Loads,
             OnRefresh(i) \/ Refresh(i) \/ Serve(i) \/ Loaded(i) \/ LoadError(i)
      PROVE  PanelInv'
  <2>1. loadHistory(i) \/ Serve(i) \/ Loaded(i) \/ LoadError(i)
    BY <1>3 DEF OnRefresh, Refresh
  <2>2. UNCHANGED vars /\ UNCHANGED ens
    BY <2>1 DEF loadHistory, Serve, Loaded, LoadError
  <2>3. ServerInv' /\ TypeOK' /\ history' = history /\ stage' = stage
    BY <1>1, <2>2, ServerStepKeeps DEF AnyServerStep, ServerInv, vars, publishing
  <2>4. ListInv'
    BY <1>1, <2>1, ListSteps
  <2>5. CardInv'
    BY <1>1, <2>2, <2>3, CardFrame, PublishAssumption DEF TypeOK
  <2> QED
    BY <2>3, <2>4, <2>5 DEF PanelInv
<1>4. CASE (\E s \in Scopes : PublishToEns(s)) \/ PublishAnswered \/ Latest
  <2>1. AnyServerStep /\ UNCHANGED list
    BY <1>4, PanelAssumption DEF PublishToEns, PublishAnswered, Latest, AnyServerStep
  <2>2. ServerInv' /\ TypeOK' /\ history <= history'
    BY <1>1, <2>1, ServerStepKeeps, HistoryGrows DEF ServerInv
  <2>3. ListInv'
    BY <1>1, <2>1, <2>2, ListFrame
  <2>4. CardInv'
    BY <1>1, <1>4, CardSteps
  <2> QED
    BY <2>2, <2>3, <2>4 DEF PanelInv
<1>5. CASE UNCHANGED panelVars
  BY <1>2, <1>5 DEF panelVars
<1> QED
  BY <1>2, <1>3, <1>4, <1>5 DEF PanelNext

(* The relayer, NameStone, the list and the card of a publication keep the  *)
(* inductive invariant, for any callers, records, lengths and limits.       *)
THEOREM PanelInvariant == Spec => []PanelInv
BY PanelInitial, PanelStepKeeps, PTL DEF Spec

(* Every variable of the panel, the relayer and NameStone keeps its type,   *)
(* and what a handler has sent is there when it is answered.                *)
THEOREM PanelTypeCorrect == Spec => []PanelTypeOK
<1>1. PanelInv => PanelTypeOK
  BY DEF PanelInv, ServerInv, ListInv, CardInv, LoadType, PanelTypeOK
<1> QED
  BY <1>1, PanelInvariant, PTL

(* For records of any length and any limits, what is published fits a text  *)
(* record, and an older record is left out only if it is not asked for or   *)
(* does not fit with the rest.                                              *)
THEOREM PanelRowsFit == Spec => []RowsFit
<1>1. PanelInv => RowsFit
  BY DEF PanelInv, ServerInv, WritesFit, Fits, RowsFit
<1> QED
  BY <1>1, PanelInvariant, PTL

(* For any number of callers whose connections may be lost, a name that was *)
(* not tangled goes on holding what a success has reported.                 *)
THEOREM PanelAcknowledgedIsKept == Spec => []AcknowledgedIsKept
<1>1. PanelInv => AcknowledgedIsKept
  BY DEF PanelInv, ServerInv, UntangledAreKept, Kept, AcknowledgedIsKept
<1> QED
  BY <1>1, PanelInvariant, PTL

(* The count that the read route answers, read at once or key by key, is    *)
(* not below the events beside it, whatever is published between the keys.  *)
THEOREM PanelReadsAgree == Spec => []ReadsAgree
<1>1. PanelInv => ReadsAgree
  BY DEF PanelInv, ServerInv
<1> QED
  BY <1>1, PanelInvariant, PTL

(* For any number of calls of loadHistory, the panel that rests shows what  *)
(* was recorded when it last looked, unless calls overtook each other.      *)
THEOREM PanelShowsCurrent == Spec => []PanelIsCurrent
<1>1. PanelInv => PanelIsCurrent
  BY DEF PanelInv, ListInv, CardInv, PanelIsCurrent
<1> QED
  BY <1>1, PanelInvariant, PTL

-----------------------------------------------------------------------------
(* The panel is busy only while it waits for something: for a load that is  *)
(* in flight, or for the relayer's answer to its own publication.           *)
BusyWaits ==
  /\ busy => inFlight # {}
  /\ ens.step = "publishing" => stage[Panel] # "idle"

LEMMA BusyStep ==
  ASSUME PanelInv, BusyWaits, [PanelNext]_panelVars
  PROVE  BusyWaits'
<1>1. /\ TypeOK /\ ListInv /\ CardInv /\ Panel \in Requests
      /\ stage \in [Requests ->
           {"idle", "sent", "applied", "thrown", "success", "failure"}]
  BY PanelAssumption DEF PanelInv, ServerInv, TypeOK
<1>2. CASE /\ UNCHANGED <<list, ens>>
           /\ \/ ServerNext
              \/ \E r \in Requests \ {Panel}, s \in Scopes : Publish(r, s)
              \/ \E r \in Requests \ {Panel} : Answered(r)
              \/ UNCHANGED vars
  <2>1. stage'[Panel] # "idle" <=> stage[Panel] # "idle"
    BY <1>1, <1>2, OthersLeaveThePanel
  <2> QED
    BY <1>2, <2>1 DEF BusyWaits, list, inFlight
<1>3. ASSUME NEW i \in Loads, loadHistory(i)
      PROVE  BusyWaits'
  <2>1. /\ loads' = [loads EXCEPT ![i].step = "asked"] /\ UNCHANGED <<stage, ens>>
    BY <1>3 DEF loadHistory, vars, publishing
  <2>2. loads'[i].step = "asked" /\ free.step = "free"
    BY <1>1, <2>1 DEF ListInv, LoadType, free
  <2>3. i \in inFlight'
    BY <2>2 DEF inFlight
  <2> QED
    BY <2>1, <2>3 DEF BusyWaits
<1>4. ASSUME NEW i \in Loads, Serve(i)
      PROVE  BusyWaits'
  <2>1. /\ loads' = [loads EXCEPT ![i] = [step |-> "answered", newest |-> history]]
        /\ UNCHANGED <<stage, ens>>
    BY <1>4 DEF Serve, vars, publishing
  <2>2. loads'[i].step = "answered" /\ free.step = "free"
    BY <1>1, <2>1 DEF ListInv, free
  <2>3. i \in inFlight'
    BY <2>2 DEF inFlight
  <2> QED
    BY <2>1, <2>3 DEF BusyWaits
<1>5. ASSUME NEW i \in Loads, Loaded(i) \/ LoadError(i)
      PROVE  BusyWaits'
  BY <1>5 DEF Loaded, LoadError, BusyWaits, vars, publishing
<1>6. ASSUME NEW s \in Scopes, PublishToEns(s)
      PROVE  BusyWaits'
  <2>1. /\ UNCHANGED list /\ \E x \in {"thrown", "sent"} :
                                stage' = [stage EXCEPT ![Panel] = x]
    BY <1>6 DEF PublishToEns, Publish
  <2>2. stage'[Panel] # "idle"
    BY <1>1, <2>1
  <2> QED
    BY <2>1, <2>2 DEF BusyWaits, list, inFlight
<1>7. CASE PublishAnswered
  <2>1. UNCHANGED list /\ ens'.step # "publishing"
    <3> DEFINE e == [ens EXCEPT !.published = body[Panel].total]
    <3>1. CASE ens' = NoCard
      BY <1>7, <3>1 DEF PublishAnswered, NoCard
    <3>2. CASE ens' = [e EXCEPT !.step = "latest"]
      <4>1. "step" \in DOMAIN e
        BY <1>1 DEF CardInv
      <4> HIDE DEF e
      <4> QED
        BY <1>7, <3>2, <4>1 DEF PublishAnswered
    <3>3. [ens EXCEPT !.step = "latest", !.published = body[Panel].total]
            = [e EXCEPT !.step = "latest"]
      BY <1>1 DEF CardInv
    <3> QED
      BY <1>7, <3>1, <3>2, <3>3 DEF PublishAnswered
  <2> QED
    BY <2>1 DEF BusyWaits, list, inFlight
<1>8. CASE Latest
  <2>1. UNCHANGED list /\ ens'.step # "publishing"
    BY <1>1, <1>8 DEF Latest, CardInv
  <2> QED
    BY <2>1 DEF BusyWaits, list, inFlight
<1>9. CASE UNCHANGED panelVars
  BY <1>2, <1>9 DEF panelVars
<1> QED
  BY <1>2, <1>3, <1>4, <1>5, <1>6, <1>7, <1>8, <1>9 DEF PanelNext, OnRefresh, Refresh

(* Whatever loads overtake each other, and however a publication ends, the  *)
(* panel's buttons are not left disabled with nothing under way (the        *)
(* finally blocks of loadHistory and publishToEns): the safety half of      *)
(* PublicationsAnswered.                                                    *)
THEOREM PanelBusyWaits == Spec => []BusyWaits
<1>1. PanelInit => BusyWaits
  BY DEF PanelInit, NoCard, BusyWaits
<1> QED
  BY <1>1, PanelInvariant, BusyStep, PTL DEF Spec
=============================================================================
