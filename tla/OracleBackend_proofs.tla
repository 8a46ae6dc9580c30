------------------------ MODULE OracleBackend_proofs ------------------------
(***************************************************************************)
(* Proofs about OracleBackend, for any set of requests, claims and         *)
(* accounts: the type invariant, and that what the history calls accepted  *)
(* is attested, that only signed lines are attested, that a request leaves *)
(* one record, that a history that parses is complete, and that it holds   *)
(* the outcome each client was told.                                       *)
(***************************************************************************)
EXTENDS OracleBackend, TLAPS

(* Steps of a handler: they leave the device, the chain and the forms alone *)
(* and answer the request of one open handler.                              *)
Rec(r, c, status, proof) ==
  \/ appendHistory(Row(r, c, status, proof))
  \/ appendThrows

LEMMA LineFacts ==
  ASSUME NEW c \in Claims
  PROVE  /\ deviceLines(c) \subseteq Lines
         /\ canonicalPayload(c) \in Lines
         /\ legacyPayload(c) \in Lines
<1>1. deviceLines(c) \cup {canonicalPayload(c), legacyPayload(c)} \in
        {deviceLines(d) \cup {canonicalPayload(d), legacyPayload(d)} : d \in Claims}
  OBVIOUS
<1>2. deviceLines(c) \cup {canonicalPayload(c), legacyPayload(c)} \subseteq Lines
  BY <1>1 DEF Lines
<1> QED
  BY <1>2

(* A record is written in full or the history keeps what it had. *)
LEMMA RecordFacts ==
  ASSUME NEW r \in Reqs, NEW c, NEW status, NEW proof, NEW code,
         Record(r, c, status, proof, code)
  PROVE  /\ Rec(r, c, status, proof)
         /\ phase' = [phase EXCEPT ![r] = "done"]
         /\ \/ answer' = [answer EXCEPT ![r] = code]
            \/ answer' = [answer EXCEPT ![r] = 500]
BY DEF Record, Rec, Answer

LEMMA RecTypes ==
  ASSUME TypeOK, NEW r \in Reqs, NEW c \in Claims,
         NEW status \in {"rejected", "device_signed", "accepted"},
         NEW proof \in Lines \cup {NoProof},
         Rec(r, c, status, proof)
  PROVE  /\ file' \in Seq(Rows) \cup {Torn}
         /\ log' \in Seq(Rows)
<1>1. Row(r, c, status, proof) \in Rows
  BY DEF Row, Rows
<1>2. file \in Seq(Rows) \cup {Torn} /\ log \in Seq(Rows)
  BY DEF TypeOK
<1>3. CASE appendThrows
  BY <1>2, <1>3 DEF appendThrows
<1>4. CASE appendHistory(Row(r, c, status, proof))
  <2> DEFINE row == Row(r, c, status, proof)
  <2>1. file \in Seq(Rows) /\ file' = Append(file, row) /\ log' = Append(log, row)
    BY <1>2, <1>4 DEF appendHistory
  <2> HIDE DEF row
  <2> QED
    BY <1>1, <1>2, <2>1 DEF row
<1> QED
  BY <1>3, <1>4 DEF Rec

-----------------------------------------------------------------------------
(* What the fields of a request mean at each stage of its handler. *)
Untouched == \A r \in Reqs : phase[r] = "new" => tx[r] = "none"

FormProven ==
  \A r \in Reqs : phase[r] \in {"sending", "waiting"} \/ tx[r] # "none" =>
    /\ form[r].proof \in signed
    /\ form[r].proof \in {canonicalPayload(form[r].claim),
                          legacyPayload(form[r].claim)}

(* A transaction that was sent has a number for its timestamp. *)
SentIsNumber ==
  \A r \in Reqs : tx[r] # "none" => form[r].claim.uint256 # NoNumber

MinedIsAttested ==
  \A r \in Reqs : tx[r] = "mined" =>
    \E j \in DOMAIN attestations :
      attestations[j] = [statement |-> StatementOf(form[r].claim, form[r].proof),
                         relayer |-> Wallet]

Open == {"new", "sending", "waiting"}

OpenIsUnrecorded ==
  \A r \in Reqs : phase[r] \in Open =>
    \A i \in DOMAIN log : log[i].req # r

IInv ==
  /\ TypeOK
  /\ Untouched
  /\ FormProven
  /\ SentIsNumber
  /\ MinedIsAttested
  /\ OpenIsUnrecorded
  /\ AcceptedIsAttested
  /\ OnlySignedLinesAttested
  /\ OneRecordPerRequest
  /\ HistoryIsComplete

-----------------------------------------------------------------------------
(* The steps that write a record: they close an open handler, keep its form *)
(* and the chain, and may have sent a transaction.  An accepted record is   *)
(* that of a mined transaction.                                             *)
Closing(r, c, status, proof) ==
  /\ phase[r] \in Open
  /\ Rec(r, c, status, proof)
  /\ phase' = [phase EXCEPT ![r] = "done"]
  /\ \E code \in {200, 400, 500, 502} : answer' = [answer EXCEPT ![r] = code]
  /\ signed \subseteq signed' /\ signed' \subseteq Lines
  /\ \/ tx' = tx
     \/ phase[r] = "sending" /\ Accepted(r) /\ tx' = [tx EXCEPT ![r] = "pending"]
  /\ status = "accepted" =>
       tx[r] = "mined" /\ c = form[r].claim /\ proof = form[r].proof
  /\ UNCHANGED <<form, chain>>

LEMMA ClosingTypes ==
  ASSUME TypeOK, NEW r \in Reqs, NEW c \in Claims,
         NEW status \in {"rejected", "device_signed", "accepted"},
         NEW proof \in Lines \cup {NoProof},
         Closing(r, c, status, proof)
  PROVE  TypeOK'
<1>1. file' \in Seq(Rows) \cup {Torn} /\ log' \in Seq(Rows)
  BY RecTypes DEF Closing
<1>2. /\ attestations' \in Seq([statement : Statements, relayer : Accounts])
      /\ events' \in Seq([id : Nat, statement : Statements, relayer : Accounts])
      /\ authorizedRelayers' \subseteq Accounts
      /\ form' \in [Reqs -> Forms \cup {NoProof}]
  BY DEF TypeOK, Closing, chain
<1>3. /\ phase' \in [Reqs -> {"new", "sending", "waiting", "done", "cut"}]
      /\ answer' \in [Reqs -> {0, 200, 400, 500, 502}]
      /\ tx' \in [Reqs -> {"none", "pending", "mined", "replaced"}]
      /\ signed' \subseteq Lines
  BY DEF TypeOK, Closing
<1>4. ASSUME NEW q \in Reqs
      PROVE  /\ phase'[q] \in {"sending", "waiting"} => form'[q] \in Forms
             /\ tx'[q] # "none" => form'[q] \in Forms
  <2>1. form' = form
    BY DEF Closing
  <2>2. phase'[q] \in {"sending", "waiting"} => phase[q] \in {"sending", "waiting"}
    BY DEF Closing, TypeOK
  <2>3. tx'[q] # "none" => tx[q] # "none" \/ phase[q] = "sending"
    BY DEF Closing, TypeOK
  <2> QED
    BY <2>1, <2>2, <2>3 DEF TypeOK
<1> QED
  BY <1>1, <1>2, <1>3, <1>4 DEF TypeOK

(* What a record adds to log, and what it says of the request. *)
LEMMA LogGrows ==
  ASSUME TypeOK, HistoryIsComplete, NEW r \in Reqs, NEW c \in Claims,
         NEW status, NEW proof,
         Rec(r, c, status, proof)
  PROVE  /\ HistoryIsComplete'
         /\ \/ log' = log
            \/ /\ log' = Append(log, Row(r, c, status, proof))
               /\ DOMAIN log' = DOMAIN log \cup {Len(log) + 1}
               /\ Len(log) + 1 \notin DOMAIN log
               /\ log'[Len(log) + 1] = Row(r, c, status, proof)
               /\ \A i \in DOMAIN log : log'[i] = log[i]
<1>1. CASE appendThrows
  BY <1>1 DEF appendThrows, HistoryIsComplete
<1>2. CASE appendHistory(Row(r, c, status, proof))
  <2> DEFINE row == Row(r, c, status, proof)
  <2>1. file # Torn /\ file' = Append(file, row) /\ log' = Append(log, row)
    BY <1>2 DEF appendHistory
  <2>2. log \in Seq(Rows)
    BY DEF TypeOK
  <2> HIDE DEF row
  <2>3. HistoryIsComplete'
    BY <2>1 DEF HistoryIsComplete
  <2>4. /\ DOMAIN log' = DOMAIN log \cup {Len(log) + 1}
        /\ Len(log) + 1 \notin DOMAIN log
        /\ log'[Len(log) + 1] = row
        /\ \A i \in DOMAIN log : log'[i] = log[i]
    BY <2>1, <2>2
  <2> QED
    BY <2>1, <2>3, <2>4 DEF row
<1> QED
  BY <1>1, <1>2 DEF Rec

LEMMA ClosingKeeps ==
  ASSUME IInv, NEW r \in Reqs, NEW c \in Claims,
         NEW status \in {"rejected", "device_signed", "accepted"},
         NEW proof \in Lines \cup {NoProof},
         Closing(r, c, status, proof)
  PROVE  IInv'
<1> DEFINE row == Row(r, c, status, proof)
           n == Len(log) + 1
<1>1. TypeOK'
  BY ClosingTypes DEF IInv
<1>2. /\ phase \in [Reqs -> {"new", "sending", "waiting", "done", "cut"}]
      /\ tx \in [Reqs -> {"none", "pending", "mined", "replaced"}]
      /\ phase' = [phase EXCEPT ![r] = "done"]
      /\ \A q \in Reqs : phase'[q] \in Open => q # r /\ phase[q] \in Open
  BY DEF IInv, TypeOK, Closing, Open
<1>3. \A q \in Reqs : tx'[q] # tx[q] =>
        /\ q = r /\ phase[r] = "sending" /\ tx'[q] = "pending"
        /\ form[r].claim.uint256 # NoNumber
  BY <1>2 DEF Closing, Accepted
<1>4. UNCHANGED <<form, attestations, events, authorizedRelayers>>
      /\ signed \subseteq signed'
  BY DEF Closing, chain
<1>5. /\ HistoryIsComplete'
      /\ \/ log' = log
         \/ /\ DOMAIN log' = DOMAIN log \cup {n}
            /\ n \notin DOMAIN log
            /\ log'[n] = row
            /\ \A i \in DOMAIN log : log'[i] = log[i]
  <2>1. TypeOK /\ HistoryIsComplete
    BY DEF IInv
  <2>2. Rec(r, c, status, proof)
    BY DEF Closing
  <2> QED
    BY <2>1, <2>2, LogGrows
<1>6. row = [req |-> r, claim |-> c, status |-> status, proof |-> proof]
  BY DEF Row
<1> HIDE DEF row, n
<1>7. Untouched'
  BY <1>2, <1>3 DEF IInv, Untouched
<1>8. FormProven'
  <2> SUFFICES ASSUME NEW q \in Reqs,
                      phase'[q] \in {"sending", "waiting"} \/ tx'[q] # "none"
               PROVE  /\ form'[q].proof \in signed'
                      /\ form'[q].proof \in {canonicalPayload(form'[q].claim),
                                             legacyPayload(form'[q].claim)}
    BY DEF FormProven
  <2>1. phase[q] \in {"sending", "waiting"} \/ tx[q] # "none"
    BY <1>2, <1>3
  <2>2. /\ form[q].proof \in signed
        /\ form[q].proof \in {canonicalPayload(form[q].claim),
                              legacyPayload(form[q].claim)}
    BY <2>1 DEF IInv, FormProven
  <2>3. form' = form /\ signed \subseteq signed'
    BY <1>4
  <2> QED
    BY <2>2, <2>3
<1>9. MinedIsAttested' /\ SentIsNumber'
  BY <1>2, <1>3, <1>4 DEF IInv, MinedIsAttested, SentIsNumber, StatementOf
<1>10. OpenIsUnrecorded'
  BY <1>2, <1>5, <1>6 DEF IInv, OpenIsUnrecorded
<1>11. AcceptedIsAttested'
  <2> SUFFICES ASSUME NEW i \in DOMAIN log', log'[i].status = "accepted"
               PROVE  \E j \in DOMAIN attestations :
                        attestations[j] =
                          [statement |-> StatementOf(log'[i].claim, log'[i].proof),
                           relayer |-> Wallet]
    BY <1>4 DEF AcceptedIsAttested
  <2>1. CASE i \in DOMAIN log /\ log'[i] = log[i]
    BY <2>1 DEF IInv, AcceptedIsAttested
  <2>2. CASE log'[i] = row
    <3>1. /\ status = "accepted"
          /\ log'[i].claim = c /\ log'[i].proof = proof
      BY <2>2, <1>6
    <3>2. tx[r] = "mined" /\ c = form[r].claim /\ proof = form[r].proof
      BY <3>1 DEF Closing
    <3>3. PICK j \in DOMAIN attestations :
            attestations[j] = [statement |-> StatementOf(form[r].claim, form[r].proof),
                               relayer |-> Wallet]
      BY <3>2 DEF IInv, MinedIsAttested
    <3> QED
      BY <3>1, <3>2, <3>3 DEF StatementOf
  <2> QED
    BY <2>1, <2>2, <1>5
<1>12. OnlySignedLinesAttested'
  BY <1>4 DEF IInv, OnlySignedLinesAttested
<1>13. OneRecordPerRequest'
  <2>1. \A i \in DOMAIN log : log[i].req # r
    BY DEF IInv, OpenIsUnrecorded, Closing
  <2> QED
    BY <2>1, <1>5, <1>6 DEF IInv, OneRecordPerRequest
<1> QED
  BY <1>1, <1>5, <1>7, <1>8, <1>9, <1>10, <1>11, <1>12, <1>13 DEF IInv

-----------------------------------------------------------------------------
(* Each step that writes a record is such a step. *)
LEMMA SignStepsClose ==
  ASSUME TypeOK, NEW r \in Reqs, NEW c \in Claims,
         SignRejected(r, c) \/ SignDone(r, c)
  PROVE  \E status \in {"rejected", "device_signed", "accepted"},
            proof \in Lines \cup {NoProof} : Closing(r, c, status, proof)
<1>1. CASE SignRejected(r, c)
  <2>1. /\ phase[r] = "new"
        /\ UNCHANGED <<form, signed, tx, chain>>
    BY <1>1 DEF SignRejected
  <2>2. PICK code \in {400, 502} : Record(r, c, "rejected", NoProof, code)
    BY <1>1 DEF SignRejected
  <2>3. Closing(r, c, "rejected", NoProof)
    BY <2>1, <2>2, RecordFacts DEF Closing, Open, TypeOK
  <2> QED
    BY <2>3
<1>2. CASE SignDone(r, c)
  <2>1. /\ phase[r] = "new"
        /\ UNCHANGED <<form, tx, chain>>
    BY <1>2 DEF SignDone
  <2>2. PICK line \in deviceLines(c) \cup {NoProof} :
          /\ Record(r, c, "device_signed", line, 200)
          /\ signed' = signed \cup ({line} \ {NoProof})
    BY <1>2 DEF SignDone
  <2>3. line \in Lines \cup {NoProof}
    BY LineFacts
  <2>4. signed \subseteq signed' /\ signed' \subseteq Lines
    BY <2>2, <2>3 DEF TypeOK
  <2>5. Closing(r, c, "device_signed", line)
    BY <2>1, <2>2, <2>4, RecordFacts DEF Closing, Open
  <2> QED
    BY <2>3, <2>5
<1> QED
  BY <1>1, <1>2

LEMMA SubmitRejectedCloses ==
  ASSUME TypeOK, NEW r \in Reqs, NEW c \in Claims,
         NEW proof \in signed \cup {NoProof}, SubmitRejected(r, c, proof)
  PROVE  proof \in Lines \cup {NoProof} /\ Closing(r, c, "rejected", proof)
<1>1. /\ phase[r] = "new"
      /\ UNCHANGED <<form, signed, tx, chain>>
  BY DEF SubmitRejected
<1>2. PICK code \in {200, 400} : Record(r, c, "rejected", proof, code)
  BY DEF SubmitRejected
<1>3. signed \subseteq Lines
  BY DEF TypeOK
<1> QED
  BY <1>1, <1>2, <1>3, RecordFacts DEF Closing, Open

LEMMA ChainStepsClose ==
  ASSUME TypeOK, NEW r \in Reqs,
         SendFails(r) \/ Confirmed(r) \/ WaitFails(r)
  PROVE  \E status \in {"rejected", "device_signed", "accepted"} :
           /\ form[r].claim \in Claims
           /\ form[r].proof \in Lines
           /\ Closing(r, form[r].claim, status, form[r].proof)
<1>1. phase[r] \in {"sending", "waiting"}
  BY DEF SendFails, Confirmed, WaitFails
<1>2. form[r] \in Forms
  BY <1>1 DEF TypeOK
<1>3. form[r].claim \in Claims /\ form[r].proof \in Lines
  BY <1>2 DEF Forms
<1>4. phase[r] \in Open /\ signed \subseteq Lines
  BY <1>1 DEF Open, TypeOK
<1>5. UNCHANGED <<form, signed, chain>>
  BY DEF SendFails, Confirmed, WaitFails
<1>6. \/ tx' = tx
      \/ phase[r] = "sending" /\ Accepted(r) /\ tx' = [tx EXCEPT ![r] = "pending"]
  BY DEF SendFails, Confirmed, WaitFails
<1>7. CASE ChainSubmitFailed(r)
  <2>1. Record(r, form[r].claim, "rejected", form[r].proof, 502)
    BY <1>7 DEF ChainSubmitFailed
  <2>2. Closing(r, form[r].claim, "rejected", form[r].proof)
    BY <2>1, <1>4, <1>5, <1>6, RecordFacts DEF Closing
  <2> QED
    BY <2>2, <1>3
<1>8. CASE /\ tx[r] = "mined"
           /\ appendHistory(Row(r, form[r].claim, "accepted", form[r].proof))
           /\ Answer(r, 200)
  <2>1. Closing(r, form[r].claim, "accepted", form[r].proof)
    BY <1>8, <1>4, <1>5, <1>6 DEF Closing, Rec, Answer
  <2> QED
    BY <2>1, <1>3
<1> QED
  BY <1>7, <1>8 DEF SendFails, Confirmed, WaitFails

-----------------------------------------------------------------------------
(* The steps that write no record. *)

LEMMA SubmitProvenKeeps ==
  ASSUME IInv, NEW r \in Reqs, NEW c \in Claims,
         NEW proof \in signed \cup {NoProof}, SubmitProven(r, c, proof)
  PROVE  IInv'
<1>1. /\ phase[r] = "new"
      /\ phase' = [phase EXCEPT ![r] = "sending"]
      /\ form' = [form EXCEPT ![r] = [claim |-> c, proof |-> proof]]
      /\ UNCHANGED <<answer, file, log, signed, tx, attestations, events,
                     authorizedRelayers>>
      /\ proof \in {canonicalPayload(c), legacyPayload(c)}
  BY DEF SubmitProven, chain
<1>2. proof \in Lines /\ proof \in signed
  BY <1>1, LineFacts, BackendAssumption
<1>3. [claim |-> c, proof |-> proof] \in Forms
  BY <1>2 DEF Forms
<1>4. tx[r] = "none"
  BY <1>1 DEF IInv, Untouched
<1>5. TypeOK'
  BY <1>1, <1>3 DEF IInv, TypeOK
<1>6. /\ phase \in [Reqs -> {"new", "sending", "waiting", "done", "cut"}]
      /\ form \in [Reqs -> Forms \cup {NoProof}]
  BY DEF IInv, TypeOK
<1>7. \A q \in Reqs : q # r => form'[q] = form[q] /\ phase'[q] = phase[q]
  BY <1>1, <1>6
<1>8. /\ form'[r].claim = c /\ form'[r].proof = proof
      /\ phase'[r] = "sending"
  BY <1>1, <1>6
<1>9. Untouched'
  BY <1>1, <1>7, <1>8 DEF IInv, Untouched
<1>10. FormProven'
  <2> SUFFICES ASSUME NEW q \in Reqs,
                      phase'[q] \in {"sending", "waiting"} \/ tx'[q] # "none"
               PROVE  /\ form'[q].proof \in signed'
                      /\ form'[q].proof \in {canonicalPayload(form'[q].claim),
                                             legacyPayload(form'[q].claim)}
    BY DEF FormProven
  <2>1. CASE q = r
    BY <2>1, <1>1, <1>2, <1>8
  <2>2. CASE q # r
    BY <2>2, <1>1, <1>7 DEF IInv, FormProven
  <2> QED
    BY <2>1, <2>2
<1>11. MinedIsAttested'
  <2> SUFFICES ASSUME NEW q \in Reqs, tx'[q] = "mined"
               PROVE  \E j \in DOMAIN attestations :
                        attestations[j] =
                          [statement |-> StatementOf(form[q].claim, form[q].proof)',
                           relayer |-> Wallet]
    BY <1>1 DEF MinedIsAttested
  <2>1. q # r /\ form'[q] = form[q] /\ tx[q] = "mined"
    BY <1>1, <1>4, <1>7
  <2> QED
    BY <2>1 DEF IInv, MinedIsAttested, StatementOf
<1>12. OpenIsUnrecorded'
  BY <1>1, <1>7 DEF IInv, OpenIsUnrecorded, Open
<1>13. /\ AcceptedIsAttested' /\ OnlySignedLinesAttested'
       /\ OneRecordPerRequest' /\ HistoryIsComplete'
  BY <1>1 DEF IInv, AcceptedIsAttested, OnlySignedLinesAttested,
              OneRecordPerRequest, HistoryIsComplete
<1>14. SentIsNumber'
  BY <1>1, <1>4, <1>7 DEF IInv, SentIsNumber
<1> QED
  BY <1>5, <1>9, <1>10, <1>11, <1>12, <1>13, <1>14 DEF IInv

(* Broadcast and Replace move one transaction, short of its being mined. *)
LEMMA TxMoves ==
  ASSUME IInv, NEW r \in Reqs, Broadcast(r) \/ Replace(r)
  PROVE  IInv'
<1>1. /\ UNCHANGED <<form, answer, file, log, signed, attestations, events,
                     authorizedRelayers>>
      /\ \/ phase[r] = "sending" /\ form[r].claim.uint256 # NoNumber
         \/ tx[r] # "none"
      /\ \E s \in {"pending", "replaced"} : tx' = [tx EXCEPT ![r] = s]
      /\ \/ phase' = phase
         \/ phase[r] = "sending" /\ phase' = [phase EXCEPT ![r] = "waiting"]
  <2>1. CASE Broadcast(r)
    BY <2>1 DEF Broadcast, Accepted, chain
  <2>2. CASE Replace(r)
    BY <2>2 DEF Replace, chain
  <2> QED
    BY <2>1, <2>2
<1>2. /\ phase \in [Reqs -> {"new", "sending", "waiting", "done", "cut"}]
      /\ tx \in [Reqs -> {"none", "pending", "mined", "replaced"}]
      /\ form[r] \in Forms
  BY <1>1 DEF IInv, TypeOK
<1>3. TypeOK'
  BY <1>1, <1>2 DEF IInv, TypeOK
<1>4. phase[r] # "new"
  BY <1>1 DEF IInv, Untouched
<1>5. /\ \A q \in Reqs : q # r => phase'[q] = phase[q] /\ tx'[q] = tx[q]
      /\ phase'[r] # "new" /\ tx'[r] # "mined"
      /\ phase'[r] \in Open => phase[r] \in Open
  BY <1>1, <1>2, <1>4 DEF Open
<1>6. Untouched'
  BY <1>5 DEF IInv, Untouched
<1>7. FormProven'
  <2> SUFFICES ASSUME NEW q \in Reqs,
                      phase'[q] \in {"sending", "waiting"} \/ tx'[q] # "none"
               PROVE  /\ form[q].proof \in signed
                      /\ form[q].proof \in {canonicalPayload(form[q].claim),
                                            legacyPayload(form[q].claim)}
    BY <1>1 DEF FormProven
  <2>1. phase[q] \in {"sending", "waiting"} \/ tx[q] # "none"
    BY <1>1, <1>5
  <2> QED
    BY <2>1 DEF IInv, FormProven
<1>8. MinedIsAttested' /\ SentIsNumber'
  BY <1>1, <1>5 DEF IInv, MinedIsAttested, SentIsNumber, StatementOf
<1>9. OpenIsUnrecorded'
  BY <1>1, <1>5 DEF IInv, OpenIsUnrecorded
<1>10. /\ AcceptedIsAttested' /\ OnlySignedLinesAttested'
       /\ OneRecordPerRequest' /\ HistoryIsComplete'
  BY <1>1 DEF IInv, AcceptedIsAttested, OnlySignedLinesAttested,
              OneRecordPerRequest, HistoryIsComplete
<1> QED
  BY <1>3, <1>6, <1>7, <1>8, <1>9, <1>10 DEF IInv

(* A transaction that takes effect adds its attestation after the others. *)
LEMMA MineKeeps ==
  ASSUME IInv, NEW r \in Reqs, Mine(r)
  PROVE  IInv'
<1> DEFINE made == StatementOf(form[r].claim, form[r].proof)
           entry == [statement |-> made, relayer |-> Wallet]
           note == [id |-> Len(attestations') - 1, statement |-> made,
                    relayer |-> Wallet]
           n == Len(attestations) + 1
<1>1. /\ UNCHANGED <<phase, form, answer, file, log, signed, authorizedRelayers>>
      /\ tx[r] = "pending"
      /\ tx' = [tx EXCEPT ![r] = "mined"]
      /\ attestations' = Append(attestations, entry)
      /\ events' = Append(events, note)
  BY DEF Mine, Oracle!submitInference
<1>2. form[r] \in Forms
  BY <1>1 DEF IInv, TypeOK
<1>3. StatementOf(form[r].claim, form[r].proof) \in Statements
  BY <1>2 DEF StatementOf, Forms, Statements
<1>4. entry \in [statement : Statements, relayer : Accounts]
  BY <1>3, BackendAssumption
<1>5. /\ attestations \in Seq([statement : Statements, relayer : Accounts])
      /\ events \in Seq([id : Nat, statement : Statements, relayer : Accounts])
      /\ tx \in [Reqs -> {"none", "pending", "mined", "replaced"}]
  BY DEF IInv, TypeOK
<1> HIDE DEF entry
<1>6. /\ attestations' \in Seq([statement : Statements, relayer : Accounts])
      /\ DOMAIN attestations' = DOMAIN attestations \cup {n}
      /\ attestations'[n] = entry
      /\ \A j \in DOMAIN attestations : attestations'[j] = attestations[j]
      /\ Len(attestations') - 1 \in Nat
  BY <1>1, <1>4, <1>5
<1>7. note \in [id : Nat, statement : Statements, relayer : Accounts]
  BY <1>3, <1>6, BackendAssumption
<1> HIDE DEF note, n
<1>8. events' \in Seq([id : Nat, statement : Statements, relayer : Accounts])
  BY <1>1, <1>5, <1>7
<1>9. TypeOK'
  BY <1>1, <1>2, <1>6, <1>8 DEF IInv, TypeOK
<1>10. \A q \in Reqs : q # r => tx'[q] = tx[q]
  BY <1>1, <1>5
<1>11. Untouched'
  BY <1>1, <1>10 DEF IInv, Untouched
<1>12. FormProven' /\ SentIsNumber'
  BY <1>1, <1>10 DEF IInv, FormProven, SentIsNumber
<1>13. MinedIsAttested'
  <2> SUFFICES ASSUME NEW q \in Reqs, tx'[q] = "mined"
               PROVE  \E j \in DOMAIN attestations' :
                        attestations'[j] =
                          [statement |-> StatementOf(form[q].claim, form[q].proof),
                           relayer |-> Wallet]
    BY <1>1 DEF MinedIsAttested, StatementOf
  <2>1. CASE q = r
    BY <2>1, <1>6 DEF entry
  <2>2. CASE q # r
    BY <2>2, <1>6, <1>10 DEF IInv, MinedIsAttested
  <2> QED
    BY <2>1, <2>2
<1>14. AcceptedIsAttested'
  BY <1>1, <1>6 DEF IInv, AcceptedIsAttested
<1>15. OnlySignedLinesAttested'
  <2>1. /\ form[r].proof \in signed
        /\ form[r].proof \in {canonicalPayload(form[r].claim),
                              legacyPayload(form[r].claim)}
    BY <1>1 DEF IInv, FormProven
  <2>2. SUFFICES ASSUME NEW j \in DOMAIN attestations'
        PROVE  LET s == attestations'[j].statement
               IN  /\ s.payloadHash \in signed
                   /\ s.timestamp # NoNumber
                   /\ \E c \in Claims :
                        /\ s = StatementOf(c, s.payloadHash)
                        /\ s.payloadHash \in {canonicalPayload(c), legacyPayload(c)}
    BY <1>1 DEF OnlySignedLinesAttested
  <2>3. CASE j \in DOMAIN attestations
    BY <2>3, <1>6 DEF IInv, OnlySignedLinesAttested
  <2>4. CASE j = n
    <3>1. attestations'[j].statement =
            StatementOf(form[r].claim, form[r].proof)
      BY <2>4, <1>6 DEF entry
    <3>2. /\ attestations'[j].statement.payloadHash = form[r].proof
          /\ attestations'[j].statement.timestamp = form[r].claim.uint256
      BY <3>1 DEF StatementOf
    <3>3. form[r].claim \in Claims /\ form[r].claim.uint256 # NoNumber
      BY <1>1, <1>2 DEF Forms, IInv, SentIsNumber
    <3> QED
      BY <3>1, <3>2, <3>3, <2>1
  <2> QED
    BY <2>3, <2>4, <1>6
<1>16. OpenIsUnrecorded' /\ OneRecordPerRequest' /\ HistoryIsComplete'
  BY <1>1 DEF IInv, OpenIsUnrecorded, OneRecordPerRequest, HistoryIsComplete
<1> QED
  BY <1>9, <1>11, <1>12, <1>13, <1>14, <1>15, <1>16 DEF IInv

(* A crash ends handlers; a stutter or the owner's step changes nothing here. *)
LEMMA CrashKeeps ==
  ASSUME IInv, Crash
  PROVE  IInv'
<1>1. /\ phase' = [r \in Reqs |-> IF phase[r] \in {"sending", "waiting"} THEN "cut"
                                  ELSE phase[r]]
      /\ file' \in {file, Torn}
      /\ UNCHANGED <<form, answer, log, signed, tx, attestations, events,
                     authorizedRelayers>>
  BY DEF Crash, chain
<1>2. \A q \in Reqs : /\ phase'[q] \notin {"sending", "waiting"}
                      /\ phase'[q] = "new" => phase[q] = "new"
  BY <1>1
<1>3. phase \in [Reqs -> {"new", "sending", "waiting", "done", "cut"}]
  BY DEF IInv, TypeOK
<1>4. phase' \in [Reqs -> {"new", "sending", "waiting", "done", "cut"}]
  BY <1>1, <1>3
<1>5. TypeOK'
  BY <1>1, <1>2, <1>4 DEF IInv, TypeOK
<1>6. Untouched' /\ FormProven' /\ SentIsNumber' /\ MinedIsAttested'
  BY <1>1, <1>2 DEF IInv, Untouched, FormProven, SentIsNumber, MinedIsAttested,
                    StatementOf
<1>7. OpenIsUnrecorded'
  BY <1>1, <1>2 DEF IInv, OpenIsUnrecorded, Open
<1>8. /\ AcceptedIsAttested' /\ OnlySignedLinesAttested'
      /\ OneRecordPerRequest' /\ HistoryIsComplete'
  BY <1>1 DEF IInv, AcceptedIsAttested, OnlySignedLinesAttested,
              OneRecordPerRequest, HistoryIsComplete
<1> QED
  BY <1>5, <1>6, <1>7, <1>8 DEF IInv

LEMMA IdleKeeps ==
  ASSUME IInv, Authorize \/ UNCHANGED vars
  PROVE  IInv'
<1>1. /\ UNCHANGED <<phase, form, answer, file, log, signed, tx, attestations,
                     events>>
      /\ authorizedRelayers' \subseteq Accounts
  BY BackendAssumption
     DEF Authorize, Oracle!authorizeRelayer, vars, chain, IInv, TypeOK
<1>2. TypeOK'
  BY <1>1 DEF IInv, TypeOK
<1> QED
  BY <1>1, <1>2 DEF IInv, Untouched, FormProven, SentIsNumber, MinedIsAttested,
                    StatementOf, OpenIsUnrecorded, AcceptedIsAttested,
                    OnlySignedLinesAttested, OneRecordPerRequest,
                    HistoryIsComplete

LEMMA BackendInitial == Init => IInv
<1> SUFFICES ASSUME Init PROVE IInv
  OBVIOUS
<1>1. /\ phase = [r \in Reqs |-> "new"] /\ form = [r \in Reqs |-> NoProof]
      /\ answer = [r \in Reqs |-> 0] /\ file = <<>> /\ log = <<>>
      /\ signed = {} /\ tx = [r \in Reqs |-> "none"]
      /\ attestations = <<>> /\ events = <<>>
      /\ authorizedRelayers = {Deployer}
  BY DEF Init, Oracle!Init
<1>2. TypeOK
  BY <1>1, BackendAssumption DEF TypeOK
<1> QED
  BY <1>1, <1>2 DEF IInv, Untouched, FormProven, SentIsNumber, MinedIsAttested,
                    OpenIsUnrecorded, AcceptedIsAttested,
                    OnlySignedLinesAttested, OneRecordPerRequest,
                    HistoryIsComplete

-----------------------------------------------------------------------------
(* The inductive invariant. *)
THEOREM BackendInvariant == Spec => []IInv
<1>1. Init => IInv
  BY BackendInitial
<1>2. IInv /\ [Next]_vars => IInv'
  <2> SUFFICES ASSUME IInv, [Next]_vars PROVE IInv'
    OBVIOUS
  <2>1. TypeOK
    BY DEF IInv
  <2>2. CASE Authorize \/ UNCHANGED vars
    BY <2>2, IdleKeeps
  <2>3. CASE Crash
    BY <2>3, CrashKeeps
  <2>4. ASSUME NEW r \in Reqs, NEW c \in Claims,
               SignRejected(r, c) \/ SignDone(r, c)
        PROVE  IInv'
    BY <2>1, <2>4, SignStepsClose, ClosingKeeps
  <2>5. ASSUME NEW r \in Reqs, NEW c \in Claims,
               NEW proof \in signed \cup {NoProof}, SubmitRejected(r, c, proof)
        PROVE  IInv'
    BY <2>1, <2>5, SubmitRejectedCloses, ClosingKeeps
  <2>6. ASSUME NEW r \in Reqs, NEW c \in Claims,
               NEW proof \in signed \cup {NoProof}, SubmitProven(r, c, proof)
        PROVE  IInv'
    BY <2>6, SubmitProvenKeeps
  <2>7. ASSUME NEW r \in Reqs, SendFails(r) \/ Confirmed(r) \/ WaitFails(r)
        PROVE  IInv'
    BY <2>1, <2>7, ChainStepsClose, ClosingKeeps
  <2>8. ASSUME NEW r \in Reqs, Broadcast(r) \/ Replace(r)
        PROVE  IInv'
    BY <2>8, TxMoves
  <2>9. ASSUME NEW r \in Reqs, Mine(r)
        PROVE  IInv'
    BY <2>9, MineKeeps
  <2> QED
    BY <2>2, <2>3, <2>4, <2>5, <2>6, <2>7, <2>8, <2>9 DEF Next
<1> QED
  BY <1>1, <1>2, PTL DEF Spec

(* Every variable keeps its type, and a handler past its checks holds the   *)
(* claim and the proof it will submit.                                      *)
THEOREM BackendTypeCorrect == Spec => []TypeOK
<1>1. IInv => TypeOK
  BY DEF IInv
<1> QED
  BY <1>1, BackendInvariant, PTL

(* For any number of requests, whatever fails or crashes: a record that     *)
(* says accepted has its attestation on chain.                              *)
THEOREM BackendAcceptedIsAttested == Spec => []AcceptedIsAttested
<1>1. IInv => AcceptedIsAttested
  BY DEF IInv
<1> QED
  BY <1>1, BackendInvariant, PTL

(* The relayer attests only lines the device signed, each beside the text,  *)
(* the image hash and the number of a claim that makes that line; a claim   *)
(* whose timestamp is no number is never attested.                          *)
THEOREM BackendOnlySignedLinesAttested == Spec => []OnlySignedLinesAttested
<1>1. IInv => OnlySignedLinesAttested
  BY DEF IInv
<1> QED
  BY <1>1, BackendInvariant, PTL

(* No request leaves two records, although the catch block of /submit also  *)
(* covers the write of the accepted record.                                 *)
THEOREM BackendOneRecordPerRequest == Spec => []OneRecordPerRequest
<1>1. IInv => OneRecordPerRequest
  BY DEF IInv
<1> QED
  BY <1>1, BackendInvariant, PTL

(* A history file that parses has lost no record. *)
THEOREM BackendHistoryIsComplete == Spec => []HistoryIsComplete
<1>1. IInv => HistoryIsComplete
  BY DEF IInv
<1> QED
  BY <1>1, BackendInvariant, PTL

-----------------------------------------------------------------------------
(* Who was answered, on the records ever written instead of the file.      *)
AnsweredIsLogged ==
  \A r \in Reqs : answer[r] \in {200, 400, 502} =>
    \E i \in DOMAIN log : log[i].req = r

(* A step sends no response and writes nothing, or does both in Record.     *)
LEMMA ResponsesAreRecorded ==
  ASSUME [Next]_vars
  PROVE  \/ UNCHANGED <<answer, log>>
         \/ \E r \in Reqs : \E c, status, proof, code : Record(r, c, status, proof, code)
<1> DEFINE Recorded ==
      \E r \in Reqs : \E c, status, proof, code : Record(r, c, status, proof, code)
<1>1. ASSUME NEW r \in Reqs, NEW c \in Claims, SignRejected(r, c) \/ SignDone(r, c)
      PROVE  Recorded
  BY <1>1 DEF SignRejected, SignDone
<1>2. ASSUME NEW r \in Reqs, NEW c \in Claims, NEW proof, SubmitRejected(r, c, proof)
      PROVE  Recorded
  BY <1>2 DEF SubmitRejected
<1>3. ASSUME NEW r \in Reqs, SendFails(r) \/ WaitFails(r)
      PROVE  Recorded
  BY <1>3 DEF SendFails, WaitFails, ChainSubmitFailed
<1>4. ASSUME NEW r \in Reqs, Confirmed(r)
      PROVE  Recorded
  <2>1. CASE ChainSubmitFailed(r)
    BY <2>1 DEF ChainSubmitFailed
  <2>2. CASE /\ appendHistory(Row(r, form[r].claim, "accepted", form[r].proof))
             /\ Answer(r, 200)
    <3>1. Record(r, form[r].claim, "accepted", form[r].proof, 200)
      BY <2>2 DEF Record
    <3> QED
      BY <3>1
  <2> QED
    BY <1>4, <2>1, <2>2 DEF Confirmed
<1>5. ASSUME NEW r \in Reqs, NEW c \in Claims, NEW proof, SubmitProven(r, c, proof)
      PROVE  UNCHANGED <<answer, log>>
  BY <1>5 DEF SubmitProven
<1>6. ASSUME NEW r \in Reqs, Broadcast(r) \/ Mine(r) \/ Replace(r)
      PROVE  UNCHANGED <<answer, log>>
  BY <1>6 DEF Broadcast, Mine, Replace
<1>7. CASE Authorize \/ Crash \/ UNCHANGED vars
  BY <1>7 DEF Authorize, Crash, vars
<1> QED
  BY <1>1, <1>2, <1>3, <1>4, <1>5, <1>6, <1>7 DEF Next

LEMMA AnsweredStaysLogged ==
  ASSUME TypeOK, HistoryIsComplete, AnsweredIsLogged, [Next]_vars
  PROVE  AnsweredIsLogged'
<1>1. CASE UNCHANGED <<answer, log>>
  BY <1>1 DEF AnsweredIsLogged
<1>2. ASSUME NEW r \in Reqs, NEW c, NEW status, NEW proof, NEW code,
             Record(r, c, status, proof, code)
      PROVE  AnsweredIsLogged'
  <2>1. answer \in [Reqs -> {0, 200, 400, 500, 502}] /\ log \in Seq(Rows)
    BY DEF TypeOK
  <2>2. CASE appendThrows /\ Answer(r, 500)
    <3>1. log' = log /\ answer' = [answer EXCEPT ![r] = 500]
      BY <2>2 DEF appendThrows, Answer
    <3> QED
      BY <2>1, <3>1 DEF AnsweredIsLogged
  <2>3. CASE appendHistory(Row(r, c, status, proof)) /\ Answer(r, code)
    <3> DEFINE row == Row(r, c, status, proof)
               n == Len(log) + 1
    <3>1. log' = Append(log, row) /\ answer' = [answer EXCEPT ![r] = code]
      BY <2>3 DEF appendHistory, Answer
    <3>2. row.req = r
      BY DEF Row
    <3> HIDE DEF row
    <3>3. /\ DOMAIN log \subseteq DOMAIN log' /\ n \in DOMAIN log' /\ log'[n] = row
          /\ \A i \in DOMAIN log : log'[i] = log[i]
      BY <2>1, <3>1
    <3> HIDE DEF n
    <3> QED
      BY <2>1, <3>1, <3>2, <3>3 DEF AnsweredIsLogged
  <2> QED
    BY <1>2, <2>2, <2>3 DEF Record
<1> QED
  BY <1>1, <1>2, ResponsesAreRecorded

(* Whoever was told an outcome finds it in the history file while the file  *)
(* parses: every handler appends before it responds, in one uninterrupted   *)
(* piece of code, and a failed append changes the response to 500.          *)
THEOREM BackendAnsweredIsRecorded == Spec => []AnsweredIsRecorded
<1>1. Init => AnsweredIsLogged
  BY DEF Init, AnsweredIsLogged
<1>2. IInv => TypeOK /\ HistoryIsComplete
  BY DEF IInv
<1>3. IInv /\ AnsweredIsLogged /\ [Next]_vars => AnsweredIsLogged'
  BY <1>2, AnsweredStaysLogged
<1>4. HistoryIsComplete /\ AnsweredIsLogged => AnsweredIsRecorded
  BY DEF HistoryIsComplete, AnsweredIsLogged, AnsweredIsRecorded
<1> QED
  BY <1>1, <1>2, <1>3, <1>4, BackendInvariant, PTL DEF Spec
=============================================================================
