--------------------------- MODULE OracleBackend ----------------------------
(***************************************************************************)
(* The relayer, backend/server.js: POST /sign-inference, which asks the    *)
(* USB Armory for a proof; POST /submit, which checks a proof, sends the   *)
(* transaction, awaits its receipt and writes the validation history; the  *)
(* history file; and crashes of the process.  The contract is the module   *)
(* TrustedEdgeOracle, the bridge and the Ethereum node are external.       *)
(*                                                                         *)
(* Node runs a handler without interruption from one await to the next, so *)
(* a handler is one action up to its first await and one for what follows  *)
(* each await; appendHistory is synchronous and lies inside them.          *)
(*                                                                         *)
(* The proof is the HMAC of a line, taken to be injective and to come from *)
(* the device only, so a proof is represented by the line it was made of.  *)
(* A line is the sequence of what lies between its '|' characters.         *)
(***************************************************************************)
EXTENDS Naturals, Sequences

CONSTANTS
  Reqs,           (* HTTP requests; each arrives at most once              *)
  Claims,         (* [text, timestamp, imageHash, uint256, escapes]: the   *)
                  (* fields of a request, text and imageHash split at '|', *)
                  (* the timestamp as it prints; the decimal of the number *)
                  (* that ethers reads in it, or NoNumber; and whether     *)
                  (* JSON escapes any character of them                    *)
  NoNumber,       (* ethers does not take the timestamp for a uint256      *)
  Accounts, Deployer,
  Wallet,         (* the relayer's account                                 *)
  Torn,           (* the history file does not parse                       *)
  NoProof         (* a missing or wrong proof                              *)

Prefix == "pothole_detected"

canonicalPayload(c) == c.text \o <<c.timestamp>> \o c.imageHash
legacyPayload(c) == <<Prefix>> \o canonicalPayload(c)

(* What the applet signs for a claim.  serve() hands the handler the raw    *)
(* slice of the JSON string, so a line that JSON escapes is signed in its   *)
(* escaped form.  An applet of the older format adds the prefix.            *)
deviceLines(c) ==
  LET line == IF c.escapes THEN <<"escaped">> \o canonicalPayload(c)
              ELSE canonicalPayload(c)
  IN  {line, <<Prefix>> \o line}

Lines == UNION {deviceLines(c) \cup {canonicalPayload(c), legacyPayload(c)}
                  : c \in Claims}

(* Mutation: the hash is always that of the canonical line.                 *)
StatementCanonical(c, line) ==
  [text |-> c.text, timestamp |-> c.uint256, imageHash |-> c.imageHash,
   payloadHash |-> canonicalPayload(c)]

(* The arguments of submitInference, which the contract stores: ethers      *)
(* converts the timestamp to a uint256; payloadHash is keccak256 of the     *)
(* line that matched, taken to be injective.                                *)
StatementOf(c, line) ==
  [text |-> c.text, timestamp |-> c.uint256, imageHash |-> c.imageHash,
   payloadHash |-> line]

Statements == {StatementOf(c, line) : c \in Claims, line \in Lines}

ASSUME BackendAssumption ==
  /\ Deployer \in Accounts /\ Wallet \in Accounts
  /\ NoProof \notin Lines

VARIABLES
  phase,          (* where each request's handler is                       *)
  form,           (* [claim, proof] of each /submit that passed the checks *)
  answer,         (* the HTTP status sent, 0 for none                      *)
  file,           (* the history file: its records, or Torn                *)
  log,            (* history: every record appendHistory has written       *)
  signed,         (* lines the device has signed                           *)
  tx,             (* the transaction of each request                       *)
  attestations, events, authorizedRelayers

Oracle == INSTANCE TrustedEdgeOracle

chain == <<attestations, events, authorizedRelayers>>
vars == <<phase, form, answer, file, log, signed, tx, chain>>

Init ==
  /\ phase = [r \in Reqs |-> "new"]
  /\ form = [r \in Reqs |-> NoProof]
  /\ answer = [r \in Reqs |-> 0]
  /\ file = <<>>
  /\ log = <<>>
  /\ signed = {}
  /\ tx = [r \in Reqs |-> "none"]
  /\ Oracle!Init

-----------------------------------------------------------------------------
(* The history file. *)

(* Mutation: readHistory takes a file that does not parse for an empty one. *)
appendForgiving(rec) ==
  /\ file' = IF file = Torn THEN <<rec>> ELSE Append(file, rec)
  /\ log' = Append(log, rec)

(* appendHistory: read, push, write the whole file. *)
appendHistory(rec) ==
  /\ file # Torn
  /\ file' = Append(file, rec)
  /\ log' = Append(log, rec)

(* appendHistory throws: the file does not parse, cannot be opened, or is   *)
(* truncated by a write that fails.                                         *)
appendThrows ==
  /\ file' \in {file, Torn}
  /\ UNCHANGED log

Answer(r, code) ==
  /\ phase' = [phase EXCEPT ![r] = "done"]
  /\ answer' = [answer EXCEPT ![r] = code]

Row(r, c, status, proof) ==
  [req |-> r, claim |-> c, status |-> status, proof |-> proof]

(* Mutation: the response is sent even if the history could not be written. *)
RecordLoosely(r, c, status, proof, code) ==
  /\ \/ appendHistory(Row(r, c, status, proof))
     \/ appendThrows
  /\ Answer(r, code)

(* Write one record and answer; an exception of appendHistory leaves the    *)
(* handler and Express answers 500.                                         *)
Record(r, c, status, proof, code) ==
  \/ appendHistory(Row(r, c, status, proof)) /\ Answer(r, code)
  \/ appendThrows /\ Answer(r, 500)

-----------------------------------------------------------------------------
(* POST /sign-inference; spawnSync blocks the process until nc has ended.   *)

(* The input is malformed, or nc fails, or its output is empty, not JSON or *)
(* an error of the bridge.                                                  *)
SignRejected(r, c) ==
  /\ phase[r] = "new"
  /\ \E code \in {400, 502} : Record(r, c, "rejected", NoProof, code)
  /\ UNCHANGED <<form, signed, tx, chain>>

(* The bridge replied; the Output is recorded whatever it is.  An applet    *)
(* without SignInference sends no proof.                                    *)
SignDone(r, c) ==
  /\ phase[r] = "new"
  /\ \E line \in deviceLines(c) \cup {NoProof} :
       /\ Record(r, c, "device_signed", line, 200)
       /\ signed' = signed \cup ({line} \ {NoProof})
  /\ UNCHANGED <<form, tx, chain>>

-----------------------------------------------------------------------------
(* POST /submit. *)

(* Invalid input is answered 400; a proof that is neither of the two        *)
(* expected ones is answered 200 with success false.                        *)
SubmitRejected(r, c, proof) ==
  /\ phase[r] = "new"
  /\ \/ proof = NoProof /\ Record(r, c, "rejected", proof, 400)
     \/ /\ proof \notin {canonicalPayload(c), legacyPayload(c)}
        /\ Record(r, c, "rejected", proof, 200)
  /\ UNCHANGED <<form, signed, tx, chain>>

(* The proof matches; contract.submitInference is called. *)
SubmitProven(r, c, proof) ==
  /\ phase[r] = "new"
  /\ proof \in {canonicalPayload(c), legacyPayload(c)}
  /\ phase' = [phase EXCEPT ![r] = "sending"]
  /\ form' = [form EXCEPT ![r] = [claim |-> c, proof |-> proof]]
  /\ UNCHANGED <<answer, file, log, signed, tx, chain>>

(* submitInference gets as far as the node's mempool. *)
Accepted(r) ==
  form[r].claim.uint256 # NoNumber /\ Wallet \in authorizedRelayers

(* The gas estimate succeeded and the node took the transaction. *)
Broadcast(r) ==
  /\ phase[r] = "sending" /\ Accepted(r)
  /\ tx' = [tx EXCEPT ![r] = "pending"]
  /\ phase' = [phase EXCEPT ![r] = "waiting"]
  /\ UNCHANGED <<form, answer, file, log, signed, chain>>

(* Mutation: the catch block records the failure but sends no response. *)
FailSilently(r) ==
  /\ appendHistory(Row(r, form[r].claim, "rejected", form[r].proof))
  /\ phase' = [phase EXCEPT ![r] = "stuck"]
  /\ UNCHANGED answer

(* The catch block of /submit. *)
ChainSubmitFailed(r) ==
  Record(r, form[r].claim, "rejected", form[r].proof, 502)

(* submitInference throws: the timestamp is not a uint256, the estimate     *)
(* reverts, the nonce is taken by a concurrent request, or the node took    *)
(* the transaction but its answer did not arrive.                           *)
SendFails(r) ==
  /\ phase[r] = "sending"
  /\ \/ UNCHANGED tx
     \/ Accepted(r) /\ tx' = [tx EXCEPT ![r] = "pending"]
  /\ ChainSubmitFailed(r)
  /\ UNCHANGED <<form, signed, chain>>

(* Mutation: the record is written without awaiting the receipt. *)
ConfirmedEarly(r) ==
  /\ phase[r] = "waiting"
  /\ Record(r, form[r].claim, "accepted", form[r].proof, 200)
  /\ UNCHANGED <<form, signed, tx, chain>>

(* Mutation: the response is sent inside the try block and throws there, so *)
(* that the catch block runs after the accepted record was written.         *)
ConfirmedThenThrows(r) ==
  /\ phase[r] = "waiting" /\ tx[r] = "mined"
  /\ appendHistory(Row(r, form[r].claim, "accepted", form[r].proof))
  /\ UNCHANGED <<phase, form, answer, signed, tx, chain>>

(* tx.wait() resolves and the accepted record is written.  If that throws,  *)
(* the catch block runs, whose own append may succeed or throw again.       *)
Confirmed(r) ==
  /\ phase[r] = "waiting" /\ tx[r] = "mined"
  /\ \/ /\ appendHistory(Row(r, form[r].claim, "accepted", form[r].proof))
        /\ Answer(r, 200)
     \/ ChainSubmitFailed(r)
  /\ UNCHANGED <<form, signed, tx, chain>>

(* tx.wait() rejects: the transaction was replaced, or the connection to    *)
(* the node failed at whatever stage the transaction is.                    *)
WaitFails(r) ==
  /\ phase[r] = "waiting"
  /\ ChainSubmitFailed(r)
  /\ UNCHANGED <<form, signed, tx, chain>>

-----------------------------------------------------------------------------
(* The chain (external but for the contract's code). *)

(* A transaction enters a block, long after its sender may have given up. *)
Mine(r) ==
  /\ tx[r] = "pending"
  /\ tx' = [tx EXCEPT ![r] = "mined"]
  /\ Oracle!submitInference(Wallet, StatementOf(form[r].claim, form[r].proof))
  /\ UNCHANGED <<phase, form, answer, file, log, signed>>

(* It never takes effect: another transaction with its nonce replaces it,   *)
(* or it fails in its block.                                                *)
Replace(r) ==
  /\ tx[r] = "pending"
  /\ tx' = [tx EXCEPT ![r] = "replaced"]
  /\ UNCHANGED <<phase, form, answer, file, log, signed, chain>>

Authorize ==
  /\ Wallet \notin authorizedRelayers
  /\ Oracle!authorizeRelayer(Deployer, Wallet)
  /\ UNCHANGED <<phase, form, answer, file, log, signed, tx>>

(* The process ends and is started again; if it was inside writeFileSync    *)
(* the file is left truncated.  Transactions live on.                       *)
Crash ==
  /\ \E r \in Reqs : phase[r] # "done"
  /\ phase' = [r \in Reqs |-> IF phase[r] \in {"sending", "waiting"} THEN "cut"
                              ELSE phase[r]]
  /\ file' \in {file, Torn}
  /\ UNCHANGED <<form, answer, log, signed, tx, chain>>

Next ==
  \/ \E r \in Reqs, c \in Claims :
       \/ SignRejected(r, c) \/ SignDone(r, c)
       \/ \E proof \in signed \cup {NoProof} :
            SubmitRejected(r, c, proof) \/ SubmitProven(r, c, proof)
  \/ \E r \in Reqs :
       \/ Broadcast(r) \/ SendFails(r) \/ Confirmed(r) \/ WaitFails(r)
       \/ Mine(r) \/ Replace(r)
  \/ Authorize
  \/ Crash

Spec == Init /\ [][Next]_vars

(* The node answers every call, a pending transaction is mined or replaced, *)
(* and Node resumes a handler whose promise has settled.                    *)
FairSpec ==
  /\ Spec
  /\ \A r \in Reqs :
       /\ WF_vars(Broadcast(r) \/ SendFails(r))
       /\ WF_vars(Mine(r) \/ Replace(r))
       /\ WF_vars(Confirmed(r))
       /\ WF_vars(tx[r] = "replaced" /\ WaitFails(r))

-----------------------------------------------------------------------------
Forms == [claim : Claims, proof : Lines]

Rows == [req : Reqs, claim : Claims, proof : Lines \cup {NoProof},
         status : {"rejected", "device_signed", "accepted"}]

(* Types; a handler past its checks holds a claim and a proof.              *)
TypeOK ==
  /\ phase \in [Reqs -> {"new", "sending", "waiting", "done", "cut"}]
  /\ form \in [Reqs -> Forms \cup {NoProof}]
  /\ answer \in [Reqs -> {0, 200, 400, 500, 502}]
  /\ file \in Seq(Rows) \cup {Torn}
  /\ log \in Seq(Rows)
  /\ signed \subseteq Lines
  /\ tx \in [Reqs -> {"none", "pending", "mined", "replaced"}]
  /\ attestations \in Seq([statement : Statements, relayer : Accounts])
  /\ events \in Seq([id : Nat, statement : Statements, relayer : Accounts])
  /\ authorizedRelayers \subseteq Accounts
  /\ \A r \in Reqs : /\ phase[r] \in {"sending", "waiting"} => form[r] \in Forms
                     /\ tx[r] # "none" => form[r] \in Forms

(* What the history calls accepted is attested on chain, with the fields    *)
(* and the line whose proof was checked, through failures and crashes       *)
(* (/submit).                                                               *)
AcceptedIsAttested ==
  \A i \in DOMAIN log : log[i].status = "accepted" =>
    \E j \in DOMAIN attestations :
      attestations[j] = [statement |-> StatementOf(log[i].claim, log[i].proof),
                         relayer |-> Wallet]

(* The relayer attests only lines the device signed, each with the text,    *)
(* the image hash and the number in the timestamp of a claim that makes     *)
(* that line (/submit; plan.md:15 "Backend verifies proof before sending    *)
(* transaction").  The line has the timestamp as the client wrote it, the   *)
(* attestation the number: from "0x10" or "005" in the line a reader of the *)
(* chain has 16 or 5.                                                       *)
OnlySignedLinesAttested ==
  \A j \in DOMAIN attestations :
    LET s == attestations[j].statement
    IN  /\ s.payloadHash \in signed
        /\ s.timestamp # NoNumber
        /\ \E c \in Claims :
             /\ s = StatementOf(c, s.payloadHash)
             /\ s.payloadHash \in {canonicalPayload(c), legacyPayload(c)}

(* A request leaves at most one record: no submission is both accepted and  *)
(* rejected, although the catch block also covers the write of the accepted *)
(* record (/submit).                                                        *)
OneRecordPerRequest ==
  \A i, j \in DOMAIN log : log[i].req = log[j].req => i = j

(* A client that was told an outcome finds it in the history, unless the    *)
(* file has been damaged since (every handler appends before it responds).  *)
AnsweredIsRecorded ==
  \A r \in Reqs : answer[r] \in {200, 400, 502} /\ file # Torn =>
    \E i \in DOMAIN file : file[i].req = r

(* A history that parses holds every record ever written, in order: each    *)
(* append rewrites the whole file from what it read (appendHistory,         *)
(* readHistory).                                                            *)
HistoryIsComplete == file \in {log, Torn}

(* Every submission that passed the checks gets a response or is cut off by *)
(* a crash, whatever the node and the file system do (/submit).             *)
SubmissionsAnswered ==
  \A r \in Reqs : phase[r] = "sending" ~> phase[r] \in {"done", "cut"}

(* server.js:77 calls the history file the "Single source of truth for      *)
(* validation JSON" and its records say chain_submit_failed: a submission   *)
(* recorded as rejected is not attested.                                    *)
RejectedIsNotAttested ==
  \A i \in DOMAIN log : log[i].status = "rejected" => tx[log[i].req] # "mined"
=============================================================================
