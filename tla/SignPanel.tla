----------------------------- MODULE SignPanel ------------------------------
(***************************************************************************)
(* The USB verification panel of an unsealed capsule (components/          *)
(* UsbSignInference.tsx): it hashes the text, has the device sign          *)
(* text|timestamp|hash and submits the proof, three asynchronous calls     *)
(* whose answers arrive in any order.  Selecting another capsule keeps the *)
(* component: an effect resets the form, but cancels neither the signing   *)
(* nor the submission.                                                     *)
(*                                                                         *)
(* A hash is represented by the text it is of, a proof by the line it is   *)
(* the HMAC of (what /sign-inference and /submit make of their bodies; the *)
(* chain and the history are those of OracleBackend).                      *)
(***************************************************************************)
EXTENDS Naturals, FiniteSets

CONSTANTS
  Items,          (* unsealed capsules                                     *)
  Texts,          (* what a text field can hold                            *)
  Stamps,         (* what the timestamp field can hold                     *)
  plaintext,      (* per item                                              *)
  trim,           (* String.trim, per text                                 *)
  Number,         (* Number(timestamp) as JSON prints it, per stamp        *)
  Now,            (* unixSecondsNowString                                  *)
  DefaultText,    (* DEFAULT_SEALED_SKY_TEXT                               *)
  LineTexts,      (* what can stand for the text in a line                 *)
  rawSlice,       (* extract_json_string, per text and stamp: it as JSON   *)
                  (* has it, its escapes not undone                        *)
  MaxCalls,       (* bound on the calls in flight                          *)
  None            (* an empty field; an empty text; no number; no item     *)

Line == [text : LineTexts, stamp : Stamps, hash : Texts]

ASSUME PanelAssumption ==
  /\ plaintext \in [Items -> Texts]
  /\ trim \in [Texts -> Texts \cup {None}]
  /\ Number \in [Stamps -> Stamps \cup {None}]
  /\ Now \in Stamps /\ Number[Now] = Now
  /\ Texts \cup {DefaultText} \subseteq LineTexts
  /\ \A t \in Texts \cup {DefaultText} : rawSlice[t] \in LineTexts
  /\ \A s \in Stamps : rawSlice[s] \in Stamps
  /\ rawSlice[Now] = Now /\ rawSlice[DefaultText] = DefaultText
  /\ None \notin Items \cup Texts \cup Stamps \cup Line
  /\ MaxCalls \in Nat

VARIABLES
  item,           (* the capsule shown                                     *)
  text, stamp,    (* sealedSkyText, timestamp                              *)
  contentHash,
  hashing,        (* texts being hashed; hashBusy is text \in hashing      *)
  sign,           (* signStatus and hmacOut, and the item they are of      *)
  proof,          (* the proof field, and the item whose answer filled it  *)
  submit,         (* submitStatus, and the item it is of                   *)
  calls,          (* signings and submissions in flight                    *)
  late,           (* kinds of which an answer to a call of before the      *)
                  (* reset has come since                                  *)
  clean           (* since the reset nothing was edited, and nothing was   *)
                  (* signed while the hash was being computed              *)

form == <<text, stamp, contentHash, hashing>>
vars == <<item, form, sign, proof, submit, calls, late, clean>>

NoSign == [status |-> "idle", out |-> None, from |-> None]
NoProof == [line |-> None, from |-> None]
NoSubmit == [status |-> "idle", from |-> None]
hashBusy == text \in hashing

Init ==
  /\ item = None
  /\ text = None /\ stamp = Now /\ contentHash = None /\ hashing = {}
  /\ sign = NoSign /\ proof = NoProof /\ submit = NoSubmit
  /\ calls = {}
  /\ late = {} /\ clean = TRUE

-----------------------------------------------------------------------------
(* The form. *)

(* The effect on sealedSkyText hashes a text that has changed.              *)
setSealedSkyText(x) ==
  /\ text' = x
  /\ hashing' = IF x = text THEN hashing ELSE hashing \cup {x}

(* Mutation: what the last submission said stays. *)
resetButSubmit ==
  /\ stamp' = Now
  /\ sign' = NoSign /\ proof' = NoProof /\ UNCHANGED submit
  /\ late' = {} /\ clean' = TRUE

(* The effect on itemId and plaintext. *)
reset ==
  /\ stamp' = Now
  /\ sign' = NoSign /\ proof' = NoProof /\ submit' = NoSubmit
  /\ late' = {} /\ clean' = TRUE

(* An unsealed capsule is selected; the component keeps its state if it was *)
(* there.                                                                   *)
Select(i) ==
  /\ item # i
  /\ item' = i
  /\ setSealedSkyText(plaintext[i])
  /\ reset
  /\ calls' = {[c EXCEPT !.current = FALSE] : c \in calls}
  /\ UNCHANGED contentHash

(* Mutation: the calls of the unmounted component still find it. *)
LeaveInFlight ==
  /\ item # None
  /\ item' = None
  /\ text' = None /\ contentHash' = None /\ hashing' = {} /\ UNCHANGED calls
  /\ reset

(* A capsule that is not unsealed, or none: the component is unmounted, and *)
(* what it waits for ends unseen.                                           *)
Leave ==
  /\ item # None
  /\ item' = None
  /\ text' = None /\ contentHash' = None /\ hashing' = {} /\ calls' = {}
  /\ reset

Edit ==
  /\ item # None
  /\ \/ \E x \in Texts : setSealedSkyText(x) /\ UNCHANGED <<stamp, proof>>
     \/ \E s \in Stamps : stamp' = s /\ UNCHANGED <<text, hashing, proof>>
     \/ /\ \E l \in {None, sign.out} : proof' = [line |-> l, from |-> None]
        /\ UNCHANGED <<text, stamp, hashing>>
  /\ clean' = FALSE
  /\ UNCHANGED <<item, contentHash, sign, submit, calls, late>>

(* Mutation: a run that was cancelled sets its hash all the same. *)
HashedUncancelled(x) ==
  /\ x \in hashing
  /\ hashing' = hashing \ {x}
  /\ contentHash' \in {x, None}
  /\ UNCHANGED <<item, text, stamp, sign, proof, submit, calls, late, clean>>

(* sha256Utf8Hex0x is done, or throws; only the run of the text now in the  *)
(* field is not cancelled.                                                  *)
Hashed(x) ==
  /\ x \in hashing
  /\ hashing' = hashing \ {x}
  /\ IF x = text THEN contentHash' \in {x, None} ELSE UNCHANGED contentHash
  /\ UNCHANGED <<item, text, stamp, sign, proof, submit, calls, late, clean>>

-----------------------------------------------------------------------------
(* The relayer. *)

sealedSkyTextFromBody(x) == IF x = None THEN DefaultText ELSE x

(* What the device signs for /sign-inference: serve() hands the handler the *)
(* raw slice of the JSON string.  A hash has nothing to escape.             *)
signedLine(c) ==
  [text |-> rawSlice[sealedSkyTextFromBody(c.text)],
   stamp |-> rawSlice[c.stamp], hash |-> c.hash]

(* Mutation: /submit does not replace a blank text. *)
canonicalAsSent(c) ==
  [text |-> c.text, stamp |-> c.stamp, hash |-> c.hash]

(* /submit: the line whose HMAC the proof must be. *)
canonicalPayload(c) ==
  [text |-> sealedSkyTextFromBody(c.text), stamp |-> c.stamp, hash |-> c.hash]

verifies(c) == c.proof = canonicalPayload(c)

(* JSON escapes nothing in the text of a call. *)
intact(c) ==
  LET t == sealedSkyTextFromBody(c.text) IN rawSlice[t] = t

-----------------------------------------------------------------------------
(* The calls. *)

ready(status) ==
  item # None /\ status # "busy" /\ contentHash # None /\ Cardinality(calls) < MaxCalls

request(kind, s) ==
  [kind |-> kind, item |-> item, current |-> TRUE,
   text |-> trim[text], stamp |-> s, hash |-> contentHash,
   proof |-> proof.line]

OnSign ==
  /\ ready(sign.status)
  /\ sign' = [status |-> "busy", out |-> None, from |-> item]
  /\ calls' = calls \cup {[request("sign", stamp) EXCEPT !.proof = None]}
  /\ clean' = (clean /\ ~hashBusy)
  /\ UNCHANGED <<item, form, proof, submit, late>>

OnSubmit ==
  /\ ready(submit.status)
  /\ IF Number[stamp] = None \/ proof.line = None
     THEN /\ submit' = [status |-> "err", from |-> item]
          /\ UNCHANGED calls
     ELSE /\ submit' = [status |-> "busy", from |-> item]
          /\ calls' = calls \cup {request("submit", Number[stamp])}
  /\ UNCHANGED <<item, form, sign, proof, late, clean>>

ends(c) ==
  /\ c \in calls
  /\ calls' = calls \ {c}
  /\ late' = IF c.current THEN late ELSE late \cup {c.kind}

(* The device has signed: hmacOut, and the effect that fills the proof in   *)
(* when hmacOut or signStatus has changed.                                  *)
Signed(c) ==
  /\ c.kind = "sign" /\ ends(c)
  /\ sign' = [status |-> "ok", out |-> signedLine(c), from |-> c.item]
  /\ proof' = IF sign.status = "ok" /\ sign.out = signedLine(c) THEN proof
              ELSE [line |-> signedLine(c), from |-> c.item]
  /\ UNCHANGED <<item, form, submit, clean>>

(* Mutation: the catch block forgets the status. *)
SignFailsBusy(c) ==
  /\ c.kind = "sign" /\ ends(c)
  /\ UNCHANGED <<item, form, sign, proof, submit, clean>>

(* The relayer or the device refuses, or the call fails. *)
SignFails(c) ==
  /\ c.kind = "sign" /\ ends(c)
  /\ sign' = [sign EXCEPT !.status = "err", !.from = c.item]
  /\ UNCHANGED <<item, form, proof, submit, clean>>

Submitted(c) ==
  /\ c.kind = "submit" /\ verifies(c) /\ ends(c)
  /\ submit' = [status |-> "ok", from |-> c.item]
  /\ UNCHANGED <<item, form, sign, proof, clean>>

(* An invalid proof, or the chain, or the call fails. *)
SubmitFails(c) ==
  /\ c.kind = "submit" /\ ends(c)
  /\ submit' = [status |-> "err", from |-> c.item]
  /\ UNCHANGED <<item, form, sign, proof, clean>>

Next ==
  \/ \E i \in Items : Select(i)
  \/ Leave \/ Edit \/ OnSign \/ OnSubmit
  \/ \E x \in hashing : Hashed(x)
  \/ \E c \in calls : Signed(c) \/ SignFails(c) \/ Submitted(c) \/ SubmitFails(c)

Spec == Init /\ [][Next]_vars

(* Hashes are computed, and every call is answered or fails. *)
FairSpec ==
  /\ Spec
  /\ WF_vars(\E x \in hashing : Hashed(x))
  /\ WF_vars(\E c \in calls : Signed(c) \/ SignFails(c))
  /\ WF_vars(\E c \in calls : Submitted(c) \/ SubmitFails(c))

-----------------------------------------------------------------------------
Status == {"idle", "busy", "ok", "err"}

Call == [kind : {"sign", "submit"}, item : Items, current : BOOLEAN,
         text : Texts \cup {None}, stamp : Stamps, hash : Texts,
         proof : Line \cup {None}]

(* Types; a panel that is not shown holds nothing. *)
TypeOK ==
  /\ item \in Items \cup {None}
  /\ text \in Texts \cup {None} /\ stamp \in Stamps
  /\ contentHash \in Texts \cup {None}
  /\ hashing \subseteq Texts
  /\ sign \in [status : Status, out : Line \cup {None}, from : Items \cup {None}]
  /\ proof \in [line : Line \cup {None}, from : Items \cup {None}]
  /\ submit \in [status : Status, from : Items \cup {None}]
  /\ calls \subseteq Call
  /\ late \subseteq {"sign", "submit"} /\ clean \in BOOLEAN
  /\ item = None => text = None /\ calls = {} /\ hashing = {}

(* The hash shown when none is being computed is that of the text shown,    *)
(* in whatever order the hashes of quickly changing texts get ready (the    *)
(* cancelled flag of the hash effect).                                      *)
HashIsOfText ==
  item # None /\ ~hashBusy /\ contentHash # None => contentHash = text

(* The status and the HMAC of a signing, the proof and the outcome of a     *)
(* submission that the panel shows are of the capsule it shows, each unless *)
(* an answer of its own kind, asked for before the selection, has come      *)
(* since: nothing is left over from the capsule before, and a late          *)
(* signature says nothing of a submission (the reset effect).               *)
FormIsOfItsItem ==
  /\ "sign" \notin late => {sign.from, proof.from} \subseteq {None, item}
  /\ "submit" \notin late => submit.from \in {None, item}

(* Signing and submitting without touching a field, once the hash is ready, *)
(* verifies if JSON escapes nothing in the text: blanks, the time and the   *)
(* default text make no difference, as both ways to the relayer make the    *)
(* same line of the form.  A text with a quote, a backslash or a line break *)
(* is signed in another form (onSign, onSubmitSepolia, the handlers,        *)
(* extract_json_string).                                                    *)
UntouchedSignatureVerifies ==
  [][clean /\ "sign" \notin late /\ ~hashBusy /\ proof.from = item =>
       \A c \in calls' \ calls : c.current /\ c.kind = "submit" /\ intact(c) =>
         verifies(c)]_vars

(* Neither button stays busy for ever (onSign, onSubmitSepolia).            *)
CallsEnd ==
  /\ sign.status = "busy" ~> sign.status # "busy"
  /\ submit.status = "busy" ~> submit.status # "busy"

(* What the panel says of what the relayer is to attest (line 252): "SHA-256*)
(* of sealed sky text (UTF-8) - sent as imageHash".                         *)
SubmittedHashIsOfText ==
  \A c \in calls : c.kind = "submit" /\ verifies(c) => c.hash = c.text
=============================================================================
