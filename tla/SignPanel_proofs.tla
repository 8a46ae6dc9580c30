--------------------------- MODULE SignPanel_proofs ---------------------------
(***************************************************************************)
(* Proofs about SignPanel, for any set of capsules, texts and timestamps   *)
(* and any number of calls in flight: the type invariant, that the hash    *)
(* shown is of the text shown, that nothing is left over from the capsule  *)
(* before, and which of what was signed without touching a field verifies. *)
(***************************************************************************)
EXTENDS SignPanel, TLAPS

SignState == [status : Status, out : Line \cup {None}, from : Items \cup {None}]
SubmitState == [status : Status, from : Items \cup {None}]

ShownHasText == item # None => text \in Texts

(* A call that is not of before the reset is of the capsule shown. *)
CallsAreOfTheItem == \A c \in calls : c.current => c.item = item

(* While no field was touched, what is being signed, and the proof that     *)
(* came of it, are of the text and the time that the reset put there.       *)
CleanForm ==
  clean => /\ stamp = Now
           /\ \A c \in calls : c.current /\ c.kind = "sign" =>
                c.text = trim[text] /\ c.stamp = Now /\ c.hash = text

CleanProof ==
  clean /\ "sign" \notin late /\ item # None /\ proof.from = item =>
    proof.line = [text |-> rawSlice[sealedSkyTextFromBody(trim[text])],
                  stamp |-> Now, hash |-> text]

SignInv ==
  /\ TypeOK
  /\ ShownHasText
  /\ HashIsOfText
  /\ CallsAreOfTheItem
  /\ FormIsOfItsItem
  /\ CleanForm
  /\ CleanProof

-----------------------------------------------------------------------------
LEMMA Blank ==
  /\ NoSign \in SignState
  /\ NoProof \in [line : Line \cup {None}, from : Items \cup {None}]
  /\ NoSubmit \in SubmitState
  /\ NoSign.from = None /\ NoProof.from = None /\ NoSubmit.from = None
BY DEF NoSign, NoProof, NoSubmit, Status, SignState, SubmitState

LEMMA SignInitial == Init => SignInv
BY Blank, PanelAssumption
DEF Init, SignInv, TypeOK, SignState, SubmitState, ShownHasText, HashIsOfText, CallsAreOfTheItem,
    FormIsOfItsItem, CleanForm, CleanProof

LEMMA SelectKeeps ==
  ASSUME SignInv, NEW i \in Items, Select(i)
  PROVE  SignInv'
<1>1. /\ item' = i /\ text' = plaintext[i]
      /\ hashing' = IF plaintext[i] = text THEN hashing
                    ELSE hashing \cup {plaintext[i]}
      /\ stamp' = Now /\ sign' = NoSign /\ proof' = NoProof /\ submit' = NoSubmit
      /\ late' = {} /\ clean' = TRUE
      /\ calls' = {[c EXCEPT !.current = FALSE] : c \in calls}
      /\ contentHash' = contentHash
  BY DEF Select, setSealedSkyText, reset
<1>2. /\ plaintext[i] \in Texts /\ Now \in Stamps /\ i # None
      /\ plaintext[i] # None
  BY PanelAssumption
<1>3. calls' \subseteq Call /\ \A c \in calls' : ~c.current
  <2>1. ASSUME NEW c \in calls
        PROVE  [c EXCEPT !.current = FALSE] \in Call /\ ~[c EXCEPT !.current = FALSE].current
    <3>1. c \in Call
      BY DEF SignInv, TypeOK
    <3> QED
      BY <3>1 DEF Call
  <2> QED
    BY <1>1, <2>1
<1>4. TypeOK'
  BY <1>1, <1>2, <1>3, Blank DEF SignInv, TypeOK, SignState, SubmitState
<1>5. HashIsOfText'
  <2>1. CASE plaintext[i] = text
    <3>1. item # None
      BY <2>1, <1>2 DEF SignInv, TypeOK
    <3> QED
      BY <1>1, <2>1, <3>1 DEF SignInv, HashIsOfText, hashBusy
  <2>2. CASE plaintext[i] # text
    BY <1>1, <2>2 DEF HashIsOfText, hashBusy
  <2> QED
    BY <2>1, <2>2
<1>6. FormIsOfItsItem' /\ CleanProof'
  BY <1>1, <1>2, Blank DEF FormIsOfItsItem, CleanProof
<1>7. CallsAreOfTheItem' /\ CleanForm'
  BY <1>1, <1>3 DEF CallsAreOfTheItem, CleanForm
<1>8. ShownHasText'
  BY <1>1, <1>2 DEF ShownHasText
<1> QED
  BY <1>4, <1>5, <1>6, <1>7, <1>8 DEF SignInv

LEMMA LeaveKeeps ==
  ASSUME SignInv, Leave
  PROVE  SignInv'
<1>1. /\ item' = None /\ text' = None /\ contentHash' = None
      /\ hashing' = {} /\ calls' = {}
      /\ stamp' = Now /\ sign' = NoSign /\ proof' = NoProof /\ submit' = NoSubmit
      /\ late' = {} /\ clean' = TRUE
  BY DEF Leave, reset
<1> QED
  BY <1>1, Blank, PanelAssumption
  DEF SignInv, TypeOK, SignState, SubmitState, ShownHasText, HashIsOfText,
      CallsAreOfTheItem, FormIsOfItsItem, CleanForm, CleanProof

LEMMA EditKeeps ==
  ASSUME SignInv, Edit
  PROVE  SignInv'
<1>1. /\ item # None /\ clean' = FALSE
      /\ UNCHANGED <<item, contentHash, sign, submit, calls, late>>
  BY DEF Edit
<1>2. /\ sign.out \in Line \cup {None}
      /\ text \in Texts /\ stamp \in Stamps /\ hashing \subseteq Texts
      /\ proof \in [line : Line \cup {None}, from : Items \cup {None}]
  BY <1>1 DEF SignInv, TypeOK, ShownHasText
<1>3. /\ text' \in Texts /\ hashing' \subseteq Texts /\ stamp' \in Stamps
      /\ \/ text' = text /\ hashing' = hashing
         \/ text' \in hashing'
      /\ proof' \in [line : Line \cup {None}, from : Items \cup {None}]
      /\ proof'.from \in {proof.from, None}
  <2>1. CASE \E x \in Texts : setSealedSkyText(x) /\ UNCHANGED <<stamp, proof>>
    BY <2>1, <1>2 DEF setSealedSkyText
  <2>2. CASE \E s \in Stamps : stamp' = s /\ UNCHANGED <<text, hashing, proof>>
    BY <2>2, <1>2
  <2>3. CASE /\ \E l \in {None, sign.out} : proof' = [line |-> l, from |-> None]
             /\ UNCHANGED <<text, stamp, hashing>>
    BY <2>3, <1>2
  <2> QED
    BY <2>1, <2>2, <2>3 DEF Edit
<1>4. TypeOK'
  BY <1>1, <1>3 DEF SignInv, TypeOK
<1>5. HashIsOfText'
  BY <1>1, <1>3 DEF SignInv, HashIsOfText, hashBusy
<1>6. FormIsOfItsItem'
  BY <1>1, <1>3 DEF SignInv, FormIsOfItsItem
<1> QED
  BY <1>1, <1>3, <1>4, <1>5, <1>6
  DEF SignInv, ShownHasText, CallsAreOfTheItem, CleanForm, CleanProof

LEMMA HashedKeeps ==
  ASSUME SignInv, NEW x \in hashing, Hashed(x)
  PROVE  SignInv'
<1>1. /\ hashing' = hashing \ {x}
      /\ IF x = text THEN contentHash' \in {x, None} ELSE UNCHANGED contentHash
      /\ UNCHANGED <<item, text, stamp, sign, proof, submit, calls, late, clean>>
  BY DEF Hashed
<1>2. TypeOK'
  BY <1>1 DEF SignInv, TypeOK
<1>3. HashIsOfText'
  BY <1>1 DEF SignInv, HashIsOfText, hashBusy
<1> QED
  BY <1>1, <1>2, <1>3
  DEF SignInv, ShownHasText, CallsAreOfTheItem, FormIsOfItsItem, CleanForm, CleanProof

-----------------------------------------------------------------------------
(* The calls. *)

LEMMA RequestFacts ==
  ASSUME SignInv, item # None, contentHash # None, NEW s \in Stamps,
         NEW kind \in {"sign", "submit"}
  PROVE  /\ request(kind, s) \in Call
         /\ request(kind, s).kind = kind /\ request(kind, s).item = item
         /\ request(kind, s).text = trim[text] /\ request(kind, s).stamp = s
         /\ request(kind, s).hash = contentHash
         /\ request(kind, s).proof = proof.line
<1>1. /\ item \in Items /\ text \in Texts /\ contentHash \in Texts
      /\ proof.line \in Line \cup {None}
  BY DEF SignInv, TypeOK, ShownHasText
<1>2. trim[text] \in Texts \cup {None}
  BY <1>1, PanelAssumption
<1> QED
  BY <1>1, <1>2 DEF request, Call

LEMMA OnSignKeeps ==
  ASSUME SignInv, OnSign
  PROVE  SignInv'
<1> DEFINE new == [request("sign", stamp) EXCEPT !.proof = None]
<1>1. /\ item # None /\ contentHash # None
      /\ sign' = [status |-> "busy", out |-> None, from |-> item]
      /\ calls' = calls \cup {new}
      /\ clean' = (clean /\ ~hashBusy)
      /\ UNCHANGED <<item, text, stamp, contentHash, hashing, proof, submit, late>>
  BY DEF OnSign, ready, form
<1>2. stamp \in Stamps
  BY DEF SignInv, TypeOK
<1>3. /\ new \in Call /\ new.item = item /\ new.text = trim[text]
      /\ new.stamp = stamp /\ new.hash = contentHash
  <2>1. request("sign", stamp) \in Call
    BY <1>1, <1>2, RequestFacts
  <2> QED
    BY <1>1, <1>2, <2>1, RequestFacts DEF Call
<1> HIDE DEF new
<1>4. TypeOK'
  BY <1>1, <1>3 DEF SignInv, TypeOK, Status
<1>5. CleanForm'
  <2>1. ~hashBusy => contentHash = text
    BY <1>1 DEF SignInv, HashIsOfText
  <2> QED
    BY <1>1, <1>3, <2>1 DEF SignInv, CleanForm
<1>6. CallsAreOfTheItem' /\ HashIsOfText' /\ FormIsOfItsItem' /\ ShownHasText'
  BY <1>1, <1>3
  DEF SignInv, CallsAreOfTheItem, HashIsOfText, hashBusy, FormIsOfItsItem, ShownHasText
<1>7. CleanProof'
  BY <1>1 DEF SignInv, CleanProof
<1> QED
  BY <1>4, <1>5, <1>6, <1>7 DEF SignInv

LEMMA OnSubmitFacts ==
  ASSUME SignInv, OnSubmit
  PROVE  /\ item # None /\ contentHash # None
         /\ \E status \in {"err", "busy"} :
              submit' = [status |-> status, from |-> item]
         /\ UNCHANGED <<item, text, stamp, contentHash, hashing, sign, proof, late, clean>>
         /\ \/ calls' = calls
            \/ /\ calls' = calls \cup {request("submit", Number[stamp])}
               /\ Number[stamp] \in Stamps
<1>1. Number[stamp] \in Stamps \cup {None}
  BY PanelAssumption DEF SignInv, TypeOK
<1> QED
  BY <1>1 DEF OnSubmit, ready, form

LEMMA OnSubmitKeeps ==
  ASSUME SignInv, OnSubmit
  PROVE  SignInv'
<1>1. /\ UNCHANGED <<item, text, stamp, contentHash, hashing, sign, proof, late, clean>>
      /\ submit' \in SubmitState /\ submit'.from = item /\ item # None
  <2>1. item \in Items \cup {None}
    BY DEF SignInv, TypeOK
  <2> QED
    BY <2>1, OnSubmitFacts DEF Status, SubmitState
<1>2. ASSUME NEW c \in calls' \ calls
      PROVE  c \in Call /\ c.item = item /\ c.kind = "submit"
  BY <1>2, OnSubmitFacts, RequestFacts
<1>3. TypeOK'
  BY <1>1, <1>2 DEF SignInv, TypeOK, SubmitState
<1>4. CallsAreOfTheItem' /\ CleanForm'
  BY <1>1, <1>2 DEF SignInv, CallsAreOfTheItem, CleanForm
<1>5. HashIsOfText' /\ FormIsOfItsItem' /\ ShownHasText' /\ CleanProof'
  BY <1>1 DEF SignInv, HashIsOfText, hashBusy, FormIsOfItsItem, ShownHasText, CleanProof
<1> QED
  BY <1>3, <1>4, <1>5 DEF SignInv

LEMMA SignedLine ==
  ASSUME NEW c \in Call
  PROVE  signedLine(c) \in Line
<1>1. /\ sealedSkyTextFromBody(c.text) \in Texts \cup {DefaultText}
      /\ c.stamp \in Stamps /\ c.hash \in Texts
  BY DEF sealedSkyTextFromBody, Call
<1>2. /\ rawSlice[sealedSkyTextFromBody(c.text)] \in LineTexts
      /\ rawSlice[c.stamp] \in Stamps
  BY <1>1, PanelAssumption
<1> QED
  BY <1>1, <1>2 DEF signedLine, Line

LEMMA AnswerKeeps ==
  ASSUME SignInv, NEW c \in calls,
         Signed(c) \/ SignFails(c) \/ Submitted(c) \/ SubmitFails(c)
  PROVE  SignInv'
<1>1. /\ calls' = calls \ {c}
      /\ late' = IF c.current THEN late ELSE late \cup {c.kind}
      /\ UNCHANGED <<item, text, stamp, contentHash, hashing, clean>>
  BY DEF Signed, SignFails, Submitted, SubmitFails, ends, form
<1>2. /\ c \in Call /\ c.current \in BOOLEAN /\ c.item \in Items
      /\ c.kind \in {"sign", "submit"} /\ late \subseteq {"sign", "submit"}
      /\ sign \in SignState
      /\ proof \in [line : Line \cup {None}, from : Items \cup {None}]
      /\ submit \in SubmitState
  BY DEF SignInv, TypeOK, Call, SignState, SubmitState
<1>3. /\ sign' \in SignState
      /\ submit' \in SubmitState
      /\ \/ proof' = proof
         \/ c.kind = "sign" /\ proof' = [line |-> signedLine(c), from |-> c.item]
      /\ \/ sign'.from = sign.from
         \/ c.kind = "sign" /\ sign'.from = c.item
      /\ \/ submit'.from = submit.from
         \/ c.kind = "submit" /\ submit'.from = c.item
  <2>1. signedLine(c) \in Line
    BY <1>2, SignedLine
  <2>2. CASE Signed(c)
    BY <1>2, <2>1, <2>2 DEF Signed, Status, SignState, SubmitState
  <2>3. CASE SignFails(c)
    BY <1>2, <2>3 DEF SignFails, Status, SignState, SubmitState
  <2>4. CASE Submitted(c)
    BY <1>2, <2>4 DEF Submitted, Status, SignState, SubmitState
  <2>5. CASE SubmitFails(c)
    BY <1>2, <2>5 DEF SubmitFails, Status, SignState, SubmitState
  <2> QED
    BY <2>2, <2>3, <2>4, <2>5
<1>4. proof' \in [line : Line \cup {None}, from : Items \cup {None}]
  BY <1>2, <1>3, SignedLine
<1>5. TypeOK'
  BY <1>1, <1>2, <1>3, <1>4 DEF SignInv, TypeOK, SignState, SubmitState
<1>6. ShownHasText' /\ HashIsOfText' /\ CallsAreOfTheItem' /\ CleanForm'
  BY <1>1 DEF SignInv, ShownHasText, HashIsOfText, hashBusy, CallsAreOfTheItem, CleanForm
<1>7. c.current => c.item = item
  BY DEF SignInv, CallsAreOfTheItem
<1>8. FormIsOfItsItem'
  <2>1. ASSUME "sign" \notin late'
        PROVE  sign'.from \in {None, item} /\ proof'.from \in {None, item}
    <3>1. "sign" \notin late /\ (c.kind = "sign" => c.item = item)
      BY <1>1, <1>2, <1>7, <2>1
    <3>2. sign.from \in {None, item} /\ proof.from \in {None, item}
      BY <3>1 DEF SignInv, FormIsOfItsItem
    <3> QED
      BY <1>3, <3>1, <3>2
  <2>2. ASSUME "submit" \notin late'
        PROVE  submit'.from \in {None, item}
    <3>1. "submit" \notin late /\ (c.kind = "submit" => c.item = item)
      BY <1>1, <1>2, <1>7, <2>2
    <3>2. submit.from \in {None, item}
      BY <3>1 DEF SignInv, FormIsOfItsItem
    <3> QED
      BY <1>3, <3>1, <3>2
  <2> QED
    BY <1>1, <2>1, <2>2 DEF FormIsOfItsItem
<1>9. CleanProof'
  <2> SUFFICES ASSUME clean, "sign" \notin late', item # None, proof'.from = item
               PROVE  proof'.line =
                        [text |-> rawSlice[sealedSkyTextFromBody(trim[text])],
                         stamp |-> Now, hash |-> text]
    BY <1>1 DEF CleanProof
  <2>3. "sign" \notin late /\ (c.kind = "sign" => c.current)
    BY <1>1, <1>2
  <2>1. CASE proof' = proof
    BY <2>1, <2>3 DEF SignInv, CleanProof
  <2>2. CASE c.kind = "sign" /\ proof' = [line |-> signedLine(c), from |-> c.item]
    <3>1. c.text = trim[text] /\ c.stamp = Now /\ c.hash = text
      BY <2>2, <2>3 DEF SignInv, CleanForm
    <3> QED
      BY <2>2, <3>1, PanelAssumption DEF signedLine
  <2> QED
    BY <1>3, <2>1, <2>2
<1> QED
  BY <1>5, <1>6, <1>8, <1>9 DEF SignInv

-----------------------------------------------------------------------------
LEMMA SignStep == SignInv /\ [Next]_vars => SignInv'
<1> SUFFICES ASSUME SignInv, [Next]_vars PROVE SignInv'
  OBVIOUS
<1>1. CASE UNCHANGED vars
  BY <1>1 DEF vars, form, SignInv, TypeOK, ShownHasText, HashIsOfText, hashBusy,
              CallsAreOfTheItem, FormIsOfItsItem, CleanForm, CleanProof
<1> QED
  BY <1>1, SelectKeeps, LeaveKeeps, EditKeeps, OnSignKeeps, OnSubmitKeeps,
     HashedKeeps, AnswerKeeps DEF Next

(* The inductive invariant. *)
THEOREM SignInvariant == Spec => []SignInv
BY SignInitial, SignStep, PTL DEF Spec

(* Every variable keeps its type, and a panel that is not shown has no text *)
(* and waits for nothing.                                                   *)
THEOREM SignTypeCorrect == Spec => []TypeOK
<1>1. SignInv => TypeOK
  BY DEF SignInv
<1> QED
  BY <1>1, SignInvariant, PTL

(* However quickly the text changes and in whatever order the hashes get    *)
(* ready, the hash shown is that of the text shown.                         *)
THEOREM SignHashIsOfText == Spec => []HashIsOfText
<1>1. SignInv => HashIsOfText
  BY DEF SignInv
<1> QED
  BY <1>1, SignInvariant, PTL

(* Until an answer of its own kind comes late, what the panel shows of a     *)
(* signing (status, HMAC, the proof filled in) and of a submission was asked *)
(* for by the capsule shown.                                                 *)
THEOREM SignFormIsOfItsItem == Spec => []FormIsOfItsItem
<1>1. SignInv => FormIsOfItsItem
  BY DEF SignInv
<1> QED
  BY <1>1, SignInvariant, PTL

(* A submission of an untouched form with the proof that came for it. *)
Untouched(c) ==
  /\ clean /\ "sign" \notin late /\ ~hashBusy /\ proof.from = item
  /\ c.current /\ c.kind = "submit"

(* Its proof is of the same line as its fields but for what JSON escapes.   *)
LEMMA UntouchedCall ==
  ASSUME SignInv, [Next]_vars, NEW c \in calls' \ calls, Untouched(c)
  PROVE  verifies(c) <=> intact(c)
<1>1. CASE OnSubmit
  <2>1. /\ item # None /\ contentHash # None /\ Number[stamp] \in Stamps
        /\ c = request("submit", Number[stamp])
    BY <1>1, OnSubmitFacts
  <2>2. contentHash = text /\ stamp = Now
    BY <2>1 DEF SignInv, HashIsOfText, CleanForm, Untouched
  <2>3. proof.line = [text |-> rawSlice[sealedSkyTextFromBody(trim[text])],
                      stamp |-> Now, hash |-> text]
    BY <2>1 DEF SignInv, CleanProof, Untouched
  <2>4. /\ c.text = trim[text] /\ c.stamp = Now /\ c.hash = text
        /\ c.proof = proof.line
    BY <2>1, <2>2, RequestFacts, PanelAssumption
  <2> QED
    BY <2>3, <2>4 DEF verifies, canonicalPayload, intact
<1>2. CASE OnSign
  <2>1. [request("sign", stamp) EXCEPT !.proof = None].kind = "sign"
    BY DEF request
  <2> QED
    BY <1>2, <2>1 DEF OnSign, Untouched
<1>3. ASSUME NEW i \in Items, Select(i)
      PROVE  FALSE
  <2>1. calls' = {[d EXCEPT !.current = FALSE] : d \in calls} /\ calls \subseteq Call
    BY <1>3 DEF Select, SignInv, TypeOK
  <2> QED
    BY <2>1 DEF Call, Untouched
<1>4. ASSUME \/ Leave \/ Edit \/ UNCHANGED vars
             \/ \E x \in hashing : Hashed(x)
             \/ \E d \in calls : \/ Signed(d) \/ SignFails(d)
                                 \/ Submitted(d) \/ SubmitFails(d)
      PROVE  FALSE
  <2>1. calls' \subseteq calls
    BY <1>4 DEF Leave, Edit, vars, Hashed, Signed, SignFails, Submitted,
                SubmitFails, ends
  <2> QED
    BY <2>1
<1> QED
  BY <1>1, <1>2, <1>3, <1>4 DEF Next

(* For any text in which JSON escapes nothing, blank ones included, and any *)
(* number of calls in flight: a proof that came for an untouched form       *)
(* verifies when it is submitted.                                           *)
THEOREM SignUntouchedVerifies == Spec => UntouchedSignatureVerifies
<1> DEFINE Ok == clean /\ "sign" \notin late /\ ~hashBusy /\ proof.from = item =>
                   \A c \in calls' \ calls :
                     c.current /\ c.kind = "submit" /\ intact(c) => verifies(c)
<1>1. SignInv /\ [Next]_vars => [Ok]_vars
  BY UntouchedCall DEF Untouched
<1> QED
  BY <1>1, SignInvariant, PTL DEF Spec, UntouchedSignatureVerifies

(* The converse: a text in which JSON escapes a character, a line break say, *)
(* never verifies untouched, as the applet signs the raw slice of the JSON   *)
(* string (extract_json_string) and /submit the text itself.                 *)
EscapedNeverVerifies ==
  [][\A c \in calls' \ calls : Untouched(c) /\ ~intact(c) => ~verifies(c)]_vars

THEOREM SignEscapedNeverVerifies == Spec => EscapedNeverVerifies
<1> DEFINE Ok == \A c \in calls' \ calls : Untouched(c) /\ ~intact(c) => ~verifies(c)
<1>1. SignInv /\ [Next]_vars => [Ok]_vars
  BY UntouchedCall
<1> QED
  BY <1>1, SignInvariant, PTL DEF Spec, EscapedNeverVerifies

-----------------------------------------------------------------------------
(* A button says that it is busy only while a call of its kind is in        *)
(* flight, so that there is an answer or a failure still to come.           *)
BusyHasCall ==
  /\ sign.status = "busy" => \E c \in calls : c.kind = "sign"
  /\ submit.status = "busy" => \E c \in calls : c.kind = "submit"

LEMMA BusyStep ==
  ASSUME SignInv, BusyHasCall, [Next]_vars
  PROVE  BusyHasCall'
<1>1. ASSUME NEW i \in Items, Select(i) PROVE BusyHasCall'
  BY <1>1 DEF Select, reset, NoSign, NoSubmit, BusyHasCall
<1>2. CASE Leave
  BY <1>2 DEF Leave, reset, NoSign, NoSubmit, BusyHasCall
<1>3. CASE Edit
  BY <1>3 DEF Edit, BusyHasCall
<1>4. CASE OnSign
  <2> DEFINE new == [request("sign", stamp) EXCEPT !.proof = None]
  <2>1. /\ item # None /\ contentHash # None /\ stamp \in Stamps
        /\ calls' = calls \cup {new} /\ submit' = submit
    BY <1>4 DEF OnSign, ready, SignInv, TypeOK
  <2>2. request("sign", stamp) \in Call /\ request("sign", stamp).kind = "sign"
    BY <2>1, RequestFacts
  <2>3. new.kind = "sign"
    BY <2>2 DEF Call
  <2> HIDE DEF new
  <2> QED
    BY <2>1, <2>3 DEF BusyHasCall
<1>5. CASE OnSubmit
  <2>1. /\ item # None /\ contentHash # None /\ sign' = sign
        /\ Number[stamp] \in Stamps \cup {None}
    BY <1>5, PanelAssumption DEF OnSubmit, ready, SignInv, TypeOK
  <2>2. CASE submit'.status = "err" /\ calls' = calls
    BY <2>1, <2>2 DEF BusyHasCall
  <2>3. CASE /\ Number[stamp] # None
             /\ calls' = calls \cup {request("submit", Number[stamp])}
    <3>1. request("submit", Number[stamp]).kind = "submit"
      BY <2>1, <2>3, RequestFacts
    <3> QED
      BY <2>1, <2>3, <3>1 DEF BusyHasCall
  <2> QED
    BY <1>5, <2>2, <2>3 DEF OnSubmit
<1>6. ASSUME NEW x \in hashing, Hashed(x) PROVE BusyHasCall'
  BY <1>6 DEF Hashed, BusyHasCall
<1>7. ASSUME NEW c \in calls, Signed(c) PROVE BusyHasCall'
  <2>1. c.kind = "sign" /\ calls' = calls \ {c} /\ submit' = submit
    BY <1>7 DEF Signed, ends
  <2>2. sign'.status = "ok"
    BY <1>7 DEF Signed
  <2> QED
    BY <2>1, <2>2 DEF BusyHasCall
<1>8. ASSUME NEW c \in calls, SignFails(c) PROVE BusyHasCall'
  <2>1. c.kind = "sign" /\ calls' = calls \ {c} /\ submit' = submit
    BY <1>8 DEF SignFails, ends
  <2>2. sign'.status = "err"
    BY <1>8 DEF SignFails, SignInv, TypeOK
  <2> QED
    BY <2>1, <2>2 DEF BusyHasCall
<1>9. ASSUME NEW c \in calls, Submitted(c) \/ SubmitFails(c) PROVE BusyHasCall'
  BY <1>9 DEF Submitted, SubmitFails, ends, BusyHasCall
<1>10. CASE UNCHANGED vars
  BY <1>10 DEF vars, BusyHasCall
<1> QED
  BY <1>1, <1>2, <1>3, <1>4, <1>5, <1>6, <1>7, <1>8, <1>9, <1>10 DEF Next

(* Neither button can stay busy with nothing under way, whatever was        *)
(* selected, edited or called in between (the catch blocks of onSign and    *)
(* onSubmitSepolia): the safety half of CallsEnd.                           *)
THEOREM SignBusyHasCall == Spec => []BusyHasCall
<1>1. Init => BusyHasCall
  BY DEF Init, NoSign, NoSubmit, BusyHasCall
<1> QED
  BY <1>1, SignInvariant, BusyStep, PTL DEF Spec
=============================================================================
