----------------------------- MODULE MCSignPanel ----------------------------
(* Instances of SignPanel for TLC: two capsules with a text each, of which  *)
(* one is blank and the other has a character that JSON escapes, or neither *)
(* is changed on its way; a timestamp that is a number and one that is not. *)
EXTENDS SignPanel, TLC

CONSTANTS t1, t2, escaped, i1, i2, now, noNumber, default

MCPlaintext == i1 :> t1 @@ i2 :> t2
OneBlank == t1 :> t1 @@ t2 :> None
NothingToTrim == t1 :> t1 @@ t2 :> t2
MCLineTexts == {t1, t2, escaped, default}
Plain == [x \in {t1, t2, default, now, noNumber} |-> x]
OneEscaped == [Plain EXCEPT ![t1] = escaped]
MCNumber == now :> now @@ noNumber :> None

(* Bound: once an answer has come late, one call at a time until the next   *)
(* reset; and none while two texts are being hashed or the timestamp is no  *)
(* number.                                                                  *)
FewCalls ==
  /\ late # {} => Cardinality(calls) <= 1
  /\ Cardinality(hashing) > 1 => calls = {}
  /\ stamp = noNumber => calls = {}
=============================================================================
