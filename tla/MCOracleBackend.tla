--------------------------- MODULE MCOracleBackend --------------------------
(***************************************************************************)
(* Values of the constants of OracleBackend.  The first two claims differ  *)
(* in every field and are joined to the same line: "a|05|6|h"; the number  *)
(* in the first one's timestamp is not printed as it was written.  The     *)
(* timestamp of the third is not a number, and the fourth has a character  *)
(* that JSON escapes.                                                      *)
(***************************************************************************)
EXTENDS OracleBackend, TLC

CONSTANTS deployer, wallet

AccountsUsed == {deployer, wallet}
Claim(text, timestamp, uint256, imageHash, escapes) ==
  [text |-> text, timestamp |-> timestamp, imageHash |-> imageHash,
   uint256 |-> uint256, escapes |-> escapes]
ClaimsMade == {Claim(<<"a">>, "05", "5", <<"6", "h">>, FALSE),
               Claim(<<"a", "05">>, "6", "6", <<"h">>, FALSE),
               Claim(<<"a">>, "x", "none", <<"h">>, FALSE),
               Claim(<<"a">>, "5", "5", <<"i">>, TRUE)}
TornFile == [torn |-> TRUE]
NoLine == <<>>
=============================================================================
