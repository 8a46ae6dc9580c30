---------------------------- MODULE WalletSession ----------------------------
(***************************************************************************)
(* Who seals, and for whom: the wallet hook (lib/wallet.ts), the bar that  *)
(* resolves the account's ENS name and tells the page (components/         *)
(* WalletConnect.tsx, App.tsx) and the recipient of the compose form       *)
(* (components/Compose.tsx).  The wallet changes accounts, the user        *)
(* connects and disconnects, and ENS answers, in any order.                *)
(*                                                                         *)
(* A wallet is installed.  The ENS name of an account is represented by    *)
(* the account, the address of an ENS name by the name.  Messages from the *)
(* wallet arrive in the order they are sent, so that its state and the     *)
(* event that tells of it change together.                                 *)
(***************************************************************************)
EXTENDS Naturals

CONSTANTS
  Accounts,
  Names,          (* recipients that look like ENS names                   *)
  Calls,          (* bound on the calls of connect in flight               *)
  None            (* no account; no name, or a text that is no ENS name    *)

ASSUME WalletAssumption ==
  /\ Accounts \cap Names = {} /\ None \notin Accounts \cup Names

VARIABLES
  account,        (* the account that the wallet exposes to the page       *)
  preferred,      (* localStorage                                          *)
  address,        (* WalletState.address                                   *)
  connecting,
  calls,          (* connect, and the silent reconnection of a page load   *)
  bar,            (* the address that the bar's effect last ran for        *)
  identity,       (* App's                                                 *)
  recipient,
  field,          (* the recipient that the form's effect last ran for     *)
  status,         (* recipientStatus                                       *)
  timer,          (* the form's effect waits its 400 ms                    *)
  lookups,        (* calls of lookupEnsName and resolveEnsAddress          *)
  cache,          (* reverseCache and forwardCache                         *)
  sealing,        (* sender and owner of the capsule being sealed, or None *)
  capsules,       (* sender and owner of the sealed ones                   *)
  wanted,         (* the user has asked to connect, and neither the user   *)
                  (* nor the wallet has disconnected since                 *)
  raced           (* a call has ended with what an event or a disconnection *)
                  (* had made obsolete                                     *)

wallet == <<preferred, address, connecting, calls, wanted, raced>>
form == <<recipient, field, status, timer>>
ens == <<lookups, cache>>
seals == <<sealing, capsules>>
vars == <<account, wallet, bar, identity, form, ens, seals>>

free == [kind |-> "none", step |-> "accounts", accs |-> None, stale |-> FALSE]
Nobody == [address |-> None, ens |-> None]
Idle == [kind |-> "idle", of |-> None]

call(kind) == [free EXCEPT !.kind = kind]

NothingCached == [x \in Accounts \cup Names |-> "unknown"]

Init ==
  /\ account = None /\ preferred = FALSE
  /\ address = None /\ connecting = FALSE /\ calls = [c \in Calls |-> free]
  /\ bar = None /\ identity = Nobody
  /\ recipient = None /\ field = None /\ status = Idle /\ timer = FALSE
  /\ lookups = {} /\ cache = NothingCached
  /\ sealing = None /\ capsules = {}
  /\ wanted = FALSE /\ raced = FALSE

(* The page is loaded anew; with a preference it reconnects by itself.      *)
Reload ==
  /\ address' = None /\ connecting' = FALSE
  /\ calls' = [c \in Calls |-> IF preferred /\ c = CHOOSE first \in Calls : TRUE
                               THEN call("reconnect") ELSE free]
  /\ bar' = None /\ identity' = Nobody
  /\ recipient' = None /\ field' = None /\ status' = Idle /\ timer' = FALSE
  /\ lookups' = {} /\ cache' = NothingCached
  /\ sealing' = None
  /\ wanted' = preferred /\ raced' = FALSE
  /\ UNCHANGED <<account, preferred, capsules>>

-----------------------------------------------------------------------------
(* useWallet *)

(* What the calls in flight have been told is not so any more. *)
outdated == [c \in Calls |-> [calls[c] EXCEPT !.stale = calls[c].kind # "none"
                                /\ (calls[c].step = "chain" \/ calls[c].stale)]]

asking == \E c \in Calls : calls[c].kind = "connect" /\ calls[c].step = "accounts"

(* Mutation: an event without accounts is taken for an error. *)
keepAccount(a) ==
  /\ account' = a
  /\ address' = IF a = None THEN address ELSE a
  /\ preferred' = (preferred /\ a # None)
  /\ wanted' = (wanted /\ (a # None \/ asking))
  /\ raced' = (raced /\ a # None)
  /\ calls' = outdated
  /\ UNCHANGED <<connecting, bar, identity, form, ens, seals>>

(* accountsChanged *)
OnAccounts(a) ==
  /\ account # a
  /\ account' = a /\ address' = a
  /\ preferred' = (preferred /\ a # None)
  /\ wanted' = (wanted /\ (a # None \/ asking))
  /\ raced' = (raced /\ a # None)
  /\ calls' = outdated
  /\ UNCHANGED <<connecting, bar, identity, form, ens, seals>>

(* The button is there without an address, and enabled when not connecting. *)
Connect(c) ==
  /\ address = None /\ ~connecting /\ calls[c] = free
  /\ connecting' = TRUE /\ wanted' = TRUE
  /\ calls' = [calls EXCEPT ![c] = call("connect")]
  /\ UNCHANGED <<account, preferred, address, raced, bar, identity, form, ens,
                 seals>>

(* eth_requestAccounts, which the user grants, or eth_accounts. *)
AccountsAnswer(c) ==
  /\ calls[c].kind # "none" /\ calls[c].step = "accounts"
  /\ account' \in IF calls[c].kind = "connect" /\ account = None
                  THEN Accounts ELSE {account}
  /\ calls' = [calls EXCEPT ![c].step = "chain", ![c].accs = account']
  /\ UNCHANGED <<preferred, address, connecting, wanted, raced, bar, identity,
                 form, ens, seals>>

(* eth_chainId has answered, and the state is set to what both said.        *)
Connected(c) ==
  /\ calls[c].kind # "none" /\ calls[c].step = "chain"
  /\ address' = calls[c].accs
  /\ IF calls[c].kind = "connect"
     THEN connecting' = FALSE /\ preferred' = (calls[c].accs # None)
     ELSE UNCHANGED <<connecting, preferred>>
  /\ calls' = [calls EXCEPT ![c] = free]
  /\ raced' = (raced \/ calls[c].stale)
  /\ UNCHANGED <<account, wanted, bar, identity, form, ens, seals>>

(* Mutation: the error is caught, and the state stays. *)
ConnectFailsBusy(c) ==
  /\ calls[c].kind # "none"
  /\ calls' = [calls EXCEPT ![c] = free]
  /\ UNCHANGED <<account, preferred, address, connecting, wanted, raced, bar,
                 identity, form, ens, seals>>

(* The user declines, or the wallet fails. *)
ConnectFails(c) ==
  /\ calls[c].kind # "none"
  /\ connecting' = (connecting /\ calls[c].kind # "connect")
  /\ calls' = [calls EXCEPT ![c] = free]
  /\ UNCHANGED <<account, preferred, address, wanted, raced, bar, identity,
                 form, ens, seals>>

(* The button is there with an address.  Calls in flight are not stopped.   *)
Disconnect ==
  /\ address # None
  /\ address' = None /\ connecting' = FALSE /\ preferred' = FALSE
  /\ wanted' = FALSE /\ raced' = FALSE
  /\ calls' = [c \in Calls |-> [calls[c] EXCEPT !.stale = calls[c].kind # "none"]]
  /\ UNCHANGED <<account, bar, identity, form, ens, seals>>

-----------------------------------------------------------------------------
(* ENS: every answer is cached, a failure as "no such name". *)

ask(x) == [of |-> x, hit |-> cache[x], current |-> TRUE]

cancelled(set) ==
  {IF l.of \in set THEN [l EXCEPT !.current = FALSE] ELSE l : l \in lookups}

(* The bar's effect on the address: the lookup of the address before is     *)
(* cancelled.                                                               *)
BarEffect ==
  /\ bar # address
  /\ bar' = address
  /\ lookups' = cancelled(Accounts) \cup (IF address = None THEN {} ELSE {ask(address)})
  /\ identity' = IF address = None THEN Nobody ELSE identity
  /\ UNCHANGED <<account, wallet, form, cache, seals>>

(* The form's effect on the recipient. *)
showRecipient(n) ==
  /\ field' = n
  /\ lookups' = cancelled(Names)
  /\ timer' = (n # None)
  /\ status' = IF n = None THEN Idle ELSE [kind |-> "checking", of |-> None]

(* The field is disabled while a capsule is being sealed. *)
Type(n) ==
  /\ n # recipient /\ sealing = None
  /\ recipient' = n
  /\ showRecipient(n)
  /\ UNCHANGED <<account, wallet, bar, identity, cache, seals>>

FieldEffect ==
  /\ field # recipient
  /\ showRecipient(recipient)
  /\ UNCHANGED <<account, wallet, bar, identity, recipient, cache, seals>>

(* 400 ms have passed since the recipient changed. *)
TimerFires ==
  /\ timer
  /\ timer' = FALSE
  /\ lookups' = lookups \cup {ask(field)}
  /\ UNCHANGED <<account, wallet, bar, identity, recipient, field, status,
                 cache, seals>>

answers(l, found) ==
  /\ found \in IF l.hit = "unknown" THEN BOOLEAN ELSE {l.hit = "found"}
  /\ lookups' = lookups \ {l}
  /\ cache' = IF l.hit = "unknown"
              THEN [cache EXCEPT ![l.of] = IF found THEN "found" ELSE "null"]
              ELSE cache

name(l, found) == IF found THEN l.of ELSE None

(* Mutation: the effect that has been cleaned up goes on. *)
ResolvedUncancelled(l, found) ==
  /\ l.of \in Accounts /\ answers(l, found)
  /\ identity' = [address |-> l.of, ens |-> name(l, found)]
  /\ UNCHANGED <<account, wallet, bar, form, seals>>

(* lookupEnsName has answered the bar. *)
Resolved(l, found) ==
  /\ l.of \in Accounts /\ answers(l, found)
  /\ identity' = IF l.current THEN [address |-> l.of, ens |-> name(l, found)]
                 ELSE identity
  /\ UNCHANGED <<account, wallet, bar, form, seals>>

(* resolveEnsAddress has answered the form. *)
Checked(l, found) ==
  /\ l.of \in Names /\ answers(l, found)
  /\ status' = IF ~l.current THEN status
               ELSE [kind |-> IF found THEN "resolved" ELSE "unresolved",
                     of |-> name(l, found)]
  /\ UNCHANGED <<account, wallet, bar, identity, recipient, field, timer, seals>>

-----------------------------------------------------------------------------
(* handleSeal, of the form and of the page: the closures of one render hold *)
(* the sender and the owner.                                                *)

OnSeal ==
  /\ sealing = None
  /\ sealing' = [sender |-> identity.ens, owner |-> identity.address]
  /\ UNCHANGED <<account, wallet, bar, identity, form, ens, capsules>>

(* The capsule is sealed, and published for its owner; the form is cleared. *)
Sealed ==
  /\ sealing # None
  /\ capsules' = capsules \cup {sealing}
  /\ sealing' = None
  /\ recipient' = None /\ status' = Idle
  /\ UNCHANGED <<account, wallet, bar, identity, field, timer, ens>>

SealFails ==
  /\ sealing # None
  /\ sealing' = None
  /\ UNCHANGED <<account, wallet, bar, identity, form, ens, capsules>>

Next ==
  \/ Reload \/ Disconnect \/ BarEffect \/ FieldEffect \/ TimerFires
  \/ OnSeal \/ Sealed \/ SealFails
  \/ \E a \in Accounts \cup {None} : OnAccounts(a)
  \/ \E c \in Calls :
       Connect(c) \/ AccountsAnswer(c) \/ Connected(c) \/ ConnectFails(c)
  \/ \E n \in Names \cup {None} : Type(n)
  \/ \E l \in lookups, found \in BOOLEAN : Resolved(l, found) \/ Checked(l, found)

Spec == Init /\ [][Next]_vars

-----------------------------------------------------------------------------
Found == {"unknown", "found", "null"}

Capsule == [sender : Accounts \cup {None}, owner : Accounts \cup {None}]

(* Types; the connect button says "Connecting" only while connect runs.     *)
TypeOK ==
  /\ account \in Accounts \cup {None} /\ address \in Accounts \cup {None}
  /\ preferred \in BOOLEAN /\ connecting \in BOOLEAN
  /\ calls \in [Calls -> [kind : {"none", "connect", "reconnect"},
                          step : {"accounts", "chain"},
                          accs : Accounts \cup {None}, stale : BOOLEAN]]
  /\ bar \in Accounts \cup {None}
  /\ identity \in [address : Accounts \cup {None}, ens : Accounts \cup {None}]
  /\ recipient \in Names \cup {None} /\ field \in Names \cup {None}
  /\ status \in [kind : {"idle", "checking", "resolved", "unresolved"},
                 of : Names \cup {None}]
  /\ timer \in BOOLEAN
  /\ lookups \subseteq [of : Accounts \cup Names, hit : Found, current : BOOLEAN]
  /\ cache \in [Accounts \cup Names -> Found]
  /\ wanted \in BOOLEAN /\ raced \in BOOLEAN
  /\ sealing \in Capsule \cup {None} /\ capsules \subseteq Capsule
  /\ connecting => \E c \in Calls : calls[c].kind = "connect"

(* Every name on the page, and in a capsule, is of what it stands beside,   *)
(* whatever answers overtook each other: the identity is one account with   *)
(* its own name, and the bar's when nothing is being resolved; a capsule's  *)
(* sender is its owner's name; a resolved recipient is the one in the field *)
(* (the cancelled flags of both effects, one render's closures).            *)
NamesMatch ==
  /\ identity.ens \in {None, identity.address}
  /\ bar = address /\ (\A l \in lookups : l.of \in Accounts => ~l.current)
       => identity.address = address
  /\ \A c \in capsules : c.sender \in {None, c.owner}
  /\ field = recipient /\ status.kind = "resolved" => status.of = recipient

(* The page shows the wallet's account or none, and reconnects by itself    *)
(* only after the user has asked for a connection and not ended it; unless  *)
(* an event or a disconnection came between the two answers that connect    *)
(* awaits, which it then overwrites (useWallet).                            *)
AddressIsTheWallets ==
  ~raced => /\ address \in {None, account}
            /\ preferred => wanted
=============================================================================
