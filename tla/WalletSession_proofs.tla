------------------------- MODULE WalletSession_proofs -------------------------
(***************************************************************************)
(* Proofs about WalletSession, for any set of accounts, of names and of    *)
(* calls of connect: the type invariant, that every name on the page is of *)
(* what it stands beside, and that the page shows the wallet's account or  *)
(* none unless an answer of the wallet was overtaken.                      *)
(***************************************************************************)
EXTENDS WalletSession, TLAPS

Lookups == [of : Accounts \cup Names, hit : Found, current : BOOLEAN]

CallType == [kind : {"none", "connect", "reconnect"}, step : {"accounts", "chain"},
             accs : Accounts \cup {None}, stale : BOOLEAN]

(* What a resolution in progress is for: that of the bar is of the account  *)
(* the bar ran for, and if there is none the page has its answer already;   *)
(* that of the form is of the name in the field.                            *)
LookupsAreOfTheirFields ==
  /\ timer => field \in Names
  /\ \A l \in lookups : l.current =>
       /\ l.of \in Accounts => l.of = bar
       /\ l.of \in Names => l.of = field
  /\ \/ identity.address = bar
     \/ \E l \in lookups : l.of \in Accounts /\ l.current

(* What is shown, and sealed, at any moment, with the fields of the effects *)
(* in place of those of the page.                                           *)
ShownMatches ==
  /\ identity.ens \in {None, identity.address}
  /\ sealing # None => sealing.sender \in {None, sealing.owner}
  /\ \A c \in capsules : c.sender \in {None, c.owner}
  /\ status.kind = "resolved" => status.of = field

(* What a call of connect will do is right unless it is marked stale. *)
CallsAreOfTheWallet ==
  \A c \in Calls : calls[c].kind # "none" /\ ~calls[c].stale =>
    /\ calls[c].step = "chain" => calls[c].accs \in {None, account}
    /\ calls[c].kind = "connect" => wanted

WalletInv ==
  /\ TypeOK
  /\ LookupsAreOfTheirFields
  /\ ShownMatches
  /\ CallsAreOfTheWallet
  /\ AddressIsTheWallets

-----------------------------------------------------------------------------
(* The two halves of the state: the wallet's, and that of the page.         *)

walletPart == <<account, preferred, address, connecting, calls, wanted, raced>>
pagePart == <<bar, identity, recipient, field, status, timer, lookups, cache,
              sealing, capsules>>

WalletTypes ==
  /\ account \in Accounts \cup {None} /\ address \in Accounts \cup {None}
  /\ preferred \in BOOLEAN /\ connecting \in BOOLEAN
  /\ calls \in [Calls -> CallType]
  /\ wanted \in BOOLEAN /\ raced \in BOOLEAN
  /\ connecting => \E c \in Calls : calls[c].kind = "connect"

PageTypes ==
  /\ bar \in Accounts \cup {None}
  /\ identity \in [address : Accounts \cup {None}, ens : Accounts \cup {None}]
  /\ recipient \in Names \cup {None} /\ field \in Names \cup {None}
  /\ status \in [kind : {"idle", "checking", "resolved", "unresolved"},
                 of : Names \cup {None}]
  /\ timer \in BOOLEAN
  /\ lookups \subseteq Lookups
  /\ cache \in [Accounts \cup Names -> Found]
  /\ sealing \in Capsule \cup {None} /\ capsules \subseteq Capsule

WalletHalf == WalletTypes /\ CallsAreOfTheWallet /\ AddressIsTheWallets
PageHalf == PageTypes /\ LookupsAreOfTheirFields /\ ShownMatches

LEMMA Halves == WalletInv <=> WalletHalf /\ PageHalf
BY DEF WalletInv, WalletHalf, PageHalf, WalletTypes, PageTypes, TypeOK, CallType, Lookups

LEMMA WalletHalfFrame ==
  ASSUME WalletHalf, UNCHANGED walletPart
  PROVE  WalletHalf'
BY DEF WalletHalf, walletPart, WalletTypes, CallsAreOfTheWallet, AddressIsTheWallets

LEMMA PageHalfFrame ==
  ASSUME PageHalf, UNCHANGED pagePart
  PROVE  PageHalf'
BY DEF PageHalf, pagePart, PageTypes, LookupsAreOfTheirFields, ShownMatches

-----------------------------------------------------------------------------
(* useWallet. *)

WalletStep ==
  \/ Disconnect
  \/ \E a \in Accounts \cup {None} : OnAccounts(a)
  \/ \E c \in Calls :
       Connect(c) \/ AccountsAnswer(c) \/ Connected(c) \/ ConnectFails(c)

LEMMA WalletStepFrame ==
  ASSUME WalletStep
  PROVE  UNCHANGED pagePart
BY DEF WalletStep, Disconnect, OnAccounts, Connect, AccountsAnswer, Connected,
       ConnectFails, pagePart, form, ens, seals

LEMMA OnAccountsKeeps ==
  ASSUME WalletHalf, NEW a \in Accounts \cup {None}, OnAccounts(a)
  PROVE  WalletHalf'
<1>1. /\ account' = a /\ address' = a
      /\ preferred' = (preferred /\ a # None)
      /\ wanted' = (wanted /\ (a # None \/ asking))
      /\ raced' = (raced /\ a # None)
      /\ calls' = outdated
      /\ connecting' = connecting
  BY DEF OnAccounts
<1>2. /\ preferred \in BOOLEAN /\ wanted \in BOOLEAN /\ raced \in BOOLEAN
      /\ calls \in [Calls -> CallType]
  BY DEF WalletHalf, WalletTypes
<1>3. \A c \in Calls :
        /\ calls'[c] \in CallType
        /\ calls'[c].kind = calls[c].kind /\ calls'[c].step = calls[c].step
        /\ calls'[c].stale = (calls[c].kind # "none"
                                /\ (calls[c].step = "chain" \/ calls[c].stale))
  BY <1>1, <1>2 DEF outdated, CallType
<1>4. calls' \in [Calls -> CallType]
  <2>1. calls' = [c \in Calls |-> calls'[c]]
    BY <1>1 DEF outdated
  <2> QED
    BY <2>1, <1>3
<1>5. WalletTypes'
  BY <1>1, <1>2, <1>3, <1>4 DEF WalletHalf, WalletTypes
<1>6. CallsAreOfTheWallet'
  <2> SUFFICES ASSUME NEW c \in Calls, calls'[c].kind # "none", ~calls'[c].stale
               PROVE  /\ calls'[c].step # "chain"
                      /\ calls'[c].kind = "connect" => wanted'
    BY DEF CallsAreOfTheWallet
  <2>1. calls'[c].step # "chain" /\ ~calls[c].stale /\ calls[c].kind # "none"
    BY <1>2, <1>3 DEF CallType
  <2>2. calls[c].step = "accounts"
    BY <2>1, <1>2, <1>3 DEF CallType
  <2>3. ASSUME calls[c].kind = "connect"
        PROVE  wanted'
    BY <2>1, <2>2, <2>3, <1>1 DEF asking, WalletHalf, CallsAreOfTheWallet
  <2> QED
    BY <2>1, <2>3, <1>3
<1>7. AddressIsTheWallets'
  BY <1>1, <1>2 DEF WalletHalf, AddressIsTheWallets
<1> QED
  BY <1>5, <1>6, <1>7 DEF WalletHalf

LEMMA DisconnectKeeps ==
  ASSUME WalletHalf, Disconnect
  PROVE  WalletHalf'
<1>1. /\ address' = None /\ connecting' = FALSE /\ preferred' = FALSE
      /\ wanted' = FALSE /\ raced' = FALSE
      /\ calls' = [c \in Calls |-> [calls[c] EXCEPT !.stale = calls[c].kind # "none"]]
      /\ account' = account
  BY DEF Disconnect
<1>2. calls \in [Calls -> CallType]
  BY DEF WalletHalf, WalletTypes
<1>3. \A c \in Calls : /\ calls'[c] \in CallType
                       /\ calls'[c].kind = calls[c].kind
                       /\ calls'[c].stale = (calls[c].kind # "none")
  BY <1>1, <1>2 DEF CallType
<1>4. calls' \in [Calls -> CallType]
  BY <1>1, <1>3
<1> QED
  BY <1>1, <1>3, <1>4 DEF WalletHalf, WalletTypes, CallsAreOfTheWallet,
                          AddressIsTheWallets

LEMMA CallStepsKeep ==
  ASSUME WalletHalf, NEW c \in Calls,
         Connect(c) \/ AccountsAnswer(c) \/ Connected(c) \/ ConnectFails(c)
  PROVE  WalletHalf'
<1>1. /\ account \in Accounts \cup {None} /\ address \in Accounts \cup {None}
      /\ calls \in [Calls -> CallType]
      /\ preferred \in BOOLEAN /\ wanted \in BOOLEAN /\ raced \in BOOLEAN
      /\ connecting \in BOOLEAN
  BY DEF WalletHalf, WalletTypes
<1>2. /\ calls[c].kind \in {"none", "connect", "reconnect"}
      /\ calls[c].accs \in Accounts \cup {None} /\ calls[c].stale \in BOOLEAN
  BY <1>1 DEF CallType
<1>3. free \in CallType /\ free.kind = "none"
  BY DEF free, CallType
<1>4. CASE Connect(c)
  <2> DEFINE new == call("connect")
  <2>1. /\ connecting' = TRUE /\ wanted' = TRUE
        /\ calls' = [calls EXCEPT ![c] = new]
        /\ UNCHANGED <<account, preferred, address, raced>>
    BY <1>4 DEF Connect
  <2>2. /\ new \in CallType /\ new.kind = "connect" /\ new.step = "accounts"
    BY DEF call, free, CallType
  <2> HIDE DEF new
  <2>3. /\ calls' \in [Calls -> CallType] /\ calls'[c] = new
        /\ \A d \in Calls : d # c => calls'[d] = calls[d]
    BY <2>1, <2>2, <1>1
  <2>4. CallsAreOfTheWallet'
    BY <2>1, <2>2, <2>3 DEF WalletHalf, CallsAreOfTheWallet
  <2> QED
    BY <2>1, <2>2, <2>3, <2>4, <1>1 DEF WalletHalf, WalletTypes, AddressIsTheWallets
<1>5. CASE AccountsAnswer(c)
  <2> DEFINE new == [calls[c] EXCEPT !.step = "chain", !.accs = account']
  <2>1. /\ calls' = [calls EXCEPT ![c] = new]
        /\ account' \in Accounts \cup {None}
        /\ account # None => account' = account
        /\ UNCHANGED <<preferred, address, connecting, wanted, raced>>
    BY <1>1, <1>5 DEF AccountsAnswer, CallType
  <2>2. /\ new \in CallType /\ new.kind = calls[c].kind /\ new.accs = account'
        /\ new.stale = calls[c].stale
    BY <2>1, <1>1 DEF CallType
  <2> HIDE DEF new
  <2>3. /\ calls' \in [Calls -> CallType] /\ calls'[c] = new
        /\ \A d \in Calls : d # c => calls'[d] = calls[d]
    BY <2>1, <2>2, <1>1
  <2>4. CallsAreOfTheWallet'
    BY <2>1, <2>2, <2>3 DEF WalletHalf, CallsAreOfTheWallet
  <2>5. \A d \in Calls : calls'[d].kind = calls[d].kind
    BY <2>2, <2>3
  <2>6. WalletTypes'
    BY <2>1, <2>3, <2>5 DEF WalletHalf, WalletTypes
  <2>7. AddressIsTheWallets'
    BY <2>1 DEF WalletHalf, AddressIsTheWallets
  <2> QED
    BY <2>4, <2>6, <2>7 DEF WalletHalf
<1>6. CASE Connected(c) \/ ConnectFails(c)
  <2>1. /\ calls' = [calls EXCEPT ![c] = free]
        /\ account' = account /\ wanted' = wanted
        /\ calls[c].kind # "none"
    BY <1>6 DEF Connected, ConnectFails
  <2>2. /\ calls' \in [Calls -> CallType] /\ calls'[c] = free
        /\ \A d \in Calls : d # c => calls'[d] = calls[d]
    BY <2>1, <1>1, <1>3
  <2>3. CallsAreOfTheWallet'
    BY <2>1, <2>2, <1>3 DEF WalletHalf, CallsAreOfTheWallet
  <2>4. /\ connecting' \in BOOLEAN
        /\ connecting' => connecting /\ calls[c].kind # "connect"
    BY <1>1, <1>6 DEF Connected, ConnectFails
  <2>5. connecting' => \E d \in Calls : calls'[d].kind = "connect"
    BY <2>2, <2>4 DEF WalletHalf, WalletTypes
  <2>6. CASE Connected(c)
    <3>1. /\ address' = calls[c].accs /\ raced' = (raced \/ calls[c].stale)
          /\ calls[c].step = "chain"
          /\ IF calls[c].kind = "connect" THEN preferred' = (calls[c].accs # None)
             ELSE preferred' = preferred
      BY <2>6 DEF Connected
    <3>2. WalletTypes'
      BY <2>1, <2>2, <2>4, <2>5, <3>1, <1>1, <1>2 DEF WalletTypes
    <3>3. AddressIsTheWallets'
      BY <2>1, <3>1 DEF WalletHalf, AddressIsTheWallets, CallsAreOfTheWallet
    <3> QED
      BY <2>3, <3>2, <3>3 DEF WalletHalf
  <2>7. CASE ConnectFails(c)
    <3>1. UNCHANGED <<account, preferred, address, wanted, raced>>
      BY <2>7 DEF ConnectFails
    <3>2. WalletTypes'
      BY <2>2, <2>4, <2>5, <3>1, <1>1 DEF WalletTypes
    <3>3. AddressIsTheWallets'
      BY <3>1 DEF WalletHalf, AddressIsTheWallets
    <3> QED
      BY <2>3, <3>2, <3>3 DEF WalletHalf
  <2> QED
    BY <1>6, <2>6, <2>7
<1> QED
  BY <1>4, <1>5, <1>6

-----------------------------------------------------------------------------
(* The bar, the form and the seal. *)

PageStep ==
  \/ BarEffect \/ FieldEffect \/ TimerFires \/ OnSeal \/ Sealed \/ SealFails
  \/ \E n \in Names \cup {None} : Type(n)
  \/ \E l \in lookups, found \in BOOLEAN : Resolved(l, found) \/ Checked(l, found)

LEMMA PageStepFrame ==
  ASSUME PageStep
  PROVE  UNCHANGED walletPart
BY DEF PageStep, BarEffect, FieldEffect, TimerFires, OnSeal, Sealed, SealFails,
       Type, Resolved, Checked, walletPart, wallet

(* Cancelling one kind of lookups leaves the other kind as it was. *)
LEMMA CancelledFacts ==
  ASSUME NEW S, lookups \subseteq Lookups
  PROVE  /\ cancelled(S) \subseteq Lookups
         /\ \A l \in cancelled(S) : l.current => l \in lookups /\ l.of \notin S
         /\ \A l \in lookups : l.of \notin S => l \in cancelled(S)
<1>1. ASSUME NEW l \in lookups
      PROVE  /\ [l EXCEPT !.current = FALSE] \in Lookups
             /\ ~[l EXCEPT !.current = FALSE].current
  BY DEF Lookups
<1> QED
  BY <1>1 DEF cancelled

LEMMA AskFacts ==
  ASSUME cache \in [Accounts \cup Names -> Found], NEW x \in Accounts \cup Names
  PROVE  ask(x) \in Lookups /\ ask(x).of = x /\ ask(x).current
BY DEF ask, Lookups

LEMMA BarEffectKeeps ==
  ASSUME PageHalf, address \in Accounts \cup {None}, BarEffect
  PROVE  PageHalf'
<1> DEFINE asked == IF address = None THEN {} ELSE {ask(address)}
<1>1. /\ bar' = address
      /\ lookups' = cancelled(Accounts) \cup asked
      /\ identity' = IF address = None THEN Nobody ELSE identity
      /\ UNCHANGED <<recipient, field, status, timer, cache, sealing, capsules>>
  BY DEF BarEffect, form, seals
<1>2. /\ lookups \subseteq Lookups /\ cache \in [Accounts \cup Names -> Found]
      /\ Accounts \cap Names = {} /\ None \notin Accounts \cup Names
  BY WalletAssumption DEF PageHalf, PageTypes
<1>3. /\ asked \subseteq Lookups
      /\ \A l \in asked : l.of = address /\ l.current /\ l.of \in Accounts
      /\ address # None => asked # {}
  BY <1>2, AskFacts
<1> HIDE DEF asked
<1>4. /\ cancelled(Accounts) \subseteq Lookups
      /\ \A l \in cancelled(Accounts) :
           l.current => l \in lookups /\ l.of \notin Accounts
  BY <1>2, CancelledFacts
<1>5. /\ Nobody.address = None /\ Nobody.ens = None
      /\ Nobody \in [address : Accounts \cup {None}, ens : Accounts \cup {None}]
  BY DEF Nobody
<1>6. PageTypes'
  BY <1>1, <1>3, <1>4, <1>5 DEF PageHalf, PageTypes
<1>7. LookupsAreOfTheirFields'
  <2>1. ASSUME NEW l \in lookups', l.current
        PROVE  /\ l.of \in Accounts => l.of = bar'
               /\ l.of \in Names => l.of = field'
    BY <2>1, <1>1, <1>2, <1>3, <1>4 DEF PageHalf, LookupsAreOfTheirFields
  <2>2. \/ identity'.address = bar'
        \/ \E l \in lookups' : l.of \in Accounts /\ l.current
    BY <1>1, <1>3, <1>5
  <2> QED
    BY <2>1, <2>2, <1>1 DEF PageHalf, LookupsAreOfTheirFields
<1>8. ShownMatches'
  BY <1>1, <1>5 DEF PageHalf, ShownMatches
<1> QED
  BY <1>6, <1>7, <1>8 DEF PageHalf

LEMMA FieldKeeps ==
  ASSUME PageHalf, NEW n \in Names \cup {None}, showRecipient(n),
         recipient' \in Names \cup {None},
         UNCHANGED <<bar, identity, cache, sealing, capsules>>
  PROVE  PageHalf'
<1>1. /\ field' = n /\ lookups' = cancelled(Names) /\ timer' = (n # None)
      /\ status' \in {Idle, [kind |-> "checking", of |-> None]}
  BY DEF showRecipient
<1>2. /\ lookups \subseteq Lookups
      /\ Accounts \cap Names = {} /\ None \notin Accounts \cup Names
  BY WalletAssumption DEF PageHalf, PageTypes
<1>3. /\ cancelled(Names) \subseteq Lookups
      /\ \A l \in cancelled(Names) : l.current => l \in lookups /\ l.of \notin Names
      /\ \A l \in lookups : l.of \notin Names => l \in cancelled(Names)
  BY <1>2, CancelledFacts
<1>4. /\ status' \in [kind : {"idle", "checking", "resolved", "unresolved"},
                      of : Names \cup {None}]
      /\ status'.kind # "resolved"
  BY <1>1 DEF Idle
<1>5. PageTypes'
  BY <1>1, <1>3, <1>4 DEF PageHalf, PageTypes
<1>6. LookupsAreOfTheirFields'
  <2>1. timer' => field' \in Names
    BY <1>1
  <2>2. ASSUME NEW l \in lookups', l.current
        PROVE  /\ l.of \in Accounts => l.of = bar'
               /\ l.of \in Names => l.of = field'
    BY <2>2, <1>1, <1>3 DEF PageHalf, LookupsAreOfTheirFields
  <2>3. \/ identity'.address = bar'
        \/ \E l \in lookups' : l.of \in Accounts /\ l.current
    BY <1>1, <1>2, <1>3 DEF PageHalf, LookupsAreOfTheirFields
  <2> QED
    BY <2>1, <2>2, <2>3 DEF LookupsAreOfTheirFields
<1>7. ShownMatches'
  BY <1>4 DEF PageHalf, ShownMatches
<1> QED
  BY <1>5, <1>6, <1>7 DEF PageHalf

LEMMA TimerKeeps ==
  ASSUME PageHalf, TimerFires
  PROVE  PageHalf'
<1>1. /\ timer /\ timer' = FALSE /\ lookups' = lookups \cup {ask(field)}
      /\ UNCHANGED <<bar, identity, recipient, field, status, cache, sealing,
                     capsules>>
  BY DEF TimerFires, seals
<1>2. /\ field \in Names /\ lookups \subseteq Lookups
      /\ cache \in [Accounts \cup Names -> Found]
      /\ Accounts \cap Names = {}
  BY <1>1, WalletAssumption DEF PageHalf, PageTypes, LookupsAreOfTheirFields
<1>3. ask(field) \in Lookups /\ ask(field).of = field
  BY <1>2, AskFacts
<1>4. PageTypes'
  BY <1>1, <1>3 DEF PageHalf, PageTypes
<1>5. LookupsAreOfTheirFields'
  BY <1>1, <1>2, <1>3 DEF PageHalf, LookupsAreOfTheirFields
<1>6. ShownMatches'
  BY <1>1 DEF PageHalf, ShownMatches
<1> QED
  BY <1>4, <1>5, <1>6 DEF PageHalf

LEMMA AnswerFacts ==
  ASSUME PageHalf, NEW l \in lookups, NEW found \in BOOLEAN, answers(l, found)
  PROVE  /\ lookups' = lookups \ {l}
         /\ cache' \in [Accounts \cup Names -> Found]
         /\ l \in Lookups
<1>1. l \in Lookups /\ cache \in [Accounts \cup Names -> Found]
  BY DEF PageHalf, PageTypes
<1> QED
  BY <1>1 DEF answers, Lookups, Found

LEMMA ResolvedKeeps ==
  ASSUME PageHalf, NEW l \in lookups, NEW found \in BOOLEAN, Resolved(l, found)
  PROVE  PageHalf'
<1>1. /\ l.of \in Accounts /\ lookups' = lookups \ {l}
      /\ cache' \in [Accounts \cup Names -> Found] /\ l \in Lookups
      /\ identity' = IF l.current THEN [address |-> l.of, ens |-> name(l, found)]
                     ELSE identity
      /\ UNCHANGED <<bar, recipient, field, status, timer, sealing, capsules>>
  BY AnswerFacts DEF Resolved, form, seals
<1>2. name(l, found) \in {None, l.of}
  BY DEF name
<1>3. PageTypes'
  BY <1>1, <1>2 DEF PageHalf, PageTypes
<1>4. LookupsAreOfTheirFields'
  <2>1. CASE l.current
    <3>1. identity'.address = bar'
      BY <2>1, <1>1 DEF PageHalf, LookupsAreOfTheirFields
    <3> QED
      BY <3>1, <1>1 DEF PageHalf, LookupsAreOfTheirFields
  <2>2. CASE ~l.current
    BY <2>2, <1>1 DEF PageHalf, LookupsAreOfTheirFields
  <2> QED
    BY <2>1, <2>2
<1>5. ShownMatches'
  BY <1>1, <1>2 DEF PageHalf, ShownMatches
<1> QED
  BY <1>3, <1>4, <1>5 DEF PageHalf

LEMMA CheckedKeeps ==
  ASSUME PageHalf, NEW l \in lookups, NEW found \in BOOLEAN, Checked(l, found)
  PROVE  PageHalf'
<1>1. /\ l.of \in Names /\ lookups' = lookups \ {l}
      /\ cache' \in [Accounts \cup Names -> Found] /\ l \in Lookups
      /\ status' = IF ~l.current THEN status
                   ELSE [kind |-> IF found THEN "resolved" ELSE "unresolved",
                         of |-> name(l, found)]
      /\ UNCHANGED <<bar, identity, recipient, field, timer, sealing, capsules>>
  BY AnswerFacts DEF Checked, seals
<1>2. name(l, found) \in Names \cup {None} /\ found => name(l, found) = l.of
  BY <1>1 DEF name
<1>3. name(l, found) \in Names \cup {None}
  BY <1>1 DEF name
<1>4. Accounts \cap Names = {}
  BY WalletAssumption
<1>5. PageTypes'
  BY <1>1, <1>3 DEF PageHalf, PageTypes
<1>6. LookupsAreOfTheirFields'
  BY <1>1, <1>4 DEF PageHalf, LookupsAreOfTheirFields
<1>7. ShownMatches'
  BY <1>1, <1>2, <1>3 DEF PageHalf, ShownMatches, LookupsAreOfTheirFields
<1> QED
  BY <1>5, <1>6, <1>7 DEF PageHalf

LEMMA SealKeeps ==
  ASSUME PageHalf, OnSeal \/ Sealed \/ SealFails
  PROVE  PageHalf'
<1>1. UNCHANGED <<bar, identity, field, timer, lookups, cache>>
  BY DEF OnSeal, Sealed, SealFails, form, ens
<1>2. /\ recipient' \in {recipient, None} /\ status' \in {status, Idle}
      /\ Idle.kind # "resolved"
      /\ Idle \in [kind : {"idle", "checking", "resolved", "unresolved"},
                  of : Names \cup {None}]
  BY DEF OnSeal, Sealed, SealFails, form, Idle
<1>3. /\ sealing' \in {None, [sender |-> identity.ens, owner |-> identity.address]}
      /\ capsules' \subseteq capsules \cup ({sealing} \ {None})
  BY DEF OnSeal, Sealed, SealFails
<1>4. [sender |-> identity.ens, owner |-> identity.address] \in Capsule
  BY DEF PageHalf, PageTypes, Capsule
<1>5. PageTypes'
  BY <1>1, <1>2, <1>3, <1>4 DEF PageHalf, PageTypes
<1>6. LookupsAreOfTheirFields'
  BY <1>1 DEF PageHalf, LookupsAreOfTheirFields
<1>7. ShownMatches'
  BY <1>1, <1>2, <1>3 DEF PageHalf, ShownMatches
<1> QED
  BY <1>5, <1>6, <1>7 DEF PageHalf

LEMMA PageStepKeeps ==
  ASSUME PageHalf, address \in Accounts \cup {None}, PageStep
  PROVE  PageHalf'
<1>1. CASE BarEffect
  BY <1>1, BarEffectKeeps
<1>2. CASE FieldEffect
  BY <1>2, FieldKeeps DEF FieldEffect, seals, PageHalf, PageTypes
<1>3. ASSUME NEW n \in Names \cup {None}, Type(n)
      PROVE  PageHalf'
  BY <1>3, FieldKeeps DEF Type, seals
<1>4. CASE TimerFires
  BY <1>4, TimerKeeps
<1>5. CASE OnSeal \/ Sealed \/ SealFails
  BY <1>5, SealKeeps
<1> QED
  BY <1>1, <1>2, <1>3, <1>4, <1>5, ResolvedKeeps, CheckedKeeps DEF PageStep

-----------------------------------------------------------------------------
(* A page load starts both halves anew, but for the wallet and what is      *)
(* stored.                                                                  *)

LEMMA Afresh ==
  /\ Nobody.address = None /\ Nobody.ens = None
  /\ Nobody \in [address : Accounts \cup {None}, ens : Accounts \cup {None}]
  /\ Idle \in [kind : {"idle", "checking", "resolved", "unresolved"},
              of : Names \cup {None}]
  /\ Idle.kind # "resolved"
  /\ free \in CallType /\ free.kind = "none"
  /\ call("reconnect") \in CallType
  /\ call("reconnect").kind = "reconnect" /\ call("reconnect").step = "accounts"
  /\ NothingCached \in [Accounts \cup Names -> Found]
<1>1. /\ Nobody.address = None /\ Nobody.ens = None
      /\ Nobody \in [address : Accounts \cup {None}, ens : Accounts \cup {None}]
  BY DEF Nobody
<1>2. /\ Idle \in [kind : {"idle", "checking", "resolved", "unresolved"},
                  of : Names \cup {None}]
      /\ Idle.kind # "resolved"
  BY DEF Idle
<1>3. /\ free \in CallType /\ free.kind = "none"
      /\ call("reconnect") \in CallType
      /\ call("reconnect").kind = "reconnect" /\ call("reconnect").step = "accounts"
  BY DEF call, free, CallType
<1>4. NothingCached \in [Accounts \cup Names -> Found]
  BY DEF NothingCached, Found
<1> QED
  BY <1>1, <1>2, <1>3, <1>4

LEMMA ReloadKeeps ==
  ASSUME WalletHalf, PageHalf, Reload
  PROVE  WalletHalf' /\ PageHalf'
<1>1. /\ address' = None /\ connecting' = FALSE
      /\ bar' = None /\ identity' = Nobody
      /\ recipient' = None /\ field' = None /\ status' = Idle /\ timer' = FALSE
      /\ lookups' = {} /\ cache' = NothingCached /\ sealing' = None
      /\ wanted' = preferred /\ raced' = FALSE
      /\ UNCHANGED <<account, preferred, capsules>>
  BY DEF Reload
<1>2. /\ calls' \in [Calls -> CallType]
      /\ \A c \in Calls : /\ calls'[c].kind # "connect"
                          /\ calls'[c].kind # "none" => calls'[c].step = "accounts"
  BY Afresh DEF Reload
<1>3. WalletTypes'
  BY <1>1, <1>2 DEF WalletHalf, WalletTypes
<1>4. CallsAreOfTheWallet'
  <2>1. ASSUME NEW c \in Calls, calls'[c].kind # "none"
        PROVE  calls'[c].step # "chain" /\ calls'[c].kind # "connect"
    BY <1>2, <2>1
  <2> QED
    BY <2>1 DEF CallsAreOfTheWallet
<1>5. AddressIsTheWallets'
  <2>1. preferred \in BOOLEAN
    BY DEF WalletHalf, WalletTypes
  <2> QED
    BY <1>1, <2>1 DEF AddressIsTheWallets
<1>6. PageTypes'
  BY <1>1, Afresh DEF PageHalf, PageTypes
<1>7. LookupsAreOfTheirFields' /\ ShownMatches'
  BY <1>1, Afresh DEF PageHalf, LookupsAreOfTheirFields, ShownMatches
<1> QED
  BY <1>3, <1>4, <1>5, <1>6, <1>7 DEF WalletHalf, PageHalf

LEMMA WalletInitial == Init => WalletInv
<1> SUFFICES ASSUME Init PROVE WalletInv
  OBVIOUS
<1>1. WalletTypes /\ CallsAreOfTheWallet /\ AddressIsTheWallets
  BY Afresh DEF Init, WalletTypes, CallsAreOfTheWallet, AddressIsTheWallets
<1>2. PageTypes /\ LookupsAreOfTheirFields /\ ShownMatches
  BY Afresh DEF Init, PageTypes, LookupsAreOfTheirFields, ShownMatches
<1> QED
  BY <1>1, <1>2, Halves DEF WalletHalf, PageHalf

(* The inductive invariant.  Every step is one of the wallet, one of the    *)
(* page, or a page load.                                                    *)
THEOREM WalletInvariant == Spec => []WalletInv
<1> DEFINE Inv == WalletHalf /\ PageHalf
<1>1. Init => Inv
  BY WalletInitial, Halves
<1>2. Inv /\ [Next]_vars => Inv'
  <2> SUFFICES ASSUME Inv, [Next]_vars PROVE Inv'
    OBVIOUS
  <2>1. CASE WalletStep
    <3>1. PageHalf'
      BY <2>1, WalletStepFrame, PageHalfFrame
    <3>2. WalletHalf'
      BY <2>1, OnAccountsKeeps, DisconnectKeeps, CallStepsKeep DEF WalletStep
    <3> QED
      BY <3>1, <3>2
  <2>2. CASE PageStep
    <3>1. WalletHalf'
      BY <2>2, PageStepFrame, WalletHalfFrame
    <3>2. address \in Accounts \cup {None}
      BY DEF WalletHalf, WalletTypes
    <3> QED
      BY <2>2, <3>1, <3>2, PageStepKeeps
  <2>3. CASE Reload
    BY <2>3, ReloadKeeps
  <2>4. CASE UNCHANGED vars
    <3>1. UNCHANGED walletPart /\ UNCHANGED pagePart
      BY <2>4 DEF vars, walletPart, pagePart, wallet, form, ens, seals
    <3> QED
      BY <3>1, WalletHalfFrame, PageHalfFrame
  <2> QED
    BY <2>1, <2>2, <2>3, <2>4 DEF Next, WalletStep, PageStep
<1>3. Inv => WalletInv
  BY Halves
<1> QED
  BY <1>1, <1>2, <1>3, PTL DEF Spec

(* Every variable keeps its type, and the page says that it is connecting   *)
(* only while a call of connect runs.                                       *)
THEOREM WalletTypeCorrect == Spec => []TypeOK
<1>1. WalletInv => TypeOK
  BY DEF WalletInv
<1> QED
  BY <1>1, WalletInvariant, PTL

(* However many lookups overtake each other, every name on the page and in  *)
(* a capsule is of the account or the recipient it stands beside.           *)
THEOREM WalletNamesMatch == Spec => []NamesMatch
<1>1. WalletInv => NamesMatch
  BY DEF WalletInv, LookupsAreOfTheirFields, ShownMatches, NamesMatch
<1> QED
  BY <1>1, WalletInvariant, PTL

(* With any number of calls of connect in flight, the page shows the        *)
(* wallet's account or none, and reconnects by itself only if the user      *)
(* asked, until a call ends with an answer that was overtaken.              *)
THEOREM WalletAddressIsTheWallets == Spec => []AddressIsTheWallets
<1>1. WalletInv => AddressIsTheWallets
  BY DEF WalletInv
<1> QED
  BY <1>1, WalletInvariant, PTL
=============================================================================
