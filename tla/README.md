# Sealed Sky: formal models, checks and proofs

TLA+ models of the Sealed Sky verification system: a bare-metal Trusted OS on a
USB Armory that runs one Rust applet, a Node relayer that turns the applet's
proofs into attestations on an Ethereum contract, and a web page that seals
capsules until a public beacon releases them. TLC checks small instances of
every model; TLAPS proves every safety result of the passing runs, and that the
dispatch path implements its abstraction, for every value of the constants.
`PROJECT.json` lists the components, runs, mutants, mapped source lines, findings,
hazards and theorems.

Paths below are relative to the repository root; in `PROJECT.json` they start
with `src/`.

## 1. The system

```
  browser: sealed-sky-web ----------------------.
    | queue, poll loop, localStorage            | POST /sign-inference, /submit
    | drand / cTRNG beacon, NameStone, wallet   v
    |                                   backend/server.js ---> Ethereum node
    |                                     | nc, JSON lines        |
    |                                     v                       v
    |                              bridge :4000             TrustedEdgeOracle
    |                              Trusted OS (Go, secure world)
    |                                | CallApplet: two channels
    |                                v
    |                              applet (Rust): serve(handle)
    '--- (files) ---               SD card: applet header, applet body
```

### Components

| Component | State | Operations | Interacts with |
|---|---|---|---|
| **Applet dispatch** `docker/trusted_os/{bridge,rpc,handler}.go`, `docker/gotee_syscall/src/lib.rs` | goroutines of connections, `appletRequestCh`, `appletReplyCh` (one slot each), the applet's place in `serve()` | connection, `CallApplet`, `RPC.Recv`, `RPC.Send`, exit, panic | relayer and host tools (TCP), applet (syscalls), reset |
| **Applet store and boot** `applet_store.go`, `main.go`, `exec.go`, `reset.go` | header and body blocks of the card, uploads in progress, running image | `__upload`, `writeAppletToSD`, `triggerReset`, `readAppletFromSD`, `loadApplet` | dispatch (its connections carry uploads), power |
| **Relayer backend** `backend/server.js` | handlers between awaits, the history file, the wallet's nonce | `/sign-inference`, `/submit`, `/history`, `/publish-validation-ens`, `/read-validation-ens` | bridge, Ethereum node, NameStone |
| **Attestation contract** `trusted-edge-oracle/src/TrustedEdgeOracle.sol` | `attestations`, `authorizedRelayers`, event log | `authorizeRelayer`, `submitInference` | relayer |
| **Sealed Sky queue** `sealed-sky-web/src/App.tsx`, `lib/queue.ts`, `components/Queue.tsx` | React items, last render, `inFlight`, localStorage | seal, import, publish, delete, tick, unseal, save, load | drand, cTRNG, NameStone, other tabs |
| **Boot-time import and reopen links** `App.tsx`, `main.tsx`, `lib/share.ts`, `lib/namestone.ts` | URL, the runs of the import effect | build and parse links, fetch text records, dedupe, clear the URL | queue, NameStone |
| **Sealing and timelock arithmetic** `lib/drand.ts`, `lib/ctrng.ts`, `components/Compose.tsx` | none (pure), form fields | time to round, round to time, block estimate | queue |
| **USB sign panel** `components/UsbSignInference.tsx`, `components/Detail.tsx`, `lib/sha256Hex.ts` | the form, its hash, signature, proof, calls in flight | hash, sign, submit, edit, reset | relayer, history panel |
| **Wallet connection** `lib/wallet.ts`, `components/WalletConnect.tsx`, `lib/ens.ts` | account, preference in localStorage, identity, ENS caches | connect, reconnect, disconnect, account change, lookup | injected provider, ENS, sealing |
| **Validation history panel** `components/ValidationHistoryPanel.tsx` | shown records, loads in flight, card of a publication | load, publish | relayer, sign panel |
| **ENS publication of the history** `backend/server.js:199-292,562-673` | publications in flight, NameStone's text records | publish snapshot, read back | history file, NameStone, ENS |
| **Envelope codecs and crypto** `lib/{envelope,envelope-ctrng,symmetric,tlock,bytes}.ts` | none | encode, decode, encrypt, commit | queue |
| Static pages, attest and LED services, SSH echo, host tools, example applets, decoration | none that other parts depend on | one-shot | - |

### What is hard, and what makes each part correct

* **Dispatch.** One goroutine per connection makes two separate channel
  operations, and the reply carries no correlation. Correct means: nobody is
  stranded unless the applet itself lost a reply, a caller that was alone gets
  its own reply, no reply survives a reset, and buffers of one cannot deadlock.
* **Store.** No lock around the card, two writes per upload, power loss at any
  block, a reset by one upload while another writes. Correct means: the monitor
  only runs whole applets that passed the checks, an undisturbed acknowledged
  upload is what boots, and the device comes back.
* **Relayer.** Handlers interleave at awaits, `tx.wait()` may fail for a
  transaction that is mined later, one `try` covers the send, the wait and the
  write of the record, and the process may die in between. Correct means: what
  the history calls accepted is on chain, only hashes of lines the device signed
  are attested, beside the fields of the claim, a request leaves one record,
  nothing recorded is lost.
* **Queue.** Timers and buttons act on the items of the last render, updates
  queue up, jobs end in any order, the page may be reloaded at any time, tabs
  share one localStorage key. Correct means: nothing opens before the beacon
  allows it, no capsule is stranded in a status nobody acts on, no update undoes
  another, and a rendered capsule survives a refresh.
* **ENS publication and history panel.** A publication reads the file and then
  awaits NameStone; another one may overtake it, and a connection may be lost
  with the write still to come. The reader may fall back to ENS, one text record
  at a time. Correct means: a reported success is there and stays, a snapshot
  fits and leaves out only what it must, a reader's count covers its events, and
  the panel comes back and shows what it was told of.
* **Sign panel.** Three kinds of calls end in any order, while the user edits
  the fields or selects another capsule; only the hash effect has a cancelled
  flag. Correct means: the hash shown is that of the text, nothing is left over
  from the capsule shown before, and what was signed untouched verifies.
* **Reopen links.** Two runs of one effect under StrictMode share the URL that
  each of them reads late and clears; links are copied before and after the
  publication and opened again. Correct means: one item per capsule, its key
  with it, and the same unlock time on both sides, close to the one asked for.
* **Wallet.** The wallet changes accounts between two answers that one call
  awaits; ENS answers for two accounts or two recipients come in any order.
  Correct means: a name never stands beside an account it is not of, on the page
  or in a capsule, and the page does not reconnect unasked.

The full list, one entry per line of code where it bites, is `hazards` in
`PROJECT.json`; a hazard without a property carries a note that says why.

## 2. Modules

### CallPool and AppletRpc

`CallPool` is the abstract promise of the two channels: every accepted call is
answered at most once, each answer goes to exactly one caller that is blocked,
and nobody gets an answer to a call that was never made. It deliberately does
not promise *which* caller.

`AppletRpc` is the code. A Go channel is one sequence: a buffer of `Depth`
values followed by the senders blocked on it, so a sender is blocked exactly
while its value lies beyond `Depth` (`SendBlocked`, `Polling`).

| Code | Model |
|---|---|
| `handleBridgeConn` decode error | `BadRequest` |
| `appletRequestCh <- call` in `CallApplet` | `Call` |
| `<-appletReplyCh` in `CallApplet`, value there / not there | `TakeReply` / `Park` |
| `RPC.Recv` returning to `serve()` | `Recv`; the `__exit` sentinel: `RecvExit` |
| `RPC.Send` handing over to the longest-waiting receiver or the buffer | `Send` |
| output too long for `JsonBuf`, or a handler that panics | `SendLost` |
| `triggerReset`, power cycle | `Reset` |

`lost` counts replies the applet took a call for and never gave; `overlapped`
is a history variable. Methods are the four kinds that the code tells apart.
What a truncated `Send` request does in the monitor (discarded, or the applet is
stopped) depends on the JSON decoder and is a choice.

### AppletStore

The header names the ELF it was made from (magic, length and CRC32 in the code;
the CRC is taken to be injective on the images that occur), the body is one cell
per 512-byte block. One `WriteBlocks` is one step; an error (`WriteFails`) or a
power loss (`PowerLossInWrite`) divides it at any block. `Boot` is
`readAppletFromSD` and `loadApplet`; `Start` halts the device when `loadApplet`
fails, which is `log.Fatalf` in `main.go`. `Accept`, `WriteBody`, `WriteHeader`,
`Ack`, `Reset` are the steps of the `__upload` case of `handleBridgeConn`, one
goroutine each. `writer` is a history variable: the upload that made every write
since its body went to the card.

### TrustedEdgeOracle and OracleBackend

`TrustedEdgeOracle` holds the contract's state and its two transactions; a
failed `require` reverts, so a call that is not allowed is no step.
`OracleBackend` instantiates it and composes it with the relayer. Node runs a
handler without interruption from one await to the next, so a handler is one
action up to its first await and one for what follows each:

| Code | Model |
|---|---|
| `POST /sign-inference` (spawnSync blocks) | `SignRejected`, `SignDone` |
| `POST /submit` up to `contract.submitInference` | `SubmitRejected`, `SubmitProven` |
| `await contract.submitInference` | `Broadcast`, `SendFails` |
| `await tx.wait()` and the rest of the try block | `Confirmed`, `WaitFails` |
| its catch block | `ChainSubmitFailed` |
| `appendHistory`, and its exceptions | `appendHistory`, `appendThrows`, `Record` |
| Ethereum node and owner (external) | `Mine`, `Replace`, `Authorize` |
| end and restart of the process (external) | `Crash` |

An HMAC is represented by the line it was made from (injective, and made by the
device only). `SignDone` takes the reply to be the one to its own call; what the
swapped replies of `AppletRpc` do to a signature is for the planned composition.
The fields are joined with `|` and not escaped, so two different
claims can give the same line; a line is therefore the sequence of what lies
between its bars, and the instance for TLC has two such claims. The line has the
timestamp as it prints, but the contract takes a `uint256`: `StatementOf` puts
`uint256`, the number that ethers reads in the timestamp, beside the hash of the
line, and where ethers reads none (`NoNumber`) the submission throws
(`Accepted`, `SendFails`), after its proof was checked. An exception
that leaves a handler becomes a 500 because Express 5 handles a rejected
handler promise.

### SealedQueue

One record per capsule with its status, whether it is opened and whether it is
named, and whether it is broken: its unsealing fails before its first await.
Per tab there are `items` (React's state with every queued update
applied), `view` (the items of the last render, which timers and buttons close
over), `dirty` (a render is due) and `jobs` (the `tryUnseal` calls and the await
each is at; `inFlight` is those not `"none"`). `Commit` is a render with both
effects in their order, `saveQueue` and then `tick`; `Interval` is the timer;
`Click` the Unseal and Retry buttons; `NotYet`, `Found`, `Opened`, `Fails` the
continuations of `tryUnseal`; `Open` is `loadQueue` and the first render;
`Close` a closed or reloading tab. `due` is the local clock, `released` the
beacon: the two are independent, as in the code. `sharing` is a history variable: the tabs
that, since they were loaded, had another tab beside them. An exception of
`localStorage.setItem` at its quota is left out.

### HistoryPublish and HistoryPanel

`HistoryPublish` is the relayer's ENS publication, `HistoryPanel` extends it with
the panel. A record is its position in the history, a row of text records the
interval `first..total` it holds; `Length` gives each record its length in JSON,
and `slice` is the loop of `publishValidationHistoryToEns` that cuts off the
oldest until the rest fits `MaxLen`. `Publish` runs up to the `fetch`; then
`Apply` is NameStone executing the write, `Succeed` its answer, `HttpError` a
refusal, `ConnectionLost` a `fetch` that rejects, with the write dropped, done
or still under way (`late`, `ApplyLate`); `Refuse` is the catch block of the
route. `ReadNameStone`, `ReadFallsBack`, `ReadKey`, `ProviderFails` are the read
route. `Loaded`, `LoadError`, `PublishAnswered`, `Latest` are the continuations
of the panel's calls. History variables: `tangled` (names whose publications
overlapped), `acked` (what successes have reported), `announced` and
`overtaking` (what the panel was told of, and whether loads overlapped).

### SignPanel

A hash is represented by the text it is of, an HMAC by the line. `Select` runs
the reset effect, as `Detail` keeps one panel for all unsealed capsules; `Leave`
unmounts it. `Hashed` has the cancelled flag of the hash effect, `Signed` the
effect that fills the proof in. `sealedSkyTextFromBody`, `signedLine`,
`canonicalPayload` and `verifies` are what the relayer makes of the two bodies:
the text is trimmed but the hash is of the untrimmed one, the timestamp is sent
as it is typed when signing and as a `Number` when submitting. What the device
signs (`signedLine`) is made of the raw slice of the JSON string that `serve()`
hands the applet (`extract_json_string`), its escapes not undone: `rawSlice` maps
a text or timestamp to it. It is the text itself where JSON escapes nothing (a
text is `intact`) and another string for a quote, a backslash, a line break or
another control character, and for `<`, `>` and `&`, which Go's encoder escapes
on the way from the monitor to the applet. Two identical calls in flight count as
one. `from` in `sign`, `proof` and `submit` is the capsule whose call they tell
of. The proof field takes the device's HMAC by hand or
is cleared; arbitrary pasted text is not modelled. History variables: those
`from`, `late` (the kinds of calls of which an answer to one of before the reset
has come since) and `clean`.

### ReopenLink

`roundAtTime`, `timeAtRound` and `estimateTargetSequence` are the arithmetic of
`lib/drand.ts` and `lib/ctrng.ts`, applied by `Seal`. `timeAtRound` is what the
pages take for the time of a round, the end of its period; `issuedAt` (external)
is when drand issues it by its own convention, the start of that period. `Links` are the URLs that
may be opened: those of the sealing page before and after the publication, those
of the receiving page, a bare ENS name. `Load` is a page load with one run of the
import effect or, as under `React.StrictMode` in development, two of which the
first is cancelled; `Fetched` and `Informed` are the continuations after
`fetchCapsuleByEns` and `getChainInfo`, `conclude` the rest, with the `finally`
block that clears the URL whether the run was cancelled or not. `owed` is history
in an item: the URL had a key, and no StrictMode run could take it.

### WalletSession

`useWallet` with the silent reconnection of a page load (`calls`: `connect` and
`reconnect`, each at the await of its accounts or of the chain id), the effect of
the wallet bar (`BarEffect`), the recipient field with its timer, and the lookups
of both (`lookups`, whose `current` is false once their effect was cleaned up)
with the caches of `lib/ens.ts`, in which a failure is kept as "no such name". A
name is represented by the account or recipient it resolves to. `OnSeal` takes
sender and owner from one render's closures. Messages of the wallet are taken to
arrive in the order they are sent, so `OnAccounts` changes the wallet and the
page together. History variables: `wanted`, `raced`.

## 3. Runs

Deadlock is not checked where the program may really stop: once every connection
or request of a finite instance is spent.

| Run | Instance | What it shows |
|---|---|---|
| `rpc` | 3 connections, all four kinds of method, depth 1 | types, `CallsAccountedFor`, `SoloCallersGetOwnReply`, `CallsAnswered`, refinement of `CallPool` |
| `store` | 3 uploads; ELFs of 3, 1, 2 (not loadable) and 1 (malformed) blocks | `RunsOnlyWholeApplets`, `UndisturbedUploadRuns`, `SelfRecoversIfLoadable` |
| `backend` | 3 requests, 2 claims that join to the same line, one of them with the timestamp `05`; one whose timestamp is no number, one with a character that JSON escapes | the record, chain and answer invariants, `SubmissionsAnswered` |
| `queue` | 2 tabs, 1 capsule, sound or broken | `NothingOpensEarly`, `UnsealingHasJob`, `RenderedIsStored`, `UpdatesLoseNothing`, `DueCapsulesSettle` |
| `history` | 3 records of lengths 4, 1, 2 with a limit of 3 and 2 entries; 2 publishers, 2 loads | `RowsFit`, `AcknowledgedIsKept`, `ReadsAgree`, `PanelIsCurrent`, `PublicationsAnswered` |
| `sign` | 2 capsules, one with a blank text and one with a text that JSON escapes; a number and another timestamp; 2 calls in flight | `HashIsOfText`, `FormIsOfItsItem`, `UntouchedSignatureVerifies`, `CallsEnd` |
| `reopen` | 2 capsules, 4 times around a genesis of 2 with a period of 2 | `OneItemPerCapsule`, `UnlocksWithinAPeriod`, `KeysArrive` |
| `wallet` | 2 accounts, 2 recipients, 2 calls of `connect` | `NamesMatch`, `AddressIsTheWallets` |
| `rpc_own_reply`, `store_brick`, `backend_rejected`, `sign_stale_hash` | smaller | each refutes one sentence of the documentation or the page, section 6 |

**Why the bounds are enough.** Three connections give one caller parked, one
whose request is buffered and one blocked on the full channel, with a stale
reply possible in front of any of them; the proofs cover every number and depth.
Three uploads let one interrupt another twice, with an older complete applet
still on the card; the sizes make a short body end inside a long one. Three
requests allow a signature, a submission that fails after broadcast and one that
succeeds. Two tabs with one capsule are enough for every overwriting of one tab
by another: `updateItem` and `tick` map over the capsules one by one, and no
action relates two. Three records give one that is too long by itself, one that
is published alone and two that just fit. Two loads, two publications, two calls
of `connect` and two lookups are what it takes for one to overtake another.

Three instances carry a state constraint, so that parts that have nothing to say
to each other are explored one at a time: `OneAtATime` of `MCHistoryPanel` (the
list; or one name with its publishers, and a read beside one publisher; one write
under way after its caller gave up), `FewCalls` of `MCSignPanel` (one call at a
time after a late answer; none while two texts are being hashed or the timestamp
is no number) and
`OneAtATime` of `MCWalletSession` (the recipient while no account is known, a
second `connect` before ENS has answered anything, a capsule while nothing
connects). A state that violates the constraint is still checked; it is not
expanded.

Every action fires in these runs, and for
every property a mutant of the code (`mutants`) is found violating it.

**Fairness.**
* `AppletRpc`: weak fairness of the applet's loop and of each goroutine's
  receive - the Go scheduler runs what is runnable, and channels are first in,
  first out. Nothing obliges clients to call, or the device to reset.
* `AppletStore`: a device that is off or halted is powered again. Nothing is
  assumed of uploads.
* `OracleBackend`: the node answers calls, a pending transaction is mined or
  replaced, and a settled promise resumes its handler.
* `SealedQueue`: React renders what was updated; the interval fires when no
  render is due (a render restarts it); every awaited call settles. No fairness
  of the clock or the beacon: `DueCapsulesSettle` assumes both as its premise.
* `HistoryPanel`: a call to NameStone ends somehow (an answer, an error or a lost
  connection), and the relayer and the panel go on with what has settled.
* `SignPanel`: hashes are computed, calls are answered or fail. Any answer
  to a call of its kind ends a button's busy state, so fairness is of the kind and
  not of each call.

## 4. Theorems

Checked by TLAPS for all values of the constants, from one named assumption per
module; TLC evaluates each of them in the runs.

| Assumption | What it asks |
|---|---|
| `RpcAssumption` | finitely many connections, channels of at least one slot, `None` is no connection |
| `StoreAssumption` | every ELF has at least one block; the embedded applet is none of the uploaded ones; null values are distinct |
| `BackendAssumption` | the deployer and the wallet are accounts; no line is the missing proof |
| `QueueAssumption` | `Absent` is no item |
| `PublishAssumption`, `PanelAssumption` | a bound of at least one record, each with a length; natural limits, at least one entry wanted; the panel is one of the callers |
| `PanelAssumption` of `SignPanel` | the texts of the capsules, trimming, `Number` and `rawSlice` are functions on the texts and timestamps; `Number` and JSON leave the present time as it is, and JSON the default text; null values are distinct |
| `LinkAssumption` | times and genesis are natural numbers, the two periods are positive; `None` is no capsule |
| `WalletAssumption` | accounts and recipients are distinct, and neither is `None` |

The bounds of the models (records, calls, connections, tabs) are constants too,
so that the theorems hold for every bound.

* **AppletRpc_proofs.** `RpcInvariant` proves `RpcInv`: `TypeOK`,
  `CallsAccountedFor`, `SoloCallersGetOwnReply`, and two facts they are not
  inductive without. `ReceiversAreParked`: the queue of receivers lists parked
  goroutines, each once - so a `Send` that wakes its head takes exactly one
  caller out of `CallApplet` and the count stays balanced (`FlightShrinks`).
  `SoloCallersOwnThePipe`: while a caller that never overlapped is inside, every
  call in the channels and the applet is its own, so the reply it is handed is
  too. It holds because `CallsAccountedFor` says the pipe is empty when nobody is
  inside, which is the state a caller that is alone starts from.
  `RpcRefinesCallPool` proves the refinement as a step simulation: `PoolStep`
  maps each action to one of `CallPool` or to a stutter. Its extra invariant
  `EachCallOnce` says that a call is in one place only - in a channel, in the
  applet or answered - so that an answer handed to some caller is never handed
  over a second time. `RpcNeverDeadlocks` proves `NoDeadlock`, the safety half of
  `CallsAnswered`: until a reply has been lost, whoever is inside `CallApplet`
  waits for a caller or an applet that can go on (their guards, written out, as
  `ENABLED` is out of reach). If none could, the reply channel would be full and
  every caller blocked in its send, and those are fewer than `CallsAccountedFor`
  asks for.
* **AppletStore_proofs.** `StoreInvariant` proves `StoreInv`: `TypeOK`,
  `RunsOnlyWholeApplets`, `CheckedElfsOnly` (the header and every upload that
  got to the card come from well-formed ELFs) and `WriterOwnsCard` (if some
  upload made the last writes, its blocks are on the card and, once it is
  stored, its header too). An intact card then holds one whole checked ELF
  (`StoredImageIsImage`), and `UndisturbedUploadRuns` follows from
  `WriterOwnsCard` at each `Boot`.
* **OracleBackend_proofs.** `BackendInvariant` proves `IInv`: a handler that is
  still open has written no record (`OpenIsUnrecorded`, hence one record each), a
  form past the checks carries a signed line made of its claim (`FormProven`), a
  transaction has been sent only for a timestamp that ethers takes for a number
  (`SentIsNumber`), a mined transaction has its attestation (`MinedIsAttested`) and a new request
  has no transaction (`Untouched`). `AcceptedIsAttested` needs all of them: the
  accepted record is written from `form`, by a handler whose transaction is
  mined, and attestations are never removed. `BackendAnsweredIsRecorded` adds
  that the log holds every answer that was given (`AnsweredIsLogged`) and only
  grows (`AnsweredStaysLogged`); `HistoryIsComplete` then carries it to the file.
* **SealedQueue_proofs.** `QueueInvariant` proves `QueueInv`. To the invariants
  of the run it adds what happens behind them: a job that has got as far as
  opening works on a released capsule (`OpeningIsReleased`), a closed tab holds
  nothing (`ClosedIsEmpty`), a capsule not yet made is nowhere (`FreshIsUnused`),
  and a tab that never shared the page is the only one open
  (`UnsharedIsAlone`). `RenderedIsStored` is inductive because of the last: only
  such a tab's own renders write localStorage. `QueueUpdatesLoseNothing` is an
  action property proved from the same invariant.
* **HistoryPanel_proofs.** `PanelInvariant` proves `PanelInv`, one part per
  owner of state. `ServerInv`: everything sent, still under way or stored is a
  snapshot that fits (`WritesFit`), what is stored and under way under an
  untangled name keeps what was acknowledged (`UntangledAreKept`), and a read
  through ENS has seen no event that its name does not hold (`ReadIsBehind`).
  `ListInv`: unless loads overtook each other there is one at most, and its
  answer is not older than what was announced. `CardInv`: a publication in
  flight belongs to a card without a row. The truncation loop, a recursive
  function, is proved for every history, limit and length of records in
  `SliceFacts`: its result is the first record at which the loop stops
  (`FirstStop`, by the well-foundedness of the natural numbers, which needs no
  induction rule with an operator), hence it fits or is the newest record alone,
  and one record more would not have fitted. `PanelBusyWaits`, the safety half of
  `PublicationsAnswered`: the panel is busy only while a load or its publication
  is under way.
* **SignPanel_proofs.** `SignInvariant` proves `SignInv`. A call that was made
  since the reset carries the item it was made for (`CallsAreOfTheItem`);
  a form that is `clean` has the capsule's text (`CleanForm`), and
  the proof in it is of the escaped form of the line that the relayer will make of
  that form (`CleanProof`). The submission of such a form verifies if and only if
  JSON escapes nothing in the text (`UntouchedCall`); one direction is the action
  property `UntouchedSignatureVerifies`, the other `SignEscapedNeverVerifies`:
  for every other text it fails.
  `SignBusyHasCall`, the safety half of `CallsEnd`: a button is busy only while a
  call of its kind is in flight.
* **ReopenLink_proofs.** `LinkInvariant` proves `LinkInv`. `CeilDiv` bounds the
  rounding, `RoundTimes` and `TargetTimes` the times made of it: the time shown
  lies within a period after the time asked for, the issue of the round within a
  period before it. `SealingInv`
  says of every envelope that its times are right and that a drand round tells
  the receiver what the sender was told; `LoadInv` that the URL and both runs
  lead to sealed capsules and that the key is on its way (`KeyOnItsWay`: in the
  URL that a run will still read, or in the run, as long as no second run can
  clear it); `QueueInv` that each item is there once, with its time and the key
  it is owed (`ImportedOnce`, `RemovedOnce`).
* **WalletSession_proofs.** `WalletInvariant` proves `WalletInv`, split into the
  wallet's half and the page's, which share only the account shown, so that a
  step of one half leaves the other alone. `CallsAreOfTheWallet`: what a call of
  `connect` holds is the wallet's account unless it is marked stale.
  `LookupsAreOfTheirFields`: a lookup whose effect has not been cleaned up is for
  what its field holds; the names that are shown can then not be of another
  (`ShownMatches`).

Each theorem rests on three facts: the initial states satisfy the invariant, every
action preserves it (one step per action), and it implies the property; `PTL`
combines them.

Each inductive invariant, and each of the three statements about waiting
(`NoDeadlock`, `BusyHasCall`, `BusyWaits`), was checked by TLC on the instance of
its run before it was proved.

**Only model-checked.** The liveness properties: `CallsAnswered`,
`SelfRecoversIfLoadable`, `SubmissionsAnswered`, `DueCapsulesSettle`,
`PublicationsAnswered`, `CallsEnd`. Liveness under fairness and `ENABLED` are
beyond the prover. That the runs with `expect: violation` refute their property
is shown by TLC's counterexample and is no theorem.

## 5. Not modelled

* Envelope codecs and cryptography: straight-line code around libraries; a
  capsule opens or fails.
* Attest and LED services, the SSH echo, static pages, host tools, example
  applets, decoration: no state that another part depends on.
* The id of an `InferenceAttested` event is modelled (`submitInference`) but no
  run states a property of it: it is one subtraction next to the push.
* The rotation over beacon mirrors and IPFS gateways (`lib/ctrng.ts`,
  `lib/drand.ts`): one outcome, found or failed, of `SealedQueue`.
* A subdomain of the caller's own choosing at `/publish-validation-ens`: both
  clients name the default one.
* A beacon mirror that lags behind the beacon: once a round or block is released,
  every poll that succeeds finds it. Requests longer than the 4096 bytes of
  the applet's receive buffer.
* `chainId` of the wallet, which nothing reads; a browser without a wallet.

## 6. Findings

Each is a run with `expect: violation` and an entry under `findings`.

1. `rpc_own_reply`: overlapping callers may be handed each other's replies
   (`rpc.go:68`), while `rpc.go:58` says the reply goes "back to whoever queued
   the request". `SoloCallersGetOwnReply` is what remains true.
2. `store_brick`: an ELF that passes the five checks but cannot be loaded halts
   every boot; the documentation promises a fall back to the embedded applet.
3. `backend_rejected`: a submission recorded as `rejected/chain_submit_failed`
   can be on chain.
4. `sign_stale_hash`: the panel's buttons stay enabled while the hash of a new
   text is being computed, so that a text can be signed, submitted and accepted
   with the hash of the text before it, in the field the page labels "SHA-256 of
   sealed sky text".

Also visible in the models, without a run:

* `__exit` sent through the bridge stops the applet (`RecvExit`).
* An upload acknowledged with "ok, rebooting" need not be what boots if another
  upload is writing (`UndisturbedUploadRuns` states the condition). The body is
  overwritten under the previous applet's valid header, so that, other than
  `applet_store.go:89` says, a valid header can point at partial data; the CRC at
  boot catches it (`RunsOnlyWholeApplets`), but the previous applet is lost.
* For a line that JSON escapes the device signs the escaped form
  (`deviceLines`, `signedLine`), whose proof `/submit` refuses: a capsule with a
  line break, a quote or an ampersand in its text can be signed but, with the
  device as it is, never attested (`SignEscapedNeverVerifies`).
* A timestamp that is a string is hashed as it was sent and attested as the
  number that ethers reads in it: `"005"` and `"0x10"` come out as 5 and 16, and
  the payload hash is not that of a line of the attested fields. One that is no
  number passes the checks of `/submit` and fails at the contract
  (`OnlySignedLinesAttested` says what does hold).
* A second tab erases from localStorage capsules that only the first one has
  (`RenderedIsStored` is stated of a tab that is alone; `README.md:120` says it of
  the page). One failed poll leaves a capsule in `error`, which the poll loop
  passes over (`DueCapsulesSettle` counts an error as settled). A capsule whose
  block is not there yet is polled again at every render and not only every
  2.5 s, because `Commit` runs `tick`.
* A publication whose connection was lost may land after a later one
  (`AcknowledgedIsKept` excludes names whose publications overlapped). Two loads
  may show the older list (`PanelIsCurrent`). A `getText` that fails reads as
  null, so that a reader through ENS may see a total and no events. A full
  publication of an empty history succeeds; a name beyond the first 500 of the
  domain is read through ENS.
* Success, failure and the HMAC of one capsule are shown for another if its
  answer comes after the selection changed (`FormIsOfItsItem`). The text is
  trimmed, the hash is of the text as typed; a blank text is replaced by the
  relayer's default, under the hash of the blanks.
* Under StrictMode the cancelled run of the import effect clears the URL before
  the other one reads the key of an ENS link (`KeysArrive`); `App.tsx:87` says to
  look for it there. A failed import clears the URL too. A key that comes for a
  capsule already in the queue without one is dropped. Sender and recipient are
  not restored from ENS although they are published.
* drand issues round r at genesis + (r - 1) periods, while `timeAtRound` has the
  end of that period. The round chosen for a time is therefore issued, and the
  capsule can be opened by whoever asks the beacon, up to a period before that
  time, and at it or later only if the time is genesis or before.
  `sealed-sky-web/README.md:116` has the round "whose published time is >= the chosen unlock"; `UnlocksWithinAPeriod` states what
  holds instead. The page itself polls only once the time shown has passed.
* When the account changes, `WalletConnect.tsx:64-67` shows the old name beside the
  new address for the one commit before its effect runs; `NamesMatch` speaks of
  the bar once `BarEffect` has run.
* An account change or a disconnection between the two answers that `connect`
  awaits is overwritten by what it was told before (`AddressIsTheWallets`). Until
  the new account's name is resolved, capsules are still sealed by the old one.

## 7. Plan

Order chosen so that the core (device, relayer, contract, queue) comes first.

1. *Done:* `CallPool`, `AppletRpc`, `AppletStore`, `TrustedEdgeOracle`,
   `OracleBackend`, `SealedQueue`, `HistoryPublish`, `HistoryPanel`, `SignPanel`,
   `ReopenLink`, `WalletSession`.
2. *Done:* proofs of the safety properties of every passing run and of the
   refinement `RefinesCallPool`.
3. *Done* for `AppletRpc`, `SignPanel` and `HistoryPanel`: the safety half of
   progress, that whoever waits has something to wait for. Left: the handlers of
   `OracleBackend` and the capsules of `SealedQueue`; and of the contract, that
   each mined transaction leaves one attestation and one event.
4. `TrustedOs`: `AppletRpc` and `AppletStore` under one reset, where an upload's
   reset cuts callers; and the sign path from relayer through bridge to applet,
   where swapped replies meet `/submit`.
