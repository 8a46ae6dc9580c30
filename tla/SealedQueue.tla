---------------------------- MODULE SealedQueue -----------------------------
(***************************************************************************)
(* The capsule queue of the Sealed Sky page (sealed-sky-web/src/App.tsx,   *)
(* lib/queue.ts): React state, the poll loop, unsealing, localStorage, and *)
(* several tabs of one browser.                                            *)
(*                                                                         *)
(* The browser runs one task of a tab at a time.  A setItems call queues a *)
(* functional update; React renders and runs the effects in a later task,  *)
(* and until then timers and buttons see the items of the last render.  So *)
(* a tab has its items, every queued update applied, and its view.         *)
(*                                                                         *)
(* A capsule is an id; its backend shows only in what the beacon must have *)
(* released, a drand round or a cTRNG block late enough.                   *)
(***************************************************************************)
EXTENDS Naturals

CONSTANTS
  Tabs,
  Ids,            (* capsules; an id is used once (newId)                  *)
  Absent          (* no item                                               *)

Item == [status : {"sealed", "ready", "unsealing", "unsealed", "error"},
         opened : BOOLEAN,      (* plaintext is present                    *)
         named : BOOLEAN,       (* capsule_ens is present                  *)
         broken : BOOLEAN]      (* unsealing fails before its first await: *)
                                (* no key, no round, or an unreadable      *)
                                (* envelope                                *)

ASSUME QueueAssumption == Absent \notin Item

VARIABLES
  open,           (* the tabs that show the page                           *)
  items,          (* per tab: React's state, with every queued update      *)
  view,           (* per tab: the items of the last render                 *)
  dirty,          (* tabs with a render to come                            *)
  jobs,           (* per tab: the tryUnseal calls in flight, and their     *)
                  (* await; inFlight is the ids whose job is not "none"    *)
  publishing,     (* per tab: capsules being published to NameStone        *)
  stored,         (* localStorage                                          *)
  due,            (* capsules whose unlock_unix the clock has passed       *)
  released,       (* capsules whose round or block the beacon has issued   *)
  fresh,          (* ids not used yet                                      *)
  sharing         (* tabs that since they were loaded have shared          *)
                  (* localStorage with another one                         *)

tabVars == <<items, view, dirty, jobs, publishing>>
world == <<due, released>>
pages == <<open, sharing>>
vars == <<pages, tabVars, stored, world, fresh>>

Nothing == [id \in Ids |-> Absent]
NoJobs == [id \in Ids |-> "none"]

Init ==
  /\ open = {} /\ sharing = {}
  /\ items = [t \in Tabs |-> Nothing]
  /\ view = [t \in Tabs |-> Nothing]
  /\ dirty = {}
  /\ jobs = [t \in Tabs |-> NoJobs]
  /\ publishing = [t \in Tabs |-> {}]
  /\ stored = Nothing
  /\ due = {} /\ released = {}
  /\ fresh = Ids

-----------------------------------------------------------------------------
(* Updates of the state. *)

with(item, patch) ==
  [f \in DOMAIN item |-> IF f \in DOMAIN patch THEN patch[f] ELSE item[f]]

(* Mutation: the patch is spread over the item as last rendered. *)
updateRendered(t, id, patch) ==
  /\ items' = [items EXCEPT ![t][id] =
                 IF @ = Absent \/ view[t][id] = Absent THEN @
                 ELSE with(view[t][id], patch)]
  /\ dirty' = dirty \cup {t}

(* updateItem: a capsule that has been deleted is not in the queue to map. *)
updateItem(t, id, patch) ==
  /\ items' = [items EXCEPT ![t][id] = IF @ = Absent THEN @ ELSE with(@, patch)]
  /\ dirty' = dirty \cup {t}

append(t, id, named, broken) ==
  /\ items' = [items EXCEPT ![t][id] = [status |-> "sealed", opened |-> FALSE,
                                       named |-> named, broken |-> broken]]
  /\ dirty' = dirty \cup {t}
  /\ fresh' = fresh \ {id}

(* A capsule is sealed, and its publication begins if NameStone is set up. *)
Seal(t, id) ==
  /\ t \in open /\ id \in fresh
  /\ append(t, id, FALSE, FALSE)
  /\ \/ publishing' = [publishing EXCEPT ![t] = @ \cup {id}]
     \/ UNCHANGED publishing
  /\ UNCHANGED <<pages, view, jobs, stored, world>>

(* A capsule arrives by a reopen link, or by its ENS name. *)
Import(t, id) ==
  /\ t \in open /\ id \in fresh
  /\ \E byName, broken \in BOOLEAN : append(t, id, byName, broken)
  /\ UNCHANGED <<pages, view, jobs, publishing, stored, world>>

(* publishCapsule has answered, or failed: capsule_publish_error is left    *)
(* out.                                                                     *)
Published(t, id) ==
  /\ id \in publishing[t]
  /\ publishing' = [publishing EXCEPT ![t] = @ \ {id}]
  /\ \/ updateItem(t, id, [named |-> TRUE])
     \/ updateItem(t, id, <<>>)
  /\ UNCHANGED <<pages, view, jobs, stored, world, fresh>>

(* handleDelete, from a rendered row. *)
Delete(t, id) ==
  /\ t \in open /\ view[t][id] # Absent
  /\ items' = [items EXCEPT ![t][id] = Absent]
  /\ dirty' = dirty \cup {t}
  /\ UNCHANGED <<pages, view, jobs, publishing, stored, world, fresh>>

-----------------------------------------------------------------------------
(* The poll loop: tick, over the items its closure holds. *)

dueReady(shown) ==
  {id \in due : shown[id] # Absent /\ shown[id].status = "sealed"}

(* Mutation: inFlight is not asked. *)
dueToTryAgain(t, shown) ==
  {id \in due : shown[id] # Absent /\ shown[id].status = "ready"}

dueToTry(t, shown) ==
  {id \in due : /\ shown[id] # Absent /\ shown[id].status = "ready"
                /\ jobs[t][id] = "none"}

(* Sealed ones become ready and ready ones are tried; a broken one fails at *)
(* once.  rendered: the tabs with a render to come but for these updates.   *)
tick(t, shown, rendered) ==
  LET fail == {id \in dueToTry(t, shown) : shown[id].broken}
      fetch == dueToTry(t, shown) \ fail
      patched == dueReady(shown) \cup fail
  IN  /\ items' = [items EXCEPT ![t] = [id \in Ids |->
           IF @[id] = Absent \/ id \notin patched THEN @[id]
           ELSE with(@[id], [status |-> IF id \in fail THEN "error" ELSE "ready"])]]
      /\ dirty' = rendered \cup (IF patched = {} THEN {} ELSE {t})
      /\ jobs' = [jobs EXCEPT ![t] =
           [id \in Ids |-> IF id \in fetch THEN "fetch" ELSE @[id]]]

(* Mutation: the effect saves the items of the render before. *)
commitStale(t) ==
  /\ t \in dirty
  /\ view' = [view EXCEPT ![t] = items[t]]
  /\ stored' = view[t]
  /\ tick(t, items[t], dirty \ {t})
  /\ UNCHANGED <<pages, publishing, world, fresh>>

(* React renders, and both effects on items run: saveQueue, then tick. *)
Commit(t) ==
  /\ t \in dirty
  /\ view' = [view EXCEPT ![t] = items[t]]
  /\ stored' = items[t]
  /\ tick(t, items[t], dirty \ {t})
  /\ UNCHANGED <<pages, publishing, world, fresh>>

(* setInterval calls the tick of the last render. *)
Interval(t) ==
  /\ t \in open
  /\ tick(t, view[t], dirty)
  /\ UNCHANGED <<pages, view, publishing, stored, world, fresh>>

(* The Unseal and Retry buttons of a rendered row: handleUnseal. *)
Click(t, id) ==
  /\ t \in open
  /\ view[t][id] # Absent /\ view[t][id].status \in {"ready", "error"}
  /\ jobs[t][id] = "none"
  /\ IF view[t][id].broken
     THEN updateItem(t, id, [status |-> "error"]) /\ UNCHANGED jobs
     ELSE jobs' = [jobs EXCEPT ![t][id] = "fetch"] /\ UNCHANGED <<items, dirty>>
  /\ UNCHANGED <<pages, view, publishing, stored, world, fresh>>

-----------------------------------------------------------------------------
(* tryUnseal: its continuation after each await. *)

finish(t, id, patch) ==
  /\ updateItem(t, id, patch)
  /\ jobs' = [jobs EXCEPT ![t][id] = "none"]

jobKeeps == UNCHANGED <<pages, view, publishing, stored, world, fresh>>

(* Neither the round nor a late enough block is there yet. *)
NotYet(t, id) ==
  /\ jobs[t][id] = "fetch" /\ id \notin released
  /\ finish(t, id, [status |-> "ready"])
  /\ jobKeeps

(* Mutation: what fetchRound or fetchLatestBeacon returned is not looked at. *)
FoundAnything(t, id) ==
  /\ jobs[t][id] = "fetch"
  /\ updateItem(t, id, [status |-> "unsealing"])
  /\ jobs' = [jobs EXCEPT ![t][id] = "open"]
  /\ jobKeeps

Found(t, id) ==
  /\ jobs[t][id] = "fetch" /\ id \in released
  /\ updateItem(t, id, [status |-> "unsealing"])
  /\ jobs' = [jobs EXCEPT ![t][id] = "open"]
  /\ jobKeeps

Opened(t, id) ==
  /\ jobs[t][id] = "open"
  /\ finish(t, id, [status |-> "unsealed", opened |-> TRUE])
  /\ jobKeeps

(* Every source of the beacon fails, or the decryption or commitment does. *)
Fails(t, id) ==
  /\ jobs[t][id] \in {"fetch", "open"}
  /\ finish(t, id, [status |-> "error"])
  /\ jobKeeps

-----------------------------------------------------------------------------
(* The browser and the world. *)

(* Mutation: an item that was being unsealed is loaded as it was saved. *)
loadAsSaved(item) == item

loadItem(item) ==
  IF item # Absent /\ item.status = "unsealing"
  THEN with(item, [status |-> "ready"]) ELSE item

(* A tab loads the page: loadQueue, and the first render. *)
Open(t) ==
  /\ t \notin open
  /\ open' = open \cup {t}
  /\ sharing' = IF open = {} THEN sharing ELSE open'
  /\ items' = [items EXCEPT ![t] = [id \in Ids |-> loadItem(stored[id])]]
  /\ view' = [view EXCEPT ![t] = items'[t]]
  /\ dirty' = dirty \cup {t}
  /\ UNCHANGED <<jobs, publishing, stored, world, fresh>>

(* Mutation: a call in flight outlives the page. *)
closeKeepingJobs(t) ==
  /\ t \in open
  /\ open' = open \ {t} /\ sharing' = sharing \ {t}
  /\ items' = [items EXCEPT ![t] = Nothing]
  /\ view' = [view EXCEPT ![t] = Nothing]
  /\ dirty' = dirty \ {t}
  /\ UNCHANGED <<jobs, publishing, stored, world, fresh>>

(* A tab is closed, or about to reload: all but localStorage is gone. *)
Close(t) ==
  /\ t \in open
  /\ open' = open \ {t} /\ sharing' = sharing \ {t}
  /\ items' = [items EXCEPT ![t] = Nothing]
  /\ view' = [view EXCEPT ![t] = Nothing]
  /\ dirty' = dirty \ {t}
  /\ jobs' = [jobs EXCEPT ![t] = NoJobs]
  /\ publishing' = [publishing EXCEPT ![t] = {}]
  /\ UNCHANGED <<stored, world, fresh>>

(* The clock passes an unlock time. *)
FallDue(id) ==
  /\ due' = due \cup {id}
  /\ UNCHANGED <<pages, tabVars, stored, released, fresh>>

(* The beacon issues, at its own pace, what a capsule waits for. *)
Release(id) ==
  /\ released' = released \cup {id}
  /\ UNCHANGED <<pages, tabVars, stored, due, fresh>>

Next ==
  \/ \E t \in Tabs : Commit(t) \/ Interval(t) \/ Open(t) \/ Close(t)
  \/ \E t \in Tabs, id \in Ids :
       \/ Seal(t, id) \/ Import(t, id) \/ Published(t, id) \/ Delete(t, id)
       \/ Click(t, id) \/ NotYet(t, id) \/ Found(t, id) \/ Opened(t, id)
       \/ Fails(t, id)
  \/ \E id \in Ids : FallDue(id) \/ Release(id)

Spec == Init /\ [][Next]_vars

(* React renders what has been updated, the interval fires when no render   *)
(* restarts it, every awaited call settles.                                 *)
FairSpec ==
  /\ Spec
  /\ \A t \in Tabs : WF_vars(Commit(t)) /\ WF_vars(t \notin dirty /\ Interval(t))
  /\ \A t \in Tabs, id \in Ids :
       WF_vars(NotYet(t, id) \/ Found(t, id) \/ Opened(t, id) \/ Fails(t, id))

-----------------------------------------------------------------------------
Queue == [Ids -> Item \cup {Absent}]

(* Types; a closed tab holds nothing, and runs nothing. *)
TypeOK ==
  /\ sharing \subseteq open /\ open \subseteq Tabs
  /\ items \in [Tabs -> Queue]
  /\ view \in [Tabs -> Queue]
  /\ dirty \subseteq open
  /\ jobs \in [Tabs -> [Ids -> {"none", "fetch", "open"}]]
  /\ publishing \in [Tabs -> SUBSET Ids]
  /\ stored \in Queue
  /\ due \subseteq Ids /\ released \subseteq Ids /\ fresh \subseteq Ids
  /\ \A t \in Tabs \ open : items[t] = Nothing /\ jobs[t] = NoJobs

(* No plaintext is shown or stored before the beacon has released the       *)
(* capsule, although the browser holds the key of a cTRNG capsule all the   *)
(* while (tryUnsealDrand, tryUnsealCtrng).                                  *)
NothingOpensEarly ==
  \A id \in Ids \ released :
    /\ stored[id] # Absent => ~stored[id].opened
    /\ \A t \in Tabs : items[t][id] # Absent => ~items[t][id].opened

(* A capsule that says "unsealing" is being unsealed, by a job of this very *)
(* tab: no reload, failure or second attempt leaves one that nobody will    *)
(* ever try again, for tick and the buttons pass over that status           *)
(* (tryUnseal, loadQueue).                                                  *)
UnsealingHasJob ==
  \A t \in Tabs, id \in Ids :
    items[t][id] # Absent /\ items[t][id].status = "unsealing"
      => jobs[t][id] = "open"

(* While a page is open, a capsule the user deleted does not come back,     *)
(* whatever calls were in flight for it; and one that stays keeps its       *)
(* plaintext and its ENS name, whatever updates come together (updateItem,  *)
(* handleDelete).                                                           *)
UpdatesLoseNothing ==
  [][\A t \in open \cap open', id \in Ids :
       /\ items[t][id] = Absent /\ id \notin fresh => items'[t][id] = Absent
       /\ items[t][id] # Absent /\ items'[t][id] # Absent =>
            /\ items[t][id].opened => items'[t][id].opened
            /\ items[t][id].named => items'[t][id].named]_vars

(* A capsule that is rendered and has not been deleted is in localStorage,  *)
(* so a refresh keeps it, as long as no other tab shows the page: none      *)
(* listens for what another one stores, and each writes its whole list      *)
(* (saveQueue, the effect on items).                                        *)
RenderedIsStored ==
  \A t \in Tabs \ sharing, id \in Ids :
    view[t][id] # Absent => stored[id] # Absent

(* A capsule that is due and released does not stay in the queue untried:   *)
(* it is unsealed or shows an error, unless the user deletes it or leaves   *)
(* (tick, tryUnseal).                                                       *)
DueCapsulesSettle ==
  \A t \in Tabs, id \in Ids :
    (items[t][id] # Absent /\ id \in due \cap released)
      ~> (items[t][id] = Absent \/ items[t][id].status \in {"unsealed", "error"})
=============================================================================
