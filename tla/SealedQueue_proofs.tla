------------------------- MODULE SealedQueue_proofs -------------------------
(***************************************************************************)
(* Proofs about SealedQueue, for any set of tabs and capsules: the type    *)
(* invariant, that nothing opens before its release, that no capsule is    *)
(* stranded as "unsealing", that a rendered capsule is stored, and that    *)
(* updates that come together lose nothing.                                *)
(***************************************************************************)
EXTENDS SealedQueue, TLAPS

Status == {"sealed", "ready", "unsealing", "unsealed", "error"}

(* A closed tab shows nothing and awaits no publication. *)
ClosedIsEmpty ==
  \A t \in Tabs \ open : view[t] = Nothing /\ publishing[t] = {}

(* Decryption is under way only of what the beacon has released. *)
OpeningIsReleased ==
  \A t \in Tabs, id \in Ids : jobs[t][id] = "open" => id \in released

(* An id that was never used is nowhere. *)
FreshIsUnused ==
  \A id \in fresh : /\ stored[id] = Absent
                    /\ \A t \in Tabs : items[t][id] = Absent

(* A tab that is open and shares with no other is the only one. *)
UnsharedIsAlone == \A t \in open \ sharing : open = {t}

QueueInv ==
  /\ TypeOK
  /\ ClosedIsEmpty
  /\ OpeningIsReleased
  /\ FreshIsUnused
  /\ UnsharedIsAlone
  /\ NothingOpensEarly
  /\ UnsealingHasJob
  /\ RenderedIsStored

-----------------------------------------------------------------------------
(* What with() makes of an item, for the patches that occur. *)

LEMMA ItemFields ==
  ASSUME NEW item \in Item
  PROVE  /\ DOMAIN item = {"status", "opened", "named", "broken"}
         /\ item.status \in Status /\ item.opened \in BOOLEAN
         /\ item.named \in BOOLEAN /\ item.broken \in BOOLEAN
         /\ item = [status |-> item.status, opened |-> item.opened,
                    named |-> item.named, broken |-> item.broken]
BY DEF Item, Status

LEMMA WithStatus ==
  ASSUME NEW item \in Item, NEW s \in Status
  PROVE  with(item, [status |-> s]) = [item EXCEPT !.status = s]
<1>1. /\ DOMAIN [status |-> s] = {"status"}
      /\ DOMAIN item = {"status", "opened", "named", "broken"}
  BY ItemFields
<1> QED
  BY <1>1, ItemFields DEF with

LEMMA WithOpened ==
  ASSUME NEW item \in Item
  PROVE  with(item, [status |-> "unsealed", opened |-> TRUE])
           = [item EXCEPT !.status = "unsealed", !.opened = TRUE]
<1> DEFINE patch == [status |-> "unsealed", opened |-> TRUE]
<1>1. /\ DOMAIN patch = {"status", "opened"}
      /\ patch.status = "unsealed" /\ patch.opened = TRUE
      /\ DOMAIN item = {"status", "opened", "named", "broken"}
  BY ItemFields
<1> HIDE DEF patch
<1>2. with(item, patch) =
        [f \in {"status", "opened", "named", "broken"} |->
           IF f = "status" THEN "unsealed" ELSE IF f = "opened" THEN TRUE
           ELSE item[f]]
  BY <1>1 DEF with
<1> QED
  BY <1>1, <1>2, ItemFields DEF patch

LEMMA WithNamed ==
  ASSUME NEW item \in Item
  PROVE  with(item, [named |-> TRUE]) = [item EXCEPT !.named = TRUE]
<1> DEFINE patch == [named |-> TRUE]
<1>1. /\ DOMAIN patch = {"named"} /\ patch.named = TRUE
      /\ DOMAIN item = {"status", "opened", "named", "broken"}
  BY ItemFields
<1> HIDE DEF patch
<1>2. with(item, patch) =
        [f \in {"status", "opened", "named", "broken"} |->
           IF f = "named" THEN TRUE ELSE item[f]]
  BY <1>1 DEF with
<1> QED
  BY <1>1, <1>2, ItemFields DEF patch

LEMMA WithNothing ==
  ASSUME NEW item \in Item
  PROVE  with(item, <<>>) = item
BY ItemFields DEF with

-----------------------------------------------------------------------------
(* What a step may make of a capsule of tab t, and the steps of a tab that  *)
(* stays open.                                                              *)
Evolves(t, id) ==
  \/ items'[t][id] \in {items[t][id], Absent}
  \/ /\ id \in fresh \ fresh' /\ items'[t][id] \in Item
     /\ ~items'[t][id].opened
  \/ /\ items[t][id] \in Item /\ items'[t][id] \in Item
     /\ items[t][id].opened => items'[t][id].opened
     /\ items[t][id].named => items'[t][id].named
     /\ items'[t][id].opened => items[t][id].opened \/ id \in released

TabTypes ==
  /\ items \in [Tabs -> Queue]
  /\ jobs \in [Tabs -> [Ids -> {"none", "fetch", "open"}]]
  /\ publishing \in [Tabs -> SUBSET Ids]

TabStep(t) ==
  /\ t \in open
  /\ UNCHANGED <<pages, world>>
  /\ TabTypes'
  /\ \A u \in Tabs \ {t} : /\ items'[u] = items[u] /\ jobs'[u] = jobs[u]
                           /\ publishing'[u] = publishing[u]
  /\ dirty' \subseteq dirty \cup {t}
  /\ fresh' \subseteq fresh
  /\ \A id \in Ids :
       /\ Evolves(t, id)
       /\ items'[t][id] # Absent /\ items'[t][id].status = "unsealing"
            => jobs'[t][id] = "open"
       /\ jobs'[t][id] = "open" => id \in released
  /\ \/ UNCHANGED <<view, stored>>
     \/ view' = [view EXCEPT ![t] = items[t]] /\ stored' = items[t]

LEMMA TabStepKeeps ==
  ASSUME QueueInv, NEW t \in Tabs, TabStep(t)
  PROVE  QueueInv'
<1>1. /\ t \in open /\ open \subseteq Tabs /\ sharing \subseteq open
      /\ open' = open /\ sharing' = sharing /\ due' = due /\ released' = released
      /\ fresh' \subseteq fresh
  BY DEF TabStep, QueueInv, TypeOK, pages, world
<1>2. \/ view' = view /\ stored' = stored
      \/ view' = [view EXCEPT ![t] = items[t]] /\ stored' = items[t]
  BY DEF TabStep
<1>3. /\ items \in [Tabs -> Queue] /\ view \in [Tabs -> Queue] /\ stored \in Queue
  BY DEF QueueInv, TypeOK
<1>4. \A u \in Tabs \ {t} : /\ items'[u] = items[u] /\ jobs'[u] = jobs[u]
                            /\ publishing'[u] = publishing[u]
                            /\ view'[u] = view[u]
  BY <1>2, <1>3 DEF TabStep
<1>5. TypeOK'
  <2>1. view' \in [Tabs -> Queue] /\ stored' \in Queue
    BY <1>2, <1>3
  <2>2. /\ dirty' \subseteq open' /\ fresh' \subseteq Ids /\ due' \subseteq Ids
        /\ released' \subseteq Ids /\ sharing' \subseteq open' /\ open' \subseteq Tabs
    BY <1>1 DEF TabStep, QueueInv, TypeOK
  <2>3. \A u \in Tabs \ open' : items'[u] = Nothing /\ jobs'[u] = NoJobs
    BY <1>1, <1>4 DEF QueueInv, TypeOK
  <2> QED
    BY <2>1, <2>2, <2>3 DEF TypeOK, TabStep, TabTypes, Nothing, NoJobs
<1>6. ClosedIsEmpty'
  BY <1>1, <1>4 DEF QueueInv, ClosedIsEmpty, Nothing
<1>7. OpeningIsReleased'
  BY <1>1, <1>4 DEF QueueInv, OpeningIsReleased, TabStep
<1>8. FreshIsUnused'
  <2> SUFFICES ASSUME NEW id \in fresh', NEW u \in Tabs
               PROVE  stored'[id] = Absent /\ items'[u][id] = Absent
    BY DEF FreshIsUnused
  <2>1. id \in Ids /\ stored[id] = Absent /\ \A v \in Tabs : items[v][id] = Absent
    BY <1>1 DEF QueueInv, TypeOK, FreshIsUnused
  <2>2. stored'[id] = Absent
    BY <1>2, <2>1
  <2>3. items'[t][id] = Absent
    BY <2>1, QueueAssumption DEF TabStep, Evolves
  <2> QED
    BY <2>1, <2>2, <2>3, <1>4
<1>9. UnsharedIsAlone'
  BY <1>1 DEF QueueInv, UnsharedIsAlone
<1>10. NothingOpensEarly'
  <2> SUFFICES ASSUME NEW id \in Ids \ released
               PROVE  /\ stored'[id] # Absent => ~stored'[id].opened
                      /\ \A u \in Tabs :
                           items'[u][id] # Absent => ~items'[u][id].opened
    BY <1>1 DEF NothingOpensEarly
  <2>1. /\ stored[id] # Absent => ~stored[id].opened
        /\ \A u \in Tabs : items[u][id] # Absent => ~items[u][id].opened
    BY DEF QueueInv, NothingOpensEarly
  <2>2. stored'[id] # Absent => ~stored'[id].opened
    BY <1>2, <2>1
  <2>3. items'[t][id] # Absent => ~items'[t][id].opened
    BY <2>1, QueueAssumption DEF TabStep, Evolves
  <2> QED
    BY <2>1, <2>2, <2>3, <1>4
<1>11. UnsealingHasJob'
  BY <1>4 DEF QueueInv, UnsealingHasJob, TabStep
<1>12. RenderedIsStored'
  <2> SUFFICES ASSUME NEW u \in Tabs \ sharing, NEW id \in Ids, view'[u][id] # Absent
               PROVE  stored'[id] # Absent
    BY <1>1 DEF RenderedIsStored
  <2>1. CASE view' = view /\ stored' = stored
    BY <2>1 DEF QueueInv, RenderedIsStored
  <2>2. CASE view' = [view EXCEPT ![t] = items[t]] /\ stored' = items[t]
    <3>1. CASE u \in open
      BY <2>2, <3>1, <1>1, <1>3 DEF QueueInv, UnsharedIsAlone
    <3>2. CASE u \notin open
      BY <3>2, <1>1, <1>4 DEF QueueInv, ClosedIsEmpty, Nothing
    <3> QED
      BY <3>1, <3>2
  <2> QED
    BY <2>1, <2>2, <1>2
<1> QED
  BY <1>5, <1>6, <1>7, <1>8, <1>9, <1>10, <1>11, <1>12 DEF QueueInv

-----------------------------------------------------------------------------
(* Each action of an open tab is such a step. *)

LEMMA UpdateItemFacts ==
  ASSUME TypeOK, NEW t \in Tabs, NEW id \in Ids, NEW patch, updateItem(t, id, patch),
         items[t][id] # Absent => with(items[t][id], patch) \in Item
  PROVE  /\ items' \in [Tabs -> Queue]
         /\ dirty' = dirty \cup {t}
         /\ \A u \in Tabs \ {t} : items'[u] = items[u]
         /\ \A d \in Ids \ {id} : items'[t][d] = items[t][d]
         /\ items[t][id] = Absent => items'[t][id] = Absent
         /\ items[t][id] # Absent => items'[t][id] = with(items[t][id], patch)
<1> DEFINE new == IF items[t][id] = Absent THEN Absent ELSE with(items[t][id], patch)
<1>1. items \in [Tabs -> Queue] /\ items[t] \in Queue /\ items[t][id] \in Item \cup {Absent}
  BY DEF TypeOK, Queue
<1>2. items' = [items EXCEPT ![t][id] = new] /\ dirty' = dirty \cup {t}
  BY DEF updateItem
<1>3. new \in Item \cup {Absent}
  OBVIOUS
<1>4. /\ items[t][id] = Absent => new = Absent
      /\ items[t][id] # Absent => new = with(items[t][id], patch)
  OBVIOUS
<1> HIDE DEF new
<1> QED
  BY <1>1, <1>2, <1>3, <1>4 DEF Queue

LEMMA SealOrImport ==
  ASSUME QueueInv, NEW t \in Tabs, NEW id \in Ids, Seal(t, id) \/ Import(t, id)
  PROVE  TabStep(t)
<1>1. PICK named \in BOOLEAN, broken \in BOOLEAN : append(t, id, named, broken)
  BY DEF Seal, Import
<1>2. /\ t \in open /\ id \in fresh
      /\ UNCHANGED <<pages, view, jobs, stored, world>>
      /\ \/ publishing' = [publishing EXCEPT ![t] = @ \cup {id}]
         \/ UNCHANGED publishing
  BY DEF Seal, Import
<1> DEFINE new == [status |-> "sealed", opened |-> FALSE, named |-> named,
                   broken |-> broken]
<1>3. /\ items' = [items EXCEPT ![t][id] = new]
      /\ dirty' = dirty \cup {t} /\ fresh' = fresh \ {id}
  BY <1>1 DEF append
<1>4. new \in Item /\ new.status = "sealed" /\ ~new.opened
  BY DEF Item
<1> HIDE DEF new
<1>5. TypeOK /\ UnsealingHasJob /\ OpeningIsReleased
  BY DEF QueueInv
<1>6. /\ items' \in [Tabs -> Queue] /\ items'[t][id] = new
      /\ \A u \in Tabs \ {t} : items'[u] = items[u]
      /\ \A d \in Ids \ {id} : items'[t][d] = items[t][d]
  BY <1>3, <1>4, <1>5 DEF TypeOK, Queue
<1>7. /\ publishing' \in [Tabs -> SUBSET Ids]
      /\ \A u \in Tabs \ {t} : publishing'[u] = publishing[u]
  BY <1>2, <1>5 DEF TypeOK
<1>8. \A d \in Ids :
       /\ Evolves(t, d)
       /\ items'[t][d] # Absent /\ items'[t][d].status = "unsealing"
            => jobs'[t][d] = "open"
       /\ jobs'[t][d] = "open" => d \in released
  <2> SUFFICES ASSUME NEW d \in Ids
               PROVE  /\ Evolves(t, d)
                      /\ items'[t][d] # Absent /\ items'[t][d].status = "unsealing"
                           => jobs'[t][d] = "open"
                      /\ jobs'[t][d] = "open" => d \in released
    OBVIOUS
  <2>1. CASE d = id
    BY <2>1, <1>2, <1>3, <1>4, <1>5, <1>6 DEF Evolves, OpeningIsReleased
  <2>2. CASE d # id
    BY <2>2, <1>2, <1>5, <1>6 DEF Evolves, UnsealingHasJob, OpeningIsReleased
  <2> QED
    BY <2>1, <2>2
<1> QED
  BY <1>2, <1>3, <1>5, <1>6, <1>7, <1>8 DEF TabStep, TabTypes, TypeOK

LEMMA DeleteSteps ==
  ASSUME QueueInv, NEW t \in Tabs, NEW id \in Ids, Delete(t, id)
  PROVE  TabStep(t)
<1>1. /\ t \in open
      /\ items' = [items EXCEPT ![t][id] = Absent]
      /\ dirty' = dirty \cup {t}
      /\ UNCHANGED <<pages, view, jobs, publishing, stored, world, fresh>>
  BY DEF Delete
<1>2. TypeOK /\ UnsealingHasJob /\ OpeningIsReleased
  BY DEF QueueInv
<1>3. /\ items' \in [Tabs -> Queue] /\ items'[t][id] = Absent
      /\ \A u \in Tabs \ {t} : items'[u] = items[u]
      /\ \A d \in Ids \ {id} : items'[t][d] = items[t][d]
  BY <1>1, <1>2 DEF TypeOK, Queue
<1>4. \A d \in Ids :
       /\ Evolves(t, d)
       /\ items'[t][d] # Absent /\ items'[t][d].status = "unsealing"
            => jobs'[t][d] = "open"
       /\ jobs'[t][d] = "open" => d \in released
  BY <1>1, <1>2, <1>3 DEF Evolves, UnsealingHasJob, OpeningIsReleased
<1> QED
  BY <1>1, <1>2, <1>3, <1>4 DEF TabStep, TabTypes, TypeOK

(* A patch of one item, with the job that made it: the tryUnseal steps, the *)
(* end of a publication and a click on a broken capsule.                    *)
LEMMA PatchSteps ==
  ASSUME QueueInv, NEW t \in Tabs, NEW id \in Ids, NEW patch,
         t \in open, updateItem(t, id, patch),
         UNCHANGED <<pages, view, stored, world, fresh>>,
         jobs' \in [Tabs -> [Ids -> {"none", "fetch", "open"}]],
         publishing' \in [Tabs -> SUBSET Ids],
         \A u \in Tabs \ {t} : jobs'[u] = jobs[u] /\ publishing'[u] = publishing[u],
         \A d \in Ids \ {id} : jobs'[t][d] = jobs[t][d],
         jobs'[t][id] = "open" => id \in released,
         \A item \in Item :
           /\ with(item, patch) \in Item
           /\ item.opened => with(item, patch).opened
           /\ item.named => with(item, patch).named
           /\ with(item, patch).opened => item.opened \/ id \in released
           /\ with(item, patch).status = "unsealing"
                => \/ jobs'[t][id] = "open"
                   \/ item.status = "unsealing" /\ jobs'[t][id] = jobs[t][id]
  PROVE  TabStep(t)
<1>1. TypeOK /\ UnsealingHasJob /\ OpeningIsReleased
  BY DEF QueueInv
<1>2. items[t][id] \in Item \cup {Absent}
  BY <1>1 DEF TypeOK, Queue
<1>3. items[t][id] # Absent => with(items[t][id], patch) \in Item
  BY <1>2
<1>4. /\ items' \in [Tabs -> Queue]
      /\ dirty' = dirty \cup {t}
      /\ \A u \in Tabs \ {t} : items'[u] = items[u]
      /\ \A d \in Ids \ {id} : items'[t][d] = items[t][d]
      /\ items[t][id] = Absent => items'[t][id] = Absent
      /\ items[t][id] # Absent => items'[t][id] = with(items[t][id], patch)
  BY <1>1, <1>3, UpdateItemFacts
<1>5. ASSUME NEW d \in Ids
      PROVE  /\ Evolves(t, d)
             /\ items'[t][d] # Absent /\ items'[t][d].status = "unsealing"
                  => jobs'[t][d] = "open"
             /\ jobs'[t][d] = "open" => d \in released
  <2>1. CASE d # id
    BY <2>1, <1>1, <1>4 DEF Evolves, UnsealingHasJob, OpeningIsReleased
  <2>2. CASE d = id /\ items[t][id] = Absent
    BY <2>2, <1>4 DEF Evolves
  <2>3. CASE d = id /\ items[t][id] # Absent
    BY <2>3, <1>1, <1>2, <1>4 DEF Evolves, UnsealingHasJob
  <2> QED
    BY <2>1, <2>2, <2>3
<1> QED
  BY <1>4, <1>5 DEF TabStep, TabTypes

LEMMA PublishedSteps ==
  ASSUME QueueInv, NEW t \in Tabs, NEW id \in Ids, Published(t, id)
  PROVE  TabStep(t)
<1>1. /\ id \in publishing[t]
      /\ publishing' = [publishing EXCEPT ![t] = @ \ {id}]
      /\ UNCHANGED <<pages, view, jobs, stored, world, fresh>>
  BY DEF Published
<1>2. TypeOK /\ ClosedIsEmpty /\ OpeningIsReleased
  BY DEF QueueInv
<1>3. t \in open
  BY <1>1, <1>2 DEF ClosedIsEmpty
<1>4. /\ publishing' \in [Tabs -> SUBSET Ids]
      /\ \A u \in Tabs \ {t} : publishing'[u] = publishing[u]
      /\ jobs' = jobs /\ jobs \in [Tabs -> [Ids -> {"none", "fetch", "open"}]]
  BY <1>1, <1>2 DEF TypeOK
<1>5. jobs'[t][id] = "open" => id \in released
  BY <1>2, <1>4 DEF OpeningIsReleased
<1>6. CASE updateItem(t, id, [named |-> TRUE])
  <2>1. \A item \in Item :
           LET new == with(item, [named |-> TRUE])
           IN  /\ new \in Item /\ new.status = item.status
               /\ new.opened = item.opened /\ new.named
    BY WithNamed DEF Item
  <2> QED
    BY <1>1, <1>3, <1>4, <1>5, <1>6, <2>1, PatchSteps
<1>7. CASE updateItem(t, id, <<>>)
  BY <1>1, <1>3, <1>4, <1>5, <1>7, WithNothing, PatchSteps
<1> QED
  BY <1>6, <1>7 DEF Published

(* What a patch of the status alone does. *)
LEMMA StatusPatch ==
  ASSUME NEW s \in Status
  PROVE  \A item \in Item :
           LET new == with(item, [status |-> s])
           IN  /\ new \in Item /\ new.status = s
               /\ new.opened = item.opened /\ new.named = item.named
<1> SUFFICES ASSUME NEW item \in Item
             PROVE  LET new == [item EXCEPT !.status = s]
                    IN  /\ new \in Item /\ new.status = s
                        /\ new.opened = item.opened /\ new.named = item.named
  BY WithStatus
<1> QED
  BY DEF Item, Status

LEMMA JobSteps ==
  ASSUME QueueInv, NEW t \in Tabs, NEW id \in Ids,
         \/ NotYet(t, id) \/ Found(t, id) \/ Opened(t, id) \/ Fails(t, id)
  PROVE  TabStep(t)
<1>1. TypeOK
  BY DEF QueueInv
<1>2. jobs[t][id] \in {"fetch", "open"} /\ jobKeeps
  BY DEF NotYet, Found, Opened, Fails
<1>3. t \in open
  BY <1>1, <1>2 DEF TypeOK, NoJobs
<1>4. ASSUME NEW j \in {"none", "open"}, jobs' = [jobs EXCEPT ![t][id] = j]
      PROVE  /\ jobs' \in [Tabs -> [Ids -> {"none", "fetch", "open"}]]
             /\ jobs'[t][id] = j
             /\ \A u \in Tabs \ {t} : jobs'[u] = jobs[u]
             /\ \A d \in Ids \ {id} : jobs'[t][d] = jobs[t][d]
  BY <1>1, <1>4 DEF TypeOK
<1>5. /\ publishing' = publishing /\ publishing \in [Tabs -> SUBSET Ids]
      /\ UNCHANGED <<pages, view, stored, world, fresh>>
  BY <1>1, <1>2 DEF TypeOK, jobKeeps
<1>6. CASE \E s \in {"ready", "error"} :
             /\ updateItem(t, id, [status |-> s])
             /\ jobs' = [jobs EXCEPT ![t][id] = "none"]
  <2>1. PICK s \in {"ready", "error"} : updateItem(t, id, [status |-> s])
    BY <1>6
  <2>2. s \in Status
    BY DEF Status
  <2> QED
    BY <1>3, <1>4, <1>5, <1>6, <2>1, <2>2, StatusPatch, PatchSteps
<1>7. CASE Found(t, id)
  <2>1. /\ updateItem(t, id, [status |-> "unsealing"])
        /\ jobs' = [jobs EXCEPT ![t][id] = "open"]
        /\ id \in released
    BY <1>7 DEF Found
  <2>2. "unsealing" \in Status
    BY DEF Status
  <2> QED
    BY <1>3, <1>4, <1>5, <2>1, <2>2, StatusPatch, PatchSteps
<1>8. CASE Opened(t, id)
  <2>1. /\ updateItem(t, id, [status |-> "unsealed", opened |-> TRUE])
        /\ jobs' = [jobs EXCEPT ![t][id] = "none"]
        /\ jobs[t][id] = "open"
    BY <1>8 DEF Opened, finish
  <2>2. id \in released
    BY <2>1 DEF QueueInv, OpeningIsReleased
  <2>3. \A item \in Item :
           LET new == with(item, [status |-> "unsealed", opened |-> TRUE])
           IN  /\ new \in Item /\ new.status = "unsealed"
               /\ new.opened /\ new.named = item.named
    BY WithOpened DEF Item
  <2> QED
    BY <1>3, <1>4, <1>5, <2>1, <2>2, <2>3, PatchSteps
<1> QED
  BY <1>6, <1>7, <1>8 DEF NotYet, Fails, finish

LEMMA ClickSteps ==
  ASSUME QueueInv, NEW t \in Tabs, NEW id \in Ids, Click(t, id)
  PROVE  TabStep(t)
<1>1. TypeOK /\ UnsealingHasJob /\ OpeningIsReleased
  BY DEF QueueInv
<1>2. /\ t \in open /\ jobs[t][id] = "none"
      /\ UNCHANGED <<pages, view, publishing, stored, world, fresh>>
  BY DEF Click
<1>3. CASE updateItem(t, id, [status |-> "error"]) /\ UNCHANGED jobs
  <2>1. "error" \in Status
    BY DEF Status
  <2> QED
    BY <1>1, <1>2, <1>3, <2>1, StatusPatch, PatchSteps DEF TypeOK
<1>4. CASE jobs' = [jobs EXCEPT ![t][id] = "fetch"] /\ UNCHANGED <<items, dirty>>
  <2>1. /\ jobs' \in [Tabs -> [Ids -> {"none", "fetch", "open"}]]
        /\ jobs'[t][id] = "fetch"
        /\ \A u \in Tabs \ {t} : jobs'[u] = jobs[u]
        /\ \A d \in Ids \ {id} : jobs'[t][d] = jobs[t][d]
    BY <1>1, <1>4 DEF TypeOK
  <2>2. ASSUME NEW d \in Ids
        PROVE  /\ Evolves(t, d)
               /\ items'[t][d] # Absent /\ items'[t][d].status = "unsealing"
                    => jobs'[t][d] = "open"
               /\ jobs'[t][d] = "open" => d \in released
    BY <1>1, <1>2, <1>4, <2>1 DEF Evolves, UnsealingHasJob, OpeningIsReleased
  <2> QED
    BY <1>1, <1>2, <1>4, <2>1, <2>2 DEF TabStep, TabTypes, TypeOK
<1> QED
  BY <1>3, <1>4 DEF Click

(* tick marks capsules ready or failed and starts jobs, whatever render it  *)
(* was made for: a capsule that has changed since is only patched.          *)
LEMMA TickSteps ==
  ASSUME QueueInv, NEW t \in Tabs, NEW shown, NEW rendered,
         t \in open, tick(t, shown, rendered), rendered \subseteq dirty
  PROVE  /\ items' \in [Tabs -> Queue]
         /\ jobs' \in [Tabs -> [Ids -> {"none", "fetch", "open"}]]
         /\ \A u \in Tabs \ {t} : items'[u] = items[u] /\ jobs'[u] = jobs[u]
         /\ dirty' \subseteq dirty \cup {t}
         /\ \A id \in Ids :
              /\ Evolves(t, id)
              /\ items'[t][id] # Absent /\ items'[t][id].status = "unsealing"
                   => jobs'[t][id] = "open"
              /\ jobs'[t][id] = "open" => id \in released
<1> DEFINE fail == {id \in dueToTry(t, shown) : shown[id].broken}
           fetch == dueToTry(t, shown) \ fail
           patched == dueReady(shown) \cup fail
           status(id) == IF id \in fail THEN "error" ELSE "ready"
           queue == [id \in Ids |->
                       IF items[t][id] = Absent \/ id \notin patched THEN items[t][id]
                       ELSE with(items[t][id], [status |-> status(id)])]
<1>1. TypeOK /\ UnsealingHasJob /\ OpeningIsReleased
  BY DEF QueueInv
<1>2. /\ items' = [items EXCEPT ![t] = queue]
      /\ dirty' = rendered \cup (IF patched = {} THEN {} ELSE {t})
      /\ jobs' = [jobs EXCEPT ![t] =
                    [id \in Ids |-> IF id \in fetch THEN "fetch" ELSE jobs[t][id]]]
  BY <1>1 DEF tick, TypeOK
<1>3. \A id \in Ids : status(id) \in Status /\ status(id) # "unsealing"
  BY DEF Status
<1>4. \A id \in fetch : jobs[t][id] = "none"
  BY DEF dueToTry
<1> HIDE DEF fail, fetch, patched, status
<1>5. \A id \in Ids :
        \/ queue[id] = items[t][id]
        \/ /\ items[t][id] \in Item /\ queue[id] \in Item
           /\ queue[id].status # "unsealing"
           /\ queue[id].opened = items[t][id].opened
           /\ queue[id].named = items[t][id].named
  <2> SUFFICES ASSUME NEW id \in Ids, items[t][id] # Absent, id \in patched
               PROVE  /\ items[t][id] \in Item /\ queue[id] \in Item
                      /\ queue[id].status # "unsealing"
                      /\ queue[id].opened = items[t][id].opened
                      /\ queue[id].named = items[t][id].named
    OBVIOUS
  <2>1. items[t][id] \in Item
    BY <1>1 DEF TypeOK, Queue
  <2>2. queue[id] = with(items[t][id], [status |-> status(id)])
    OBVIOUS
  <2> QED
    BY <2>1, <2>2, <1>3, StatusPatch
<1>6. queue \in Queue
  <2>1. \A id \in Ids : queue[id] \in Item \cup {Absent}
    BY <1>1, <1>5 DEF TypeOK, Queue
  <2> QED
    BY <2>1 DEF Queue
<1>7. \A u \in Tabs \ {t} : items'[u] = items[u] /\ jobs'[u] = jobs[u]
  BY <1>1, <1>2 DEF TypeOK
<1> HIDE DEF queue
<1>8. items' \in [Tabs -> Queue] /\ items'[t] = queue
  BY <1>1, <1>2, <1>6 DEF TypeOK
<1>9. /\ jobs' \in [Tabs -> [Ids -> {"none", "fetch", "open"}]]
      /\ \A id \in Ids : jobs'[t][id] = IF id \in fetch THEN "fetch" ELSE jobs[t][id]
  BY <1>1, <1>2 DEF TypeOK
<1>10. ASSUME NEW id \in Ids
       PROVE  /\ Evolves(t, id)
              /\ items'[t][id] # Absent /\ items'[t][id].status = "unsealing"
                   => jobs'[t][id] = "open"
              /\ jobs'[t][id] = "open" => id \in released
  <2>1. Evolves(t, id)
    BY <1>5, <1>8 DEF Evolves
  <2>2. jobs[t][id] = "open" => jobs'[t][id] = "open"
    BY <1>4, <1>9
  <2>3. items'[t][id] # Absent /\ items'[t][id].status = "unsealing"
          => items[t][id] # Absent /\ items[t][id].status = "unsealing"
    BY <1>5, <1>8
  <2> QED
    BY <2>1, <2>2, <2>3, <1>1, <1>9 DEF UnsealingHasJob, OpeningIsReleased
<1> QED
  BY <1>2, <1>7, <1>8, <1>9, <1>10

LEMMA RenderSteps ==
  ASSUME QueueInv, NEW t \in Tabs, Commit(t) \/ Interval(t)
  PROVE  TabStep(t)
<1>1. TypeOK
  BY DEF QueueInv
<1>2. PICK shown, rendered :
        t \in open /\ tick(t, shown, rendered) /\ rendered \subseteq dirty
  <2>1. CASE Commit(t)
    BY <1>1, <2>1 DEF Commit, TypeOK
  <2>2. CASE Interval(t)
    BY <2>2 DEF Interval
  <2> QED
    BY <2>1, <2>2
<1>3. /\ UNCHANGED <<pages, world, publishing>> /\ fresh' = fresh
      /\ \/ UNCHANGED <<view, stored>>
         \/ view' = [view EXCEPT ![t] = items[t]] /\ stored' = items[t]
  BY DEF Commit, Interval
<1> QED
  BY <1>1, <1>2, <1>3, TickSteps DEF TabStep, TabTypes, TypeOK

-----------------------------------------------------------------------------
(* The steps that open or close a tab, and those of the world. *)

LEMMA LoadedItem ==
  ASSUME NEW item \in Item \cup {Absent}
  PROVE  /\ loadItem(item) \in Item \cup {Absent}
         /\ loadItem(item) = Absent <=> item = Absent
         /\ item # Absent => /\ loadItem(item).status # "unsealing"
                             /\ loadItem(item).opened = item.opened
<1>1. CASE item # Absent /\ item.status = "unsealing"
  <2>1. item \in Item /\ "ready" \in Status
    BY <1>1 DEF Status
  <2>2. loadItem(item) = with(item, [status |-> "ready"])
    BY <1>1 DEF loadItem
  <2> QED
    BY <1>1, <2>1, <2>2, StatusPatch, QueueAssumption
<1>2. CASE item = Absent \/ item.status # "unsealing"
  BY <1>2, QueueAssumption DEF loadItem
<1> QED
  BY <1>1, <1>2

LEMMA OpenKeeps ==
  ASSUME QueueInv, NEW t \in Tabs, Open(t)
  PROVE  QueueInv'
<1> DEFINE queue == [id \in Ids |-> loadItem(stored[id])]
<1>1. /\ t \notin open /\ open' = open \cup {t}
      /\ sharing' = IF open = {} THEN sharing ELSE open'
      /\ items' = [items EXCEPT ![t] = queue]
      /\ view' = [view EXCEPT ![t] = items'[t]]
      /\ dirty' = dirty \cup {t}
      /\ UNCHANGED <<jobs, publishing, stored, due, released, fresh>>
  BY DEF Open, world
<1>2. TypeOK
  BY DEF QueueInv
<1>3. \A id \in Ids :
        /\ queue[id] \in Item \cup {Absent}
        /\ queue[id] = Absent <=> stored[id] = Absent
        /\ stored[id] # Absent => /\ queue[id].status # "unsealing"
                                  /\ queue[id].opened = stored[id].opened
  BY <1>2, LoadedItem DEF TypeOK, Queue
<1>4. queue \in Queue
  BY <1>3 DEF Queue
<1> HIDE DEF queue
<1>5. /\ items' \in [Tabs -> Queue] /\ items'[t] = queue
      /\ view' \in [Tabs -> Queue] /\ view'[t] = queue
      /\ \A u \in Tabs \ {t} : items'[u] = items[u] /\ view'[u] = view[u]
  BY <1>1, <1>2, <1>4 DEF TypeOK
<1>6. TypeOK'
  BY <1>1, <1>2, <1>5 DEF TypeOK, Nothing, NoJobs
<1>7. ClosedIsEmpty' /\ OpeningIsReleased'
  BY <1>1, <1>5 DEF QueueInv, ClosedIsEmpty, OpeningIsReleased, Nothing
<1>8. FreshIsUnused'
  BY <1>1, <1>2, <1>3, <1>5 DEF QueueInv, FreshIsUnused, TypeOK
<1>9. UnsharedIsAlone'
  BY <1>1, <1>2 DEF UnsharedIsAlone, TypeOK
<1>10. NothingOpensEarly'
  BY <1>1, <1>3, <1>5 DEF QueueInv, NothingOpensEarly
<1>11. UnsealingHasJob'
  BY <1>1, <1>3, <1>5 DEF QueueInv, UnsealingHasJob
<1>12. RenderedIsStored'
  <2> SUFFICES ASSUME NEW u \in Tabs \ sharing', NEW id \in Ids, view'[u][id] # Absent
               PROVE  stored[id] # Absent
    BY <1>1 DEF RenderedIsStored
  <2>1. CASE u = t
    BY <2>1, <1>3, <1>5
  <2>2. CASE u # t
    <3>1. view[u][id] # Absent
      BY <2>2, <1>5
    <3>2. u \in open
      BY <3>1 DEF QueueInv, ClosedIsEmpty, Nothing
    <3>3. u \notin sharing
      BY <3>2, <1>1
    <3> QED
      BY <3>1, <3>3 DEF QueueInv, RenderedIsStored
  <2> QED
    BY <2>1, <2>2
<1> QED
  BY <1>6, <1>7, <1>8, <1>9, <1>10, <1>11, <1>12 DEF QueueInv

LEMMA CloseKeeps ==
  ASSUME QueueInv, NEW t \in Tabs, Close(t)
  PROVE  QueueInv'
<1>1. /\ t \in open /\ open' = open \ {t} /\ sharing' = sharing \ {t}
      /\ items' = [items EXCEPT ![t] = Nothing]
      /\ view' = [view EXCEPT ![t] = Nothing]
      /\ dirty' = dirty \ {t}
      /\ jobs' = [jobs EXCEPT ![t] = NoJobs]
      /\ publishing' = [publishing EXCEPT ![t] = {}]
      /\ UNCHANGED <<stored, due, released, fresh>>
  BY DEF Close, world
<1>2. TypeOK
  BY DEF QueueInv
<1>3. Nothing \in Queue /\ NoJobs \in [Ids -> {"none", "fetch", "open"}]
  BY DEF Nothing, NoJobs, Queue
<1>4. TypeOK'
  BY <1>1, <1>2, <1>3 DEF TypeOK
<1>5. /\ items'[t] = Nothing /\ view'[t] = Nothing /\ jobs'[t] = NoJobs
      /\ publishing'[t] = {}
      /\ \A u \in Tabs \ {t} : /\ items'[u] = items[u] /\ view'[u] = view[u]
                               /\ jobs'[u] = jobs[u] /\ publishing'[u] = publishing[u]
  BY <1>1, <1>2 DEF TypeOK
<1>6. \A id \in Ids : Nothing[id] = Absent /\ NoJobs[id] = "none"
  BY DEF Nothing, NoJobs
<1>7. ClosedIsEmpty' /\ OpeningIsReleased'
  BY <1>1, <1>5, <1>6 DEF QueueInv, ClosedIsEmpty, OpeningIsReleased
<1>8. FreshIsUnused' /\ NothingOpensEarly' /\ UnsealingHasJob' /\ RenderedIsStored'
  BY <1>1, <1>2, <1>5, <1>6
     DEF QueueInv, FreshIsUnused, NothingOpensEarly, UnsealingHasJob,
         RenderedIsStored, TypeOK
<1>9. UnsharedIsAlone'
  BY <1>1 DEF QueueInv, UnsharedIsAlone
<1> QED
  BY <1>4, <1>7, <1>8, <1>9 DEF QueueInv

(* The clock and the beacon only move forward. *)
LEMMA WorldKeeps ==
  ASSUME QueueInv, \/ \E id \in Ids : FallDue(id) \/ Release(id)
                   \/ UNCHANGED vars
  PROVE  QueueInv'
<1>1. /\ UNCHANGED <<open, sharing, items, view, dirty, jobs, publishing, stored,
                     fresh>>
      /\ released \subseteq released'
      /\ due \subseteq Ids /\ released \subseteq Ids
        => due' \subseteq Ids /\ released' \subseteq Ids
  BY DEF FallDue, Release, vars, pages, tabVars, world
<1>2. TypeOK'
  BY <1>1 DEF QueueInv, TypeOK
<1> QED
  BY <1>1, <1>2 DEF QueueInv, ClosedIsEmpty, OpeningIsReleased, FreshIsUnused,
                    UnsharedIsAlone, NothingOpensEarly, UnsealingHasJob,
                    RenderedIsStored

-----------------------------------------------------------------------------
(* Every step is of one of these kinds. *)
LEMMA StepKinds ==
  ASSUME QueueInv, [Next]_vars
  PROVE  \/ \E t \in Tabs : TabStep(t) \/ Open(t) \/ Close(t)
         \/ \E id \in Ids : FallDue(id) \/ Release(id)
         \/ UNCHANGED vars
BY SealOrImport, PublishedSteps, DeleteSteps, ClickSteps, JobSteps, RenderSteps
   DEF Next

LEMMA QueueInitial == Init => QueueInv
<1> SUFFICES ASSUME Init PROVE QueueInv
  OBVIOUS
<1>1. Nothing \in Queue /\ \A id \in Ids : Nothing[id] = Absent
  BY DEF Nothing, Queue
<1>2. TypeOK
  BY <1>1 DEF Init, TypeOK, NoJobs
<1> QED
  BY <1>1, <1>2 DEF Init, QueueInv, ClosedIsEmpty, OpeningIsReleased,
                    FreshIsUnused, UnsharedIsAlone, NothingOpensEarly,
                    UnsealingHasJob, RenderedIsStored, NoJobs

(* The inductive invariant. *)
THEOREM QueueInvariant == Spec => []QueueInv
<1>1. QueueInv /\ [Next]_vars => QueueInv'
  BY StepKinds, TabStepKeeps, OpenKeeps, CloseKeeps, WorldKeeps
<1> QED
  BY <1>1, QueueInitial, PTL DEF Spec

(* Every variable keeps its type, and a closed tab holds and runs nothing.  *)
THEOREM QueueTypeCorrect == Spec => []TypeOK
<1>1. QueueInv => TypeOK
  BY DEF QueueInv
<1> QED
  BY <1>1, QueueInvariant, PTL

(* Whatever tabs do side by side, no plaintext is shown or stored before    *)
(* the beacon has released the capsule.                                     *)
THEOREM QueueNothingOpensEarly == Spec => []NothingOpensEarly
<1>1. QueueInv => NothingOpensEarly
  BY DEF QueueInv
<1> QED
  BY <1>1, QueueInvariant, PTL

(* No reload, failure or second attempt leaves a capsule that says          *)
(* "unsealing" without a job of its tab.                                    *)
THEOREM QueueUnsealingHasJob == Spec => []UnsealingHasJob
<1>1. QueueInv => UnsealingHasJob
  BY DEF QueueInv
<1> QED
  BY <1>1, QueueInvariant, PTL

(* What a tab that shares localStorage with no other has rendered is stored.*)
THEOREM QueueRenderedIsStored == Spec => []RenderedIsStored
<1>1. QueueInv => RenderedIsStored
  BY DEF QueueInv
<1> QED
  BY <1>1, QueueInvariant, PTL

(* Whatever updates come together in a page, a deleted capsule does not     *)
(* come back, and one that stays keeps its plaintext and its ENS name.      *)
THEOREM QueueUpdatesLoseNothing == Spec => UpdatesLoseNothing
<1> DEFINE Kept(t, id) ==
      /\ items[t][id] = Absent /\ id \notin fresh => items'[t][id] = Absent
      /\ items[t][id] # Absent /\ items'[t][id] # Absent =>
           /\ items[t][id].opened => items'[t][id].opened
           /\ items[t][id].named => items'[t][id].named
<1>1. ASSUME QueueInv, [Next]_vars, NEW u \in open \cap open', NEW id \in Ids
      PROVE  Kept(u, id)
  <2>1. u \in Tabs
    BY <1>1 DEF QueueInv, TypeOK
  <2>2. CASE items'[u] = items[u]
    BY <2>2
  <2>3. CASE TabStep(u)
    <3>1. Evolves(u, id)
      BY <2>3 DEF TabStep
    <3>2. id \in fresh => items[u][id] = Absent
      BY <1>1, <2>1 DEF QueueInv, FreshIsUnused
    <3> QED
      BY <3>1, <3>2, QueueAssumption DEF Evolves
  <2>4. items'[u] = items[u] \/ TabStep(u)
    <3>1. CASE \E t \in Tabs : TabStep(t)
      BY <3>1, <2>1 DEF TabStep
    <3>2. CASE \E t \in Tabs : Open(t)
      BY <1>1, <2>1, <3>2 DEF Open, QueueInv, TypeOK
    <3>3. CASE \E t \in Tabs : Close(t)
      BY <1>1, <2>1, <3>3 DEF Close, QueueInv, TypeOK
    <3>4. CASE (\E id2 \in Ids : FallDue(id2) \/ Release(id2)) \/ UNCHANGED vars
      BY <3>4 DEF FallDue, Release, vars, tabVars
    <3> QED
      BY <1>1, <3>1, <3>2, <3>3, <3>4, StepKinds
  <2> QED
    BY <2>2, <2>3, <2>4
<1>2. QueueInv /\ [Next]_vars
        => [\A t \in open \cap open', id \in Ids :
              /\ items[t][id] = Absent /\ id \notin fresh => items'[t][id] = Absent
              /\ items[t][id] # Absent /\ items'[t][id] # Absent =>
                   /\ items[t][id].opened => items'[t][id].opened
                   /\ items[t][id].named => items'[t][id].named]_vars
  BY <1>1
<1> QED
  BY <1>2, QueueInvariant, PTL DEF Spec, UpdatesLoseNothing
=============================================================================
