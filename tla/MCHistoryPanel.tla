--------------------------- MODULE MCHistoryPanel ---------------------------
(* Instance of HistoryPanel for TLC: with MaxLen = 3 and MaxEntries = 2 the *)
(* first record is too long to publish, the second is published alone, and  *)
(* the second and third just fit together.                                  *)
EXTENDS HistoryPanel, FiniteSets

RecordLength == <<4, 1, 2>>

(* The list, the two names and what is published under them share only the  *)
(* history, so that each is explored while the others rest; a read is        *)
(* explored beside one publisher, and at most one write at a time goes on   *)
(* after its caller has given up.                                           *)
OneAtATime ==
  /\ Cardinality(late) <= 1
  /\ read = NotReading \/ (ens = NoCard /\ late = {})
  /\ LET used == {l \in Labels : \/ row[l] # Nothing \/ read.label = l
                                 \/ \E r \in Requests :
                                      body[r] # Nothing /\ body[r].label = l
                                 \/ \E b \in late : b.label = l}
     IN  \/ used = {}
         \/ items = 0 /\ announced = 0 /\ inFlight = {} /\ Cardinality(used) = 1
=============================================================================
