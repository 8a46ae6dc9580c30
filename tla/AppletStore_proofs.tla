------------------------- MODULE AppletStore_proofs -------------------------
(***************************************************************************)
(* Proofs about AppletStore for any set of uploads and ELFs of any size.   *)
(***************************************************************************)
EXTENDS AppletStore, TLAPS

-----------------------------------------------------------------------------
(* What the card and the uploads are to each other.                         *)

(* Only ELFs that passed the checks of writeAppletToSD get near the card.   *)
CheckedElfsOnly ==
  /\ header \in Wellformed \cup {Blank}
  /\ \A u \in Uploads :
       upload[u] \in {"body", "header", "stored", "acked", "rebooting", "closed"}
         => elf[u] \in Wellformed

(* The upload that made the last writes owns the card's contents.           *)
WriterOwnsCard ==
  writer # None =>
    /\ upload[writer] \in {"header", "stored", "acked", "rebooting", "closed",
                           "cut"}
    /\ \A i \in 1..Blocks[elf[writer]] : body[i] = elf[writer]
    /\ upload[writer] \in {"stored", "acked", "rebooting", "closed"}
         => header = elf[writer]

StoreInv ==
  /\ TypeOK
  /\ CheckedElfsOnly
  /\ WriterOwnsCard
  /\ RunsOnlyWholeApplets

-----------------------------------------------------------------------------
(* A boot from an intact card reads exactly the ELF the header was made of. *)
LEMMA StoredImageIsImage ==
  ASSUME TypeOK, Intact
  PROVE  StoredImage = Image(header)
BY StoreAssumption DEF TypeOK, Intact, StoredImage, Image

(* The blocks of an ELF are cells of the applet region.                     *)
LEMMA BlocksAreCells ==
  ASSUME NEW e \in Elfs
  PROVE  1..Blocks[e] \subseteq Cells
BY DEF Cells

(* Writing over the body leaves every cell an ELF or blank, and n blocks of *)
(* e put e in the cells up to n.                                            *)
LEMMA WrittenCells ==
  ASSUME TypeOK, NEW e \in Elfs, NEW n
  PROVE  /\ Written(e, n) \in [Cells -> Elfs \cup {Blank}]
         /\ \A i \in Cells : i <= n => Written(e, n)[i] = e
BY DEF TypeOK, Written

(* The end of an uptime keeps StoreInv, whatever became of the card.        *)
LEMMA DownKeepsUploads ==
  ASSUME TypeOK, Down
  PROVE  /\ device' = "off" /\ running' = running /\ elf' = elf
         /\ upload' \in [Uploads -> {"idle", "body", "header", "stored",
                          "acked", "refused", "rebooting", "closed", "cut"}]
         /\ \A u \in Uploads :
              /\ upload'[u] \notin {"body", "header", "stored", "acked"}
              /\ upload'[u] = "rebooting" => upload[u] \in {"acked", "rebooting"}
              /\ upload'[u] = "closed" => upload[u] = "closed"
              /\ upload[u] \in {"header", "stored", "acked", "rebooting",
                                "closed", "cut"}
                   => upload'[u] \in {"rebooting", "closed", "cut"}
BY DEF TypeOK, Down

(* A boot settles the answered uploads and touches no other.                *)
LEMMA SettleKeepsUploads ==
  ASSUME TypeOK, Settle
  PROVE  /\ upload' \in [Uploads -> {"idle", "body", "header", "stored",
                          "acked", "refused", "rebooting", "closed", "cut"}]
         /\ \A u \in Uploads :
              \/ upload'[u] = upload[u]
              \/ upload[u] = "rebooting" /\ upload'[u] = "closed"
BY DEF TypeOK, Settle

-----------------------------------------------------------------------------
(* Every step keeps the types and the inductive invariant.                  *)
LEMMA StoreInductive == StoreInv /\ [Next]_vars => StoreInv'
<1> SUFFICES ASSUME StoreInv, [Next]_vars PROVE StoreInv'
  OBVIOUS
<1> USE StoreAssumption
<1>0. TypeOK /\ CheckedElfsOnly /\ WriterOwnsCard /\ RunsOnlyWholeApplets
  BY DEF StoreInv
<1>1. CASE Boot
  <2>1. /\ Settle /\ UNCHANGED <<header, body, elf, writer>>
        /\ device = "off" /\ device' \in {"off", "up", "halted"}
    BY <1>1 DEF Boot, Start, card
  <2>2. RunsOnlyWholeApplets'
    <3>1. CASE Intact
      <4>1. StoredImage = Image(header) /\ header \in Wellformed
        BY <1>0, <3>1, StoredImageIsImage DEF Intact, CheckedElfsOnly
      <4>2. running' = running \/ running' = Image(header)
        BY <1>1, <3>1, <4>1 DEF Boot, Start
      <4>3. QED
        BY <1>0, <4>1, <4>2 DEF RunsOnlyWholeApplets, Image
    <3>2. CASE ~Intact
      BY <1>0, <1>1, <3>2 DEF Boot, Start, RunsOnlyWholeApplets, Image
    <3>3. QED
      BY <3>1, <3>2
  <2>3. TypeOK'
    BY <1>0, <2>1, SettleKeepsUploads DEF TypeOK
  <2>4. CheckedElfsOnly' /\ WriterOwnsCard'
    BY <1>0, <2>1, SettleKeepsUploads DEF TypeOK, CheckedElfsOnly, WriterOwnsCard
  <2>5. QED
    BY <2>2, <2>3, <2>4 DEF StoreInv
<1>2. CASE BootWithoutCard
  <2>1. /\ Settle /\ UNCHANGED <<header, body, elf, writer>>
        /\ device = "off" /\ device' \in {"off", "up", "halted"}
    BY <1>2 DEF BootWithoutCard, Start, card
  <2>2. RunsOnlyWholeApplets'
    BY <1>0, <1>2 DEF BootWithoutCard, Start, RunsOnlyWholeApplets, Image
  <2>3. TypeOK'
    BY <1>0, <2>1, SettleKeepsUploads DEF TypeOK
  <2>4. CheckedElfsOnly' /\ WriterOwnsCard'
    BY <1>0, <2>1, SettleKeepsUploads DEF TypeOK, CheckedElfsOnly, WriterOwnsCard
  <2>5. QED
    BY <2>2, <2>3, <2>4 DEF StoreInv
<1>3. ASSUME NEW u \in Uploads, Accept(u)
      PROVE  StoreInv'
  BY <1>0, <1>3 DEF Accept, card, StoreInv, TypeOK, CheckedElfsOnly,
     WriterOwnsCard, RunsOnlyWholeApplets, Image
<1>4. ASSUME NEW u \in Uploads, WriteBody(u)
      PROVE  StoreInv'
  <2>1. /\ body' \in [Cells -> Elfs \cup {Blank}]
        /\ \A i \in 1..Blocks[elf[u]] : body'[i] = elf[u]
    <3> DEFINE e == elf[u]
    <3>1. e \in Elfs /\ body' = Written(e, Blocks[e]) /\ elf' = elf
      BY <1>0, <1>4 DEF WriteBody, TypeOK
    <3>2. \A i \in 1..Blocks[e] : i \in Cells /\ i <= Blocks[e]
      BY <3>1, BlocksAreCells
    <3> HIDE DEF e
    <3>3. /\ body' \in [Cells -> Elfs \cup {Blank}]
          /\ \A i \in Cells : i <= Blocks[e] => body'[i] = e
      BY <1>0, <3>1, WrittenCells
    <3>4. /\ body' \in [Cells -> Elfs \cup {Blank}]
          /\ \A i \in 1..Blocks[e] : body'[i] = e
      BY <3>2, <3>3
    <3>5. QED
      BY <3>4 DEF e
  <2>2. TypeOK'
    BY <1>0, <1>4, <2>1 DEF WriteBody, TypeOK
  <2>3. CheckedElfsOnly' /\ RunsOnlyWholeApplets'
    BY <1>0, <1>4 DEF WriteBody, TypeOK, CheckedElfsOnly,
       RunsOnlyWholeApplets, Image
  <2>4. WriterOwnsCard'
    BY <1>0, <1>4, <2>1 DEF WriteBody, TypeOK, WriterOwnsCard
  <2>5. QED
    BY <2>2, <2>3, <2>4 DEF StoreInv
<1>5. ASSUME NEW u \in Uploads, WriteHeader(u)
      PROVE  StoreInv'
  BY <1>0, <1>5 DEF WriteHeader, StoreInv, TypeOK, CheckedElfsOnly,
     WriterOwnsCard, RunsOnlyWholeApplets, Image
<1>6. ASSUME NEW u \in Uploads, WriteFails(u)
      PROVE  StoreInv'
  <2>1. body' \in [Cells -> Elfs \cup {Blank}]
    BY <1>0, <1>6, WrittenCells DEF WriteFails, TypeOK
  <2>2. header' \in {header, elf[u], Blank} /\ elf[u] \in Wellformed
    BY <1>0, <1>6 DEF WriteFails, CheckedElfsOnly
  <2>3. QED
    BY <1>0, <1>6, <2>1, <2>2 DEF WriteFails, StoreInv, TypeOK,
       CheckedElfsOnly, WriterOwnsCard, RunsOnlyWholeApplets, Image
<1>7. ASSUME NEW u \in Uploads, Ack(u)
      PROVE  StoreInv'
  BY <1>0, <1>7 DEF Ack, card, StoreInv, TypeOK, CheckedElfsOnly,
     WriterOwnsCard, RunsOnlyWholeApplets, Image
<1>8. CASE PowerLoss \/ PowerCycle \/ \E u \in Uploads : Reset(u)
  <2>1. Down /\ UNCHANGED <<header, body, writer>>
    BY <1>8 DEF PowerLoss, PowerCycle, Reset, card
  <2>2. TypeOK'
    BY <1>0, <2>1, DownKeepsUploads DEF TypeOK
  <2>3. CheckedElfsOnly' /\ WriterOwnsCard'
    BY <1>0, <2>1, DownKeepsUploads DEF TypeOK, CheckedElfsOnly, WriterOwnsCard
  <2>4. RunsOnlyWholeApplets'
    BY <1>0, <2>1, DownKeepsUploads DEF RunsOnlyWholeApplets, Image
  <2>5. QED
    BY <2>2, <2>3, <2>4 DEF StoreInv
<1>9. ASSUME NEW u \in Uploads, PowerLossInWrite(u)
      PROVE  StoreInv'
  <2>1. Down /\ writer' = None /\ header' \in {header, Blank}
    BY <1>9 DEF PowerLossInWrite
  <2>2. body' \in [Cells -> Elfs \cup {Blank}]
    BY <1>0, <1>9, WrittenCells DEF PowerLossInWrite, TypeOK
  <2>3. TypeOK'
    BY <1>0, <2>1, <2>2, DownKeepsUploads DEF TypeOK
  <2>4. CheckedElfsOnly' /\ WriterOwnsCard'
    BY <1>0, <2>1, DownKeepsUploads DEF TypeOK, CheckedElfsOnly, WriterOwnsCard
  <2>5. RunsOnlyWholeApplets'
    BY <1>0, <2>1, DownKeepsUploads DEF RunsOnlyWholeApplets, Image
  <2>6. QED
    BY <2>3, <2>4, <2>5 DEF StoreInv
<1>10. CASE UNCHANGED vars
  BY <1>0, <1>10 DEF vars, card, StoreInv, TypeOK, CheckedElfsOnly,
     WriterOwnsCard, RunsOnlyWholeApplets, Image
<1>11. QED
  BY <1>1, <1>2, <1>3, <1>4, <1>5, <1>6, <1>7, <1>8, <1>9, <1>10 DEF Next

(* Every reachable state satisfies the inductive invariant.                 *)
THEOREM StoreInvariant == Spec => []StoreInv
<1>1. Init => StoreInv
  BY StoreAssumption DEF Init, StoreInv, TypeOK, CheckedElfsOnly,
     WriterOwnsCard, RunsOnlyWholeApplets
<1>2. QED
  BY <1>1, StoreInductive, PTL DEF Spec

(* Type correctness, with no goroutine outliving the device's uptime.       *)
THEOREM StoreTypeCorrect == Spec => []TypeOK
<1>1. StoreInv => TypeOK
  BY DEF StoreInv
<1>2. QED
  BY StoreInvariant, <1>1, PTL

(* For any uploads, sizes and power losses the monitor runs the embedded    *)
(* applet or one complete checked ELF.                                      *)
THEOREM StoreRunsOnlyWholeApplets == Spec => []RunsOnlyWholeApplets
<1>1. StoreInv => RunsOnlyWholeApplets
  BY DEF StoreInv
<1>2. QED
  BY StoreInvariant, <1>1, PTL

(* For any number of uploads, an acknowledged one whose writes no other     *)
(* followed is what each later boot from the card runs, if it can be loaded.*)
THEOREM StoreUndisturbedUploadRuns == Spec => UndisturbedUploadRuns
<1> DEFINE Promise ==
      Boot /\ writer # None /\ upload[writer] \in {"rebooting", "closed"}
        => \/ running' = Image(elf[writer])
           \/ device' = "halted" /\ elf[writer] \notin Loadable
<1>1. StoreInv /\ [Next]_vars => [Promise]_vars
  <2> SUFFICES ASSUME StoreInv, Boot, writer # None,
                      upload[writer] \in {"rebooting", "closed"}
               PROVE  \/ running' = Image(elf[writer])
                      \/ device' = "halted" /\ elf[writer] \notin Loadable
    OBVIOUS
  <2>1. writer \in Uploads /\ elf[writer] \in Elfs /\ header = elf[writer]
    BY DEF StoreInv, TypeOK, WriterOwnsCard
  <2>2. Intact
    BY <2>1, StoreAssumption DEF StoreInv, WriterOwnsCard, Intact
  <2>3. Start(Image(header))
    BY <2>2, StoredImageIsImage DEF Boot, StoreInv
  <2>4. Image(header) # Embedded /\ Image(header)[1] = header
    BY <2>1, StoreAssumption DEF Image
  <2>5. QED
    BY <2>1, <2>3, <2>4 DEF Start
<1>2. QED
  BY StoreInvariant, <1>1, PTL DEF Spec, UndisturbedUploadRuns
=============================================================================
