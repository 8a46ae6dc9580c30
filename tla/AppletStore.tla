---------------------------- MODULE AppletStore -----------------------------
(***************************************************************************)
(* The applet region of the SD card (docker/trusted_os/applet_store.go),   *)
(* the uploads that write it (the "__upload" case of handleBridgeConn in   *)
(* bridge.go) and the boot that reads it (main.go, exec.go), under power   *)
(* loss, card errors and uploads that run side by side.                    *)
(*                                                                         *)
(* The header is a magic, a length and a CRC32 of the ELF; here it names   *)
(* the ELF it was made from.  The body is one cell per block, naming the   *)
(* ELF whose block it holds.  CRC32 is taken to be injective on the images *)
(* that occur, and blocks of different ELFs to differ.  One WriteBlocks    *)
(* call is one step of the card; only a power loss or an error divides it. *)
(***************************************************************************)
EXTENDS Naturals, Sequences

CONSTANTS
  Uploads,        (* upload connections; each carries one ELF              *)
  Elfs,           (* what may be uploaded                                  *)
  Blocks,         (* the number of 512-byte blocks of each ELF             *)
  Wellformed,     (* ELFs that pass the five checks of writeAppletToSD     *)
  Loadable,       (* ELFs for which image.Load and monitor.Load succeed    *)
  Blank,          (* a block or header that was never written, or is torn  *)
  Embedded,       (* the applet linked into the Trusted OS                 *)
  None            (* no upload                                             *)

ASSUME StoreAssumption ==
  /\ Blocks \in [Elfs -> Nat \ {0}]
  /\ Wellformed \subseteq Elfs
  /\ Loadable \subseteq Elfs
  /\ Blank \notin Elfs
  /\ \A e \in Elfs : Embedded # [i \in 1..Blocks[e] |-> e]
  /\ None \notin Uploads

VARIABLES
  header,         (* block appletHeaderLBA                                 *)
  body,           (* blocks from appletBodyLBA on                          *)
  device,         (* "off", "up", or "halted" after log.Fatalf             *)
  running,        (* the image the monitor runs                            *)
  upload,         (* the progress of each upload                           *)
  elf,            (* the ELF each upload carries                           *)
  writer          (* history: the upload that made every write since its   *)
                  (* body went to the card, if there is one                *)

card == <<header, body>>
vars == <<header, body, device, running, upload, elf, writer>>

Cells == UNION {1..Blocks[e] : e \in Elfs}
Image(e) == [i \in 1..Blocks[e] |-> e]

(* The body with the first n blocks of e written over it. *)
Written(e, n) == [i \in Cells |-> IF i <= n THEN e ELSE body[i]]

Init ==
  /\ header = Blank
  /\ body = [i \in Cells |-> Blank]
  /\ device = "off"
  /\ running = Embedded
  /\ upload = [u \in Uploads |-> "idle"]
  /\ elf \in [Uploads -> Elfs]
  /\ writer = None

-----------------------------------------------------------------------------
(* Boot. *)

(* loadApplet either starts the image or ends the Trusted OS in log.Fatalf, *)
(* before startNetworking.  The ELF and program headers that decide it are  *)
(* in the first block.                                                      *)
Start(image) ==
  IF image = Embedded \/ image[1] \in Loadable
  THEN device' = "up" /\ running' = image
  ELSE device' = "halted" /\ UNCHANGED running

(* Mutation: readAppletFromSD does not compare the checksum. *)
MagicOnly == header # Blank

(* readAppletFromSD accepts what the card holds. *)
Intact == header # Blank /\ \A i \in 1..Blocks[header] : body[i] = header

StoredImage == [i \in 1..Blocks[header] |-> body[i]]

(* An upload whose connection was answered before the reset is over. *)
Settle == upload' = [u \in Uploads |->
                       IF upload[u] = "rebooting" THEN "closed" ELSE upload[u]]

(* Mutation: main treats a damaged applet as fatal. *)
BootOrDie ==
  /\ device = "off"
  /\ IF header # Blank /\ ~Intact
     THEN device' = "halted" /\ UNCHANGED running
     ELSE Start(IF Intact THEN StoredImage ELSE Embedded)
  /\ Settle
  /\ UNCHANGED <<card, elf, writer>>

Boot ==
  /\ device = "off"
  /\ Start(IF Intact THEN StoredImage ELSE Embedded)
  /\ Settle
  /\ UNCHANGED <<card, elf, writer>>

(* No card, or an error reading it: main falls back to the embedded applet. *)
BootWithoutCard ==
  /\ device = "off"
  /\ Start(Embedded)
  /\ Settle
  /\ UNCHANGED <<card, elf, writer>>

-----------------------------------------------------------------------------
(* Uploads: one goroutine each, none of them holding a lock. *)

(* base64 and the five checks decide whether the card is touched at all. *)
Accept(u) ==
  /\ device = "up" /\ upload[u] = "idle"
  /\ upload' = [upload EXCEPT
       ![u] = IF elf[u] \in Wellformed THEN "body" ELSE "refused"]
  /\ UNCHANGED <<card, device, running, elf, writer>>

(* Mutation: the last, partly filled block is not rounded up. *)
WriteWholeBlocks(u) ==
  /\ upload[u] = "body"
  /\ body' = Written(elf[u], Blocks[elf[u]] - 1)
  /\ upload' = [upload EXCEPT ![u] = "header"]
  /\ writer' = u
  /\ UNCHANGED <<header, device, running, elf>>

WriteBody(u) ==
  /\ upload[u] = "body"
  /\ body' = Written(elf[u], Blocks[elf[u]])
  /\ upload' = [upload EXCEPT ![u] = "header"]
  /\ writer' = u
  /\ UNCHANGED <<header, device, running, elf>>

WriteHeader(u) ==
  /\ upload[u] = "header"
  /\ header' = elf[u]
  /\ upload' = [upload EXCEPT ![u] = "stored"]
  /\ writer' = IF writer = u THEN u ELSE None
  /\ UNCHANGED <<body, device, running, elf>>

(* WriteBlocks returns an error, having written some of the blocks; the     *)
(* client is told and the device stays up.                                  *)
WriteFails(u) ==
  /\ \/ /\ upload[u] = "body"
        /\ \E n \in 0..Blocks[elf[u]] : body' = Written(elf[u], n)
        /\ UNCHANGED header
     \/ /\ upload[u] = "header"
        /\ header' \in {header, elf[u], Blank}
        /\ UNCHANGED body
  /\ upload' = [upload EXCEPT ![u] = "refused"]
  /\ writer' = None
  /\ UNCHANGED <<device, running, elf>>

(* The reply "ok, rebooting" is encoded and the connection closed. *)
Ack(u) ==
  /\ upload[u] = "stored"
  /\ upload' = [upload EXCEPT ![u] = "acked"]
  /\ UNCHANGED <<card, device, running, elf, writer>>

-----------------------------------------------------------------------------
(* Mutation: only the device goes down, an upload lives on. *)
DownWithoutUploads ==
  /\ device' = "off"
  /\ UNCHANGED <<upload, running, elf>>

(* The end of an uptime takes every goroutine with it. *)
Down ==
  /\ device' = "off"
  /\ upload' = [u \in Uploads |->
       CASE upload[u] = "acked" -> "rebooting"
         [] upload[u] \in {"body", "header", "stored"} -> "cut"
         [] OTHER -> upload[u]]
  /\ UNCHANGED <<running, elf>>

(* triggerReset, by the goroutine of an acknowledged upload. *)
Reset(u) ==
  /\ device = "up" /\ upload[u] = "acked"
  /\ Down
  /\ UNCHANGED <<card, writer>>

PowerLoss ==
  /\ device = "up"
  /\ Down
  /\ UNCHANGED <<card, writer>>

(* The power fails inside a WriteBlocks. *)
PowerLossInWrite(u) ==
  /\ \/ /\ upload[u] = "body"
        /\ \E n \in 1..Blocks[elf[u]] : body' = Written(elf[u], n)
        /\ UNCHANGED header
     \/ /\ upload[u] = "header"
        /\ header' = Blank
        /\ UNCHANGED body
  /\ writer' = None
  /\ Down

(* The owner of a halted device switches it off and on. *)
PowerCycle ==
  /\ device = "halted"
  /\ Down
  /\ UNCHANGED <<card, writer>>

Next ==
  \/ Boot \/ BootWithoutCard \/ PowerLoss \/ PowerCycle
  \/ \E u \in Uploads :
       \/ Accept(u) \/ WriteBody(u) \/ WriteHeader(u) \/ WriteFails(u)
       \/ Ack(u) \/ Reset(u) \/ PowerLossInWrite(u)

Spec == Init /\ [][Next]_vars

(* A device that is off or halted is eventually powered again; nothing is   *)
(* assumed of uploads.                                                      *)
FairSpec ==
  /\ Spec
  /\ WF_vars(Boot \/ BootWithoutCard)
  /\ WF_vars(PowerCycle)

-----------------------------------------------------------------------------
(* Types, and goroutines exist only while the device is up. *)
TypeOK ==
  /\ header \in Elfs \cup {Blank}
  /\ body \in [Cells -> Elfs \cup {Blank}]
  /\ device \in {"off", "up", "halted"}
  /\ upload \in [Uploads -> {"idle", "body", "header", "stored", "acked",
                             "refused", "rebooting", "closed", "cut"}]
  /\ elf \in [Uploads -> Elfs]
  /\ writer \in Uploads \cup {None}
  /\ device # "up" => \A u \in Uploads :
       upload[u] \notin {"body", "header", "stored", "acked"}

(* Whatever interleaving of uploads, errors and power losses produced the   *)
(* contents of the card, the monitor only ever runs the embedded applet or  *)
(* one complete ELF that passed the checks, never a mixture of two          *)
(* (readAppletFromSD, writeAppletToSD, main).                               *)
RunsOnlyWholeApplets ==
  running = Embedded \/ \E e \in Wellformed : running = Image(e)

(* An upload that was answered "ok, rebooting" and whose writes no other    *)
(* upload followed is what every later boot from the card loads; it either  *)
(* runs or, if it cannot be loaded, halts the device.                       *)
UndisturbedUploadRuns ==
  [][Boot /\ writer # None
          /\ upload[writer] \in {"rebooting", "closed"}
       => \/ running' = Image(elf[writer])
          \/ device' = "halted" /\ elf[writer] \notin Loadable]_vars

(* If every well-formed ELF that is uploaded can be loaded, the device is   *)
(* always back up eventually: no card error, no power loss in a write and   *)
(* no overlap of uploads leaves contents that keep it from booting          *)
(* (readAppletFromSD, main).                                                *)
SelfRecoversIfLoadable ==
  (\A u \in Uploads : elf[u] \in Wellformed => elf[u] \in Loadable)
    => []<>(device = "up")

(* What the documentation says.                                             *)

(* README_Armory_MK_II.md:77 "If the new applet is broken, the next boot    *)
(* silently falls back to the embedded default - the device self-recovers". *)
SelfRecovers == []<>(device = "up")
=============================================================================
