------------------------------- MODULE Rescue -------------------------------
(***************************************************************************)
(* RescueOrchestrator.RunFullRescueAsync with the components it calls:     *)
(* PartitionDiagnostics, QFuseAuditor, PartitionRestorer (sparse repair,   *)
(* full restore, userdata wipe) and MagiskRemover, run against a device    *)
(* behind IFirehoseClient.                                                 *)
(*                                                                         *)
(* The pipeline is sequential: what makes it hard is that every await on   *)
(* the client can fail, lose its write, tear it, or return less data than  *)
(* asked, and that the results of one phase (the audit, the tampered list) *)
(* are used by phases that run after the device has changed.  Each action  *)
(* is one phase, or one step of a phase between two device calls that      *)
(* change the device.  "faults" is the number of device calls that may     *)
(* still go wrong; MaxFaults bounds it.                                    *)
(***************************************************************************)
EXTENDS PartitionImage

CONSTANTS
    NoFile,          \* no such file in the backup directory
    Unreadable,      \* what a read that throws returns
    Gpt,             \* partitions the device's GPT lists
    Critical,        \* PartitionDiagnostics._criticalPartitions
    MagiskChecked,   \* those of analysis type "MagiskDetect"
    BootSlots,       \* boot_a, boot_b (or boot): what MagiskRemover processes
    VbmetaOf,        \* BootSlots -> the slot's vbmeta partition
    NeverRestore,    \* PartitionRestorer._neverRestore
    Userdata,        \* the userdata partition
    FirstSample,     \* sectors of the wipe's readback checked at the start
    LastSample,      \* ... and at the end
    Devices,         \* initial device contents
    Backups,         \* backup directories: [stock, manifest, ramdisk]
    Options,         \* command lines: [dryRun, force, wipeData, skipModeCheck]
    MaxFaults        \* bound: device calls that go wrong in one run

Partitions == Gpt \cup Critical

\* What the ramdisk of a rebuilt boot image may be: without Magisk, with Magisk, or
\* no archive.
Ramdisks == {"rebuilt", "dirty", "broken"}

ASSUME RescueAssumption ==
    /\ NoFile \notin Image /\ Unreadable \notin Image
    /\ MagiskChecked \subseteq Critical
    /\ BootSlots \subseteq Gpt
    /\ VbmetaOf \in [BootSlots -> Partitions]
    /\ Userdata \in Gpt \ (Critical \cup BootSlots)
    /\ \A b \in BootSlots : VbmetaOf[b] \notin BootSlots \cup {Userdata}
    /\ NeverRestore \cap (BootSlots \cup {Userdata}) = {}
    /\ \A b \in BootSlots : VbmetaOf[b] \notin NeverRestore
    /\ FirstSample \in Nat \ {0} /\ LastSample \in 0 .. FirstSample
    /\ Devices \subseteq [Partitions -> [Sectors -> Blocks]]
    /\ Backups \subseteq [stock    : [Partitions -> Image \cup {NoFile}],
                          manifest : [Partitions -> Image \cup {NoFile}],
                          ramdisk  : [BootSlots -> Ramdisks \cup {NoFile}]]
    /\ Options \subseteq [dryRun : BOOLEAN, force : BOOLEAN,
                          wipeData : BOOLEAN, skipModeCheck : BOOLEAN]
    /\ MaxFaults \in Nat

VARIABLES
    opt,        \* the command line
    backup,     \* the backup directory
    fuseBlown,  \* some fuse of the device is blown
    img,        \* device contents
    erased,     \* partitions an erase command was sent for
    written,    \* partitions a program command was sent for
    faults,     \* device calls that may still go wrong
    pc,         \* the next step
    todo,       \* partitions the current loop still has to process
    cur,        \* the partition being restored or cleaned
    buf,        \* the repacked boot image about to be written
    saved,      \* partitions with a forensic copy in the backup directory
    confirmed,  \* the operator typed the wipe's confirmation token
    rep         \* the RescueReport

environment == <<opt, backup, fuseBlown>>
device      == <<img, erased, written>>
loop        == <<todo, cur, buf>>
vars == <<environment, device, faults, pc, loop, saved, confirmed, rep>>

AuditStatus   == {"none", "Match", "Mismatch", "NoStockComparison", "Error"}
DiagStatus    == {"none", "Normal", "Tampered", "Missing", "Unknown", "Restored"}
SparseStatus  == {"none", "Repaired", "Skipped", "VerificationFailed",
                  "Blocklisted", "NoStockImage"}
RestoreStatus == {"none", "Skipped", "Erased", "Flashed", "Failed", "DryRunSkipped"}
WipeStatus    == {"none", "WipedAndVerified", "WipeNotAuthorized",
                  "ConfirmationFailed", "VerificationFailed", "DryRunLogged"}
Verdicts      == {"Clean", "Tampered", "PartiallyRecovered", "FullyRecovered",
                  "PermanentDamage", "Aborted"}
Steps == {"mode", "audit", "diagnose", "fuses", "sparse", "restore", "erase",
          "write", "verify", "wipe", "wipeErase", "wipeCheck", "unmagisk", "readBoot", "flashBoot",
          "checkBoot", "vbmeta", "postAudit", "postDiagnose", "report",
          "done", "crashed"}

Report == [audit      : [Partitions -> AuditStatus],
           diff       : [Partitions -> SUBSET Sectors],
           diag       : [Critical -> DiagStatus],
           magisk     : SUBSET MagiskChecked,  \* a "Magisk" anomaly is recorded
           fuse       : BOOLEAN,               \* TotalBlown > 0
           sparse     : [Partitions -> SparseStatus],
           restore    : [Critical -> RestoreStatus],
           verified   : SUBSET Critical,       \* RestoreAction.Verified
           wipe       : WipeStatus,
           removed    : SUBSET BootSlots,      \* MagiskRemovalResult.MagiskRemoved
           vbmeta     : SUBSET BootSlots,      \* ... .VbmetaRestored
           postAudit  : [Partitions -> AuditStatus],
           verdict    : Verdicts,
           saved      : BOOLEAN]               \* rescue-report.json is written

EmptyReport ==
    [audit     |-> [p \in Partitions |-> "none"],
     diff      |-> [p \in Partitions |-> {}],
     diag      |-> [p \in Critical |-> "none"],
     magisk    |-> {},
     fuse      |-> FALSE,
     sparse    |-> [p \in Partitions |-> "none"],
     restore   |-> [p \in Critical |-> "none"],
     verified  |-> {},
     wipe      |-> "none",
     removed   |-> {},
     vbmeta    |-> {},
     postAudit |-> [p \in Partitions |-> "none"],
     verdict   |-> "Clean",
     saved     |-> FALSE]

NoPartition == "nopartition"

Init ==
    /\ opt \in Options /\ backup \in Backups /\ img \in Devices
    /\ fuseBlown \in BOOLEAN
    /\ erased = {} /\ written = {}
    /\ faults = MaxFaults
    /\ pc = "mode"
    /\ todo = {} /\ cur = NoPartition /\ buf = NoFile
    /\ saved = {} /\ confirmed = FALSE
    /\ rep = EmptyReport

-----------------------------------------------------------------------------
(* Calls on the client.  A good call costs nothing; a call that goes wrong   *)
(* is paid for from faults.                                                  *)

Spend(n) == n <= faults /\ faults' = faults - n

Cost(bad) == IF bad THEN 1 ELSE 0

\* ReadPartitionAsync throws for a partition not in the GPT, and when the
\* device NAKs; it returns a prefix when the device stops sending.
\* k = NSectors stands for the throw.
BadRead(p, k) == IF k = NSectors THEN Unreadable ELSE Prefix(img[p], k)

Read(p, bad, k) ==
    IF p \notin Gpt THEN Unreadable ELSE IF bad THEN BadRead(p, k) ELSE img[p]

\* The partitions of P read one after another; those in bad go wrong.
Sweep(P, bad, k) == [p \in P |-> Read(p, p \in bad, k)]

Depths == 0 .. NSectors

\* WritePartitionAsync sends the data of f; the device takes the first k sectors.
Flash(p, f, k) == img' = [img EXCEPT ![p] = Programmed(@, f, 1 .. k)]

\* ErasePartitionAsync; the device erases the sectors in Z.
Erase(p, Z) == img' = [img EXCEPT ![p] = Erased(@, Z)]

HasStock(p) == backup.stock[p] # NoFile

\* PartitionRestorer.VerifyStockIntegrity: the manifest has a hash for the
\* partition and it is the hash of the file.
UncheckedStock(p) == TRUE
VerifyStockIntegrity(p) ==
    /\ backup.manifest[p] # NoFile
    /\ backup.stock[p] = backup.manifest[p]

\* "_neverRestore.Contains(name) && !_force"
NotBlocked(p) == FALSE
Blocked(p) == p \in NeverRestore /\ ~opt.force

-----------------------------------------------------------------------------
(* Phases 0 to 3: get into download mode, audit, diagnose, read the fuses.   *)

\* RebootDownloadManager finds the device in download mode, or gives up after
\* the operator's attempts: RunFullRescueAsync returns an Aborted report.
EnsureDownloadMode ==
    /\ pc = "mode"
    /\ \E inMode \in BOOLEAN :
        IF opt.skipModeCheck \/ inMode
        THEN pc' = "audit" /\ UNCHANGED rep
        ELSE pc' = "done" /\ rep' = [rep EXCEPT !.verdict = "Aborted"]
    /\ UNCHANGED <<environment, device, faults, loop, saved, confirmed>>

AuditOf(p, d) ==
    IF d = Unreadable THEN "Error"
    ELSE IF ~HasStock(p) THEN "NoStockComparison"
    ELSE IF d = backup.stock[p] THEN "Match" ELSE "Mismatch"

\* RunFullGptAuditAsync over the reads rd; a failed GPT dump leaves no entry.
AuditOfAll(rd, gptOk) ==
    [p \in Partitions |-> IF gptOk /\ p \in Gpt THEN AuditOf(p, rd[p]) ELSE "none"]

Audit ==
    /\ pc = "audit"
    /\ \E gptOk \in BOOLEAN, bad \in SUBSET Gpt, k \in Depths :
        LET rd     == Sweep(Gpt, bad, k)
            result == AuditOfAll(rd, gptOk)
        IN  /\ gptOk \/ bad = {}
            /\ Spend(Cost(~gptOk \/ bad # {}))
            /\ rep' = [rep EXCEPT
                  !.audit = result,
                  !.diff = [p \in Partitions |->
                               IF result[p] = "Mismatch"
                               THEN DifferingSectors(rd[p], backup.stock[p]) ELSE {}]]
    /\ pc' = "diagnose"
    /\ UNCHANGED <<environment, device, loop, saved, confirmed>>

\* RunAsync on one critical partition: the whole partition against the stock
\* file, then the ramdisk for Magisk.
HasMagisk(p, d) == p \in MagiskChecked /\ d # Unreadable /\ MagiskDetected(d)

\* What a read that throws becomes: Missing for a FirehoseException, Unknown (no
\* verdict counts it) for any other.
UnreadStatus == {"Missing", "Unknown"}

DiagnosisOf(p, d, unread) ==
    IF d = Unreadable THEN IF p \in Gpt THEN unread ELSE "Missing"
    ELSE IF (HasStock(p) /\ d # backup.stock[p]) \/ HasMagisk(p, d) THEN "Tampered"
    ELSE "Normal"

\* PartitionDiagnostics.DetermineVerdict.  The fuse audit runs after it, so
\* its "anyPermanent" is always false here.
DiagnosedVerdict(diag) ==
    IF \E p \in Critical : diag[p] \in {"Tampered", "Missing"} THEN "Tampered" ELSE "Clean"

Diagnose ==
    /\ pc = "diagnose"
    /\ \E bad \in SUBSET (Critical \cap Gpt), k \in Depths, unread \in UnreadStatus :
        LET rd   == Sweep(Critical, bad, k)
            diag == [p \in Critical |-> DiagnosisOf(p, rd[p], unread)]
        IN  /\ Spend(Cost(bad # {}))
            /\ rep' = [rep EXCEPT
                  !.diag = diag,
                  !.magisk = {p \in MagiskChecked : HasMagisk(p, rd[p])},
                  !.verdict = DiagnosedVerdict(diag)]
    /\ pc' = "fuses"
    /\ UNCHANGED <<environment, device, loop, saved, confirmed>>

\* QFuseAuditor: an address that cannot be read counts as not blown.
AuditFuses ==
    /\ pc = "fuses"
    /\ \E bad \in BOOLEAN :
        /\ Spend(Cost(bad))
        /\ rep' = [rep EXCEPT !.fuse = fuseBlown /\ ~bad]
    /\ todo' = {p \in Partitions : rep.audit[p] = "Mismatch"}
    /\ pc' = "sparse"
    /\ UNCHANGED <<environment, device, cur, buf, saved, confirmed>>

-----------------------------------------------------------------------------
(* Phase 4a: PartitionRestorer.SparseRepairAsync, one partition per step, in *)
(* any order since the device chooses the order of its GPT.                  *)

Refused(p) == Blocked(p) \/ ~HasStock(p) \/ opt.dryRun \/ ~VerifyStockIntegrity(p)

SparseRefuse(p) ==
    /\ pc = "sparse" /\ p \in todo
    /\ Refused(p)
    /\ rep' = [rep EXCEPT !.sparse[p] =
                  IF Blocked(p) THEN "Blocklisted"
                  ELSE IF ~HasStock(p) THEN "NoStockImage"
                  ELSE IF opt.dryRun THEN "Repaired"      \* "would be repaired"
                  ELSE "Skipped"]
    /\ todo' = todo \ {p}
    /\ UNCHANGED <<environment, device, faults, pc, cur, buf, saved, confirmed>>

\* "allMatch && verifiedCount == writtenCount", over the sectors written.
NothingVerified(p, r, targets) == TRUE
AllVerified(p, r, targets) ==
    \A s \in targets : r[s] # End /\ r[s] = backup.stock[p][s]

\* Program the differing sectors (the results of the calls are ignored, so some
\* may be lost), read the partition back, compare the sectors written.
SparseRepair(p) ==
    /\ pc = "sparse" /\ p \in todo
    /\ ~Refused(p)
    /\ LET targets == rep.diff[p] IN
        \E landed \in SUBSET targets, bad \in BOOLEAN, k \in 0 .. NSectors - 1 :
            /\ Spend(Cost(landed # targets) + Cost(bad))
            /\ img' = [img EXCEPT ![p] = Programmed(@, backup.stock[p], landed)]
            /\ written' = IF targets = {} THEN written ELSE written \cup {p}
            /\ LET r == IF bad THEN Prefix(img'[p], k) ELSE img'[p] IN
                rep' = [rep EXCEPT !.sparse[p] =
                           IF AllVerified(p, r, targets)
                           THEN "Repaired" ELSE "VerificationFailed"]
    /\ todo' = todo \ {p}
    /\ UNCHANGED <<environment, erased, pc, cur, buf, saved, confirmed>>

\* A write the device NAKs, or a readback that fails, throws; nothing catches
\* it before the CLI.
SparseThrows(p) ==
    /\ pc = "sparse" /\ p \in todo
    /\ ~Refused(p)
    /\ Spend(1)
    /\ \E landed \in SUBSET rep.diff[p] :
        /\ img' = [img EXCEPT ![p] = Programmed(@, backup.stock[p], landed)]
        /\ written' = IF rep.diff[p] = {} THEN written ELSE written \cup {p}
    /\ pc' = "crashed"
    /\ UNCHANGED <<environment, erased, loop, saved, confirmed, rep>>

\* Phase 4b takes the list made before the sparse repair ("tampered").
Tampered == {p \in Critical : rep.diag[p] = "Tampered"}

SparseDone ==
    /\ pc = "sparse" /\ todo = {}
    /\ todo' = Tampered
    /\ pc' = "restore"
    /\ UNCHANGED <<environment, device, faults, cur, buf, saved, confirmed, rep>>

-----------------------------------------------------------------------------
(* Phase 4b: PartitionRestorer.RestoreAsync.                                 *)

RestoreDryRun ==
    /\ pc = "restore" /\ opt.dryRun
    /\ rep' = [rep EXCEPT !.restore =
                  [p \in Critical |-> IF p \in todo /\ HasStock(p)
                                      THEN "DryRunSkipped" ELSE @[p]]]
    /\ todo' = {}
    /\ pc' = "wipe"
    /\ UNCHANGED <<environment, device, faults, cur, buf, saved, confirmed>>

\* Blocklisted, or --force without the typed confirmation, or no backup file.
RestoreSkipForever(p) ==
    /\ pc = "restore" /\ ~opt.dryRun /\ p \in todo
    /\ p \in NeverRestore \/ ~HasStock(p)
    /\ rep' = [rep EXCEPT !.restore[p] = "Skipped"]
    /\ UNCHANGED <<environment, device, faults, todo, pc, cur, buf, saved, confirmed>>
RestoreSkip(p) ==
    /\ pc = "restore" /\ ~opt.dryRun /\ p \in todo
    /\ p \in NeverRestore \/ ~HasStock(p)
    /\ rep' = [rep EXCEPT !.restore[p] = "Skipped"]
    /\ todo' = todo \ {p}
    /\ UNCHANGED <<environment, device, faults, pc, cur, buf, saved, confirmed>>

\* The forensic copy: an unreadable partition is restored all the same.
RestoreBegin(p) ==
    /\ pc = "restore" /\ ~opt.dryRun /\ p \in todo
    /\ ~Blocked(p) /\ HasStock(p)
    /\ \E bad \in BOOLEAN, k \in Depths :
        /\ Spend(Cost(bad))
        /\ saved' = IF Read(p, bad, k) = Unreadable THEN saved ELSE saved \cup {p}
    /\ cur' = p /\ todo' = todo \ {p}
    /\ pc' = "erase"
    /\ UNCHANGED <<environment, device, buf, confirmed, rep>>

\* An exception before the erase, such as a forensic copy that cannot be saved.
RestoreFails(p) ==
    /\ pc = "restore" /\ ~opt.dryRun /\ p \in todo
    /\ ~Blocked(p) /\ HasStock(p)
    /\ Spend(1)
    /\ rep' = [rep EXCEPT !.restore[p] = "Failed"]
    /\ todo' = todo \ {p}
    /\ UNCHANGED <<environment, device, pc, cur, buf, saved, confirmed>>

\* The erase's result is ignored.
RestoreErase ==
    /\ pc = "erase"
    /\ \E Z \in SUBSET Sectors :
        /\ Spend(Cost(Z # Sectors))
        /\ Erase(cur, Z)
    /\ erased' = erased \cup {cur}
    /\ rep' = [rep EXCEPT !.restore[cur] = "Erased"]
    /\ pc' = "write"
    /\ UNCHANGED <<environment, written, loop, saved, confirmed>>

\* So is the write's.
RestoreWrite ==
    /\ pc = "write"
    /\ \E k \in Depths :
        /\ Spend(Cost(k # NSectors))
        /\ Flash(cur, backup.stock[cur], k)
    /\ written' = written \cup {cur}
    /\ rep' = [rep EXCEPT !.restore[cur] = "Flashed"]
    /\ pc' = "verify"
    /\ UNCHANGED <<environment, erased, loop, saved, confirmed>>

\* "action.Verified = (writtenHash == knownGoodHash)"
HashUnchecked(p, r) == TRUE
HashMatches(p, r) == r = backup.stock[p]

RestoreVerify ==
    /\ pc = "verify"
    /\ \E bad \in BOOLEAN, k \in 0 .. NSectors - 1 :
        /\ Spend(Cost(bad))
        /\ rep' = [rep EXCEPT !.verified =
                      IF HashMatches(cur, Read(cur, bad, k)) THEN @ \cup {cur} ELSE @]
    /\ cur' = NoPartition
    /\ pc' = "restore"
    /\ UNCHANGED <<environment, device, todo, buf, saved, confirmed>>

\* Any exception from erase, write or readback: the loop goes on with the next
\* partition.  The erase or the write may have been torn by it.
RestoreThrows ==
    /\ Spend(1)
    /\ \/ pc = "erase" /\ \E Z \in SUBSET Sectors : Erase(cur, Z)
       \/ pc = "write" /\ \E k \in Depths : Flash(cur, backup.stock[cur], k)
       \/ pc = "verify" /\ UNCHANGED img
    /\ erased' = IF pc = "erase" THEN erased \cup {cur} ELSE erased
    /\ written' = IF pc = "write" THEN written \cup {cur} ELSE written
    /\ rep' = [rep EXCEPT !.restore[cur] = "Failed"]
    /\ cur' = NoPartition
    /\ pc' = "restore"
    /\ UNCHANGED <<environment, todo, buf, saved, confirmed>>

RestoreDone ==
    /\ pc = "restore" /\ ~opt.dryRun /\ todo = {}
    /\ pc' = "wipe"
    /\ UNCHANGED <<environment, device, faults, loop, saved, confirmed, rep>>

-----------------------------------------------------------------------------
(* Phase 4c: PartitionRestorer.WipeUserDataAsync.                            *)

\* "if (!_wipeData)", "if (_dryRun)"
FlagOnly == opt.wipeData
WipeAuthorized == opt.wipeData /\ ~opt.dryRun

WipeSkip ==
    /\ pc = "wipe" /\ ~WipeAuthorized
    /\ rep' = [rep EXCEPT !.wipe =
                  IF ~opt.wipeData THEN "WipeNotAuthorized" ELSE "DryRunLogged"]
    /\ pc' = "unmagisk"
    /\ UNCHANGED <<environment, device, faults, loop, saved, confirmed>>

\* The operator types the confirmation token.  On a mismatch nothing is erased
\* and the rescue goes on.
TokenIgnored(typed) == TRUE
TokenMatches(typed) == typed

WipeConfirm ==
    /\ pc = "wipe" /\ WipeAuthorized
    /\ \E typed \in BOOLEAN :
        /\ confirmed' = typed
        /\ IF TokenMatches(typed)
           THEN pc' = "wipeErase" /\ UNCHANGED rep
           ELSE /\ rep' = [rep EXCEPT !.wipe = "ConfirmationFailed"]
                /\ pc' = "unmagisk"
    /\ UNCHANGED <<environment, device, faults, loop, saved>>

\* A failed wipe aborts the rescue: verdict PermanentDamage, then the report.
WipeFailsAndGoesOn ==
    /\ rep' = [rep EXCEPT !.wipe = "VerificationFailed", !.verdict = "PermanentDamage"]
    /\ pc' = "unmagisk"
WipeFails ==
    /\ rep' = [rep EXCEPT !.wipe = "VerificationFailed", !.verdict = "PermanentDamage"]
    /\ pc' = "report"

\* The device may erase only the sectors in Z, and may NAK, or be lost,
\* whatever it did.
WipeErase ==
    /\ pc = "wipeErase"
    /\ \E Z \in SUBSET Sectors, answer \in {"ACK", "NAK", "none"} :
        /\ Spend(Cost(Z # Sectors \/ answer # "ACK"))
        /\ Erase(Userdata, Z)
        /\ \/ answer = "ACK" /\ pc' = "wipeCheck" /\ UNCHANGED rep
           \/ answer = "NAK" /\ WipeFails
           \/ answer = "none" /\ pc' = "crashed" /\ UNCHANGED rep
    /\ erased' = erased \cup {Userdata}
    /\ UNCHANGED <<environment, written, loop, saved, confirmed>>

\* The sectors of an n-sector readback that are compared with zero.
Sampled(n) ==
    (1 .. IF n < FirstSample THEN n ELSE FirstSample)
      \cup (IF n > FirstSample THEN n - LastSample + 1 .. n ELSE {})

FromSecond(r) == {s \in Sampled(Length(r)) : s # 1 /\ r[s] # "zero"}
NonZero(r) == {s \in Sampled(Length(r)) : r[s] # "zero"}

WipeCheck ==
    /\ pc = "wipeCheck"
    /\ \E bad \in BOOLEAN, k \in Depths :
        LET r == Read(Userdata, bad, k) IN
        /\ Spend(Cost(bad))
        /\ IF r = Unreadable \/ NonZero(r) # {}
           THEN WipeFails
           ELSE rep' = [rep EXCEPT !.wipe = "WipedAndVerified"] /\ pc' = "unmagisk"
    /\ UNCHANGED <<environment, device, loop, saved, confirmed>>

-----------------------------------------------------------------------------
(* Phase 5: MagiskRemover.                                                   *)

UnmagiskDue == rep.wipe # "WipedAndVerified" /\ rep.magisk # {} /\ ~opt.dryRun

UnmagiskSkip ==
    /\ pc = "unmagisk" /\ ~UnmagiskDue
    /\ pc' = "postAudit"
    /\ UNCHANGED <<environment, device, faults, loop, saved, confirmed, rep>>

UnmagiskBegin ==
    /\ pc = "unmagisk" /\ UnmagiskDue
    /\ todo' = BootSlots
    /\ pc' = "readBoot"
    /\ UNCHANGED <<environment, device, faults, cur, buf, saved, confirmed, rep>>

\* The ramdisk to repack with: the file <boot>_ramdisk.img of the backup directory,
\* taken as it is; else that of the stock boot image (an unparsable one throws);
\* else what surgical removal leaves, which may still hold artifacts.
CleanRamdisks(b) ==
    CASE backup.ramdisk[b] # NoFile -> {backup.ramdisk[b]}
      [] backup.ramdisk[b] = NoFile /\ HasStock(b) ->
           LET s == backup.stock[b] IN
           IF Parses(s) /\ Length(s) = NSectors
           THEN {IF MagiskDetected(s) THEN "dirty" ELSE "rebuilt"} ELSE {}
      [] OTHER -> {"rebuilt", "dirty"}

ReadBoot(b) ==
    /\ pc = "readBoot" /\ b \in todo
    /\ todo' = todo \ {b}
    /\ \E bad \in BOOLEAN, k \in Depths :
        LET d == Read(b, bad, k) IN
        /\ Spend(Cost(bad))
        /\ IF d # Unreadable /\ MagiskDetected(d) /\ CleanRamdisks(b) # {}
           THEN /\ \E r \in CleanRamdisks(b) : buf' = Repacked(d, r)
                /\ saved' = saved \cup {b}
                /\ cur' = b
                /\ pc' = "flashBoot"
           ELSE UNCHANGED <<pc, cur, buf, saved>>
    /\ UNCHANGED <<environment, device, confirmed, rep>>

FlashBoot ==
    /\ pc = "flashBoot"
    /\ \E k \in Depths :
        /\ Spend(Cost(k # NSectors))
        /\ Flash(cur, buf, k)
    /\ written' = written \cup {cur}
    /\ pc' = "checkBoot"
    /\ UNCHANGED <<environment, erased, loop, saved, confirmed, rep>>

\* The write throws: the slot is given up, its result says "not removed".
FlashBootThrows ==
    /\ pc = "flashBoot"
    /\ Spend(1)
    /\ \E k \in Depths : Flash(cur, buf, k)
    /\ written' = written \cup {cur}
    /\ cur' = NoPartition /\ buf' = NoFile
    /\ pc' = "readBoot"
    /\ UNCHANGED <<environment, erased, todo, saved, confirmed, rep>>

\* MagiskRemoved is set before the readback is parsed, and taken back only when
\* Magisk is found in it; a readback that does not parse throws and leaves it.
MagiskRemoved(d) == d # Unreadable /\ ~MagiskDetected(d)

\* The readback parses, so that the removal goes on to the slot's vbmeta.
ReadBack(d) == d # Unreadable                   \* mutant
Inspected(d) == d # Unreadable /\ Parses(d) /\ RamdiskReadable(d)

CheckBoot ==
    /\ pc = "checkBoot"
    /\ \E bad \in BOOLEAN, k \in Depths :
        LET d == Read(cur, bad, k) IN
        /\ Spend(Cost(bad))
        /\ rep' = [rep EXCEPT !.removed = IF MagiskRemoved(d) THEN @ \cup {cur} ELSE @]
        /\ IF Inspected(d)
           THEN pc' = "vbmeta" /\ UNCHANGED cur
           ELSE pc' = "readBoot" /\ cur' = NoPartition
    /\ buf' = NoFile
    /\ UNCHANGED <<environment, device, todo, saved, confirmed>>

\* The slot's vbmeta is written back when its verification flag is off.  The
\* write's result is ignored; a read or write that throws is swallowed.
RestoreVbmeta ==
    /\ pc = "vbmeta"
    /\ LET v == VbmetaOf[cur] IN
        \E bad, throws \in BOOLEAN, j, k \in Depths :
        LET d == Read(v, bad, j) IN
        /\ Spend(Cost(bad) + Cost(k # NSectors \/ throws))
        /\ IF d # Unreadable /\ VerificationDisabled(d) /\ HasStock(v)
           THEN /\ Flash(v, backup.stock[v], k)
                /\ written' = written \cup {v}
                /\ rep' = [rep EXCEPT !.vbmeta = IF throws THEN @ ELSE @ \cup {cur}]
           ELSE ~throws /\ k = NSectors /\ UNCHANGED <<img, written, rep>>
    /\ cur' = NoPartition
    /\ pc' = "readBoot"
    /\ UNCHANGED <<environment, erased, todo, buf, saved, confirmed>>

UnmagiskDone ==
    /\ pc = "readBoot" /\ todo = {}
    /\ pc' = "postAudit"
    /\ UNCHANGED <<environment, device, faults, loop, saved, confirmed, rep>>

-----------------------------------------------------------------------------
(* Phases 6 and 7: verification, verdict, report and reset.                  *)

VerifyDryRun ==
    /\ pc = "postAudit" /\ opt.dryRun
    /\ pc' = "report"
    /\ UNCHANGED <<environment, device, faults, loop, saved, confirmed, rep>>

PostAudit ==
    /\ pc = "postAudit" /\ ~opt.dryRun
    /\ \E gptOk \in BOOLEAN, bad \in SUBSET Gpt, k \in Depths :
        /\ gptOk \/ bad = {}
        /\ Spend(Cost(~gptOk \/ bad # {}))
        /\ rep' = [rep EXCEPT !.postAudit = AuditOfAll(Sweep(Gpt, bad, k), gptOk)]
    /\ pc' = "postDiagnose"
    /\ UNCHANGED <<environment, device, loop, saved, confirmed>>

StillMismatched(r) ==
    {p \in Partitions : r.audit[p] = "Mismatch" /\ r.postAudit[p] = "Mismatch"}

SparseFailed(r) == \E p \in Partitions : r.sparse[p] = "VerificationFailed"

\* RescueOrchestrator.DeterminePostRescueVerdict.
VerdictWithoutAudit(r) ==
    IF \E p \in Critical : r.diag[p] = "Tampered" THEN "PermanentDamage"
    ELSE IF r.fuse \/ SparseFailed(r) THEN "PartiallyRecovered" ELSE "FullyRecovered"
PostRescueVerdict(r) ==
    IF r.wipe = "VerificationFailed" \/ StillMismatched(r) # {}
         \/ \E p \in Critical : r.diag[p] = "Tampered"
    THEN "PermanentDamage"
    ELSE IF r.fuse \/ SparseFailed(r) THEN "PartiallyRecovered" ELSE "FullyRecovered"

\* A second diagnosis: a tampered partition that now looks normal is restored
\* and loses its anomalies.
NotTamperedNow(p, now) == rep.diag[p] = "Tampered" /\ now[p] # "Tampered"
RestoredNow(p, now) == rep.diag[p] = "Tampered" /\ now[p] = "Normal"

PostDiagnose ==
    /\ pc = "postDiagnose"
    /\ \E bad \in SUBSET (Critical \cap Gpt), k \in Depths, unread \in UnreadStatus :
        LET rd  == Sweep(Critical, bad, k)
            now == [p \in Critical |-> DiagnosisOf(p, rd[p], unread)]
            r   == [rep EXCEPT
                      !.diag = [p \in Critical |->
                                   IF RestoredNow(p, now) THEN "Restored" ELSE @[p]],
                      !.magisk = {p \in @ : ~RestoredNow(p, now)}]
        IN  /\ Spend(Cost(bad # {}))
            /\ rep' = [r EXCEPT !.verdict = PostRescueVerdict(r)]
    /\ pc' = "report"
    /\ UNCHANGED <<environment, device, loop, saved, confirmed>>

\* The report is saved, then a live run resets the device (errors swallowed).
WriteReport ==
    /\ pc = "report"
    /\ rep' = [rep EXCEPT !.saved = TRUE]
    /\ pc' = "done"
    /\ UNCHANGED <<environment, device, faults, loop, saved, confirmed>>

\* An exception no handler of the phase catches ends the rescue: PrintGptAsync
\* or PeekAsync losing the transport, or a report that cannot be saved.
Escapes ==
    /\ \/ pc \in {"audit", "diagnose", "fuses", "wipeCheck", "postDiagnose", "report"}
       \/ pc = "unmagisk" /\ UnmagiskDue
       \/ pc = "postAudit" /\ ~opt.dryRun
    /\ Spend(1)
    /\ pc' = "crashed"
    /\ UNCHANGED <<environment, device, loop, saved, confirmed, rep>>

-----------------------------------------------------------------------------
Terminated == pc \in {"done", "crashed"} /\ UNCHANGED vars

SparsePhase ==
    \/ \E p \in Partitions : SparseRefuse(p) \/ SparseRepair(p) \/ SparseThrows(p)
    \/ SparseDone

RestorePhase ==
    \/ RestoreDryRun \/ RestoreErase \/ RestoreWrite \/ RestoreVerify
    \/ RestoreThrows \/ RestoreDone
    \/ \E p \in Critical : RestoreSkip(p) \/ RestoreFails(p) \/ RestoreBegin(p)

WipePhase == WipeSkip \/ WipeConfirm \/ WipeErase \/ WipeCheck

UnmagiskPhase ==
    \/ UnmagiskSkip \/ UnmagiskBegin \/ FlashBoot \/ FlashBootThrows
    \/ CheckBoot \/ RestoreVbmeta \/ UnmagiskDone
    \/ \E b \in BootSlots : ReadBoot(b)

Next ==
    \/ EnsureDownloadMode \/ Audit \/ Diagnose \/ AuditFuses
    \/ SparsePhase \/ RestorePhase \/ WipePhase \/ UnmagiskPhase
    \/ VerifyDryRun \/ PostAudit \/ PostDiagnose \/ WriteReport
    \/ Escapes \/ Terminated

\* The pipeline is one async method: while it can run, it runs.
Spec == Init /\ [][Next]_vars /\ WF_vars(Next)

-----------------------------------------------------------------------------
(* Correctness.                                                              *)

TypeOK ==
    /\ opt \in Options /\ backup \in Backups /\ fuseBlown \in BOOLEAN
    /\ img \in [Partitions -> [Sectors -> Blocks]]
    /\ erased \subseteq Partitions /\ written \subseteq Partitions
    /\ faults \in 0 .. MaxFaults
    /\ pc \in Steps
    /\ todo \subseteq Partitions
    /\ cur \in Partitions \cup {NoPartition}
    /\ buf \in Image \cup {NoFile}
    /\ saved \subseteq Partitions
    /\ confirmed \in BOOLEAN
    /\ rep \in Report

\* The pipeline implements DeviceGuard: however its phases interleave with failures,
\* a partition only ever changes sector by sector to zero, to its stock image or,
\* in a boot slot, to a rebuilt one; never in a dry run, never in a partition of
\* _neverRestore without --force, userdata to zero only past the wipe's three
\* gates, and nothing at all once a wipe has failed.
Guard == INSTANCE DeviceGuard WITH
    Boot <- BootSlots, Protected <- NeverRestore, stock <- backup.stock,
    failed <- rep.wipe = "VerificationFailed", verdict <- rep.verdict
GuardHolds == Guard!Spec

\* A dry run sends no program and no erase command in any phase
\* (RescueOrchestrator's "NO FLASHING WILL OCCUR").
DryRunTouchesNothing == opt.dryRun => erased = {} /\ written = {}

\* Device-unique partitions are neither erased nor programmed by any phase
\* unless --force is given (PartitionRestorer._neverRestore).
BlocklistHolds == (erased \cup written) \cap NeverRestore # {} => opt.force

\* Userdata is erased only past all three gates of WipeUserDataAsync, whatever
\* the other phases do.
WipeGated == Userdata \in erased => opt.wipeData /\ ~opt.dryRun /\ confirmed

\* While the sparse repair runs, a sector of the device changes only to the
\* content the manifest vouches for (stock-only write enforcement).
SparseWritesStock ==
    [][pc = "sparse" =>
        \A p \in Partitions : img'[p] # img[p] =>
            /\ backup.manifest[p] # NoFile
            /\ \A s \in Sectors :
                  img'[p][s] # img[p][s] => img'[p][s] = backup.manifest[p][s]]_vars

\* What SparseRepairAsync reports Repaired in a live run carries the stock
\* content in every sector the audit found different, even if writes were lost.
RepairedIsStock ==
    pc = "sparse" /\ ~opt.dryRun =>
        \A p \in Partitions : rep.sparse[p] = "Repaired" =>
            \A s \in rep.diff[p] : img[p][s] = backup.stock[p][s]

\* A RestoreAction marked Verified stands for a partition that carries its
\* backup, until the Magisk removal rewrites it: an erased partition whose
\* write was lost or torn is never marked.
VerifiedIsStock ==
    pc \in {"restore", "erase", "write", "verify", "wipe", "wipeErase", "wipeCheck"} =>
        \A p \in rep.verified : Carries(img[p], backup.stock[p])

\* Verification is switched on again only above a boot image that is whole: one
\* that the write tore, or that could not be read back in full, is reported as
\* rid of Magisk, but the vbmeta of its slot is left as it is.
VerityOverWholeBoot ==
    \A b \in rep.vbmeta : Parses(img[b]) /\ RamdiskReadable(img[b])

\* A wipe is reported WipedAndVerified over data that was left in the sectors the
\* code is documented to sample, the first and the last of the whole partition
\* (PartitionRestorer.WipeUserDataAsync), only if two device calls have gone wrong:
\* an erase that left it and a readback that ended before it, of which the code
\* compares no more than has come, be it nothing.  No single fault of the erase, of
\* its answer or of the readback gets past it, to the end of the rescue.
WipedAsSampled ==
    (/\ rep.wipe = "WipedAndVerified"
     /\ \E s \in Sampled(NSectors) : img[Userdata][s] # "zero")
        => faults + 2 <= MaxFaults

\* After a failed wipe nothing more is written or erased, and the verdict is
\* and stays PermanentDamage ("skips Phase 5/6/7").
FailedWipeIsFinal ==
    [][rep.wipe = "VerificationFailed" =>
        UNCHANGED <<img, written, erased>> /\ rep'.verdict = "PermanentDamage"]_vars

Recovered == pc = "done" /\ rep.verdict \in {"FullyRecovered", "PartiallyRecovered"}

\* A partition the report calls restored carries its backup, whatever was lost,
\* torn, or unreadable on the way: none is left erased or half written.
RestoredIsStock ==
    \A p \in Critical :
        rep.diag[p] = "Restored" /\ HasStock(p) => Carries(img[p], backup.stock[p])

\* A partition that mismatched before the rescue and still does not carry its
\* stock image can only go unnoticed by a recovered verdict when the second
\* audit could not read it.
UnrepairedIsSeen ==
    Recovered => \A p \in Gpt :
        rep.audit[p] = "Mismatch" /\ ~Carries(img[p], backup.stock[p])
            => rep.postAudit[p] \in {"Error", "none"}

\* Every rescue ends, in a report or in an exception.
Terminates == <>(pc \in {"done", "crashed"})
=============================================================================
