---------------------------- MODULE RescueProofs ----------------------------
(***************************************************************************)
(* What TLAPS proves of the rescue pipeline, for every GPT, backup and     *)
(* device, for partitions of any number of sectors and any number of       *)
(* faults: its types, with what the operations on partition images return, *)
(* and then the gates that every command on the device has passed.         *)
(***************************************************************************)
EXTENDS Rescue, TLAPS, FiniteSetTheorems

DeviceImage == [Sectors -> Blocks]

\* No block of a device is the end of a file.
LEMMA BlocksAreNotEnd == End \notin Blocks /\ "zero" \in Blocks
BY DEF Blocks, End

\* A device stays full of blocks, whatever part of a file lands on it.
LEMMA ProgrammedType ==
    ASSUME NEW d \in DeviceImage, NEW f \in Image, NEW S
    PROVE  Programmed(d, f, S) \in DeviceImage
BY DEF DeviceImage, Image, Programmed

\* A device stays full of blocks, whatever part of an erase lands.
LEMMA ErasedType == ASSUME NEW d \in DeviceImage, NEW Z PROVE Erased(d, Z) \in DeviceImage
BY BlocksAreNotEnd DEF DeviceImage, Erased

\* A repacked boot image is an image.
LEMMA RepackedType ==
    ASSUME NEW d \in Image, NEW r \in Blocks PROVE Repacked(d, r) \in Image
BY DEF Image, Blocks, Repacked

\* The wipe compares no more sectors than the readback has.
LEMMA SampledSectors == ASSUME NEW n \in 0 .. NSectors PROVE Sampled(n) \subseteq 1 .. n
BY RescueAssumption DEF Sampled

\* A read returns an image, or throws.
LEMMA ReadType ==
    ASSUME TypeOK, NEW p \in Partitions, NEW bad \in BOOLEAN, NEW k \in Depths
    PROVE  Read(p, bad, k) \in Image \cup {Unreadable}
<1>1. img[p] \in Image /\ Prefix(img[p], k) \in Image
  BY DEF TypeOK, Image, Prefix
<1> QED
  BY <1>1 DEF Read, BadRead

\* A device call that goes wrong is paid for within the bound.
LEMMA SpendType == ASSUME TypeOK, NEW n \in Nat, Spend(n) PROVE faults' \in 0 .. MaxFaults
BY RescueAssumption DEF TypeOK, Spend

\* The cost of a call is a natural number.
LEMMA CostType == ASSUME NEW b PROVE Cost(b) \in Nat
BY DEF Cost

\* Programming any part of an image keeps the device full of blocks.
LEMMA FlashType ==
    ASSUME TypeOK, NEW p \in Partitions, NEW f \in Image, NEW k, Flash(p, f, k)
    PROVE  img' \in [Partitions -> DeviceImage]
<1>1. img[p] \in DeviceImage
  BY DEF TypeOK, DeviceImage
<1>2. Programmed(img[p], f, 1 .. k) \in DeviceImage
  BY <1>1, ProgrammedType
<1> QED
  BY <1>2 DEF TypeOK, Flash, DeviceImage

\* Erasing any part of a partition keeps the device full of blocks.
LEMMA EraseType ==
    ASSUME TypeOK, NEW p \in Partitions, NEW Z, Erase(p, Z)
    PROVE  img' \in [Partitions -> [Sectors -> Blocks]]
<1>1. img[p] \in DeviceImage
  BY DEF TypeOK, DeviceImage
<1>2. Erased(img[p], Z) \in DeviceImage
  BY <1>1, ErasedType
<1> QED
  BY <1>2 DEF TypeOK, Erase, DeviceImage

\* A stock file of the backup is an image.
LEMMA StockType ==
    ASSUME TypeOK, NEW p \in Partitions, HasStock(p) PROVE backup.stock[p] \in Image
BY RescueAssumption DEF TypeOK, HasStock

\* The report the rescue starts with is a report.
LEMMA EmptyReportType == EmptyReport \in Report
<1>1. 0 \in 0 .. NSectors
  BY NSectorsAssumption
<1>2. /\ [p \in Partitions |-> "none"] \in [Partitions -> AuditStatus]
      /\ [p \in Partitions |-> {}] \in [Partitions -> SUBSET Sectors]
      /\ [p \in Critical |-> "none"] \in [Critical -> DiagStatus]
      /\ [p \in Partitions |-> "none"] \in [Partitions -> SparseStatus]
      /\ [p \in Critical |-> "none"] \in [Critical -> RestoreStatus]
  BY DEF AuditStatus, DiagStatus, SparseStatus, RestoreStatus
<1>3. "none" \in WipeStatus /\ "Clean" \in Verdicts
  BY DEF WipeStatus, Verdicts
<1> QED
  BY <1>1, <1>2, <1>3 DEF EmptyReport, Report

\* The initial states are typed.
LEMMA InitType == Init => TypeOK
<1> SUFFICES ASSUME Init PROVE TypeOK
  OBVIOUS
<1>1. img \in [Partitions -> [Sectors -> Blocks]]
  BY RescueAssumption DEF Init
<1>2. faults \in 0 .. MaxFaults
  BY RescueAssumption DEF Init
<1>3. rep \in Report
  BY EmptyReportType DEF Init
<1> QED
  BY <1>1, <1>2, <1>3, Zenon DEF Init, TypeOK, Steps

-----------------------------------------------------------------------------
(* One lemma per action.                                                     *)

\* Setting the verdict of a report gives a report.
LEMMA VerdictEntryType ==
    ASSUME rep \in Report, NEW v \in Verdicts, rep' = [rep EXCEPT !.verdict = v]
    PROVE  rep' \in Report
BY DEF Report

\* EnsureDownloadMode keeps the types.
LEMMA EnsureDownloadModeType == ASSUME TypeOK, EnsureDownloadMode PROVE TypeOK'
<1>1. PICK inMode \in BOOLEAN :
        IF opt.skipModeCheck \/ inMode
        THEN pc' = "audit" /\ UNCHANGED rep
        ELSE pc' = "done" /\ rep' = [rep EXCEPT !.verdict = "Aborted"]
  BY DEF EnsureDownloadMode
<1>2. rep' \in Report
  BY <1>1, VerdictEntryType DEF TypeOK, Verdicts
<1>3. pc' \in Steps
  BY <1>1 DEF Steps
<1> QED
  BY <1>2, <1>3 DEF TypeOK, EnsureDownloadMode, environment, device, loop

\* Audit keeps the types.
LEMMA AuditType == ASSUME TypeOK, Audit PROVE TypeOK'
<1>1. PICK gptOk \in BOOLEAN, bad \in SUBSET Gpt, k \in Depths :
        /\ Spend(Cost(~gptOk \/ bad # {}))
        /\ rep' = [rep EXCEPT
              !.audit = AuditOfAll(Sweep(Gpt, bad, k), gptOk),
              !.diff = [p \in Partitions |->
                           IF AuditOfAll(Sweep(Gpt, bad, k), gptOk)[p] = "Mismatch"
                           THEN DifferingSectors(Sweep(Gpt, bad, k)[p], backup.stock[p])
                           ELSE {}]]
  BY DEF Audit
<1>2. AuditOfAll(Sweep(Gpt, bad, k), gptOk) \in [Partitions -> AuditStatus]
  BY DEF AuditOfAll, AuditOf, AuditStatus
<1>3. \A dev, stk : DifferingSectors(dev, stk) \in SUBSET Sectors
  BY DEF DifferingSectors
<1>4. rep' \in Report
  BY <1>1, <1>2, <1>3 DEF TypeOK, Report
<1>5. faults' \in 0 .. MaxFaults
  BY <1>1, SpendType, CostType
<1> QED
  BY <1>4, <1>5 DEF TypeOK, Audit, Steps, environment, device, loop

\* A diagnosis has one of the diagnosis's statuses.
LEMMA DiagnosisType ==
    ASSUME NEW rd, NEW unread \in UnreadStatus
    PROVE  [p \in Critical |-> DiagnosisOf(p, rd[p], unread)] \in [Critical -> DiagStatus]
BY DEF DiagnosisOf, DiagStatus, UnreadStatus

\* Diagnose keeps the types.
LEMMA DiagnoseType == ASSUME TypeOK, Diagnose PROVE TypeOK'
<1>1. PICK bad \in SUBSET (Critical \cap Gpt), k \in Depths, unread \in UnreadStatus :
        LET rd   == Sweep(Critical, bad, k)
            diag == [p \in Critical |-> DiagnosisOf(p, rd[p], unread)]
        IN  /\ Spend(Cost(bad # {}))
            /\ rep' = [rep EXCEPT
                  !.diag = diag,
                  !.magisk = {p \in MagiskChecked : HasMagisk(p, rd[p])},
                  !.verdict = DiagnosedVerdict(diag)]
  BY DEF Diagnose
<1>2. \A diag : DiagnosedVerdict(diag) \in Verdicts
  BY DEF DiagnosedVerdict, Verdicts
<1> DEFINE diag == [p \in Critical |-> DiagnosisOf(p, Sweep(Critical, bad, k)[p], unread)]
           found == {p \in MagiskChecked : HasMagisk(p, Sweep(Critical, bad, k)[p])}
<1>3. rep' \in Report
  <2>1. diag \in [Critical -> DiagStatus] /\ found \in SUBSET MagiskChecked
    BY DiagnosisType
  <2>2. rep' = [rep EXCEPT !.diag = diag, !.magisk = found,
                           !.verdict = DiagnosedVerdict(diag)]
    BY <1>1
  <2> HIDE DEF diag, found
  <2> QED
    BY <1>2, <2>1, <2>2 DEF TypeOK, Report
<1>4. faults' \in 0 .. MaxFaults
  BY <1>1, SpendType, CostType
<1> QED
  BY <1>3, <1>4 DEF TypeOK, Diagnose, Steps, environment, device, loop

\* AuditFuses keeps the types.
LEMMA AuditFusesType == ASSUME TypeOK, AuditFuses PROVE TypeOK'
<1>1. PICK bad \in BOOLEAN :
        /\ Spend(Cost(bad))
        /\ rep' = [rep EXCEPT !.fuse = fuseBlown /\ ~bad]
  BY DEF AuditFuses
<1>2. rep' \in Report
  BY <1>1 DEF TypeOK, Report
<1>3. faults' \in 0 .. MaxFaults
  BY <1>1, SpendType, CostType
<1> QED
  BY <1>2, <1>3 DEF TypeOK, AuditFuses, Steps, environment, device

\* SparseRefuse keeps the types.
LEMMA SparseRefuseType ==
    ASSUME TypeOK, NEW p \in Partitions, SparseRefuse(p) PROVE TypeOK'
<1>1. rep' \in Report
  BY DEF TypeOK, SparseRefuse, Report, SparseStatus
<1> QED
  BY <1>1 DEF TypeOK, SparseRefuse, environment, device

\* The stock file of a partition the sparse repair does not refuse is an image,
\* so any part of it may land on the device.
LEMMA RepairImageType ==
    ASSUME TypeOK, NEW p \in Partitions, ~Refused(p), NEW landed,
           img' = [img EXCEPT ![p] = Programmed(@, backup.stock[p], landed)]
    PROVE  img' \in [Partitions -> [Sectors -> Blocks]]
<1>1. backup.stock[p] \in Image
  BY StockType DEF Refused
<1>2. Programmed(img[p], backup.stock[p], landed) \in DeviceImage
  BY <1>1, ProgrammedType DEF TypeOK, DeviceImage
<1> QED
  BY <1>2 DEF TypeOK, DeviceImage

\* SparseRepair keeps the types.
LEMMA SparseRepairType ==
    ASSUME TypeOK, NEW p \in Partitions, SparseRepair(p) PROVE TypeOK'
<1>1. PICK landed \in SUBSET rep.diff[p], bad \in BOOLEAN, k \in 0 .. NSectors - 1 :
        /\ Spend(Cost(landed # rep.diff[p]) + Cost(bad))
        /\ img' = [img EXCEPT ![p] = Programmed(@, backup.stock[p], landed)]
        /\ rep' = [rep EXCEPT !.sparse[p] =
                      IF AllVerified(p, IF bad THEN Prefix(img'[p], k) ELSE img'[p], rep.diff[p])
                      THEN "Repaired" ELSE "VerificationFailed"]
  BY DEF SparseRepair
<1>2. rep' \in Report
  BY <1>1 DEF TypeOK, Report, SparseStatus
<1>3. img' \in [Partitions -> [Sectors -> Blocks]]
  BY <1>1, RepairImageType DEF SparseRepair
<1>4. faults' \in 0 .. MaxFaults
  <2>1. Cost(landed # rep.diff[p]) + Cost(bad) \in Nat
    BY CostType
  <2> QED
    BY <1>1, <2>1, SpendType
<1>5. written' \subseteq Partitions /\ todo' \subseteq Partitions
  BY DEF TypeOK, SparseRepair
<1> QED
  BY <1>2, <1>3, <1>4, <1>5 DEF TypeOK, SparseRepair, environment

\* SparseThrows keeps the types.
LEMMA SparseThrowsType ==
    ASSUME TypeOK, NEW p \in Partitions, SparseThrows(p) PROVE TypeOK'
<1>1. img' \in [Partitions -> [Sectors -> Blocks]]
  BY RepairImageType DEF SparseThrows
<1>2. faults' \in 0 .. MaxFaults
  BY SpendType DEF SparseThrows
<1> QED
  BY <1>1, <1>2 DEF TypeOK, SparseThrows, Steps, environment, loop

\* SparseDone keeps the types.
LEMMA SparseDoneType == ASSUME TypeOK, SparseDone PROVE TypeOK'
BY DEF TypeOK, SparseDone, Steps, Tampered, Partitions, environment, device

\* RestoreDryRun keeps the types.
LEMMA RestoreDryRunType == ASSUME TypeOK, RestoreDryRun PROVE TypeOK'
<1>1. rep' \in Report
  BY DEF TypeOK, RestoreDryRun, Report, RestoreStatus
<1> QED
  BY <1>1 DEF TypeOK, RestoreDryRun, Steps, environment, device

\* A restore action is entered in the report under the partition's name.
LEMMA RestoreEntryType ==
    ASSUME rep \in Report, NEW p \in Critical, NEW st \in RestoreStatus,
           rep' = [rep EXCEPT !.restore[p] = st]
    PROVE  rep' \in Report
BY DEF Report

\* RestoreSkip keeps the types.
LEMMA RestoreSkipType == ASSUME TypeOK, NEW p \in Critical, RestoreSkip(p) PROVE TypeOK'
<1>1. rep' \in Report
  BY RestoreEntryType DEF TypeOK, RestoreSkip, RestoreStatus
<1> QED
  BY <1>1 DEF TypeOK, RestoreSkip, environment, device

\* RestoreFails keeps the types.
LEMMA RestoreFailsType ==
    ASSUME TypeOK, NEW p \in Critical, RestoreFails(p) PROVE TypeOK'
<1>1. rep' \in Report
  BY RestoreEntryType DEF TypeOK, RestoreFails, RestoreStatus
<1>2. faults' \in 0 .. MaxFaults
  BY SpendType DEF RestoreFails
<1> QED
  BY <1>1, <1>2 DEF TypeOK, RestoreFails, environment, device

\* RestoreBegin keeps the types.
LEMMA RestoreBeginType == ASSUME TypeOK, NEW p \in Critical, RestoreBegin(p) PROVE TypeOK'
<1>1. faults' \in 0 .. MaxFaults
  BY SpendType, CostType DEF RestoreBegin
<1>2. p \in Partitions /\ saved' \subseteq Partitions
  BY DEF TypeOK, RestoreBegin, Partitions
<1> QED
  BY <1>1, <1>2 DEF TypeOK, RestoreBegin, Steps, environment, device

\* While a partition is restored, cur is that partition, and it has a backup;
\* while a boot slot is cleaned, cur is that slot.
Current ==
    /\ pc \in {"erase", "write", "verify"} => cur \in Critical /\ HasStock(cur)
    /\ pc \in {"flashBoot", "checkBoot", "vbmeta"} => cur \in BootSlots
    /\ pc = "flashBoot" => buf \in Image

Typed == TypeOK /\ Current

\* RestoreErase keeps the types.
LEMMA RestoreEraseType == ASSUME Typed, RestoreErase PROVE TypeOK'
<1>1. cur \in Critical /\ cur \in Partitions
  BY DEF Typed, Current, RestoreErase, Partitions
<1>2. rep' \in Report
  BY <1>1, RestoreEntryType DEF Typed, TypeOK, RestoreErase, RestoreStatus
<1>3. img' \in [Partitions -> [Sectors -> Blocks]]
  BY <1>1, EraseType DEF Typed, RestoreErase
<1>4. faults' \in 0 .. MaxFaults
  BY SpendType, CostType DEF Typed, RestoreErase
<1> QED
  BY <1>1, <1>2, <1>3, <1>4 DEF Typed, TypeOK, RestoreErase, Steps, environment, loop

\* RestoreWrite keeps the types.
LEMMA RestoreWriteType == ASSUME Typed, RestoreWrite PROVE TypeOK'
<1>1. cur \in Critical /\ cur \in Partitions /\ backup.stock[cur] \in Image
  BY StockType DEF Typed, Current, RestoreWrite, Partitions
<1>2. rep' \in Report
  BY <1>1, RestoreEntryType DEF Typed, TypeOK, RestoreWrite, RestoreStatus
<1>3. img' \in [Partitions -> [Sectors -> Blocks]]
  BY <1>1, FlashType DEF Typed, RestoreWrite, DeviceImage
<1>4. faults' \in 0 .. MaxFaults
  BY SpendType, CostType DEF Typed, RestoreWrite
<1> QED
  BY <1>1, <1>2, <1>3, <1>4 DEF Typed, TypeOK, RestoreWrite, Steps, environment, loop

\* RestoreVerify keeps the types.
LEMMA RestoreVerifyType == ASSUME Typed, RestoreVerify PROVE TypeOK'
<1>1. cur \in Critical
  BY DEF Typed, Current, RestoreVerify
<1>2. PICK bad \in BOOLEAN, k \in 0 .. NSectors - 1 :
        /\ Spend(Cost(bad))
        /\ rep' = [rep EXCEPT !.verified =
                      IF HashMatches(cur, Read(cur, bad, k)) THEN @ \cup {cur} ELSE @]
  BY DEF RestoreVerify
<1>3. rep' \in Report
  BY <1>1, <1>2 DEF Typed, TypeOK, Report
<1>4. faults' \in 0 .. MaxFaults
  BY <1>2, SpendType, CostType DEF Typed
<1> QED
  BY <1>3, <1>4 DEF Typed, TypeOK, RestoreVerify, Steps, environment, device

\* RestoreThrows keeps the types.
LEMMA RestoreThrowsType == ASSUME Typed, RestoreThrows PROVE TypeOK'
<1>1. cur \in Critical /\ cur \in Partitions /\ backup.stock[cur] \in Image
  BY StockType DEF Typed, Current, RestoreThrows, Partitions
<1>2. rep' \in Report
  BY <1>1, RestoreEntryType DEF Typed, TypeOK, RestoreThrows, RestoreStatus
<1>3. img' \in [Partitions -> [Sectors -> Blocks]]
  BY <1>1, FlashType, EraseType DEF Typed, TypeOK, RestoreThrows, DeviceImage
<1>4. faults' \in 0 .. MaxFaults
  BY SpendType DEF Typed, RestoreThrows
<1>5. erased' \subseteq Partitions /\ written' \subseteq Partitions
  BY <1>1 DEF Typed, TypeOK, RestoreThrows
<1> QED
  BY <1>1, <1>2, <1>3, <1>4, <1>5 DEF Typed, TypeOK, RestoreThrows, Steps, environment

\* RestoreDone keeps the types.
LEMMA RestoreDoneType == ASSUME TypeOK, RestoreDone PROVE TypeOK'
BY DEF TypeOK, RestoreDone, Steps, environment, device, loop

\* A wipe result is entered in the report, with a verdict when it failed.
LEMMA WipeEntryType ==
    ASSUME rep \in Report, NEW st \in WipeStatus, rep' = [rep EXCEPT !.wipe = st]
    PROVE  rep' \in Report
BY DEF Report

\* A failed wipe leaves a typed report.
LEMMA WipeFailsType ==
    ASSUME rep \in Report, WipeFails PROVE rep' \in Report /\ pc' \in Steps
BY DEF WipeFails, Report, WipeStatus, Verdicts, Steps

\* WipeSkip keeps the types.
LEMMA WipeSkipType == ASSUME TypeOK, WipeSkip PROVE TypeOK'
<1>1. rep' \in Report
  BY DEF TypeOK, WipeSkip, Report, WipeStatus
<1> QED
  BY <1>1 DEF TypeOK, WipeSkip, Steps, environment, device, loop

\* WipeConfirm keeps the types.
LEMMA WipeConfirmType == ASSUME TypeOK, WipeConfirm PROVE TypeOK'
<1>1. PICK typed \in BOOLEAN :
        /\ confirmed' = typed
        /\ IF TokenMatches(typed)
           THEN pc' = "wipeErase" /\ UNCHANGED rep
           ELSE /\ rep' = [rep EXCEPT !.wipe = "ConfirmationFailed"]
                /\ pc' = "unmagisk"
  BY DEF WipeConfirm
<1>2. rep' \in Report
  BY <1>1, WipeEntryType DEF TypeOK, WipeStatus
<1>3. pc' \in Steps /\ confirmed' \in BOOLEAN
  BY <1>1 DEF Steps
<1> QED
  BY <1>2, <1>3 DEF TypeOK, WipeConfirm, environment, device, loop

\* WipeErase keeps the types.
LEMMA WipeEraseType == ASSUME TypeOK, WipeErase PROVE TypeOK'
<1>1. PICK Z \in SUBSET Sectors, answer \in {"ACK", "NAK", "none"} :
        /\ Spend(Cost(Z # Sectors \/ answer # "ACK"))
        /\ Erase(Userdata, Z)
        /\ \/ answer = "ACK" /\ pc' = "wipeCheck" /\ UNCHANGED rep
           \/ answer = "NAK" /\ WipeFails
           \/ answer = "none" /\ pc' = "crashed" /\ UNCHANGED rep
  BY DEF WipeErase
<1>2. Userdata \in Partitions
  BY RescueAssumption DEF Partitions
<1>3. img' \in [Partitions -> [Sectors -> Blocks]]
  BY <1>1, <1>2, EraseType
<1>4. rep' \in Report /\ pc' \in Steps
  BY <1>1, WipeFailsType DEF TypeOK, Steps
<1>5. faults' \in 0 .. MaxFaults
  BY <1>1, SpendType, CostType
<1> QED
  BY <1>2, <1>3, <1>4, <1>5 DEF TypeOK, WipeErase, environment, loop

\* WipeCheck keeps the types.
LEMMA WipeCheckType == ASSUME TypeOK, WipeCheck PROVE TypeOK'
<1>1. PICK bad \in BOOLEAN, k \in Depths :
        LET r == Read(Userdata, bad, k) IN
        /\ Spend(Cost(bad))
        /\ IF r = Unreadable \/ NonZero(r) # {}
           THEN WipeFails
           ELSE rep' = [rep EXCEPT !.wipe = "WipedAndVerified"] /\ pc' = "unmagisk"
  BY DEF WipeCheck
<1>2. rep' \in Report /\ pc' \in Steps
  <2>1. CASE WipeFails
    BY <2>1, WipeFailsType DEF TypeOK
  <2>2. CASE rep' = [rep EXCEPT !.wipe = "WipedAndVerified"] /\ pc' = "unmagisk"
    BY <2>2 DEF TypeOK, Report, WipeStatus, Steps
  <2> QED
    BY <1>1, <2>1, <2>2
<1>3. faults' \in 0 .. MaxFaults
  BY <1>1, SpendType, CostType
<1> QED
  BY <1>2, <1>3 DEF TypeOK, WipeCheck, environment, device, loop

\* Entering, skipping and leaving the Magisk removal keep the types.
LEMMA UnmagiskMovesType ==
    ASSUME TypeOK, UnmagiskSkip \/ UnmagiskBegin \/ UnmagiskDone PROVE TypeOK'
BY RescueAssumption
   DEF TypeOK, UnmagiskSkip, UnmagiskBegin, UnmagiskDone, Partitions, Steps,
       environment, device, loop

\* What a boot image is repacked with is one of the ramdisks of Ramdisks.
LEMMA RamdisksAre ==
    ASSUME TypeOK, NEW b \in BootSlots PROVE CleanRamdisks(b) \subseteq Ramdisks
<1>1. backup.ramdisk[b] \in Ramdisks \cup {NoFile}
  BY RescueAssumption DEF TypeOK
<1> QED
  BY <1>1 DEF CleanRamdisks, Ramdisks

\* ReadBoot keeps the types.
LEMMA ReadBootType ==
    ASSUME TypeOK, NEW b \in BootSlots, ReadBoot(b)
    PROVE  TypeOK' /\ (pc' = "flashBoot" => buf' \in Image)
<1>1. PICK bad \in BOOLEAN, k \in Depths :
        LET d == Read(b, bad, k) IN
        /\ Spend(Cost(bad))
        /\ IF d # Unreadable /\ MagiskDetected(d) /\ CleanRamdisks(b) # {}
           THEN /\ \E r \in CleanRamdisks(b) : buf' = Repacked(d, r)
                /\ saved' = saved \cup {b}
                /\ cur' = b
                /\ pc' = "flashBoot"
           ELSE UNCHANGED <<pc, cur, buf, saved>>
  BY DEF ReadBoot
<1> DEFINE d == Read(b, bad, k)
<1>2. b \in Partitions
  BY RescueAssumption DEF Partitions
<1>3. CleanRamdisks(b) \subseteq Blocks
  BY RamdisksAre DEF Ramdisks, Blocks
<1>4. CASE d # Unreadable /\ MagiskDetected(d) /\ CleanRamdisks(b) # {}
  <2>1. PICK r \in CleanRamdisks(b) : buf' = Repacked(d, r)
    BY <1>1, <1>4
  <2>2. d \in Image
    BY <1>2, <1>4, ReadType
  <2>3. buf' \in Image
    BY <1>3, <2>1, <2>2, RepackedType
  <2>4. saved' \subseteq Partitions /\ cur' \in Partitions /\ pc' \in Steps
    BY <1>1, <1>2, <1>4 DEF TypeOK, Steps
  <2>5. faults' \in 0 .. MaxFaults
    BY <1>1, SpendType, CostType
  <2> QED
    BY <2>3, <2>4, <2>5 DEF TypeOK, ReadBoot, environment, device
<1>5. CASE ~(d # Unreadable /\ MagiskDetected(d) /\ CleanRamdisks(b) # {})
  <2>1. UNCHANGED <<pc, cur, buf, saved>>
    BY <1>1, <1>5
  <2>2. faults' \in 0 .. MaxFaults
    BY <1>1, SpendType, CostType
  <2> QED
    BY <2>1, <2>2 DEF TypeOK, ReadBoot, environment, device
<1> QED
  BY <1>4, <1>5

\* The boot slots are partitions.
LEMMA SlotIsPartition == BootSlots \subseteq Partitions
BY RescueAssumption DEF Partitions

\* FlashBoot keeps the types.
LEMMA FlashBootType == ASSUME Typed, FlashBoot \/ FlashBootThrows PROVE TypeOK'
<1>1. cur \in Partitions /\ buf \in Image
  BY SlotIsPartition DEF Typed, Current, FlashBoot, FlashBootThrows
<1>2. img' \in [Partitions -> [Sectors -> Blocks]]
  BY <1>1, FlashType DEF Typed, FlashBoot, FlashBootThrows, DeviceImage
<1>3. faults' \in 0 .. MaxFaults
  BY SpendType, CostType DEF Typed, FlashBoot, FlashBootThrows
<1>4. written' \subseteq Partitions
  BY <1>1 DEF Typed, TypeOK, FlashBoot, FlashBootThrows
<1> QED
  BY <1>1, <1>2, <1>3, <1>4
     DEF Typed, TypeOK, FlashBoot, FlashBootThrows, Steps, environment, loop

\* CheckBoot keeps the types.
LEMMA CheckBootType == ASSUME Typed, CheckBoot PROVE TypeOK'
<1>1. PICK bad \in BOOLEAN, k \in Depths :
        LET d == Read(cur, bad, k) IN
        /\ Spend(Cost(bad))
        /\ rep' = [rep EXCEPT !.removed = IF MagiskRemoved(d) THEN @ \cup {cur} ELSE @]
        /\ IF Inspected(d)
           THEN pc' = "vbmeta" /\ UNCHANGED cur
           ELSE pc' = "readBoot" /\ cur' = NoPartition
  BY DEF CheckBoot
<1>2. cur \in BootSlots
  BY DEF Typed, Current, CheckBoot
<1>3. rep' \in Report
  BY <1>1, <1>2 DEF Typed, TypeOK, Report
<1>4. faults' \in 0 .. MaxFaults
  BY <1>1, SpendType, CostType DEF Typed
<1>5. pc' \in Steps /\ cur' \in Partitions \cup {NoPartition}
  BY <1>1 DEF Typed, TypeOK, Steps
<1> QED
  BY <1>3, <1>4, <1>5 DEF Typed, TypeOK, CheckBoot, environment, device

\* RestoreVbmeta keeps the types.
LEMMA RestoreVbmetaType == ASSUME Typed, RestoreVbmeta PROVE TypeOK'
<1> DEFINE v == VbmetaOf[cur]
<1>1. PICK bad \in BOOLEAN, throws \in BOOLEAN, j \in Depths, k \in Depths :
        LET d == Read(v, bad, j) IN
        /\ Spend(Cost(bad) + Cost(k # NSectors \/ throws))
        /\ IF d # Unreadable /\ VerificationDisabled(d) /\ HasStock(v)
           THEN /\ Flash(v, backup.stock[v], k)
                /\ written' = written \cup {v}
                /\ rep' = [rep EXCEPT !.vbmeta = IF throws THEN @ ELSE @ \cup {cur}]
           ELSE ~throws /\ k = NSectors /\ UNCHANGED <<img, written, rep>>
  BY DEF RestoreVbmeta
<1>2. cur \in BootSlots /\ v \in Partitions
  BY RescueAssumption DEF Typed, Current, RestoreVbmeta
<1>3. faults' \in 0 .. MaxFaults
  <2>1. Cost(bad) + Cost(k # NSectors \/ throws) \in Nat
    BY CostType
  <2> QED
    BY <1>1, <2>1, SpendType DEF Typed
<1>4. CASE /\ HasStock(v) /\ Flash(v, backup.stock[v], k)
           /\ written' = written \cup {v}
           /\ rep' = [rep EXCEPT !.vbmeta = IF throws THEN @ ELSE @ \cup {cur}]
  <2>1. backup.stock[v] \in Image
    BY <1>2, <1>4, StockType DEF Typed
  <2>2. img' \in [Partitions -> [Sectors -> Blocks]]
    BY <1>2, <1>4, <2>1, FlashType DEF Typed, DeviceImage
  <2>3. rep' \in Report
    BY <1>2, <1>4 DEF Typed, TypeOK, Report
  <2>4. written' \subseteq Partitions
    BY <1>2, <1>4 DEF Typed, TypeOK
  <2> QED
    BY <1>3, <2>2, <2>3, <2>4 DEF Typed, TypeOK, RestoreVbmeta, Steps, environment
<1>5. CASE UNCHANGED <<img, written, rep>>
  BY <1>3, <1>5 DEF Typed, TypeOK, RestoreVbmeta, Steps, environment
<1> QED
  BY <1>1, <1>4, <1>5

\* VerifyDryRun keeps the types.
LEMMA VerifyDryRunType == ASSUME TypeOK, VerifyDryRun PROVE TypeOK'
BY DEF TypeOK, VerifyDryRun, Steps, environment, device, loop

\* PostAudit keeps the types.
LEMMA PostAuditType == ASSUME TypeOK, PostAudit PROVE TypeOK'
<1>1. PICK gptOk \in BOOLEAN, bad \in SUBSET Gpt, k \in Depths :
        /\ Spend(Cost(~gptOk \/ bad # {}))
        /\ rep' = [rep EXCEPT !.postAudit = AuditOfAll(Sweep(Gpt, bad, k), gptOk)]
  BY DEF PostAudit
<1>2. AuditOfAll(Sweep(Gpt, bad, k), gptOk) \in [Partitions -> AuditStatus]
  BY DEF AuditOfAll, AuditOf, AuditStatus
<1>3. rep' \in Report
  BY <1>1, <1>2 DEF TypeOK, Report
<1>4. faults' \in 0 .. MaxFaults
  BY <1>1, SpendType, CostType
<1> QED
  BY <1>3, <1>4 DEF TypeOK, PostAudit, Steps, environment, device, loop

\* PostDiagnose keeps the types.
LEMMA PostDiagnoseType == ASSUME TypeOK, PostDiagnose PROVE TypeOK'
<1>1. PICK bad \in SUBSET (Critical \cap Gpt), k \in Depths, unread \in UnreadStatus :
        LET rd  == Sweep(Critical, bad, k)
            now == [p \in Critical |-> DiagnosisOf(p, rd[p], unread)]
            r   == [rep EXCEPT
                      !.diag = [p \in Critical |->
                                   IF RestoredNow(p, now) THEN "Restored" ELSE @[p]],
                      !.magisk = {p \in @ : ~RestoredNow(p, now)}]
        IN  /\ Spend(Cost(bad # {}))
            /\ rep' = [r EXCEPT !.verdict = PostRescueVerdict(r)]
  BY DEF PostDiagnose
<1> DEFINE now == [p \in Critical |-> DiagnosisOf(p, Sweep(Critical, bad, k)[p], unread)]
           diag == [p \in Critical |-> IF RestoredNow(p, now) THEN "Restored" ELSE rep.diag[p]]
           magisk == {p \in rep.magisk : ~RestoredNow(p, now)}
           r == [rep EXCEPT !.diag = diag, !.magisk = magisk]
<1>2. diag \in [Critical -> DiagStatus] /\ magisk \in SUBSET MagiskChecked
  BY DEF TypeOK, Report, DiagStatus
<1>3. r \in Report
  <2> HIDE DEF diag, magisk
  <2> QED
    BY <1>2 DEF TypeOK, Report
<1>4. PostRescueVerdict(r) \in Verdicts
  BY DEF PostRescueVerdict, Verdicts
<1>5. rep' = [r EXCEPT !.verdict = PostRescueVerdict(r)]
  BY <1>1
<1>6. rep' \in Report
  <2> HIDE DEF r
  <2> QED
    BY <1>3, <1>4, <1>5 DEF Report
<1>7. faults' \in 0 .. MaxFaults
  BY <1>1, SpendType, CostType
<1> QED
  BY <1>6, <1>7 DEF TypeOK, PostDiagnose, Steps, environment, device, loop

\* WriteReport keeps the types.
LEMMA WriteReportType == ASSUME TypeOK, WriteReport PROVE TypeOK'
<1>1. rep' \in Report
  BY DEF TypeOK, WriteReport, Report
<1> QED
  BY <1>1 DEF TypeOK, WriteReport, Steps, environment, device, loop

\* Escapes keeps the types.
LEMMA EscapesType == ASSUME TypeOK, Escapes PROVE TypeOK'
<1>1. faults' \in 0 .. MaxFaults
  BY SpendType DEF Escapes
<1> QED
  BY <1>1 DEF TypeOK, Escapes, Steps, environment, device, loop

-----------------------------------------------------------------------------
\* Every step keeps the types.
LEMMA NextType == ASSUME Typed, Next PROVE TypeOK'
<1>1. TypeOK
  BY DEF Typed
<1>2. CASE SparsePhase
  BY <1>1, <1>2, SparseRefuseType, SparseRepairType, SparseThrowsType, SparseDoneType
     DEF SparsePhase
<1>3. CASE RestorePhase
  BY <1>1, <1>3, RestoreDryRunType, RestoreSkipType, RestoreFailsType, RestoreBeginType,
     RestoreEraseType, RestoreWriteType, RestoreVerifyType, RestoreThrowsType, RestoreDoneType
     DEF RestorePhase
<1>4. CASE WipePhase
  BY <1>1, <1>4, WipeSkipType, WipeConfirmType, WipeEraseType, WipeCheckType DEF WipePhase
<1>5. CASE UnmagiskPhase
  BY <1>1, <1>5, UnmagiskMovesType, ReadBootType, FlashBootType, CheckBootType,
     RestoreVbmetaType
     DEF UnmagiskPhase
<1>6. CASE Terminated
  BY <1>1, <1>6
     DEF Terminated, TypeOK, vars, environment, device, loop
<1> QED
  BY <1>1, <1>2, <1>3, <1>4, <1>5, <1>6, EnsureDownloadModeType, AuditType, DiagnoseType,
     AuditFusesType, VerifyDryRunType, PostAuditType, PostDiagnoseType, WriteReportType,
     EscapesType
     DEF Next

\* Every step keeps the current partition set where the pipeline uses it.
LEMMA NextCurrent == ASSUME Typed, Next PROVE Current'
<1> USE DEF Current, HasStock, environment, device, loop
<1>1. TypeOK
  BY DEF Typed
<1>2. CASE SparsePhase
  BY <1>2 DEF SparsePhase, SparseRefuse, SparseRepair, SparseThrows, SparseDone
<1>3. CASE RestorePhase
  BY <1>3 DEF Typed, RestorePhase, RestoreDryRun, RestoreErase, RestoreWrite, RestoreVerify,
     RestoreThrows, RestoreDone, RestoreSkip, RestoreFails, RestoreBegin
<1>4. CASE WipePhase
  BY <1>4 DEF WipePhase, WipeSkip, WipeConfirm, WipeErase, WipeCheck, WipeFails
<1>5. CASE UnmagiskPhase
  <2>1. ASSUME NEW b \in BootSlots, ReadBoot(b) PROVE Current'
    BY <1>1, <2>1, ReadBootType DEF ReadBoot
  <2> QED
    BY <1>5, <2>1 DEF Typed, UnmagiskPhase, UnmagiskSkip, UnmagiskBegin, FlashBoot,
       FlashBootThrows, CheckBoot, RestoreVbmeta, UnmagiskDone
<1>6. CASE EnsureDownloadMode \/ Audit \/ Diagnose \/ AuditFuses
  BY <1>6 DEF EnsureDownloadMode, Audit, Diagnose, AuditFuses
<1>7. CASE VerifyDryRun \/ PostAudit \/ PostDiagnose \/ WriteReport \/ Escapes
  BY <1>7 DEF VerifyDryRun, PostAudit, PostDiagnose, WriteReport, Escapes
<1>8. CASE Terminated
  BY <1>8 DEF Typed, Terminated, vars
<1> QED
  BY <1>2, <1>3, <1>4, <1>5, <1>6, <1>7, <1>8 DEF Next

\* The types with the current partition are inductive.
THEOREM TypedStep == Typed /\ [Next]_vars => Typed'
<1>1. CASE Next
  BY <1>1, NextType, NextCurrent DEF Typed
<1>2. ASSUME Typed, UNCHANGED vars PROVE Typed'
  BY <1>2 DEF Typed, TypeOK, Current, HasStock, vars, environment, device, loop
<1> QED
  BY <1>1, <1>2

\* The types and the current partition hold throughout.
THEOREM TypedInvariant == Spec => []Typed
<1>1. Init => Typed
  BY InitType DEF Init, Typed, Current
<1> QED
  BY <1>1, TypedStep, PTL DEF Spec

\* Every variable of the pipeline, the whole report included, keeps its type; in
\* particular the device never holds the End of a file that is shorter than its
\* partition.
THEOREM TypeCorrect == Spec => []TypeOK
BY TypedInvariant, PTL DEF Typed

-----------------------------------------------------------------------------
(* The gates.                                                              *)

BeforeWipe == {"mode", "audit", "diagnose", "fuses", "sparse", "restore",
               "erase", "write", "verify", "wipe"}
Restoring == {"erase", "write", "verify"}
Cleaning  == {"readBoot", "flashBoot", "checkBoot", "vbmeta"}
Wiping    == {"wipeErase", "wipeCheck"}

\* What holds at each step of the pipeline, whatever the device does: the gates
\* passed on the way to a device call are still true when the call is made.
Control ==
    /\ pc \in Restoring => cur \in Critical /\ ~Blocked(cur) /\ ~opt.dryRun
    /\ pc \in Cleaning => ~opt.dryRun
    /\ pc \in Cleaning \ {"readBoot"} => cur \in BootSlots
    /\ pc \in Wiping => opt.wipeData /\ ~opt.dryRun /\ confirmed
    /\ pc \in BeforeWipe => Userdata \notin erased

Gates == Control /\ DryRunTouchesNothing /\ BlocklistHolds /\ WipeGated

\* No gate is passed in the initial state: nothing is erased or written yet.
THEOREM GatesInit == Init => Gates
BY RescueAssumption
   DEF Init, Gates, Control, DryRunTouchesNothing, BlocklistHolds, WipeGated,
       Restoring, Cleaning, Wiping, BeforeWipe

\* No phase passes a gate it should not: each erase or write of the rescue keeps
\* the dry-run, blocklist and wipe gates, and where the pipeline stands tells
\* which of their checks have been made.
THEOREM GatesStep == Gates /\ [Next]_vars => Gates'
<1> SUFFICES ASSUME Gates, [Next]_vars PROVE Gates'
  OBVIOUS
<1> USE RescueAssumption
    DEF Gates, Control, DryRunTouchesNothing, BlocklistHolds, WipeGated,
        Restoring, Cleaning, Wiping, BeforeWipe, Blocked,
        environment, device, loop
<1>1. CASE EnsureDownloadMode \/ Audit \/ Diagnose \/ AuditFuses
  BY <1>1 DEF EnsureDownloadMode, Audit, Diagnose, AuditFuses
<1>2. CASE SparsePhase
  <2>1. ASSUME NEW p \in Partitions, SparseRefuse(p) PROVE Gates'
    BY <2>1 DEF SparseRefuse
  <2>2. ASSUME NEW p \in Partitions, SparseRepair(p) PROVE Gates'
    BY <2>2 DEF SparseRepair, Refused
  <2>3. ASSUME NEW p \in Partitions, SparseThrows(p) PROVE Gates'
    BY <2>3 DEF SparseThrows, Refused
  <2>4. CASE SparseDone
    BY <2>4 DEF SparseDone
  <2> QED
    BY <1>2, <2>1, <2>2, <2>3, <2>4 DEF SparsePhase
<1>3. CASE RestorePhase
  <2>1. CASE RestoreDryRun
    BY <2>1 DEF RestoreDryRun
  <2>2. CASE RestoreErase
    BY <2>2 DEF RestoreErase
  <2>3. CASE RestoreWrite
    BY <2>3 DEF RestoreWrite
  <2>4. CASE RestoreVerify
    BY <2>4 DEF RestoreVerify
  <2>5. CASE RestoreThrows
    BY <2>5 DEF RestoreThrows
  <2>6. CASE RestoreDone
    BY <2>6 DEF RestoreDone
  <2>7. ASSUME NEW p \in Critical, RestoreSkip(p) PROVE Gates'
    BY <2>7 DEF RestoreSkip
  <2>8. ASSUME NEW p \in Critical, RestoreBegin(p) PROVE Gates'
    BY <2>8 DEF RestoreBegin
  <2>9. ASSUME NEW p \in Critical, RestoreFails(p) PROVE Gates'
    BY <2>9 DEF RestoreFails
  <2> QED
    BY <1>3, <2>1, <2>2, <2>3, <2>4, <2>5, <2>6, <2>7, <2>8, <2>9 DEF RestorePhase
<1>4. CASE WipePhase
  <2>1. CASE WipeSkip
    BY <2>1 DEF WipeSkip
  <2>2. CASE WipeConfirm
    BY <2>2 DEF WipeConfirm, WipeAuthorized, TokenMatches
  <2>3. CASE WipeErase
    BY <2>3 DEF WipeErase, WipeFails
  <2>4. CASE WipeCheck
    BY <2>4 DEF WipeCheck, WipeFails
  <2> QED
    BY <1>4, <2>1, <2>2, <2>3, <2>4 DEF WipePhase
<1>5. CASE UnmagiskPhase
  <2>1. CASE UnmagiskSkip
    BY <2>1 DEF UnmagiskSkip
  <2>2. CASE UnmagiskBegin
    BY <2>2 DEF UnmagiskBegin, UnmagiskDue
  <2>3. CASE FlashBoot
    BY <2>3 DEF FlashBoot
  <2>4. CASE FlashBootThrows
    BY <2>4 DEF FlashBootThrows
  <2>5. CASE CheckBoot
    BY <2>5 DEF CheckBoot
  <2>6. CASE RestoreVbmeta
    BY <2>6 DEF RestoreVbmeta
  <2>7. CASE UnmagiskDone
    BY <2>7 DEF UnmagiskDone
  <2>8. ASSUME NEW b \in BootSlots, ReadBoot(b) PROVE Gates'
    BY <2>8 DEF ReadBoot
  <2> QED
    BY <1>5, <2>1, <2>2, <2>3, <2>4, <2>5, <2>6, <2>7, <2>8 DEF UnmagiskPhase
<1>6. CASE VerifyDryRun \/ PostAudit \/ PostDiagnose \/ WriteReport
  BY <1>6 DEF VerifyDryRun, PostAudit, PostDiagnose, WriteReport
<1>7. CASE Escapes
  BY <1>7 DEF Escapes
<1>8. CASE Terminated \/ UNCHANGED vars
  BY <1>8 DEF Terminated, vars
<1> QED
  BY <1>1, <1>2, <1>3, <1>4, <1>5, <1>6, <1>7, <1>8 DEF Next

\* The gates of the rescue hold throughout.
THEOREM GatesInvariant == Spec => []Gates
BY GatesInit, GatesStep, PTL DEF Spec

\* A dry run neither erases nor programs any partition, in any phase, on any
\* device, whatever goes wrong.
THEOREM DryRunSafe == Spec => []DryRunTouchesNothing
BY GatesInvariant, PTL DEF Gates

\* No phase erases or programs a partition of _neverRestore without --force.
THEOREM BlocklistSafe == Spec => []BlocklistHolds
BY GatesInvariant, PTL DEF Gates

\* Userdata is erased only with --wipe-data, in a live run, after the typed
\* confirmation.
THEOREM WipeSafe == Spec => []WipeGated
BY GatesInvariant, PTL DEF Gates

-----------------------------------------------------------------------------
(* A failed wipe ends the rescue.                                            *)

\* Only the wipe enters a wipe result in the report.
LEMMA OnlyWipeReportsWipe ==
    ASSUME TypeOK, Next, ~WipePhase PROVE rep'.wipe = rep.wipe
<1> USE DEF TypeOK, Report
<1>1. CASE EnsureDownloadMode
  BY <1>1 DEF EnsureDownloadMode
<1>2. CASE Audit
  BY <1>2 DEF Audit
<1>3. CASE Diagnose
  BY <1>3 DEF Diagnose
<1>4. CASE AuditFuses
  BY <1>4 DEF AuditFuses
<1>5. CASE SparsePhase
  BY <1>5 DEF SparsePhase, SparseRefuse, SparseRepair, SparseThrows, SparseDone
<1>6. CASE RestorePhase
  BY <1>6 DEF RestorePhase, RestoreDryRun, RestoreErase, RestoreWrite, RestoreVerify,
     RestoreThrows, RestoreDone, RestoreSkip, RestoreFails, RestoreBegin
<1>7. CASE UnmagiskPhase
  BY <1>7 DEF UnmagiskPhase, UnmagiskSkip, UnmagiskBegin, ReadBoot, FlashBoot,
     FlashBootThrows, CheckBoot, RestoreVbmeta, UnmagiskDone
<1>8. CASE VerifyDryRun \/ WriteReport \/ Escapes
  BY <1>8 DEF VerifyDryRun, WriteReport, Escapes
<1>9. CASE PostAudit
  BY <1>9 DEF PostAudit
<1>10. CASE PostDiagnose
  BY <1>10 DEF PostDiagnose
<1>11. CASE Terminated
  BY <1>11 DEF Terminated, vars
<1> QED
  BY <1>1, <1>2, <1>3, <1>4, <1>5, <1>6, <1>7, <1>8, <1>9, <1>10, <1>11 DEF Next

Ended == {"report", "done", "crashed"}

\* Once the report is due, nothing else happens.
LEMMA EndedSteps ==
    ASSUME Next, pc \in Ended PROVE WriteReport \/ Escapes \/ Terminated
<1> USE DEF Ended
<1>1. ~(EnsureDownloadMode \/ Audit \/ Diagnose \/ AuditFuses)
  BY DEF EnsureDownloadMode, Audit, Diagnose, AuditFuses
<1>2. ~SparsePhase
  BY DEF SparsePhase, SparseRefuse, SparseRepair, SparseThrows, SparseDone
<1>3. ~RestorePhase
  BY DEF RestorePhase, RestoreDryRun, RestoreErase, RestoreWrite, RestoreVerify,
     RestoreThrows, RestoreDone, RestoreSkip, RestoreFails, RestoreBegin
<1>4. ~WipePhase
  BY DEF WipePhase, WipeSkip, WipeConfirm, WipeErase, WipeCheck
<1>5. ~UnmagiskPhase
  BY DEF UnmagiskPhase, UnmagiskSkip, UnmagiskBegin, ReadBoot, FlashBoot,
     FlashBootThrows, CheckBoot, RestoreVbmeta, UnmagiskDone
<1>6. ~(VerifyDryRun \/ PostAudit \/ PostDiagnose)
  BY DEF VerifyDryRun, PostAudit, PostDiagnose
<1> QED
  BY <1>1, <1>2, <1>3, <1>4, <1>5, <1>6 DEF Next

WipeOver ==
    rep.wipe = "VerificationFailed" => pc \in Ended /\ rep.verdict = "PermanentDamage"

\* Saving the report leaves its verdict and its wipe result alone.
LEMMA WriteReportKeeps ==
    ASSUME TypeOK, WriteReport PROVE rep'.wipe = rep.wipe /\ rep'.verdict = rep.verdict
BY DEF TypeOK, WriteReport, Report

\* A failed wipe sends the rescue to its report with the verdict PermanentDamage.
LEMMA WipeFailsEnds ==
    ASSUME TypeOK, WipeFails PROVE pc' \in Ended /\ rep'.verdict = "PermanentDamage"
BY DEF TypeOK, WipeFails, Report, Ended

\* The steps of the wipe keep a failed wipe the end of the rescue.
LEMMA WipeStepOver == ASSUME TypeOK, WipeOver, WipePhase PROVE WipeOver'
<1>1. rep.wipe # "VerificationFailed"
  BY DEF WipeOver, Ended, WipePhase, WipeSkip, WipeConfirm, WipeErase, WipeCheck
<1>2. CASE WipeSkip
  <2>1. rep'.wipe # "VerificationFailed"
    BY <1>2 DEF TypeOK, WipeSkip, Report
  <2> QED
    BY <2>1 DEF WipeOver
<1>3. CASE WipeConfirm
  <2>1. rep' = rep \/ rep' = [rep EXCEPT !.wipe = "ConfirmationFailed"]
    BY <1>3 DEF WipeConfirm
  <2>2. rep'.wipe # "VerificationFailed"
    BY <1>1, <2>1 DEF TypeOK, Report
  <2> QED
    BY <2>2 DEF WipeOver
<1>4. CASE WipeErase
  <2>1. rep' = rep \/ WipeFails
    BY <1>4 DEF WipeErase
  <2> QED
    BY <1>1, <2>1, WipeFailsEnds DEF WipeOver
<1>5. CASE WipeCheck
  <2>1. WipeFails \/ rep' = [rep EXCEPT !.wipe = "WipedAndVerified"]
    BY <1>5 DEF WipeCheck
  <2>2. CASE WipeFails
    BY <2>2, WipeFailsEnds DEF WipeOver
  <2>3. CASE rep' = [rep EXCEPT !.wipe = "WipedAndVerified"]
    <3>1. rep'.wipe # "VerificationFailed"
      BY <2>3 DEF TypeOK, Report
    <3> QED
      BY <3>1 DEF WipeOver
  <2> QED
    BY <2>1, <2>2, <2>3
<1> QED
  BY <1>2, <1>3, <1>4, <1>5 DEF WipePhase

\* Every step keeps a failed wipe the end of the rescue.
THEOREM WipeOverStep == TypeOK /\ WipeOver /\ [Next]_vars => WipeOver'
<1> SUFFICES ASSUME TypeOK, WipeOver, [Next]_vars PROVE WipeOver'
  OBVIOUS
<1>1. CASE UNCHANGED vars
  BY <1>1 DEF WipeOver, vars
<1>2. CASE Next /\ WipePhase
  BY <1>2, WipeStepOver
<1>3. CASE Next /\ ~WipePhase
  <2>1. rep'.wipe = rep.wipe
    BY <1>3, OnlyWipeReportsWipe
  <2>2. CASE rep.wipe = "VerificationFailed"
    <3>1. WriteReport \/ Escapes \/ Terminated
      BY <1>3, <2>2, EndedSteps DEF WipeOver
    <3>2. rep'.verdict = rep.verdict /\ pc' \in Ended
      BY <2>2, <3>1, WriteReportKeeps
         DEF WipeOver, WriteReport, Escapes, Terminated, vars, Ended
    <3> QED
      BY <2>2, <3>2 DEF WipeOver
  <2> QED
    BY <2>1, <2>2 DEF WipeOver
<1> QED
  BY <1>1, <1>2, <1>3

\* A rescue whose wipe failed is at its report, with the verdict PermanentDamage.
THEOREM WipeOverInvariant == Spec => []WipeOver
<1>1. Init => WipeOver
  BY DEF Init, WipeOver, EmptyReport
<1> QED
  BY <1>1, WipeOverStep, TypeCorrect, PTL DEF Spec

\* After a wipe that failed, the rescue touches no partition again and reports
\* PermanentDamage.
THEOREM FailedWipeSafe == Spec => FailedWipeIsFinal
<1>1. TypeOK /\ WipeOver /\ [Next]_vars =>
        [rep.wipe = "VerificationFailed" =>
            UNCHANGED <<img, written, erased>> /\ rep'.verdict = "PermanentDamage"]_vars
  <2> SUFFICES ASSUME TypeOK, WipeOver, Next, rep.wipe = "VerificationFailed"
               PROVE  UNCHANGED <<img, written, erased>> /\ rep'.verdict = "PermanentDamage"
    OBVIOUS
  <2>1. WriteReport \/ Escapes \/ Terminated
    BY EndedSteps DEF WipeOver
  <2>2. UNCHANGED <<img, written, erased>>
    BY <2>1 DEF WriteReport, Escapes, Terminated, vars, device
  <2>3. rep'.verdict = "PermanentDamage"
    BY <2>1, WriteReportKeeps DEF WipeOver, Escapes, Terminated, vars
  <2> QED
    BY <2>2, <2>3
<1> QED
  BY <1>1, WipeOverInvariant, TypeCorrect, PTL DEF Spec, FailedWipeIsFinal
=============================================================================
