------------------------- MODULE RescueRepairProofs -------------------------
(***************************************************************************)
(* What TLAPS proves about the contents of the device and what the report  *)
(* says of them: the sparse repair, the verified restores, the verdict of  *)
(* the second audit; and that every step of a rescue is one of             *)
(* DeviceGuard's, a refinement whose mapping is the identity but for the   *)
(* report.                                                                 *)
(***************************************************************************)
EXTENDS RescueProofs

-----------------------------------------------------------------------------
(* Frame lemmas: which part of the report, and which step, a step changes.   *)

\* Each field of the report is written by the phase it is named for.
LEMMA ReportChanges ==
    ASSUME TypeOK, Next
    PROVE  /\ ~Audit => rep'.audit = rep.audit /\ rep'.diff = rep.diff
           /\ ~SparsePhase => rep'.sparse = rep.sparse
           /\ ~RestorePhase => rep'.verified = rep.verified
           /\ ~PostAudit => rep'.postAudit = rep.postAudit
           /\ ~Diagnose /\ ~PostDiagnose => rep'.diag = rep.diag
           /\ ~WipePhase => rep'.wipe = rep.wipe
           /\ ~UnmagiskPhase => rep'.vbmeta = rep.vbmeta
<1> USE DEF TypeOK, Report
<1>1. CASE EnsureDownloadMode
  BY <1>1 DEF EnsureDownloadMode
<1>2. CASE Audit
  BY <1>2 DEF Audit
<1>3. CASE Diagnose
  BY <1>3 DEF Diagnose
<1>4. CASE AuditFuses
  BY <1>4 DEF AuditFuses
<1>5. CASE SparsePhase
  <2>1. ASSUME NEW p \in Partitions, SparseRefuse(p) PROVE rep' = [rep EXCEPT !.sparse = rep'.sparse]
    BY <2>1 DEF SparseRefuse
  <2>2. ASSUME NEW p \in Partitions, SparseRepair(p) PROVE rep' = [rep EXCEPT !.sparse = rep'.sparse]
    <3>1. PICK status : rep' = [rep EXCEPT !.sparse[p] = status]
      BY <2>2 DEF SparseRepair
    <3> QED
      BY <3>1
  <2>3. ASSUME (\E p \in Partitions : SparseThrows(p)) \/ SparseDone
        PROVE rep' = [rep EXCEPT !.sparse = rep'.sparse]
    BY <2>3 DEF SparseThrows, SparseDone
  <2>4. rep' = [rep EXCEPT !.sparse = rep'.sparse]
    BY <1>5, <2>1, <2>2, <2>3 DEF SparsePhase
  <2> QED
    BY <1>5, <2>4
<1>6. CASE RestorePhase
  <2>1. rep' = [rep EXCEPT !.restore = rep'.restore, !.verified = rep'.verified]
    BY <1>6 DEF RestorePhase, RestoreDryRun, RestoreErase, RestoreWrite, RestoreVerify,
       RestoreThrows, RestoreDone, RestoreSkip, RestoreFails, RestoreBegin
  <2> QED
    BY <1>6, <2>1
<1>7. CASE WipePhase
  BY <1>7 DEF WipePhase, WipeSkip, WipeConfirm, WipeErase, WipeCheck, WipeFails
<1>8. CASE UnmagiskPhase
  BY <1>8 DEF UnmagiskPhase, UnmagiskSkip, UnmagiskBegin, ReadBoot, FlashBoot,
     FlashBootThrows, CheckBoot, RestoreVbmeta, UnmagiskDone
<1>9. CASE VerifyDryRun \/ WriteReport \/ Escapes
  BY <1>9 DEF VerifyDryRun, WriteReport, Escapes
<1>10. CASE PostAudit
  BY <1>10 DEF PostAudit
<1>11. CASE PostDiagnose
  BY <1>11 DEF PostDiagnose
<1>12. CASE Terminated
  BY <1>12 DEF Terminated, vars
<1> QED
  BY <1>1, <1>2, <1>3, <1>4, <1>5, <1>6, <1>7, <1>8, <1>9, <1>10, <1>11, <1>12 DEF Next

\* The device changes only in the four phases that write to it.
LEMMA DeviceChanges ==
    ASSUME Next
    PROVE  img' = img \/ SparsePhase \/ RestorePhase \/ WipePhase \/ UnmagiskPhase
<1>1. CASE EnsureDownloadMode \/ Audit \/ Diagnose \/ AuditFuses
  BY <1>1 DEF EnsureDownloadMode, Audit, Diagnose, AuditFuses, device
<1>2. CASE VerifyDryRun \/ PostAudit \/ PostDiagnose \/ WriteReport \/ Escapes \/ Terminated
  BY <1>2 DEF VerifyDryRun, PostAudit, PostDiagnose, WriteReport, Escapes, Terminated,
     device, vars
<1> QED
  BY <1>1, <1>2 DEF Next

\* The command line and the backup stay what they are.
LEMMA EnvironmentStays == ASSUME [Next]_vars PROVE opt' = opt /\ backup' = backup
<1> USE DEF environment
<1>1. CASE EnsureDownloadMode \/ Audit \/ Diagnose \/ AuditFuses
  BY <1>1 DEF EnsureDownloadMode, Audit, Diagnose, AuditFuses
<1>2. CASE SparsePhase
  BY <1>2 DEF SparsePhase, SparseRefuse, SparseRepair, SparseThrows, SparseDone
<1>3. CASE RestorePhase
  BY <1>3 DEF RestorePhase, RestoreDryRun, RestoreErase, RestoreWrite, RestoreVerify,
     RestoreThrows, RestoreDone, RestoreSkip, RestoreFails, RestoreBegin
<1>4. CASE WipePhase
  BY <1>4 DEF WipePhase, WipeSkip, WipeConfirm, WipeErase, WipeCheck
<1>5. CASE UnmagiskPhase
  BY <1>5 DEF UnmagiskPhase, UnmagiskSkip, UnmagiskBegin, ReadBoot, FlashBoot,
     FlashBootThrows, CheckBoot, RestoreVbmeta, UnmagiskDone
<1>6. CASE VerifyDryRun \/ PostAudit \/ PostDiagnose \/ WriteReport \/ Escapes
  BY <1>6 DEF VerifyDryRun, PostAudit, PostDiagnose, WriteReport, Escapes
<1>7. CASE Terminated \/ UNCHANGED vars
  BY <1>7 DEF Terminated, vars
<1> QED
  BY <1>1, <1>2, <1>3, <1>4, <1>5, <1>6, <1>7 DEF Next

-----------------------------------------------------------------------------
(* Stock-only writes of the sparse repair.                                   *)

\* Programming a file changes a sector only to what the file holds there.
LEMMA ProgrammedFromFile ==
    ASSUME NEW d, NEW f, NEW S, NEW s \in Sectors, Programmed(d, f, S)[s] # d[s]
    PROVE  Programmed(d, f, S)[s] = f[s]
BY DEF Programmed

\* While the pipeline is in the sparse repair, only the sparse repair runs.
LEMMA SparseSteps == ASSUME Next, pc = "sparse" PROVE SparsePhase
<1>1. ~(EnsureDownloadMode \/ Audit \/ Diagnose \/ AuditFuses)
  BY DEF EnsureDownloadMode, Audit, Diagnose, AuditFuses
<1>2. ~RestorePhase
  BY DEF RestorePhase, RestoreDryRun, RestoreErase, RestoreWrite, RestoreVerify,
     RestoreThrows, RestoreDone, RestoreSkip, RestoreFails, RestoreBegin
<1>3. ~WipePhase
  BY DEF WipePhase, WipeSkip, WipeConfirm, WipeErase, WipeCheck
<1>4. ~UnmagiskPhase
  BY DEF UnmagiskPhase, UnmagiskSkip, UnmagiskBegin, ReadBoot, FlashBoot,
     FlashBootThrows, CheckBoot, RestoreVbmeta, UnmagiskDone
<1>5. ~(VerifyDryRun \/ PostAudit \/ PostDiagnose \/ WriteReport \/ Escapes \/ Terminated)
  BY DEF VerifyDryRun, PostAudit, PostDiagnose, WriteReport, Escapes, Terminated
<1> QED
  BY <1>1, <1>2, <1>3, <1>4, <1>5 DEF Next

\* Whatever part of a repair lands, what changed is what the manifest vouches for.
LEMMA RepairWritesStock ==
    ASSUME TypeOK, NEW p \in Partitions, NEW q \in Partitions, ~Refused(p), NEW landed,
           img' = [img EXCEPT ![p] = Programmed(@, backup.stock[p], landed)],
           img'[q] # img[q]
    PROVE  /\ backup.manifest[q] # NoFile
           /\ \A s \in Sectors :
                 img'[q][s] # img[q][s] => img'[q][s] = backup.manifest[q][s]
<1>1. q = p /\ img'[q] = Programmed(img[q], backup.stock[q], landed)
  BY DEF TypeOK
<1>2. backup.manifest[q] # NoFile /\ backup.stock[q] = backup.manifest[q]
  BY <1>1 DEF Refused, VerifyStockIntegrity
<1> QED
  BY <1>1, <1>2, ProgrammedFromFile

\* The sparse repair programs nothing the manifest does not vouch for, even when
\* its writes are lost, torn or end in an exception.
THEOREM SparseStockSafe == Spec => SparseWritesStock
<1> DEFINE Vouched ==
      \A p \in Partitions : img'[p] # img[p] =>
         /\ backup.manifest[p] # NoFile
         /\ \A s \in Sectors :
               img'[p][s] # img[p][s] => img'[p][s] = backup.manifest[p][s]
<1>1. TypeOK /\ [Next]_vars => [pc = "sparse" => Vouched]_vars
  <2> SUFFICES ASSUME TypeOK, Next, pc = "sparse", NEW q \in Partitions, img'[q] # img[q]
               PROVE  /\ backup.manifest[q] # NoFile
                      /\ \A s \in Sectors :
                            img'[q][s] # img[q][s] => img'[q][s] = backup.manifest[q][s]
    OBVIOUS
  <2>1. SparsePhase
    BY SparseSteps
  <2>2. ASSUME NEW p \in Partitions, SparseRefuse(p) \/ SparseDone PROVE img' = img
    BY <2>2 DEF SparseRefuse, SparseDone, device
  <2>3. PICK p \in Partitions :
          /\ ~Refused(p)
          /\ \E landed : img' = [img EXCEPT ![p] = Programmed(@, backup.stock[p], landed)]
    BY <2>1, <2>2 DEF SparsePhase, SparseRepair, SparseThrows
  <2>4. PICK landed : img' = [img EXCEPT ![p] = Programmed(@, backup.stock[p], landed)]
    BY <2>3
  <2> QED
    BY <2>3, <2>4, RepairWritesStock
<1> QED
  BY <1>1, TypeCorrect, PTL DEF Spec, SparseWritesStock

-----------------------------------------------------------------------------
(* What the sparse repair calls repaired.                                    *)

Diagnosing == {"mode", "audit", "diagnose", "fuses"}

\* Before the sparse repair nothing is reported repaired.
RepairInv ==
    /\ pc \in Diagnosing => \A p \in Partitions : rep.sparse[p] = "none"
    /\ RepairedIsStock

\* A readback that agrees on a sector shows what the device holds there.
LEMMA VerifiedSectors ==
    ASSUME NEW p, NEW T \in SUBSET Sectors, NEW d, NEW k, NEW bad \in BOOLEAN,
           AllVerified(p, IF bad THEN Prefix(d, k) ELSE d, T), NEW s \in T
    PROVE  d[s] = backup.stock[p][s]
BY DEF AllVerified, Prefix

\* A step of the sparse repair marks repaired what carries the stock content,
\* and disturbs no partition it has repaired.
LEMMA SparseKeepsRepaired ==
    ASSUME TypeOK, RepairInv, SparsePhase PROVE RepairInv'
<1>1. pc = "sparse" /\ pc' \notin Diagnosing
  BY DEF SparsePhase, SparseRefuse, SparseRepair, SparseThrows, SparseDone, Diagnosing
<1>2. ASSUME NEW p \in Partitions, SparseRefuse(p) PROVE RepairedIsStock'
  <2> SUFFICES ASSUME ~opt.dryRun, NEW q \in Partitions, rep'.sparse[q] = "Repaired",
                      NEW s \in rep'.diff[q]
               PROVE  img'[q][s] = backup'.stock[q][s]
    BY <1>2 DEF RepairedIsStock, SparseRefuse, environment
  <2>1. rep.sparse[q] = "Repaired" /\ rep'.diff = rep.diff
    BY <1>2 DEF SparseRefuse, TypeOK, Report
  <2> QED
    BY <1>1, <1>2, <2>1 DEF RepairInv, RepairedIsStock, SparseRefuse, environment, device
<1>3. ASSUME NEW p \in Partitions, SparseRepair(p) PROVE RepairedIsStock'
  <2> SUFFICES ASSUME ~opt.dryRun, NEW q \in Partitions, rep'.sparse[q] = "Repaired",
                      NEW s \in rep'.diff[q]
               PROVE  img'[q][s] = backup'.stock[q][s]
    BY <1>3 DEF RepairedIsStock, SparseRepair, environment
  <2>1. PICK landed \in SUBSET rep.diff[p], bad \in BOOLEAN, k \in 0 .. NSectors - 1 :
          /\ img' = [img EXCEPT ![p] = Programmed(@, backup.stock[p], landed)]
          /\ rep' = [rep EXCEPT !.sparse[p] =
                        IF AllVerified(p, IF bad THEN Prefix(img'[p], k) ELSE img'[p],
                                       rep.diff[p])
                        THEN "Repaired" ELSE "VerificationFailed"]
    BY <1>3 DEF SparseRepair
  <2>2. rep'.diff = rep.diff /\ rep.diff[p] \in SUBSET Sectors /\ backup' = backup
    BY <1>3, <2>1 DEF TypeOK, Report, SparseRepair, environment
  <2>3. CASE q = p
    <3>1. AllVerified(p, IF bad THEN Prefix(img'[p], k) ELSE img'[p], rep.diff[p])
      BY <2>1, <2>3 DEF TypeOK, Report
    <3>2. s \in rep.diff[p]
      BY <2>2, <2>3
    <3>3. img'[p][s] = backup.stock[p][s]
      BY <2>2, <3>1, <3>2, VerifiedSectors, Zenon
    <3> QED
      BY <2>2, <2>3, <3>3
  <2>4. CASE q # p
    <3>1. rep.sparse[q] = "Repaired" /\ img'[q] = img[q]
      BY <2>1, <2>4 DEF TypeOK, Report
    <3> QED
      BY <1>1, <2>2, <3>1 DEF RepairInv, RepairedIsStock
  <2> QED
    BY <2>3, <2>4
<1>4. ASSUME NEW p \in Partitions, SparseThrows(p) PROVE RepairedIsStock'
  BY <1>4 DEF SparseThrows, RepairedIsStock
<1>5. ASSUME SparseDone PROVE RepairedIsStock'
  BY <1>5 DEF SparseDone, RepairedIsStock
<1>6. RepairedIsStock'
  BY <1>2, <1>3, <1>4, <1>5 DEF SparsePhase
<1> QED
  BY <1>1, <1>6 DEF RepairInv

\* No step but those of the diagnosis leads to the diagnosis or to the repair.
LEMMA SparseEntry ==
    ASSUME [Next]_vars, pc' \in Diagnosing \cup {"sparse"}, ~SparsePhase
    PROVE  pc \in Diagnosing \/ UNCHANGED <<pc, img, rep>>
<1> USE DEF Diagnosing, device
<1>1. CASE EnsureDownloadMode \/ Audit \/ Diagnose \/ AuditFuses
  BY <1>1 DEF EnsureDownloadMode, Audit, Diagnose, AuditFuses
<1>2. CASE RestorePhase
  BY <1>2 DEF RestorePhase, RestoreDryRun, RestoreErase, RestoreWrite, RestoreVerify,
     RestoreThrows, RestoreDone, RestoreSkip, RestoreFails, RestoreBegin
<1>3. CASE WipePhase
  BY <1>3 DEF WipePhase, WipeSkip, WipeConfirm, WipeErase, WipeCheck, WipeFails
<1>4. CASE UnmagiskPhase
  BY <1>4 DEF UnmagiskPhase, UnmagiskSkip, UnmagiskBegin, ReadBoot, FlashBoot,
     FlashBootThrows, CheckBoot, RestoreVbmeta, UnmagiskDone
<1>5. CASE VerifyDryRun \/ PostAudit \/ PostDiagnose \/ WriteReport \/ Escapes
  BY <1>5 DEF VerifyDryRun, PostAudit, PostDiagnose, WriteReport, Escapes
<1>6. CASE Terminated \/ UNCHANGED vars
  BY <1>6 DEF Terminated, vars
<1> QED
  BY <1>1, <1>2, <1>3, <1>4, <1>5, <1>6 DEF Next

\* Every step keeps the invariant of the sparse repair.
THEOREM RepairStep == TypeOK /\ RepairInv /\ [Next]_vars => RepairInv'
<1> SUFFICES ASSUME TypeOK, RepairInv, [Next]_vars PROVE RepairInv'
  OBVIOUS
<1>1. CASE Next /\ SparsePhase
  BY <1>1, SparseKeepsRepaired
<1>2. CASE pc' \in Diagnosing \cup {"sparse"} /\ ~SparsePhase
  <2>1. CASE UNCHANGED <<pc, img, rep>>
    BY <2>1, EnvironmentStays DEF RepairInv, RepairedIsStock
  <2>2. CASE pc \in Diagnosing
    <3>1. rep'.sparse = rep.sparse
      BY <1>2, ReportChanges DEF vars
    <3>2. \A p \in Partitions : rep'.sparse[p] = "none"
      BY <2>2, <3>1 DEF RepairInv
    <3> QED
      BY <3>2 DEF RepairInv, RepairedIsStock
  <2> QED
    BY <1>2, <2>1, <2>2, SparseEntry
<1>3. CASE pc' \notin Diagnosing \cup {"sparse"}
  BY <1>3 DEF RepairInv, RepairedIsStock
<1>4. CASE UNCHANGED vars
  BY <1>4 DEF RepairInv, RepairedIsStock, vars, environment, device
<1> QED
  BY <1>1, <1>2, <1>3, <1>4

\* The sparse repair never reports a partition repaired that does not carry the
\* stock content where the audit found it changed.
THEOREM RepairedSafe == Spec => []RepairedIsStock
<1>1. Init => RepairInv
  BY DEF Init, RepairInv, RepairedIsStock, Diagnosing, EmptyReport
<1>2. RepairInv => RepairedIsStock
  BY DEF RepairInv
<1> QED
  BY <1>1, <1>2, RepairStep, TypeCorrect, PTL DEF Spec

-----------------------------------------------------------------------------
(* What the full restore calls verified.                                     *)

FullRestore == {"restore", "erase", "write", "verify"}
UntilUnmagisk == FullRestore \cup {"wipe", "wipeErase", "wipeCheck"}

\* A partition is restored at most once, so what is verified is not touched
\* again before the Magisk removal.
RestoreInv ==
    /\ pc \in Diagnosing \cup {"sparse"} => rep.verified = {}
    /\ pc \in FullRestore => rep.verified \cap todo = {}
    /\ pc \in Restoring => cur \notin todo /\ cur \notin rep.verified
    /\ VerifiedIsStock

\* Restoring one partition leaves the others as they are.
LEMMA RestoreTouchesCur ==
    ASSUME TypeOK, RestorePhase, NEW p \in Partitions, p # cur
    PROVE  img'[p] = img[p]
BY DEF TypeOK, RestorePhase, RestoreDryRun, RestoreErase, RestoreWrite, RestoreVerify,
       RestoreThrows, RestoreDone, RestoreSkip, RestoreFails, RestoreBegin, Flash, Erase, device

\* The wipe changes no partition but userdata.
LEMMA WipeTouchesUserdata ==
    ASSUME TypeOK, WipePhase, NEW p \in Partitions, p # Userdata
    PROVE  img'[p] = img[p]
BY DEF TypeOK, WipePhase, WipeSkip, WipeConfirm, WipeErase, WipeCheck, Erase, device

\* The loop of the restore: what is next, and what it has verified.
LEMMA RestoreLoop ==
    ASSUME TypeOK, RestoreInv, RestorePhase
    PROVE  /\ pc \in FullRestore /\ pc' \in FullRestore \cup {"wipe"}
           /\ pc' \in FullRestore => rep'.verified \cap todo' = {}
           /\ pc' \in Restoring => cur' \notin todo' /\ cur' \notin rep'.verified
<1> USE DEF RestoreInv, FullRestore, Restoring
<1>1. ASSUME NEW p \in Critical, RestoreSkip(p) \/ RestoreFails(p)
      PROVE  rep'.verified = rep.verified /\ todo' \subseteq todo /\ pc' = pc
  BY <1>1 DEF RestoreSkip, RestoreFails, TypeOK, Report
<1>2. ASSUME NEW p \in Critical, RestoreBegin(p)
      PROVE  /\ rep'.verified = rep.verified /\ todo' = todo \ {p}
             /\ cur' = p /\ p \in todo
  BY <1>2 DEF RestoreBegin
<1>3. CASE RestoreErase \/ RestoreWrite \/ RestoreThrows
  BY <1>3 DEF RestoreErase, RestoreWrite, RestoreThrows, loop, TypeOK, Report
<1>4. CASE RestoreVerify
  <2>1. rep'.verified \subseteq rep.verified \cup {cur}
    BY <1>4 DEF RestoreVerify, TypeOK, Report
  <2> QED
    BY <1>4, <2>1 DEF RestoreVerify
<1>5. CASE RestoreDryRun \/ RestoreDone
  BY <1>5 DEF RestoreDryRun, RestoreDone
<1>6. ASSUME NEW p \in Critical, RestoreSkip(p) \/ RestoreFails(p) \/ RestoreBegin(p)
      PROVE  pc \in FullRestore /\ pc' \in FullRestore /\ pc = "restore"
  BY <1>6 DEF RestoreSkip, RestoreFails, RestoreBegin
<1> QED
  BY <1>1, <1>2, <1>3, <1>4, <1>5, <1>6 DEF RestorePhase, RestoreBegin

\* The readback hash is compared with the whole backup file.
LEMMA VerifiedCarries ==
    ASSUME Typed, RestoreVerify, cur \in rep'.verified, cur \notin rep.verified
    PROVE  Carries(img[cur], backup.stock[cur])
<1>1. PICK bad \in BOOLEAN, k \in 0 .. NSectors - 1 :
        rep' = [rep EXCEPT !.verified =
                   IF HashMatches(cur, Read(cur, bad, k)) THEN @ \cup {cur} ELSE @]
  BY DEF RestoreVerify
<1>2. Read(cur, bad, k) = backup.stock[cur]
  BY <1>1 DEF HashMatches, Typed, TypeOK, Report
<1>3. cur \in Partitions /\ backup.stock[cur] \in Image /\ img[cur] \in DeviceImage
  BY StockType DEF Typed, Current, RestoreVerify, Partitions, TypeOK, DeviceImage
<1>4. Read(cur, bad, k) = img[cur] \/ Read(cur, bad, k) = Prefix(img[cur], k)
  BY <1>2, <1>3, RescueAssumption, NSectorsAssumption DEF Read, BadRead
<1> QED
  BY <1>2, <1>4 DEF Carries, Prefix

\* A step of the restore leaves a verified partition with its backup.
LEMMA RestoreKeepsVerified ==
    ASSUME Typed, RestoreInv, RestorePhase PROVE VerifiedIsStock'
<1> SUFFICES ASSUME NEW p \in rep'.verified
             PROVE  Carries(img'[p], backup'.stock[p])
  BY DEF VerifiedIsStock
<1>1. backup' = backup
  BY DEF RestorePhase, RestoreDryRun, RestoreErase, RestoreWrite, RestoreVerify,
     RestoreThrows, RestoreDone, RestoreSkip, RestoreFails, RestoreBegin, environment
<1>2. CASE RestoreVerify
  <2>1. rep'.verified \subseteq rep.verified \cup {cur} /\ img' = img
    BY <1>2 DEF RestoreVerify, Typed, TypeOK, Report, device
  <2>2. CASE p \in rep.verified
    BY <1>1, <1>2, <2>1, <2>2 DEF RestoreInv, VerifiedIsStock, RestoreVerify
  <2>3. CASE p \notin rep.verified
    BY <1>1, <1>2, <2>1, <2>3, VerifiedCarries
  <2> QED
    BY <2>2, <2>3
<1>3. CASE ~RestoreVerify
  <2>1. rep'.verified = rep.verified
    BY <1>3 DEF RestorePhase, RestoreDryRun, RestoreErase, RestoreWrite, RestoreThrows,
       RestoreDone, RestoreSkip, RestoreFails, RestoreBegin, Typed, TypeOK, Report
  <2>2. p \in Partitions /\ Carries(img[p], backup.stock[p])
    BY <2>1, RestoreLoop
       DEF RestoreInv, VerifiedIsStock, FullRestore, Typed, TypeOK, Report, Partitions
  <2>3. img'[p] = img[p]
    <3>1. CASE pc \in Restoring
      BY <2>1, <2>2, <3>1, RestoreTouchesCur DEF RestoreInv, Typed
    <3>2. CASE pc \notin Restoring
      BY <3>2 DEF RestorePhase, RestoreDryRun, RestoreErase, RestoreWrite, RestoreVerify,
         RestoreThrows, RestoreDone, RestoreSkip, RestoreFails, RestoreBegin, Restoring, device
    <3> QED
      BY <3>1, <3>2
  <2> QED
    BY <1>1, <2>2, <2>3
<1> QED
  BY <1>2, <1>3

\* Every step keeps the invariant of the full restore.
THEOREM RestoreStep == Typed /\ RestoreInv /\ [Next]_vars => RestoreInv'
<1> SUFFICES ASSUME Typed, RestoreInv, [Next]_vars PROVE RestoreInv'
  OBVIOUS
<1> USE DEF FullRestore, Restoring, Diagnosing
<1>1. TypeOK
  BY DEF Typed
<1>2. CASE RestorePhase
  <2>1. VerifiedIsStock'
    BY <1>2, RestoreKeepsVerified
  <2> QED
    BY <1>1, <1>2, <2>1, RestoreLoop DEF RestoreInv
<1>3. CASE Next /\ ~RestorePhase
  <2>1. rep'.verified = rep.verified
    BY <1>1, <1>3, ReportChanges
  <2>2. CASE rep.verified = {}
    <3>1. VerifiedIsStock'
      BY <2>1, <2>2 DEF VerifiedIsStock
    <3>2. pc' \notin Restoring
      BY <1>3 DEF Next, EnsureDownloadMode, Audit, Diagnose, AuditFuses, SparsePhase,
         SparseRefuse, SparseRepair, SparseThrows, SparseDone, WipePhase, WipeSkip,
         WipeConfirm, WipeErase, WipeCheck, WipeFails, UnmagiskPhase, UnmagiskSkip,
         UnmagiskBegin, ReadBoot, FlashBoot, FlashBootThrows, CheckBoot, RestoreVbmeta,
         UnmagiskDone, VerifyDryRun, PostAudit, PostDiagnose, WriteReport, Escapes,
         Terminated, vars
    <3> QED
      BY <2>1, <2>2, <3>1, <3>2 DEF RestoreInv
  <2>3. CASE rep.verified # {}
    <3>1. CASE WipePhase
      <4>1. pc' \notin Diagnosing \cup {"sparse"} \cup FullRestore
        BY <3>1 DEF WipePhase, WipeSkip, WipeConfirm, WipeErase, WipeCheck, WipeFails
      <4>2. \A p \in rep.verified : p \in Partitions /\ p # Userdata
        BY <1>1, RescueAssumption DEF TypeOK, Report, Partitions
      <4>3. \A p \in rep.verified : Carries(img[p], backup.stock[p])
        BY <3>1 DEF RestoreInv, VerifiedIsStock, WipePhase, WipeSkip, WipeConfirm,
           WipeErase, WipeCheck
      <4>4. VerifiedIsStock'
        BY <1>1, <2>1, <3>1, <4>2, <4>3, WipeTouchesUserdata, EnvironmentStays
           DEF VerifiedIsStock
      <4> QED
        BY <4>1, <4>4 DEF RestoreInv
    <3>2. CASE ~WipePhase
      <4>1. pc \notin Diagnosing \cup {"sparse"}
        BY <2>3 DEF RestoreInv
      <4>2. pc' \notin UntilUnmagisk \cup Diagnosing \cup {"sparse"}
        BY <1>3, <3>2, <4>1 DEF UntilUnmagisk, Next, EnsureDownloadMode, Audit, Diagnose,
           AuditFuses, SparsePhase, SparseRefuse, SparseRepair, SparseThrows, SparseDone,
           UnmagiskPhase, UnmagiskSkip, UnmagiskBegin, ReadBoot, FlashBoot,
           FlashBootThrows, CheckBoot, RestoreVbmeta, UnmagiskDone, VerifyDryRun,
           PostAudit, PostDiagnose, WriteReport, Escapes, Terminated, vars
      <4> QED
        BY <4>2 DEF RestoreInv, VerifiedIsStock, UntilUnmagisk
    <3> QED
      BY <3>1, <3>2
  <2> QED
    BY <2>2, <2>3
<1>4. CASE UNCHANGED vars
  BY <1>4 DEF RestoreInv, VerifiedIsStock, vars, environment, device, loop
<1> QED
  BY <1>2, <1>3, <1>4

\* A partition whose restore is reported verified carries its whole backup file
\* until the Magisk removal, whatever the erase and the write did.
THEOREM VerifiedSafe == Spec => []VerifiedIsStock
<1>1. Init => RestoreInv
  BY DEF Init, RestoreInv, VerifiedIsStock, EmptyReport, FullRestore, Restoring
<1>2. RestoreInv => VerifiedIsStock
  BY DEF RestoreInv
<1> QED
  BY <1>1, <1>2, RestoreStep, TypedInvariant, PTL DEF Spec
-----------------------------------------------------------------------------
(* The wipe's readback.                                                      *)

AfterWipe == {"unmagisk", "postAudit", "postDiagnose"} \cup Ended

AllZero == \A s \in Sectors : img[Userdata][s] = "zero"

\* An erase that has left something has cost a fault before its readback; after a
\* wipe that was verified no Magisk removal is due, so nothing programs userdata.
WipedInv ==
    /\ pc = "wipeCheck" => AllZero \/ faults + 1 <= MaxFaults
    /\ rep.wipe = "WipedAndVerified" => pc \in AfterWipe /\ WipedAsSampled

\* The sampled sectors are sectors of the partition.
LEMMA SampledIn == Sampled(NSectors) \subseteq Sectors
BY SampledSectors, NSectorsAssumption DEF Sectors

\* A readback that nothing goes wrong with is as long as the partition.
LEMMA WholeReadback ==
    ASSUME TypeOK, NEW k PROVE Read(Userdata, FALSE, k) = img[Userdata]
                               /\ Length(img[Userdata]) = NSectors
<1>1. Userdata \in Gpt /\ Userdata \in Partitions
  BY RescueAssumption DEF Partitions
<1>2. \A s \in Sectors : img[Userdata][s] # End
  BY <1>1 DEF TypeOK, Blocks, End
<1>3. {s \in Sectors : img[Userdata][s] # End} = 1 .. NSectors
  BY <1>2 DEF Sectors
<1>4. Cardinality(1 .. NSectors) = NSectors
  BY FS_Interval, NSectorsAssumption
<1>5. Length(img[Userdata]) = NSectors
  BY <1>3, <1>4 DEF Length
<1>6. Read(Userdata, FALSE, k) = img[Userdata]
  BY <1>1 DEF Read
<1> QED
  BY <1>5, <1>6

\* A wipe that is not over is at its erase or its readback.
LEMMA WipeErased == ASSUME TypeOK, WipedInv, WipeErase PROVE WipedInv'
<1>1. PICK Z \in SUBSET Sectors, answer \in {"ACK", "NAK", "none"} :
        /\ Spend(Cost(Z # Sectors \/ answer # "ACK"))
        /\ Erase(Userdata, Z)
        /\ \/ answer = "ACK" /\ pc' = "wipeCheck" /\ UNCHANGED rep
           \/ answer = "NAK" /\ WipeFails
           \/ answer = "none" /\ pc' = "crashed" /\ UNCHANGED rep
  BY DEF WipeErase
<1>2. rep'.wipe # "WipedAndVerified"
  BY <1>1 DEF WipeErase, WipeFails, WipedInv, AfterWipe, Ended, TypeOK, Report
<1>3. CASE Z = Sectors
  <2>1. Userdata \in Partitions /\ Userdata \in DOMAIN img
    BY RescueAssumption DEF TypeOK, Partitions
  <2>2. AllZero'
    BY <1>1, <1>3, <2>1 DEF AllZero, Erase, Erased
  <2> QED
    BY <1>2, <2>2 DEF WipedInv
<1>4. CASE Z # Sectors
  <2>1. faults' + 1 <= MaxFaults
    BY <1>1, <1>4, RescueAssumption DEF Spend, Cost, TypeOK
  <2> QED
    BY <1>2, <2>1 DEF WipedInv
<1> QED
  BY <1>3, <1>4

\* A readback verifies a wipe over what was left only after a fault of its own.
LEMMA WipeChecked == ASSUME TypeOK, WipedInv, WipeCheck PROVE WipedInv'
<1> SUFFICES ASSUME rep'.wipe = "WipedAndVerified" PROVE pc' \in AfterWipe /\ WipedAsSampled'
  BY DEF WipedInv, WipeCheck, WipeFails
<1>1. rep.wipe # "WipedAndVerified" /\ pc = "wipeCheck" /\ img' = img
  BY DEF WipedInv, AfterWipe, Ended, WipeCheck, device
<1>2. ~WipeFails
  BY DEF TypeOK, Report, WipeFails
<1>3. PICK bad \in BOOLEAN, k \in Depths :
        /\ Spend(Cost(bad)) /\ pc' = "unmagisk"
        /\ NonZero(Read(Userdata, bad, k)) = {}
  BY <1>2 DEF WipeCheck
<1>4. CASE AllZero
  <2>1. \A s \in Sampled(NSectors) : img'[Userdata][s] = "zero"
    BY <1>1, <1>4, SampledIn DEF AllZero
  <2> QED
    BY <1>3, <2>1 DEF WipedAsSampled, AfterWipe
<1>5. CASE ~bad
  <2>1. NonZero(img[Userdata]) = {} /\ Length(img[Userdata]) = NSectors
    BY <1>3, <1>5, WholeReadback
  <2>2. \A s \in Sampled(NSectors) : img'[Userdata][s] = "zero"
    BY <1>1, <2>1 DEF NonZero
  <2> QED
    BY <1>3, <2>2 DEF WipedAsSampled, AfterWipe
<1>6. CASE bad /\ ~AllZero
  <2>1. faults + 1 <= MaxFaults
    BY <1>1, <1>6 DEF WipedInv
  <2>2. faults' = faults - 1
    BY <1>3, <1>6 DEF Spend, Cost
  <2>3. faults' + 2 <= MaxFaults
    BY <2>1, <2>2, RescueAssumption DEF TypeOK
  <2> QED
    BY <1>3, <2>3 DEF WipedAsSampled, AfterWipe
<1> QED
  BY <1>4, <1>5, <1>6

\* Every step of the wipe keeps WipedInv.
LEMMA WipePhaseWiped == ASSUME TypeOK, WipedInv, WipePhase PROVE WipedInv'
<1>1. ASSUME WipeSkip \/ WipeConfirm PROVE WipedInv'
  <2>1. rep.wipe # "WipedAndVerified" /\ pc' # "wipeCheck"
    BY <1>1 DEF WipedInv, AfterWipe, Ended, WipeSkip, WipeConfirm
  <2>2. rep'.wipe # "WipedAndVerified"
    BY <1>1, <2>1 DEF WipeSkip, WipeConfirm, TypeOK, Report
  <2> QED
    BY <2>1, <2>2 DEF WipedInv
<1> QED
  BY <1>1, WipeErased, WipeChecked DEF WipePhase

\* No fault is ever won back.
LEMMA FaultsFall == ASSUME TypeOK, Next PROVE faults' \in Int /\ faults' <= faults
<1> DEFINE Falls == faults' \in Int /\ faults' <= faults
<1>1. faults \in Nat /\ \A n \in Nat : Spend(n) => Falls
  BY RescueAssumption DEF TypeOK, Spend
<1>2. ASSUME faults' = faults PROVE Falls
  BY <1>1, <1>2
<1>3. \A b : Spend(Cost(b)) => Falls
  BY <1>1, CostType
<1>4. \A b, c : Spend(Cost(b) + Cost(c)) => Falls
  BY <1>1 DEF Cost
<1>5. Spend(1) => Falls
  BY <1>1
<1> HIDE DEF Spend, Cost
<1>6. CASE EnsureDownloadMode \/ Audit \/ Diagnose \/ AuditFuses
  BY <1>2, <1>3, <1>6 DEF EnsureDownloadMode, Audit, Diagnose, AuditFuses
<1>7. CASE SparsePhase
  BY <1>2, <1>4, <1>5, <1>7 DEF SparsePhase, SparseRefuse, SparseRepair, SparseThrows, SparseDone
<1>8. CASE RestorePhase
  BY <1>2, <1>3, <1>5, <1>8
     DEF RestorePhase, RestoreDryRun, RestoreErase, RestoreWrite, RestoreVerify,
         RestoreThrows, RestoreDone, RestoreSkip, RestoreFails, RestoreBegin
<1>9. CASE WipePhase
  BY <1>2, <1>3, <1>9 DEF WipePhase, WipeSkip, WipeConfirm, WipeErase, WipeCheck
<1>10. CASE UnmagiskPhase
  BY <1>2, <1>3, <1>4, <1>5, <1>10
     DEF UnmagiskPhase, UnmagiskSkip, UnmagiskBegin, ReadBoot, FlashBoot,
         FlashBootThrows, CheckBoot, RestoreVbmeta, UnmagiskDone
<1>11. CASE VerifyDryRun \/ PostAudit \/ PostDiagnose \/ WriteReport \/ Escapes
  BY <1>2, <1>3, <1>5, <1>11 DEF VerifyDryRun, PostAudit, PostDiagnose, WriteReport, Escapes
<1>12. CASE Terminated
  BY <1>2, <1>12 DEF Terminated, vars
<1> QED
  BY <1>6, <1>7, <1>8, <1>9, <1>10, <1>11, <1>12 DEF Next

\* Nothing that can follow a verified wipe changes the device.
LEMMA AfterWipeSteps ==
    ASSUME TypeOK, Next, rep.wipe = "WipedAndVerified", pc \in AfterWipe
    PROVE  img' = img /\ pc' \in AfterWipe /\ ~WipePhase
<1> USE DEF AfterWipe, Ended
<1>1. ~SparsePhase /\ ~RestorePhase /\ ~WipePhase
  BY DEF SparsePhase, SparseRefuse, SparseRepair, SparseThrows, SparseDone,
     RestorePhase, RestoreDryRun, RestoreErase, RestoreWrite, RestoreVerify,
     RestoreThrows, RestoreDone, RestoreSkip, RestoreFails, RestoreBegin,
     WipePhase, WipeSkip, WipeConfirm, WipeErase, WipeCheck
<1>2. UnmagiskPhase => UnmagiskSkip
  BY DEF UnmagiskPhase, UnmagiskBegin, UnmagiskDue, ReadBoot, FlashBoot,
     FlashBootThrows, CheckBoot, RestoreVbmeta, UnmagiskDone
<1>3. img' = img
  BY <1>1, <1>2, DeviceChanges DEF UnmagiskSkip, device
<1>4. pc' \in AfterWipe
  BY <1>1, <1>2 DEF Next, EnsureDownloadMode, Audit, Diagnose, AuditFuses, UnmagiskSkip,
     VerifyDryRun, PostAudit, PostDiagnose, WriteReport, Escapes, Terminated, vars
<1> QED
  BY <1>1, <1>3, <1>4

\* Only the wipe's erase leads to its readback.
LEMMA OnlyWipeChecks == ASSUME Next, ~WipePhase PROVE pc' # "wipeCheck"
BY DEF Next, EnsureDownloadMode, Audit, Diagnose, AuditFuses, SparsePhase, SparseRefuse,
       SparseRepair, SparseThrows, SparseDone, RestorePhase, RestoreDryRun, RestoreErase,
       RestoreWrite, RestoreVerify, RestoreThrows, RestoreDone, RestoreSkip, RestoreFails,
       RestoreBegin, UnmagiskPhase, UnmagiskSkip, UnmagiskBegin, ReadBoot, FlashBoot,
       FlashBootThrows, CheckBoot, RestoreVbmeta, UnmagiskDone, VerifyDryRun, PostAudit,
       PostDiagnose, WriteReport, Escapes, Terminated, vars

\* What has been spent twice stays spent.
LEMMA StaysSpent ==
    ASSUME NEW m \in Int, NEW n \in Int, NEW k \in Int, n <= m, m + 2 <= k
    PROVE  n + 2 <= k
OBVIOUS

\* Every step keeps what a verified wipe says of the device.
THEOREM WipedStep == TypeOK /\ WipedInv /\ [Next]_vars => WipedInv'
<1> SUFFICES ASSUME TypeOK, WipedInv, [Next]_vars PROVE WipedInv'
  OBVIOUS
<1>1. CASE UNCHANGED vars
  BY <1>1 DEF WipedInv, AllZero, WipedAsSampled, vars, device
<1>2. CASE Next /\ WipePhase
  BY <1>2, WipePhaseWiped
<1>3. CASE Next /\ ~WipePhase
  <2>1. rep'.wipe = rep.wipe
    BY <1>3, ReportChanges
  <2>2. pc' # "wipeCheck"
    BY <1>3, OnlyWipeChecks
  <2>3. CASE rep.wipe = "WipedAndVerified"
    <3>1. img' = img /\ pc' \in AfterWipe
      BY <1>3, <2>3, AfterWipeSteps DEF WipedInv
    <3>2. faults' <= faults
      BY <1>3, FaultsFall
    <3>3. faults \in Int /\ faults' \in Int /\ MaxFaults \in Int
      BY <1>3, FaultsFall, RescueAssumption DEF TypeOK
    <3>4. faults + 2 <= MaxFaults => faults' + 2 <= MaxFaults
      BY <3>2, <3>3, StaysSpent
    <3>5. WipedAsSampled
      BY <2>3 DEF WipedInv
    <3>6. WipedAsSampled'
      BY <2>3, <3>1, <3>4, <3>5, Zenon DEF WipedAsSampled
    <3> QED
      BY <2>2, <3>1, <3>6 DEF WipedInv
  <2> QED
    BY <2>1, <2>2, <2>3 DEF WipedInv
<1> QED
  BY <1>1, <1>2, <1>3

\* A wipe is reported verified over data left in the sectors it is documented to
\* sample only after two device calls have gone wrong, an erase and a readback, for
\* partitions and samples of every size and any number of faults (WipedAsSampled of
\* Rescue, for PartitionRestorer.WipeUserDataAsync).
THEOREM WipedSafe == Spec => []WipedAsSampled
<1>1. Init => WipedInv
  BY DEF Init, WipedInv, EmptyReport
<1>2. WipedInv => WipedAsSampled
  BY DEF WipedInv, WipedAsSampled
<1> QED
  BY <1>1, <1>2, WipedStep, TypeCorrect, PTL DEF Spec

-----------------------------------------------------------------------------
(* What verified boot is switched on over.                                   *)

Cleaned == {"postAudit", "postDiagnose"} \cup Ended

\* A slot is cleaned once, its boot image before its vbmeta.
VerityInv ==
    /\ rep.vbmeta # {} => pc \in Cleaning \cup Cleaned
    /\ pc \in Cleaning => rep.vbmeta \cap todo = {}
    /\ pc \in Cleaning \ {"readBoot"} => cur \notin todo /\ cur \notin rep.vbmeta
    /\ pc = "vbmeta" => Parses(img[cur]) /\ RamdiskReadable(img[cur])
    /\ VerityOverWholeBoot

\* A readback that parses and whose ramdisk can be extracted is all of the image.
LEMMA InspectedIsWhole ==
    ASSUME NEW p \in Partitions, NEW bad \in BOOLEAN, NEW k \in Depths,
           Inspected(Read(p, bad, k))
    PROVE  Parses(img[p]) /\ RamdiskReadable(img[p])
<1> DEFINE d == Read(p, bad, k)
<1>1. d = img[p] \/ d = Prefix(img[p], k)
  BY DEF Inspected, Read, BadRead
<1>2. 1 \in Sectors
  BY NSectorsAssumption DEF Sectors
<1>3. \A s \in Sectors : d[s] # End => d[s] = img[p][s]
  BY <1>1 DEF Prefix
<1>4. \A s \in Sectors : d[s] = img[p][s]
  BY <1>2, <1>3 DEF Inspected, Parses, RamdiskReadable
<1> QED
  BY <1>2, <1>4 DEF Inspected, Parses, RamdiskReadable

\* The cleaning of one slot changes that slot's boot image, or its vbmeta.
LEMMA UnmagiskTouches ==
    ASSUME Typed, UnmagiskPhase, NEW b \in BootSlots, b # cur \/ pc \notin {"flashBoot"}
    PROVE  img'[b] = img[b]
<1> USE SlotIsPartition DEF device, Typed, TypeOK, Flash
<1>1. CASE FlashBoot \/ FlashBootThrows
  BY <1>1 DEF FlashBoot, FlashBootThrows
<1>2. CASE RestoreVbmeta
  <2>1. cur \in BootSlots /\ VbmetaOf[cur] # b
    BY <1>2, RescueAssumption DEF RestoreVbmeta, Current
  <2> QED
    BY <1>2, <2>1 DEF RestoreVbmeta
<1> QED
  BY <1>1, <1>2 DEF UnmagiskPhase, UnmagiskSkip, UnmagiskBegin, ReadBoot, CheckBoot,
     UnmagiskDone

\* The loop of the cleaning: what is next, and whose vbmeta it has restored.
LEMMA UnmagiskLoop ==
    ASSUME Typed, VerityInv, UnmagiskPhase
    PROVE  /\ pc' \in Cleaning \cup Cleaned
           /\ pc' \in Cleaning => rep'.vbmeta \cap todo' = {}
           /\ pc' \in Cleaning \ {"readBoot"} => cur' \notin todo' /\ cur' \notin rep'.vbmeta
           /\ rep'.vbmeta \subseteq rep.vbmeta \cup (IF pc = "vbmeta" THEN {cur} ELSE {})
<1> USE DEF VerityInv, Cleaning, Cleaned, loop, Typed
<1>1. CASE UnmagiskSkip \/ UnmagiskBegin \/ UnmagiskDone
  BY <1>1 DEF UnmagiskSkip, UnmagiskBegin, UnmagiskDone, Ended
<1>2. ASSUME NEW b \in BootSlots, ReadBoot(b) PROVE
        /\ rep' = rep /\ b \in todo /\ todo' = todo \ {b} /\ pc = "readBoot"
        /\ pc' = "readBoot" \/ (pc' = "flashBoot" /\ cur' = b)
  BY <1>2 DEF ReadBoot
<1>3. CASE FlashBoot \/ FlashBootThrows
  BY <1>3 DEF FlashBoot, FlashBootThrows
<1>4. CASE CheckBoot
  <2>1. rep'.vbmeta = rep.vbmeta
    BY <1>4 DEF CheckBoot, TypeOK, Report
  <2> QED
    BY <1>4, <2>1 DEF CheckBoot
<1>5. CASE RestoreVbmeta
  <2>1. rep'.vbmeta \subseteq rep.vbmeta \cup {cur}
    BY <1>5 DEF RestoreVbmeta, TypeOK, Report
  <2> QED
    BY <1>5, <2>1 DEF RestoreVbmeta
<1>6. CASE \E b \in BootSlots : ReadBoot(b)
  BY <1>2, <1>6
<1> QED
  BY <1>1, <1>3, <1>4, <1>5, <1>6 DEF UnmagiskPhase

\* A step of the cleaning restores a vbmeta only of a slot whose boot image it has
\* read back whole, and leaves the boot images of those slots alone.
LEMMA UnmagiskKeepsVerity == ASSUME Typed, VerityInv, UnmagiskPhase PROVE VerityInv'
<1>1. ASSUME pc' = "vbmeta" PROVE Parses(img'[cur']) /\ RamdiskReadable(img'[cur'])
  <2>1. CheckBoot
    BY <1>1 DEF UnmagiskPhase, UnmagiskSkip, UnmagiskBegin, ReadBoot, FlashBoot,
       FlashBootThrows, RestoreVbmeta, UnmagiskDone
  <2>2. PICK bad \in BOOLEAN, k \in Depths : Inspected(Read(cur, bad, k)) /\ cur' = cur
    BY <1>1, <2>1 DEF CheckBoot
  <2>3. cur \in Partitions /\ img' = img
    BY <2>1, SlotIsPartition DEF Typed, Current, CheckBoot, device
  <2> QED
    BY <2>2, <2>3, InspectedIsWhole
<1>2. ASSUME NEW b \in rep'.vbmeta PROVE Parses(img'[b]) /\ RamdiskReadable(img'[b])
  <2>1. b \in rep.vbmeta \/ (pc = "vbmeta" /\ b = cur)
    BY <1>2, UnmagiskLoop
  <2>2. b \in BootSlots
    BY <2>1 DEF Typed, TypeOK, Current, Report
  <2>3. b # cur \/ pc # "flashBoot"
    BY <2>1 DEF VerityInv, Cleaning
  <2>4. img'[b] = img[b]
    BY <2>2, <2>3, UnmagiskTouches
  <2> QED
    BY <2>1, <2>4 DEF VerityInv, VerityOverWholeBoot
<1> QED
  BY <1>1, <1>2, UnmagiskLoop DEF VerityInv, VerityOverWholeBoot

\* Every step keeps verified boot switched on over whole boot images only.
THEOREM VerityStep == Typed /\ VerityInv /\ [Next]_vars => VerityInv'
<1> SUFFICES ASSUME Typed, VerityInv, [Next]_vars PROVE VerityInv'
  OBVIOUS
<1>1. TypeOK
  BY DEF Typed
<1>2. CASE UNCHANGED vars
  BY <1>2 DEF VerityInv, VerityOverWholeBoot, vars, device, loop
<1>3. CASE Next /\ UnmagiskPhase
  BY <1>3, UnmagiskKeepsVerity
<1>4. CASE Next /\ ~UnmagiskPhase
  <2>1. rep'.vbmeta = rep.vbmeta
    BY <1>1, <1>4, ReportChanges
  <2>2. pc' \notin Cleaning
    BY <1>4 DEF Cleaning, Next, EnsureDownloadMode, Audit, Diagnose, AuditFuses, SparsePhase,
       SparseRefuse, SparseRepair, SparseThrows, SparseDone, RestorePhase, RestoreDryRun,
       RestoreErase, RestoreWrite, RestoreVerify, RestoreThrows, RestoreDone, RestoreSkip,
       RestoreFails, RestoreBegin, WipePhase, WipeSkip, WipeConfirm, WipeErase, WipeCheck,
       WipeFails, VerifyDryRun, PostAudit, PostDiagnose, WriteReport, Escapes, Terminated,
       vars
  <2>3. CASE rep.vbmeta = {}
    BY <2>1, <2>2, <2>3 DEF VerityInv, VerityOverWholeBoot, Cleaning
  <2>4. CASE rep.vbmeta # {}
    <3>1. ~SparsePhase /\ ~RestorePhase /\ ~WipePhase
      BY <2>4 DEF VerityInv, Cleaning, Cleaned, Ended, SparsePhase, SparseRefuse,
         SparseRepair, SparseThrows, SparseDone, RestorePhase, RestoreDryRun, RestoreErase,
         RestoreWrite, RestoreVerify, RestoreThrows, RestoreDone, RestoreSkip, RestoreFails,
         RestoreBegin, WipePhase, WipeSkip, WipeConfirm, WipeErase, WipeCheck
    <3>2. img' = img
      BY <1>4, <3>1, DeviceChanges
    <3>3. pc' \in Cleaned
      BY <1>4, <2>4, <3>1 DEF VerityInv, Cleaning, Cleaned, Ended, Next, EnsureDownloadMode,
         Audit, Diagnose, AuditFuses, VerifyDryRun, PostAudit, PostDiagnose, WriteReport,
         Escapes, Terminated, vars
    <3> QED
      BY <2>1, <2>2, <3>2, <3>3 DEF VerityInv, VerityOverWholeBoot, Cleaning
  <2> QED
    BY <2>3, <2>4
<1> QED
  BY <1>2, <1>3, <1>4

\* The vbmeta the rescue reports restored, and so switches verification on by, is
\* always that of a slot whose boot image is whole, to the end of the rescue: a torn
\* boot image never ends up behind verified boot.
THEOREM VeritySafe == Spec => []VerityOverWholeBoot
<1>1. Init => VerityInv
  BY DEF Init, VerityInv, VerityOverWholeBoot, EmptyReport, Cleaning
<1>2. VerityInv => VerityOverWholeBoot
  BY DEF VerityInv
<1> QED
  BY <1>1, <1>2, VerityStep, TypedInvariant, PTL DEF Spec

-----------------------------------------------------------------------------
(* The verdict, and the refinement.                                          *)

Posted   == {"postDiagnose"} \cup Ended
Recovery == {"FullyRecovered", "PartiallyRecovered"}

\* From the second audit on the device does not change, so what the audit and
\* the second diagnosis saw still holds when the report is written.
VerdictInv ==
    /\ \A p \in Partitions : rep.audit[p] = "Mismatch" => HasStock(p)
    /\ pc \notin Posted => \A p \in Partitions : rep.postAudit[p] = "none"
    /\ \A p \in Partitions : rep.postAudit[p] = "Match" => Carries(img[p], backup.stock[p])
    /\ \A p \in Partitions : rep.postAudit[p] = "NoStockComparison" => ~HasStock(p)
    /\ rep.verdict \in Recovery => pc \in Ended /\ StillMismatched(rep) = {}
    /\ \A p \in Critical : rep.diag[p] = "Restored" =>
          pc \in Ended /\ (HasStock(p) => Carries(img[p], backup.stock[p]))

\* A read that equals the stock file, even a short one, is what the device holds.
LEMMA ReadCarries ==
    ASSUME TypeOK, NEW p \in Partitions, HasStock(p), NEW bad \in BOOLEAN, NEW k \in Depths,
           Read(p, bad, k) = backup.stock[p]
    PROVE  Carries(img[p], backup.stock[p])
<1>1. backup.stock[p] \in Image
  BY StockType
<1>2. Read(p, bad, k) = img[p] \/ Read(p, bad, k) = Prefix(img[p], k)
  BY <1>1, RescueAssumption DEF Read, BadRead
<1> QED
  BY <1>2 DEF Carries, Prefix

\* What a single entry of a GPT audit says of the read it comes from.
LEMMA AuditResult ==
    ASSUME TypeOK, NEW gptOk \in BOOLEAN, NEW bad \in SUBSET Gpt, NEW k \in Depths,
           NEW p \in Partitions
    PROVE  LET a == AuditOfAll(Sweep(Gpt, bad, k), gptOk)[p] IN
           /\ a = "Mismatch" => HasStock(p)
           /\ a = "Match" => Carries(img[p], backup.stock[p])
           /\ a = "NoStockComparison" => ~HasStock(p)
<1> DEFINE a == AuditOfAll(Sweep(Gpt, bad, k), gptOk)[p]
<1>1. a = IF gptOk /\ p \in Gpt THEN AuditOf(p, Read(p, p \in bad, k)) ELSE "none"
  BY DEF AuditOfAll, Sweep
<1>2. a = "Mismatch" => HasStock(p)
  BY <1>1 DEF AuditOf
<1>3. a = "NoStockComparison" => ~HasStock(p)
  BY <1>1 DEF AuditOf
<1>4. a = "Match" => HasStock(p) /\ Read(p, p \in bad, k) = backup.stock[p]
  BY <1>1 DEF AuditOf
<1>5. a = "Match" => Carries(img[p], backup.stock[p])
  <2>1. (p \in bad) \in BOOLEAN
    OBVIOUS
  <2> QED
    BY <1>4, <2>1, ReadCarries
<1> QED
  BY <1>2, <1>3, <1>5

\* From the second audit on nothing writes to the device.
LEMMA PostedSteps ==
    ASSUME Next, pc \in Posted
    PROVE  img' = img /\ pc' \in Posted /\ ~PostAudit /\ (pc \in Ended => pc' \in Ended)
<1> USE DEF Posted, Ended
<1>1. ~(EnsureDownloadMode \/ Audit \/ Diagnose \/ AuditFuses \/ VerifyDryRun \/ PostAudit)
  BY DEF EnsureDownloadMode, Audit, Diagnose, AuditFuses, VerifyDryRun, PostAudit
<1>2. ~SparsePhase
  BY DEF SparsePhase, SparseRefuse, SparseRepair, SparseThrows, SparseDone
<1>3. ~RestorePhase
  BY DEF RestorePhase, RestoreDryRun, RestoreErase, RestoreWrite, RestoreVerify,
     RestoreThrows, RestoreDone, RestoreSkip, RestoreFails, RestoreBegin
<1>4. ~WipePhase
  BY DEF WipePhase, WipeSkip, WipeConfirm, WipeErase, WipeCheck
<1>5. ~UnmagiskPhase
  BY DEF UnmagiskPhase, UnmagiskSkip, UnmagiskBegin, ReadBoot, FlashBoot,
     FlashBootThrows, CheckBoot, RestoreVbmeta, UnmagiskDone
<1>6. CASE PostDiagnose \/ WriteReport \/ Escapes \/ Terminated
  <2>1. img' = img /\ pc' \in Posted /\ (pc \in Ended => pc' \in Ended)
    BY <1>6 DEF PostDiagnose, WriteReport, Escapes, Terminated, device, vars
  <2> QED
    BY <1>1, <2>1
<1> QED
  BY <1>1, <1>2, <1>3, <1>4, <1>5, <1>6 DEF Next

\* The audit parts of the invariant.
LEMMA AuditStep ==
    ASSUME TypeOK, VerdictInv, Next
    PROVE  /\ \A p \in Partitions : rep'.audit[p] = "Mismatch" => HasStock(p)'
           /\ pc' \notin Posted => \A p \in Partitions : rep'.postAudit[p] = "none"
           /\ \A p \in Partitions :
                 rep'.postAudit[p] = "Match" => Carries(img'[p], backup'.stock[p])
           /\ \A p \in Partitions : rep'.postAudit[p] = "NoStockComparison" => ~HasStock(p)'
<1>1. backup' = backup
  BY EnvironmentStays
<1>2. CASE Audit
  <2>1. PICK gptOk \in BOOLEAN, bad \in SUBSET Gpt, k \in Depths :
          rep' = [rep EXCEPT !.audit = AuditOfAll(Sweep(Gpt, bad, k), gptOk), !.diff = rep'.diff]
    BY <1>2 DEF Audit, TypeOK, Report
  <2>2. rep'.audit = AuditOfAll(Sweep(Gpt, bad, k), gptOk) /\ rep'.postAudit = rep.postAudit
    BY <2>1 DEF TypeOK, Report
  <2>3. img' = img /\ pc \notin Posted
    BY <1>2 DEF Audit, device, Posted, Ended
  <2> QED
    BY <1>1, <2>2, <2>3, AuditResult DEF VerdictInv, HasStock
<1>3. CASE PostAudit
  <2>1. PICK gptOk \in BOOLEAN, bad \in SUBSET Gpt, k \in Depths :
          rep' = [rep EXCEPT !.postAudit = AuditOfAll(Sweep(Gpt, bad, k), gptOk)]
    BY <1>3 DEF PostAudit
  <2>2. rep'.audit = rep.audit /\ rep'.postAudit = AuditOfAll(Sweep(Gpt, bad, k), gptOk)
    BY <2>1 DEF TypeOK, Report
  <2>3. img' = img /\ pc' \in Posted
    BY <1>3 DEF PostAudit, device, Posted
  <2> QED
    BY <1>1, <2>2, <2>3, AuditResult DEF VerdictInv, HasStock
<1>4. CASE ~Audit /\ ~PostAudit
  <2>1. rep'.audit = rep.audit /\ rep'.postAudit = rep.postAudit
    BY <1>4, ReportChanges
  <2>2. CASE pc \in Posted
    BY <1>1, <2>1, <2>2, PostedSteps DEF VerdictInv, HasStock
  <2>3. CASE pc \notin Posted
    BY <1>1, <2>1, <2>3 DEF VerdictInv, HasStock
  <2> QED
    BY <2>2, <2>3
<1> QED
  BY <1>2, <1>3, <1>4

-----------------------------------------------------------------------------
(* The verdict and the restored partitions.                                  *)

\* Only the second diagnosis gives a recovered verdict.
LEMMA RecoveryVerdict ==
    ASSUME TypeOK, Next, ~PostDiagnose, rep'.verdict \in Recovery
    PROVE  rep'.verdict = rep.verdict
<1> USE DEF TypeOK, Report, Recovery
<1>1. CASE EnsureDownloadMode
  BY <1>1 DEF EnsureDownloadMode
<1>2. CASE Audit \/ AuditFuses \/ VerifyDryRun \/ PostAudit
  BY <1>2 DEF Audit, AuditFuses, VerifyDryRun, PostAudit
<1>3. CASE Diagnose
  BY <1>3 DEF Diagnose, DiagnosedVerdict
<1>4. CASE SparsePhase
  BY <1>4 DEF SparsePhase, SparseRefuse, SparseRepair, SparseThrows, SparseDone
<1>5. CASE RestorePhase
  BY <1>5 DEF RestorePhase, RestoreDryRun, RestoreErase, RestoreWrite, RestoreVerify,
     RestoreThrows, RestoreDone, RestoreSkip, RestoreFails, RestoreBegin
<1>6. CASE WipePhase
  BY <1>6 DEF WipePhase, WipeSkip, WipeConfirm, WipeErase, WipeCheck, WipeFails
<1>7. CASE UnmagiskPhase
  BY <1>7 DEF UnmagiskPhase, UnmagiskSkip, UnmagiskBegin, ReadBoot, FlashBoot,
     FlashBootThrows, CheckBoot, RestoreVbmeta, UnmagiskDone
<1>8. CASE WriteReport \/ Escapes \/ Terminated
  BY <1>8 DEF WriteReport, Escapes, Terminated, vars
<1> QED
  BY <1>1, <1>2, <1>3, <1>4, <1>5, <1>6, <1>7, <1>8 DEF Next

\* The second diagnosis: what it calls restored it has just read and found to
\* be the stock file, and its verdict counts what the second audit still misses.
LEMMA PostDiagnoseResult ==
    ASSUME TypeOK, PostDiagnose
    PROVE  /\ rep'.audit = rep.audit /\ rep'.postAudit = rep.postAudit
           /\ rep'.verdict \in Recovery => StillMismatched(rep') = {}
           /\ \A p \in Critical : rep'.diag[p] = "Restored" =>
                 rep.diag[p] = "Restored"
                   \/ (HasStock(p) => Carries(img[p], backup.stock[p]))
<1>1. PICK bad \in SUBSET (Critical \cap Gpt), k \in Depths, unread \in UnreadStatus :
        LET rd  == Sweep(Critical, bad, k)
            now == [p \in Critical |-> DiagnosisOf(p, rd[p], unread)]
            r   == [rep EXCEPT
                      !.diag = [p \in Critical |->
                                   IF RestoredNow(p, now) THEN "Restored" ELSE @[p]],
                      !.magisk = {p \in @ : ~RestoredNow(p, now)}]
        IN  rep' = [r EXCEPT !.verdict = PostRescueVerdict(r)]
  BY DEF PostDiagnose
<1> DEFINE now == [p \in Critical |-> DiagnosisOf(p, Sweep(Critical, bad, k)[p], unread)]
           diag == [p \in Critical |-> IF RestoredNow(p, now) THEN "Restored" ELSE rep.diag[p]]
           magisk == {p \in rep.magisk : ~RestoredNow(p, now)}
           r == [rep EXCEPT !.diag = diag, !.magisk = magisk]
           v == PostRescueVerdict(r)
<1>2. rep' = [r EXCEPT !.verdict = v]
  BY <1>1
<1>3. /\ rep'.audit = rep.audit /\ rep'.postAudit = rep.postAudit
      /\ rep'.diag = diag /\ rep'.verdict = v
      /\ r.audit = rep.audit /\ r.postAudit = rep.postAudit
  <2> HIDE DEF diag, magisk, v
  <2> QED
    BY <1>2 DEF TypeOK, Report
<1>4. v \in Recovery => StillMismatched(r) = {}
  <2> HIDE DEF r
  <2> QED
    BY DEF PostRescueVerdict, Recovery
<1>5. StillMismatched(rep') = StillMismatched(r)
  <2> HIDE DEF r
  <2> QED
    BY <1>3 DEF StillMismatched
<1>6. ASSUME NEW p \in Critical, RestoredNow(p, now)
      PROVE  HasStock(p) => Carries(img[p], backup.stock[p])
  <2>1. p \in Partitions /\ (p \in bad) \in BOOLEAN
    BY DEF Partitions
  <2>2. DiagnosisOf(p, Read(p, p \in bad, k), unread) = "Normal"
    BY <1>6 DEF RestoredNow, Sweep
  <2>3. HasStock(p) => Read(p, p \in bad, k) = backup.stock[p]
    BY <2>2 DEF DiagnosisOf, UnreadStatus
  <2> QED
    BY <2>1, <2>3, ReadCarries
<1>7. ASSUME NEW p \in Critical, rep'.diag[p] = "Restored", rep.diag[p] # "Restored"
      PROVE  RestoredNow(p, now)
  <2> HIDE DEF now
  <2> QED
    BY <1>3, <1>7
<1> QED
  <2> HIDE DEF r, v, now
  <2> QED
    BY <1>3, <1>4, <1>5, <1>6, <1>7

\* The first diagnosis calls no partition restored.
LEMMA DiagnoseResult ==
    ASSUME TypeOK, Diagnose, NEW p \in Critical PROVE rep'.diag[p] # "Restored"
<1>1. PICK bad \in SUBSET (Critical \cap Gpt), k \in Depths, unread \in UnreadStatus :
        rep'.diag[p] = DiagnosisOf(p, Sweep(Critical, bad, k)[p], unread)
  <2>1. PICK bad \in SUBSET (Critical \cap Gpt), k \in Depths, unread \in UnreadStatus :
          LET rd   == Sweep(Critical, bad, k)
              diag == [q \in Critical |-> DiagnosisOf(q, rd[q], unread)]
          IN  rep' = [rep EXCEPT
                  !.diag = diag,
                  !.magisk = {q \in MagiskChecked : HasMagisk(q, rd[q])},
                  !.verdict = DiagnosedVerdict(diag)]
    BY DEF Diagnose
  <2>2. rep'.diag = [q \in Critical |-> DiagnosisOf(q, Sweep(Critical, bad, k)[q], unread)]
    BY <2>1 DEF TypeOK, Report
  <2> QED
    BY <2>2
<1> QED
  BY <1>1 DEF DiagnosisOf, UnreadStatus

\* Every step keeps the invariant of the verification and its verdict.
THEOREM VerdictStep == TypeOK /\ VerdictInv /\ [Next]_vars => VerdictInv'
<1> SUFFICES ASSUME TypeOK, VerdictInv, [Next]_vars PROVE VerdictInv'
  OBVIOUS
<1>1. CASE UNCHANGED vars
  BY <1>1 DEF VerdictInv, StillMismatched, Carries, HasStock, vars, environment, device
<1>2. CASE Next
  <2>1. backup' = backup
    BY EnvironmentStays
  <2>2. rep'.verdict \in Recovery => pc' \in Ended /\ StillMismatched(rep') = {}
    <3>1. CASE PostDiagnose
      BY <3>1, PostDiagnoseResult DEF PostDiagnose, Ended
    <3>2. CASE ~PostDiagnose /\ rep'.verdict \in Recovery
      <4>1. pc \in Ended /\ StillMismatched(rep) = {}
        BY <1>2, <3>2, RecoveryVerdict DEF VerdictInv
      <4>2. WriteReport \/ Escapes \/ Terminated
        BY <1>2, <4>1, EndedSteps
      <4>3. rep'.audit = rep.audit /\ rep'.postAudit = rep.postAudit /\ pc' \in Ended
        BY <4>1, <4>2 DEF WriteReport, Escapes, Terminated, vars, Ended, TypeOK, Report
      <4> QED
        BY <4>1, <4>3 DEF StillMismatched
    <3> QED
      BY <3>1, <3>2
  <2>3. ASSUME NEW p \in Critical, rep'.diag[p] = "Restored"
        PROVE  pc' \in Ended /\ (HasStock(p)' => Carries(img'[p], backup'.stock[p]))
    <3>1. CASE PostDiagnose
      <4>1. img' = img /\ pc' \in Ended
        BY <3>1 DEF PostDiagnose, device, Ended
      <4> QED
        BY <2>1, <2>3, <3>1, <4>1, PostDiagnoseResult DEF VerdictInv, HasStock
    <3>2. CASE ~PostDiagnose
      <4>1. rep.diag[p] = "Restored"
        BY <1>2, <2>3, <3>2, ReportChanges, DiagnoseResult
      <4>2. pc \in Ended /\ (HasStock(p) => Carries(img[p], backup.stock[p]))
        BY <4>1 DEF VerdictInv
      <4>3. img' = img /\ pc' \in Ended
        BY <1>2, <4>2, PostedSteps DEF Posted
      <4> QED
        BY <2>1, <4>2, <4>3 DEF HasStock
    <3> QED
      BY <3>1, <3>2
  <2> QED
    BY <1>2, <2>2, <2>3, AuditStep DEF VerdictInv
<1> QED
  BY <1>1, <1>2

\* The invariant of the verification and its verdict holds throughout.
THEOREM VerdictInvariant == Spec => []VerdictInv
<1>1. Init => VerdictInv
  BY DEF Init, VerdictInv, EmptyReport, Recovery
<1> QED
  BY <1>1, VerdictStep, TypeCorrect, PTL DEF Spec

\* A partition is reported restored only with its whole backup on the device.
THEOREM RestoredSafe == Spec => []RestoredIsStock
<1>1. VerdictInv => RestoredIsStock
  BY DEF VerdictInv, RestoredIsStock
<1> QED
  BY <1>1, VerdictInvariant, PTL

\* A recovered verdict overlooks a changed partition only when the second audit
\* could not read it.
THEOREM UnrepairedSafe == Spec => []UnrepairedIsSeen
<1>1. TypeOK /\ VerdictInv => UnrepairedIsSeen
  <2> SUFFICES ASSUME TypeOK, VerdictInv, Recovered, NEW p \in Gpt,
                      rep.audit[p] = "Mismatch", ~Carries(img[p], backup.stock[p])
               PROVE  rep.postAudit[p] \in {"Error", "none"}
    BY DEF UnrepairedIsSeen
  <2>1. p \in Partitions
    BY DEF Partitions
  <2>2. rep.postAudit[p] # "Mismatch"
    BY <2>1 DEF VerdictInv, Recovered, Recovery, StillMismatched
  <2>3. rep.postAudit[p] \in AuditStatus
    BY <2>1 DEF TypeOK, Report
  <2> QED
    BY <2>1, <2>2, <2>3 DEF VerdictInv, AuditStatus
<1> QED
  BY <1>1, VerdictInvariant, TypeCorrect, PTL

-----------------------------------------------------------------------------
(* The refinement.                                                         *)

WipeFailed == rep.wipe = "VerificationFailed"

\* What a boot slot is about to be given is an image of the repacker's.
BootSource == pc = "flashBoot" => buf \in Guard!Rebuilt

-----------------------------------------------------------------------------
(* The device commands of the rescue are changes that the guard knows.       *)

LEMMA GuardSectors == Guard!Sectors = Sectors /\ Guard!End = End /\ Guard!Image = Image
BY DEF Guard!Sectors, Sectors, Guard!End, End, Guard!Image, Image, Guard!Blocks, Blocks

LEMMA GuardErases ==
    ASSUME NEW p \in Partitions, NEW Z \in SUBSET Sectors, Erase(p, Z),
           UNCHANGED confirmed, ~opt.dryRun, ~Blocked(p),
           p \in Critical \/ (p = Userdata /\ opt.wipeData /\ confirmed)
    PROVE  Guard!Erase(p)
<1>1. Guard!Erased(img[p], Z) = Erased(img[p], Z)
  BY GuardSectors DEF Guard!Erased, Erased
<1> QED
  BY <1>1, GuardSectors DEF Guard!Erase, Guard!Open, Guard!WipeAllowed, Erase, Blocked

LEMMA GuardRestores ==
    ASSUME TypeOK, NEW p \in Partitions, NEW S \in SUBSET Sectors, HasStock(p),
           img' = [img EXCEPT ![p] = Programmed(@, backup.stock[p], S)],
           UNCHANGED confirmed, ~opt.dryRun, ~Blocked(p)
    PROVE  Guard!Restore(p)
<1>1. Guard!Programmed(img[p], backup.stock[p], S) = Programmed(img[p], backup.stock[p], S)
  BY GuardSectors DEF Guard!Programmed, Programmed
<1>2. backup.stock[p] \in Image
  BY StockType
<1> QED
  BY <1>1, <1>2, GuardSectors DEF Guard!Restore, Guard!Open, Blocked

LEMMA GuardRebuilds ==
    ASSUME NEW b \in BootSlots, NEW S \in SUBSET Sectors, buf \in Guard!Rebuilt,
           img' = [img EXCEPT ![b] = Programmed(@, buf, S)],
           UNCHANGED confirmed, ~opt.dryRun
    PROVE  Guard!Rebuild(b)
<1>1. Guard!Programmed(img[b], buf, S) = Programmed(img[b], buf, S)
  BY GuardSectors DEF Guard!Programmed, Programmed
<1>2. b \notin NeverRestore
  BY RescueAssumption
<1> QED
  BY <1>1, <1>2, GuardSectors DEF Guard!Rebuild, Guard!Open

\* The image that MagiskRemover writes is one that the repacker builds.
LEMMA RepackedIsRebuilt ==
    ASSUME NEW d \in Image, NEW r \in Ramdisks
    PROVE  Repacked(d, r) \in Guard!Rebuilt
BY GuardSectors, NSectorsAssumption
   DEF Repacked, Guard!Rebuilt, Ramdisks, Sectors, End

\* Only ReadBoot fills the buffer.
LEMMA BootSourceStep == ASSUME Typed, BootSource, [Next]_vars PROVE BootSource'
<1> USE DEF BootSource, environment, device, loop
<1>1. CASE EnsureDownloadMode \/ Audit \/ Diagnose \/ AuditFuses
  BY <1>1 DEF EnsureDownloadMode, Audit, Diagnose, AuditFuses
<1>2. CASE SparsePhase
  BY <1>2 DEF SparsePhase, SparseRefuse, SparseRepair, SparseThrows, SparseDone
<1>3. CASE RestorePhase
  BY <1>3 DEF RestorePhase, RestoreDryRun, RestoreErase, RestoreWrite, RestoreVerify,
     RestoreThrows, RestoreDone, RestoreSkip, RestoreFails, RestoreBegin
<1>4. CASE WipePhase
  BY <1>4 DEF WipePhase, WipeSkip, WipeConfirm, WipeErase, WipeCheck, WipeFails
<1>5. CASE UnmagiskPhase
  <2>1. ASSUME NEW b \in BootSlots, ReadBoot(b), pc' = "flashBoot" PROVE buf' \in Guard!Rebuilt
    <3>1. PICK bad \in BOOLEAN, k \in Depths :
            LET d == Read(b, bad, k) IN
            d # Unreadable /\ \E r \in CleanRamdisks(b) : buf' = Repacked(d, r)
      BY <2>1 DEF ReadBoot
    <3>2. PICK r \in CleanRamdisks(b) : buf' = Repacked(Read(b, bad, k), r)
      BY <3>1
    <3>3. Read(b, bad, k) \in Image
      BY <3>1, ReadType, SlotIsPartition DEF Typed
    <3>4. r \in Ramdisks
      BY <3>2, RamdisksAre DEF Typed
    <3> QED
      BY <3>2, <3>3, <3>4, RepackedIsRebuilt
  <2> QED
    BY <1>5, <2>1 DEF UnmagiskPhase, UnmagiskSkip, UnmagiskBegin, FlashBoot,
       FlashBootThrows, CheckBoot, RestoreVbmeta, UnmagiskDone
<1>6. CASE VerifyDryRun \/ PostAudit \/ PostDiagnose \/ WriteReport \/ Escapes
  BY <1>6 DEF VerifyDryRun, PostAudit, PostDiagnose, WriteReport, Escapes
<1>7. CASE Terminated \/ UNCHANGED vars
  BY <1>7 DEF Terminated, vars
<1> QED
  BY <1>1, <1>2, <1>3, <1>4, <1>5, <1>6, <1>7 DEF Next

-----------------------------------------------------------------------------
(* Each phase changes the device as the guard allows.                        *)

Guarded ==
    \/ \E p \in Partitions : Guard!Erase(p) \/ Guard!Restore(p)
    \/ \E p \in BootSlots : Guard!Rebuild(p)
    \/ Guard!Confirm \/ Guard!Deliberate

LEMMA SparseGuarded == ASSUME TypeOK, SparsePhase PROVE Guarded
<1> USE DEF environment, device, loop
<1>1. ASSUME NEW p \in Partitions, SparseRefuse(p) PROVE Guard!Deliberate
  BY <1>1 DEF SparseRefuse, Guard!Deliberate
<1>2. ASSUME NEW p \in Partitions, SparseRepair(p) \/ SparseThrows(p) PROVE Guard!Restore(p)
  <2>1. rep.diff[p] \subseteq Sectors
    BY DEF TypeOK, Report
  <2>2. PICK S \in SUBSET Sectors : img' = [img EXCEPT ![p] = Programmed(@, backup.stock[p], S)]
    BY <1>2, <2>1 DEF SparseRepair, SparseThrows
  <2>3. ~opt.dryRun /\ ~Blocked(p) /\ HasStock(p) /\ UNCHANGED confirmed
    BY <1>2 DEF SparseRepair, SparseThrows, Refused
  <2> QED
    BY <2>2, <2>3, GuardRestores
<1>3. CASE SparseDone
  BY <1>3 DEF SparseDone, Guard!Deliberate, Guarded
<1> QED
  BY <1>1, <1>2, <1>3 DEF SparsePhase, Guarded

LEMMA RestoreGuarded == ASSUME Typed, Gates, RestorePhase PROVE Guarded
<1> USE DEF environment, device, loop
<1>1. TypeOK
  BY DEF Typed
<1>2. ASSUME pc \in {"erase", "write", "verify"}
      PROVE  cur \in Critical /\ cur \in Partitions /\ HasStock(cur) /\ ~Blocked(cur) /\ ~opt.dryRun
  BY <1>2 DEF Typed, Current, Gates, Control, Restoring, Partitions
<1>3. CASE RestoreErase \/ (RestoreThrows /\ pc = "erase")
  <2>1. pc = "erase" /\ UNCHANGED confirmed
    BY <1>3 DEF RestoreErase, RestoreThrows
  <2>2. PICK Z \in SUBSET Sectors : Erase(cur, Z)
    BY <1>3 DEF RestoreErase, RestoreThrows
  <2> QED
    BY <1>2, <2>1, <2>2, GuardErases DEF Guarded
<1>4. CASE RestoreWrite \/ (RestoreThrows /\ pc = "write")
  <2>1. pc = "write" /\ UNCHANGED confirmed
    BY <1>4 DEF RestoreWrite, RestoreThrows
  <2>2. PICK k \in Depths : Flash(cur, backup.stock[cur], k)
    BY <1>4 DEF RestoreWrite, RestoreThrows
  <2>3. 1 .. k \in SUBSET Sectors
    BY <2>2, NSectorsAssumption DEF Depths, Sectors
  <2> QED
    BY <1>1, <1>2, <2>1, <2>2, <2>3, GuardRestores DEF Guarded, Flash
<1>5. CASE RestoreThrows /\ pc = "verify"
  BY <1>5 DEF RestoreThrows, Guard!Deliberate, Guarded
<1>6. CASE RestoreDryRun \/ RestoreVerify \/ RestoreDone
  BY <1>6 DEF RestoreDryRun, RestoreVerify, RestoreDone, Guard!Deliberate, Guarded
<1>7. ASSUME NEW p \in Critical, RestoreSkip(p) \/ RestoreFails(p) \/ RestoreBegin(p)
      PROVE  Guard!Deliberate
  BY <1>7 DEF RestoreSkip, RestoreFails, RestoreBegin, Guard!Deliberate
<1>8. RestoreThrows => pc \in {"erase", "write", "verify"}
  BY DEF RestoreThrows
<1> QED
  BY <1>3, <1>4, <1>5, <1>6, <1>7, <1>8 DEF RestorePhase, Guarded

LEMMA WipeGuarded == ASSUME Gates, WipePhase PROVE Guarded
<1> USE DEF environment, device, loop
<1>1. CASE WipeSkip \/ WipeCheck
  BY <1>1 DEF WipeSkip, WipeCheck, Guard!Deliberate, Guarded
<1>2. CASE WipeConfirm
  BY <1>2 DEF WipeConfirm, WipeAuthorized, Guard!Confirm, Guarded
<1>3. CASE WipeErase
  <2>1. opt.wipeData /\ ~opt.dryRun /\ confirmed /\ UNCHANGED confirmed
    BY <1>3 DEF WipeErase, Gates, Control, Wiping
  <2>2. PICK Z \in SUBSET Sectors : Erase(Userdata, Z)
    BY <1>3 DEF WipeErase
  <2>3. Userdata \in Partitions /\ ~Blocked(Userdata)
    BY RescueAssumption DEF Partitions, Blocked
  <2> QED
    BY <2>1, <2>2, <2>3, GuardErases DEF Guarded
<1> QED
  BY <1>1, <1>2, <1>3 DEF WipePhase

LEMMA UnmagiskGuarded == ASSUME Typed, Gates, BootSource, UnmagiskPhase PROVE Guarded
<1> USE DEF environment, device, loop
<1>1. CASE UnmagiskSkip \/ UnmagiskBegin \/ CheckBoot \/ UnmagiskDone
  BY <1>1 DEF UnmagiskSkip, UnmagiskBegin, CheckBoot, UnmagiskDone, Guard!Deliberate, Guarded
<1>2. ASSUME NEW b \in BootSlots, ReadBoot(b) PROVE Guard!Deliberate
  BY <1>2 DEF ReadBoot, Guard!Deliberate
<1>3. CASE FlashBoot \/ FlashBootThrows
  <2>1. cur \in BootSlots /\ buf \in Guard!Rebuilt /\ ~opt.dryRun /\ UNCHANGED confirmed
    BY <1>3 DEF FlashBoot, FlashBootThrows, Gates, Control, Cleaning, BootSource
  <2>2. PICK k \in Depths : Flash(cur, buf, k)
    BY <1>3 DEF FlashBoot, FlashBootThrows
  <2>3. 1 .. k \in SUBSET Sectors
    BY <2>2, NSectorsAssumption DEF Depths, Sectors
  <2> QED
    BY <2>1, <2>2, <2>3, GuardRebuilds DEF Guarded, Flash
<1>4. CASE RestoreVbmeta
  <2> DEFINE v == VbmetaOf[cur]
  <2>1. cur \in BootSlots /\ ~opt.dryRun /\ UNCHANGED confirmed
    BY <1>4 DEF RestoreVbmeta, Gates, Control, Cleaning
  <2>2. v \in Partitions /\ ~Blocked(v)
    BY <2>1, RescueAssumption DEF Blocked
  <2>3. CASE img' = img
    BY <2>1, <2>3 DEF Guard!Deliberate, Guarded
  <2>4. CASE HasStock(v) /\ \E k \in Depths : Flash(v, backup.stock[v], k)
    <3>1. PICK k \in Depths : Flash(v, backup.stock[v], k)
      BY <2>4
    <3>2. 1 .. k \in SUBSET Sectors
      BY <3>1, NSectorsAssumption DEF Depths, Sectors
    <3> QED
      BY <2>1, <2>2, <2>4, <3>1, <3>2, GuardRestores DEF Typed, Guarded, Flash
  <2> QED
    BY <1>4, <2>3, <2>4 DEF RestoreVbmeta
<1> QED
  BY <1>1, <1>2, <1>3, <1>4 DEF UnmagiskPhase, Guarded

\* Every other step leaves the device and the operator alone.
LEMMA NextGuarded == ASSUME Typed, Gates, BootSource, Next PROVE Guarded
<1> USE DEF environment, device, loop, Guard!Deliberate
<1>1. CASE SparsePhase \/ RestorePhase \/ WipePhase \/ UnmagiskPhase
  BY <1>1, SparseGuarded, RestoreGuarded, WipeGuarded, UnmagiskGuarded DEF Typed
<1>2. CASE EnsureDownloadMode \/ Audit \/ Diagnose \/ AuditFuses
  BY <1>2 DEF EnsureDownloadMode, Audit, Diagnose, AuditFuses, Guarded
<1>3. CASE VerifyDryRun \/ PostAudit \/ PostDiagnose \/ WriteReport \/ Escapes
  BY <1>3 DEF VerifyDryRun, PostAudit, PostDiagnose, WriteReport, Escapes, Guarded
<1>4. CASE Terminated
  BY <1>4 DEF Terminated, vars, Guarded
<1> QED
  BY <1>1, <1>2, <1>3, <1>4 DEF Next

-----------------------------------------------------------------------------
GuardInv == Typed /\ Gates /\ WipeOver /\ BootSource

\* What the refinement rests on: types, gates passed, a failed wipe at the report
\* and a boot image of the repacker's in the buffer.
THEOREM GuardInvariant == Spec => []GuardInv
<1>1. Init => BootSource
  BY DEF Init, BootSource
<1>2. Typed /\ BootSource /\ [Next]_vars => BootSource'
  BY BootSourceStep
<1>3. Spec => []BootSource
  BY <1>1, <1>2, TypedInvariant, PTL DEF Spec
<1> QED
  BY <1>3, TypedInvariant, GatesInvariant, WipeOverInvariant, PTL DEF GuardInv

\* One step of the rescue is one step of the guard, or none.
THEOREM GuardStep == GuardInv /\ GuardInv' /\ [Next]_vars => [Guard!Next]_Guard!vars
<1> SUFFICES ASSUME GuardInv, GuardInv', [Next]_vars PROVE [Guard!Next]_Guard!vars
  OBVIOUS
<1>1. CASE UNCHANGED vars
  BY <1>1 DEF vars, environment, device, Guard!vars
<1>2. CASE Next /\ WipeFailed
  <2>1. WriteReport \/ Escapes \/ Terminated
    BY <1>2, EndedSteps DEF GuardInv, WipeOver, WipeFailed
  <2>2. rep'.wipe = rep.wipe /\ rep'.verdict = rep.verdict
    BY <2>1, WriteReportKeeps DEF GuardInv, Typed, Escapes, Terminated, vars
  <2> QED
    BY <2>1, <2>2 DEF WriteReport, Escapes, Terminated, vars, environment, device, Guard!vars
<1>3. CASE Next /\ ~WipeFailed
  <2>1. opt' = opt /\ backup'.stock = backup.stock
    BY EnvironmentStays
  <2>2. Guarded
    BY <1>3, NextGuarded DEF GuardInv
  <2>3. rep'.verdict \in Verdicts
    BY DEF GuardInv, Typed, TypeOK, Report
  <2>4. (WipeFailed)' => rep'.verdict = "PermanentDamage"
    BY DEF GuardInv, WipeOver, WipeFailed
  <2> QED
    BY <1>3, <2>1, <2>2, <2>3, <2>4 DEF Guard!Next, Guarded, WipeFailed
<1> QED
  BY <1>1, <1>2, <1>3

\* The rescue implements DeviceGuard.
THEOREM RescueGuarded == Spec => GuardHolds
<1>1. Init => Guard!Init
  BY DEF Init, EmptyReport, Guard!Init
<1> QED
  BY <1>1, GuardInvariant, GuardStep, PTL DEF Spec, Guard!Spec, GuardHolds
=============================================================================
