-------------------------- MODULE RestoreStockProofs --------------------------
(* What a Restored run of restore-stock means for every device, every content  *)
(* of /data/adb and every number of faults.                                    *)
EXTENDS RestoreStock, FiniteSetTheorems, TLAPS

(* ------------------------------- the types ------------------------------- *)

\* A call that fails or does not counts at most one fault, within the bound.
LEMMA FaultTypes ==
    ASSUME faults \in 0 .. MaxFaults
    PROVE  Fault \/ NoFault \/ Fails => faults' \in 0 .. MaxFaults
BY StockAssumption DEF Fault, NoFault, Fails

LEMMA CommandCount == DOMAIN Commands = 1 .. 5
BY DEF Commands

LEMMA LocationsAre ==
    /\ Flash \subseteq Locations /\ Recovery \subseteq Locations /\ Verification \subseteq Locations
    /\ {"connect", "analyse", "restart", "waitAgain", "done"} \subseteq Locations
BY DEF Locations

\* The run goes on, or ends with one of the results.
LEMMA GoesToTypes ==
    ASSUME HostOK, NEW l \in Locations, GoesTo(l)
    PROVE  pc' \in Locations /\ status' \in Statuses
BY DEF GoesTo, HostOK

LEMMA FinishesTypes ==
    ASSUME NEW s \in Statuses, Finishes(s)
    PROVE  pc' \in Locations /\ status' \in Statuses
BY LocationsAre DEF Finishes

LEMMA CleanEndsTypes ==
    ASSUME HostOK, NEW b \in BOOLEAN, CleanEnds(b)
    PROVE  pc' \in Locations /\ status' \in Statuses /\ report' \in Reports
<1>1. GoesTo("restart") /\ report' \in Reports
  BY DEF CleanEnds, HostOK, Reports
<1>2. "restart" \in Locations
  BY LocationsAre
<1> QED BY <1>1, <1>2, GoesToTypes

\* No flash result brings an image of another kind.
LEMMA FlashTypes ==
    ASSUME NEW old \in Images, NEW known \in BOOLEAN, NEW r \in FlashResults(old, known)
    PROVE  r.image \in Images /\ r.ok \in BOOLEAN /\ r.faults \in {0, 1}
<1>1. CASE r = [image |-> "stock", ok |-> TRUE, faults |-> 0]
  BY <1>1 DEF Images
<1>2. CASE r = [image |-> old, ok |-> FALSE, faults |-> 0]
  BY <1>2
<1>3. CASE r \in [image : {old, "torn"}, ok : BOOLEAN, faults : {1}]
  <2>1. r.image \in {old, "torn"} /\ r.ok \in BOOLEAN /\ r.faults \in {1}
    BY <1>3
  <2> QED BY <2>1 DEF Images
<1>4. r \in {[image |-> "stock", ok |-> TRUE, faults |-> 0],
            [image |-> old, ok |-> FALSE, faults |-> 0]}
        \/ r \in [image : {old, "torn"}, ok : BOOLEAN, faults : {1}]
  BY DEF FlashResults
<1> QED BY <1>1, <1>2, <1>3, <1>4

LEMMA FlashedTypes ==
    ASSUME TypeOK, NEW r, r.faults \in {0, 1}, NEW l \in Locations, Flashed(r, l)
    PROVE  pc' \in Locations /\ status' \in Statuses /\ faults' \in 0 .. MaxFaults
<1>1. faults' \in 0 .. MaxFaults
  BY StockAssumption DEF Flashed, TypeOK
<1>2. "FlashFailed" \in Statuses /\ "Failed" \in Statuses
  BY DEF Statuses
<1>3. GoesTo(l) \/ Finishes("FlashFailed") \/ Finishes("Failed")
  BY DEF Flashed
<1>4. HostOK
  BY DEF TypeOK
<1>5. CASE GoesTo(l)
  BY <1>1, <1>4, <1>5, GoesToTypes
<1>6. CASE Finishes("FlashFailed")
  BY <1>1, <1>2, <1>6, FinishesTypes
<1>7. CASE Finishes("Failed")
  BY <1>1, <1>2, <1>7, FinishesTypes
<1> QED BY <1>3, <1>5, <1>6, <1>7

\* A step of the host keeps the types of what it changes.
LEMMA FlashPhaseTypes ==
    ASSUME TypeOK,
           RebootBootloader \/ ConnectFastboot \/ FlashBoot \/ FlashVbmeta \/ FastbootReboot \/ WaitForDevice
    PROVE  TypeOK'
<1> USE GoesToTypes, FinishesTypes, FaultTypes DEF TypeOK
<1>0. /\ {"fastboot", "flashBoot", "flashVbmeta", "reboot", "wait", "recovery"} \subseteq Locations
      /\ {"FlashFailed", "Failed"} \subseteq Statuses
      /\ {"system", "bootloader", "recovery"} \subseteq Modes
  BY LocationsAre DEF Flash, Recovery, Statuses, Modes, AdbModes
<1>1. CASE RebootBootloader
  <2>1. pc' \in Locations /\ status' \in Statuses
    BY <1>0, <1>1 DEF RebootBootloader
  <2>2. goal' \in Modes \cup {"none"}
    BY <1>0, <1>1 DEF RebootBootloader, Asks, DeviceOK
  <2> QED BY <1>1, <2>1, <2>2 DEF RebootBootloader, HostOK, DeviceOK
<1>2. CASE ConnectFastboot
  <2>1. pc' \in Locations /\ status' \in Statuses
    BY <1>0, <1>2 DEF ConnectFastboot
  <2>2. faults' \in 0 .. MaxFaults
    BY <1>2 DEF ConnectFastboot
  <2> QED BY <1>2, <2>1, <2>2 DEF ConnectFastboot, Silent, device, HostOK, DeviceOK
<1>3. CASE FlashBoot
  <2>1. PICK r \in FlashResults(boot, suffix = Suffix) : Flashed(r, "flashVbmeta") /\ boot' = r.image
    BY <1>3 DEF FlashBoot
  <2>2. r.image \in Images /\ r.faults \in {0, 1}
    BY FlashTypes DEF DeviceOK
  <2>3. pc' \in Locations /\ status' \in Statuses /\ faults' \in 0 .. MaxFaults
    BY <1>0, <2>1, <2>2, FlashedTypes
  <2> QED BY <1>3, <2>1, <2>2, <2>3 DEF FlashBoot, HostOK, DeviceOK
<1>4. CASE FlashVbmeta
  <2>1. PICK r \in FlashResults(vbmeta, ~env.ab) : Flashed(r, "reboot") /\ vbmeta' = r.image
    BY <1>4 DEF FlashVbmeta
  <2>2. r.image \in Images /\ r.faults \in {0, 1}
    BY FlashTypes DEF DeviceOK
  <2>3. pc' \in Locations /\ status' \in Statuses /\ faults' \in 0 .. MaxFaults
    BY <1>0, <2>1, <2>2, FlashedTypes
  <2> QED BY <1>4, <2>1, <2>2, <2>3 DEF FlashVbmeta, HostOK, DeviceOK
<1>5. CASE FastbootReboot
  <2>1. pc' \in Locations /\ status' \in Statuses
    BY <1>0, <1>5 DEF FastbootReboot
  <2>2. goal' \in Modes \cup {"none"}
    BY <1>0, <1>5 DEF FastbootReboot, Asks, DeviceOK
  <2> QED BY <1>5, <2>1, <2>2 DEF FastbootReboot, HostOK, DeviceOK
<1>6. CASE WaitForDevice
  <2>1. pc' \in Locations /\ status' \in Statuses
    BY <1>0, <1>6 DEF WaitForDevice
  <2>2. report' \in Reports
    BY <1>6 DEF WaitForDevice, Reports, HostOK
  <2> QED BY <1>6, <2>1, <2>2 DEF WaitForDevice, device, HostOK, DeviceOK
<1> QED BY <1>1, <1>2, <1>3, <1>4, <1>5, <1>6

LEMMA CleanPhaseTypes ==
    ASSUME TypeOK, RebootRecovery \/ ConnectRecovery \/ Clean \/ CheckClean \/ RebootSystem \/ WaitAgain
    PROVE  TypeOK'
<1> USE GoesToTypes, FinishesTypes, CleanEndsTypes, FaultTypes DEF TypeOK
<1>0. /\ {"connectRecovery", "clean", "waitAgain", "verifyBoot"} \subseteq Locations
      /\ "Partial" \in Statuses /\ {"system", "recovery"} \subseteq Modes
  BY LocationsAre DEF Recovery, Verification, Statuses, Modes, AdbModes
<1>1. CASE RebootRecovery
  <2>1. pc' \in Locations /\ status' \in Statuses /\ report' \in Reports
    BY <1>0, <1>1 DEF RebootRecovery, HostOK
  <2>2. goal' \in Modes \cup {"none"}
    BY <1>0, <1>1 DEF RebootRecovery, Asks, DeviceOK
  <2> QED BY <1>1, <2>1, <2>2 DEF RebootRecovery, HostOK, DeviceOK
<1>2. CASE ConnectRecovery
  <2>1. pc' \in Locations /\ status' \in Statuses /\ report' \in Reports
    BY <1>0, <1>2 DEF ConnectRecovery, HostOK
  <2>2. faults' \in 0 .. MaxFaults
    BY <1>2 DEF ConnectRecovery
  <2> QED BY <1>2, <2>1, <2>2 DEF ConnectRecovery, device, HostOK, DeviceOK
<1>3. CASE Clean
  <2>1. step' \in 1 .. 6
    <3>1. step \in 1 .. 5
      BY <1>3, CommandCount DEF Clean
    <3>2. step' = step \/ step' = step + 1
      BY <1>3 DEF Clean
    <3> QED BY <3>1, <3>2
  <2>2. data' \subseteq Entries
    BY <1>3 DEF Clean, DeviceOK
  <2>3. faults' \in 0 .. MaxFaults
    BY <1>3 DEF Clean
  <2>4. pc' \in Locations /\ status' \in Statuses /\ report' \in Reports
    BY <1>0, <1>3 DEF Clean, HostOK
  <2> QED BY <1>3, <2>1, <2>2, <2>3, <2>4 DEF Clean, HostOK, DeviceOK
<1>4. CASE CheckClean
  <2>1. IsClean(Listing) \in BOOLEAN /\ IsClean("nothing") \in BOOLEAN
    BY DEF IsClean
  <2>2. pc' \in Locations /\ status' \in Statuses /\ report' \in Reports
    BY <1>4, <2>1 DEF CheckClean
  <2>3. faults' \in 0 .. MaxFaults
    BY <1>4 DEF CheckClean
  <2> QED BY <1>4, <2>2, <2>3 DEF CheckClean, device, HostOK, DeviceOK
<1>5. CASE RebootSystem
  <2>1. pc' \in Locations /\ status' \in Statuses
    BY <1>0, <1>5 DEF RebootSystem
  <2>2. goal' \in Modes \cup {"none"}
    BY <1>0, <1>5 DEF RebootSystem, Asks, DeviceOK
  <2> QED BY <1>5, <2>1, <2>2 DEF RebootSystem, HostOK, DeviceOK
<1>6. CASE WaitAgain
  <2>1. pc' \in Locations /\ status' \in Statuses
    BY <1>0, <1>6 DEF WaitAgain
  <2> QED BY <1>6, <2>1 DEF WaitAgain, NoFault, Silent, device, HostOK, DeviceOK
<1> QED BY <1>1, <1>2, <1>3, <1>4, <1>5, <1>6

LEMMA OtherTypes ==
    ASSUME TypeOK,
           ConnectAdb \/ Analyse \/ VerifyBoot \/ VerifyVbmeta \/ VerifyData \/ VerifyMounts \/ Throws
    PROVE  TypeOK'
<1> USE GoesToTypes, FinishesTypes, CleanEndsTypes, FaultTypes DEF TypeOK
<1>0. /\ {"analyse", "bootloader", "verifyVbmeta", "verifyData", "verifyMounts"} \subseteq Locations
      /\ {"Restored", "Partial", "Failed", "DryRun"} \subseteq Statuses
  BY LocationsAre DEF Flash, Verification, Statuses
<1>1. CASE ConnectAdb
  <2>1. pc' \in Locations /\ status' \in Statuses /\ faults' \in 0 .. MaxFaults
    BY <1>0, <1>1 DEF ConnectAdb
  <2> QED BY <1>1, <2>1 DEF ConnectAdb, Silent, device, HostOK, DeviceOK
<1>2. CASE Analyse
  <2>1. suffix' \in {"none", "_a"} /\ faults' \in 0 .. MaxFaults
    BY <1>2 DEF Analyse, Trimmed
  <2>2. Finishes("Failed") \/ Finishes("DryRun") \/ GoesTo("bootloader")
    BY <1>2 DEF Analyse, Analysed
  <2>3. pc' \in Locations /\ status' \in Statuses
    BY <1>0, <2>2
  <2> QED BY <1>2, <2>1, <2>3 DEF Analyse, device, HostOK, DeviceOK
<1>3. CASE VerifyBoot
  <2>1. report' \in Reports
    BY <1>3 DEF VerifyBoot, Verified, Pullable, Reachable, Reports, HostOK
  <2>2. pc' \in Locations /\ status' \in Statuses /\ faults' \in 0 .. MaxFaults
    BY <1>0, <1>3 DEF VerifyBoot
  <2> QED BY <1>3, <2>1, <2>2 DEF VerifyBoot, device, HostOK, DeviceOK
<1>4. CASE VerifyVbmeta
  <2>1. report' \in Reports
    BY <1>4 DEF VerifyVbmeta, Verified, Pullable, Reachable, Reports, HostOK
  <2>2. pc' \in Locations /\ status' \in Statuses /\ faults' \in 0 .. MaxFaults
    BY <1>0, <1>4 DEF VerifyVbmeta
  <2> QED BY <1>4, <2>1, <2>2 DEF VerifyVbmeta, device, HostOK, DeviceOK
<1>5. CASE VerifyData
  <2>1. report' \in Reports
    BY <1>5 DEF VerifyData, DataAdbClean, Reports, HostOK
  <2>2. pc' \in Locations /\ status' \in Statuses /\ faults' \in 0 .. MaxFaults
    BY <1>0, <1>5 DEF VerifyData
  <2> QED BY <1>5, <2>1, <2>2 DEF VerifyData, device, HostOK, DeviceOK
<1>6. CASE VerifyMounts
  <2>1. Finishes("Restored") \/ Finishes("Partial")
    BY <1>6 DEF VerifyMounts
  <2>2. pc' \in Locations /\ status' \in Statuses /\ faults' \in 0 .. MaxFaults
    BY <1>0, <1>6, <2>1 DEF VerifyMounts
  <2> QED BY <1>6, <2>2 DEF VerifyMounts, Silent, device, HostOK, DeviceOK
<1>7. CASE Throws
  <2>1. faults' \in 0 .. MaxFaults /\ (CleanEnds(FALSE) \/ Aborts)
    BY <1>7 DEF Throws
  <2>2. CASE CleanEnds(FALSE)
    BY <1>7, <2>1, <2>2 DEF Throws, device, HostOK, DeviceOK
  <2>3. CASE Aborts
    <3>1. report' \in Reports
      BY <2>3 DEF Aborts, Reports, HostOK
    <3>2. pc' \in Locations /\ status' \in Statuses
      BY <1>0, <2>3 DEF Aborts
    <3> QED BY <1>7, <2>1, <3>1, <3>2 DEF Throws, device, HostOK, DeviceOK
  <2> QED BY <2>1, <2>2, <2>3
<1> QED BY <1>1, <1>2, <1>3, <1>4, <1>5, <1>6, <1>7

LEMMA DeviceTypes == ASSUME TypeOK, GoesDown \/ ComesUp PROVE TypeOK'
<1> USE FaultTypes DEF TypeOK
<1>1. CASE GoesDown
  <2>1. faults' \in 0 .. MaxFaults
    BY <1>1 DEF GoesDown
  <2> QED BY <1>1, <2>1 DEF GoesDown, HostOK, DeviceOK
<1>2. CASE ComesUp
  <2>1. faults' \in 0 .. MaxFaults
    BY <1>2 DEF ComesUp
  <2>2. mode' \in Modes
    BY <1>2 DEF ComesUp, DeviceOK, Modes, AdbModes
  <2> QED BY <1>2, <2>1, <2>2 DEF ComesUp, HostOK, DeviceOK
<1> QED BY <1>1, <1>2

LEMMA TypesStep == ASSUME TypeOK, [Next]_vars PROVE TypeOK'
<1>1. CASE UNCHANGED vars
  BY <1>1 DEF vars, device, TypeOK, HostOK, DeviceOK
<1>2. CASE Host
  BY <1>2, FlashPhaseTypes, CleanPhaseTypes, OtherTypes DEF Host
<1>3. CASE GoesDown \/ ComesUp
  BY <1>3, DeviceTypes
<1> QED BY <1>1, <1>2, <1>3 DEF Next

\* The variables of restore-stock keep their types for every set of devices, of
\* names in /data/adb and for every number of faults.
THEOREM RestoreTypes == Spec => []TypeOK
<1>1. Init => TypeOK
  <2> SUFFICES ASSUME Init PROVE TypeOK
    OBVIOUS
  <2>1. HostOK
    BY LocationsAre, CommandCount DEF Init, HostOK, Statuses, Reports
  <2>2. DeviceOK
    BY DEF Init, DeviceOK, Images, Modes, AdbModes
  <2> QED BY <2>1, <2>2, StockAssumption DEF Init, TypeOK
<1>2. TypeOK /\ [Next]_vars => TypeOK'
  BY TypesStep
<1> QED BY <1>1, <1>2, PTL DEF Spec

(* --------------------------- what Restored means ------------------------- *)

\* RunVerifyAsync comes last: nothing changes the device's partitions or
\* /data/adb once a flag of it is set.
Verifying == pc \in Verification \cup {"done"}
Open == env.root = AdbModes /\ env.mounted /\ ~env.proxy
FlagsAreTrue ==
    /\ report.boot => Verifying /\ boot = "stock"
    /\ report.vbmeta => Verifying /\ vbmeta = "stock"
    /\ report.dataClean /\ Open => Verifying /\ Cardinality(data) <= 2
Emptied == ~env.adbDir => data = {}
RestoredIsVerified ==
    /\ status = "Restored" => report.boot /\ report.vbmeta /\ report.dataClean
    /\ status # "none" => pc = "done"
VerdictInv == FlagsAreTrue /\ Emptied /\ RestoredIsVerified

\* The steps of the verification set a flag to what the device shows.
LEMMA VerificationKeepsFlags ==
    ASSUME TypeOK, VerdictInv, VerifyBoot \/ VerifyVbmeta \/ VerifyData \/ VerifyMounts
    PROVE  VerdictInv'
<1> USE DEF VerdictInv, Emptied
<1>1. CASE VerifyBoot
  <2>1. /\ boot' = boot /\ vbmeta' = vbmeta /\ data' = data /\ env' = env /\ Verifying' /\ Verifying
        /\ report'.vbmeta = report.vbmeta /\ report'.dataClean = report.dataClean
        /\ report'.boot => report.boot \/ boot = "stock"
        /\ status' = status /\ status = "none"
    BY <1>1 DEF VerifyBoot, Verified, GoesTo, device, Verifying, Verification, RestoredIsVerified,
                TypeOK, HostOK, Reports
  <2> QED BY <2>1 DEF FlagsAreTrue, Open, RestoredIsVerified
<1>2. CASE VerifyVbmeta
  <2>1. /\ boot' = boot /\ vbmeta' = vbmeta /\ data' = data /\ env' = env /\ Verifying' /\ Verifying
        /\ report'.boot = report.boot /\ report'.dataClean = report.dataClean
        /\ report'.vbmeta => report.vbmeta \/ vbmeta = "stock"
        /\ status' = status /\ status = "none"
    BY <1>2 DEF VerifyVbmeta, Verified, GoesTo, device, Verifying, Verification, RestoredIsVerified,
                TypeOK, HostOK, Reports
  <2> QED BY <2>1 DEF FlagsAreTrue, Open, RestoredIsVerified
<1>3. CASE VerifyData
  <2>1. /\ boot' = boot /\ vbmeta' = vbmeta /\ data' = data /\ env' = env /\ Verifying' /\ Verifying
        /\ report'.boot = report.boot /\ report'.vbmeta = report.vbmeta
        /\ status' = status /\ status = "none"
    BY <1>3 DEF VerifyData, GoesTo, device, Verifying, Verification, RestoredIsVerified,
                TypeOK, HostOK, Reports
  <2>2. Open /\ report'.dataClean => Cardinality(data) <= 2
    <3> SUFFICES ASSUME Open, report'.dataClean PROVE Cardinality(data) <= 2
      OBVIOUS
    <3>1. Reachable /\ DataAdbClean(Listing)
      BY <1>3 DEF VerifyData, Open, TypeOK, HostOK, Reports
    <3>2. CASE Listing = "listed"
      BY <3>1, <3>2 DEF DataAdbClean
    <3>3. CASE Listing # "listed"
      <4>1. ~env.adbDir
        BY <3>1, <3>3 DEF Listing, Open, Reachable
      <4>2. data = {}
        BY <4>1
      <4> QED BY <4>2, FS_EmptySet
    <3> QED BY <3>2, <3>3
  <2> QED BY <2>1, <2>2 DEF FlagsAreTrue, Open, RestoredIsVerified
<1>4. CASE VerifyMounts
  <2>1. /\ boot' = boot /\ vbmeta' = vbmeta /\ data' = data /\ env' = env /\ report' = report
        /\ pc' = "done" /\ Verifying /\ Verifying'
        /\ status' = "Restored" => report.boot /\ report.vbmeta /\ report.dataClean
    BY <1>4 DEF VerifyMounts, Finishes, Silent, device, Verifying, Verification
  <2> QED BY <2>1 DEF FlagsAreTrue, Open, RestoredIsVerified
<1> QED BY <1>1, <1>2, <1>3, <1>4

\* Before the verification no flag of it is set, and no other step sets one.
LEMMA EarlierStepsSetNoFlag ==
    ASSUME TypeOK, VerdictInv,
           \/ ConnectAdb \/ Analyse \/ RebootBootloader \/ ConnectFastboot \/ FlashBoot \/ FlashVbmeta
           \/ FastbootReboot \/ WaitForDevice \/ RebootRecovery \/ ConnectRecovery \/ Clean
           \/ CheckClean \/ RebootSystem \/ WaitAgain
    PROVE  VerdictInv'
<1>1. /\ ~report.boot /\ ~report.vbmeta /\ ~(report.dataClean /\ Open)
  <2>1. ~Verifying
    BY DEF Verifying, Verification, ConnectAdb, Analyse, RebootBootloader, ConnectFastboot,
           FlashBoot, FlashVbmeta, FastbootReboot, WaitForDevice, RebootRecovery, ConnectRecovery,
           Clean, CheckClean, RebootSystem, WaitAgain
  <2> QED BY <2>1 DEF VerdictInv, FlagsAreTrue
<1>2. /\ env' = env /\ data' \subseteq data
      /\ report'.boot = report.boot /\ report'.vbmeta = report.vbmeta
      /\ report'.dataClean = report.dataClean
  BY DEF ConnectAdb, Analyse, RebootBootloader, ConnectFastboot, FlashBoot, FlashVbmeta,
         FastbootReboot, WaitForDevice, RebootRecovery, ConnectRecovery, Clean, CheckClean,
         RebootSystem, WaitAgain, CleanEnds, Silent, device, TypeOK, HostOK, Reports
<1>3. status = "none" /\ status' # "Restored" /\ (status' # "none" => pc' = "done")
  <2>1. status = "none"
    BY DEF VerdictInv, RestoredIsVerified, ConnectAdb, Analyse, RebootBootloader, ConnectFastboot,
           FlashBoot, FlashVbmeta, FastbootReboot, WaitForDevice, RebootRecovery, ConnectRecovery,
           Clean, CheckClean, RebootSystem, WaitAgain
  <2>2. status' = status \/ (pc' = "done" /\ status' # "Restored")
    BY DEF ConnectAdb, Analyse, Analysed, RebootBootloader, ConnectFastboot, FlashBoot, FlashVbmeta,
           Flashed, FastbootReboot, WaitForDevice, RebootRecovery, ConnectRecovery, Clean,
           CheckClean, RebootSystem, WaitAgain, CleanEnds, GoesTo, Finishes
  <2> QED BY <2>1, <2>2
<1> QED
  BY <1>1, <1>2, <1>3 DEF VerdictInv, FlagsAreTrue, Emptied, RestoredIsVerified, Open

LEMMA VerdictStep == ASSUME TypeOK, VerdictInv, [Next]_vars PROVE VerdictInv'
<1> USE DEF VerdictInv, FlagsAreTrue, Emptied, RestoredIsVerified, Open, Verifying
<1>1. CASE UNCHANGED vars
  BY <1>1 DEF vars, device
<1>2. CASE VerifyBoot \/ VerifyVbmeta \/ VerifyData \/ VerifyMounts
  BY <1>2, VerificationKeepsFlags
<1>3. CASE Throws
  <2>1. /\ env' = env /\ boot' = boot /\ vbmeta' = vbmeta /\ data' = data
        /\ (report'.boot => report.boot) /\ (report'.vbmeta => report.vbmeta)
        /\ (report'.dataClean => report.dataClean)
        /\ pc # "done" /\ (pc \in Recovery \/ pc' = "done")
        /\ status' # "Restored" \/ status' = status
        /\ status' = status \/ pc' = "done"
    BY <1>3 DEF Throws, Aborts, CleanEnds, GoesTo, Finishes, device, Recovery, Verification,
                TypeOK, HostOK, Reports
  <2>2. pc \in Recovery => ~Verifying
    BY DEF Recovery, Verification
  <2> QED BY <2>1, <2>2
<1>4. CASE GoesDown \/ ComesUp
  BY <1>4 DEF GoesDown, ComesUp
<1>5. CASE \/ ConnectAdb \/ Analyse \/ RebootBootloader \/ ConnectFastboot \/ FlashBoot \/ FlashVbmeta
           \/ FastbootReboot \/ WaitForDevice \/ RebootRecovery \/ ConnectRecovery \/ Clean
           \/ CheckClean \/ RebootSystem \/ WaitAgain
  BY <1>5, EarlierStepsSetNoFlag
<1> QED BY <1>1, <1>2, <1>3, <1>4, <1>5 DEF Next, Host

LEMMA RestoreVerdict == Spec => []VerdictInv
<1>1. Init => VerdictInv
  BY DEF Init, VerdictInv, FlagsAreTrue, Emptied, RestoredIsVerified
<1>2. TypeOK /\ VerdictInv /\ [Next]_vars => VerdictInv'
  BY VerdictStep
<1> QED BY <1>1, <1>2, RestoreTypes, PTL DEF Spec

\* A run that ends Restored leaves both partitions with the stock images,
\* whatever the bootloader answered and wherever the device was.
THEOREM RestoredHoldsStock == Spec => []RestoredIsStock
<1>1. VerdictInv => RestoredIsStock
  BY DEF VerdictInv, FlagsAreTrue, RestoredIsVerified, RestoredIsStock
<1> QED BY <1>1, RestoreVerdict, PTL

\* On a device where every ADB shell is root, recovery mounts /data and the
\* connection is direct, a Restored run leaves at most two entries in /data/adb.
THEOREM RestoredIsMinimal == Spec => []RestoredLeavesLittle
<1>1. VerdictInv => RestoredLeavesLittle
  BY DEF VerdictInv, FlagsAreTrue, RestoredIsVerified, RestoredLeavesLittle, Open
<1> QED BY <1>1, RestoreVerdict, PTL

(* ------------------------------- the dry run ------------------------------ *)

\* A dry run gets no further than the analysis, and no reboot is pending.
DryRunInv == env.dryRun => pc \in {"connect", "analyse", "done"} /\ goal = "none"

\* What a step of a dry run leaves alone.
Harmless == env.dryRun => UNCHANGED <<goal, boot, vbmeta, data>>

\* Past the analysis there is no dry run; before it no step touches the device.
LEMMA DryRunStep == ASSUME DryRunInv, [Next]_vars PROVE DryRunInv' /\ Harmless
<1> SUFFICES ASSUME env'.dryRun \/ env.dryRun
             PROVE  /\ pc' \in {"connect", "analyse", "done"} /\ goal' = "none"
                    /\ UNCHANGED <<goal, boot, vbmeta, data>>
  BY DEF DryRunInv, Harmless
<1>0. env' = env /\ env.dryRun /\ pc \in {"connect", "analyse", "done"} /\ goal = "none"
  <2>1. env' = env
    BY DEF Next, Host, ConnectAdb, Analyse, RebootBootloader, ConnectFastboot, FlashBoot,
           FlashVbmeta, FastbootReboot, WaitForDevice, RebootRecovery, ConnectRecovery, Clean,
           CheckClean, RebootSystem, WaitAgain, VerifyBoot, VerifyVbmeta, VerifyData, VerifyMounts,
           Throws, Silent, GoesDown, ComesUp, vars
  <2> QED BY <2>1 DEF DryRunInv
<1>1. CASE UNCHANGED vars
  BY <1>0, <1>1 DEF vars, device
<1>2. CASE ConnectAdb
  BY <1>0, <1>2 DEF ConnectAdb, GoesTo, Finishes, Silent, device
<1>3. CASE Analyse
  BY <1>0, <1>3 DEF Analyse, Analysed, Finishes, device
<1>4. CASE Throws
  BY <1>0, <1>4 DEF Throws, Aborts, Finishes, device, Recovery
<1>5. CASE GoesDown \/ ComesUp
  BY <1>0, <1>5 DEF GoesDown, ComesUp
<1>6. ~(RebootBootloader \/ ConnectFastboot \/ FlashBoot \/ FlashVbmeta \/ FastbootReboot
          \/ WaitForDevice \/ RebootRecovery \/ ConnectRecovery \/ Clean \/ CheckClean
          \/ RebootSystem \/ WaitAgain \/ VerifyBoot \/ VerifyVbmeta \/ VerifyData \/ VerifyMounts)
  BY <1>0 DEF RebootBootloader, ConnectFastboot, FlashBoot, FlashVbmeta, FastbootReboot,
              WaitForDevice, RebootRecovery, ConnectRecovery, Clean, CheckClean, RebootSystem,
              WaitAgain, VerifyBoot, VerifyVbmeta, VerifyData, VerifyMounts
<1> QED BY <1>1, <1>2, <1>3, <1>4, <1>5, <1>6 DEF Next, Host

\* --dry-run neither programs, cleans nor reboots, on any device.
THEOREM DryRunIsHarmless == Spec => DryRunTouchesNothing
<1>1. Init => DryRunInv
  BY DEF Init, DryRunInv
<1>2. DryRunInv /\ [Next]_vars => DryRunInv'
  BY DryRunStep
<1>3. DryRunInv /\ [Next]_vars => [Harmless]_vars
  BY DryRunStep
<1>4. Spec => [][Harmless]_vars
  BY <1>1, <1>2, <1>3, PTL DEF Spec
<1> QED BY <1>4, PTL DEF DryRunTouchesNothing, Harmless

(* --------------------------- a reliable flash ---------------------------- *)

\* A flag of the verification is set at its step, and no dry run is past the analysis.
FlagsInOrder ==
    /\ report.boot => pc \in {"verifyVbmeta", "verifyData", "verifyMounts", "done"}
    /\ report.vbmeta => pc \in {"verifyData", "verifyMounts", "done"}
FlashInv == TypeOK /\ VerdictInv /\ DryRunInv /\ FlagsInOrder

LEMMA FlagsInOrderStep == ASSUME TypeOK, FlagsInOrder, [Next]_vars PROVE FlagsInOrder'
<1>1. CASE UNCHANGED vars \/ GoesDown \/ ComesUp
  BY <1>1 DEF vars, GoesDown, ComesUp, FlagsInOrder
<1>2. CASE VerifyBoot
  BY <1>2 DEF VerifyBoot, GoesTo, FlagsInOrder, TypeOK, HostOK, Reports
<1>3. CASE VerifyVbmeta
  BY <1>3 DEF VerifyVbmeta, GoesTo, FlagsInOrder, TypeOK, HostOK, Reports
<1>4. CASE VerifyData
  BY <1>4 DEF VerifyData, GoesTo, FlagsInOrder, TypeOK, HostOK, Reports
<1>5. CASE VerifyMounts
  BY <1>5 DEF VerifyMounts, Finishes, Silent, FlagsInOrder
<1>6. CASE Throws
  <2>1. \/ pc \in Recovery /\ CleanEnds(FALSE)
        \/ Aborts
    BY <1>6 DEF Throws
  <2> QED BY <2>1 DEF CleanEnds, Aborts, GoesTo, Finishes, Recovery, FlagsInOrder, TypeOK, HostOK, Reports
<1>7. CASE \/ ConnectAdb \/ Analyse \/ RebootBootloader \/ ConnectFastboot \/ FlashBoot \/ FlashVbmeta
           \/ FastbootReboot \/ WaitForDevice \/ RebootRecovery \/ ConnectRecovery \/ Clean
           \/ CheckClean \/ RebootSystem \/ WaitAgain
  <2>1. ~report.boot /\ ~report.vbmeta
    BY <1>7 DEF FlagsInOrder, ConnectAdb, Analyse, RebootBootloader, ConnectFastboot, FlashBoot,
                FlashVbmeta, FastbootReboot, WaitForDevice, RebootRecovery, ConnectRecovery, Clean,
                CheckClean, RebootSystem, WaitAgain
  <2>2. report'.boot = report.boot /\ report'.vbmeta = report.vbmeta
    BY <1>7 DEF ConnectAdb, Analyse, RebootBootloader, ConnectFastboot, FlashBoot, FlashVbmeta,
                FastbootReboot, WaitForDevice, RebootRecovery, ConnectRecovery, Clean, CheckClean,
                RebootSystem, WaitAgain, CleanEnds, Silent, TypeOK, HostOK, Reports
  <2> QED BY <2>1, <2>2 DEF FlagsInOrder
<1> QED BY <1>1, <1>2, <1>3, <1>4, <1>5, <1>6, <1>7 DEF Next, Host

LEMMA FlashInvariant == Spec => []FlashInv
<1>1. Init => FlagsInOrder /\ DryRunInv
  BY DEF Init, FlagsInOrder, DryRunInv
<1>2. TypeOK /\ FlagsInOrder /\ [Next]_vars => FlagsInOrder'
  BY FlagsInOrderStep
<1>3. DryRunInv /\ [Next]_vars => DryRunInv'
  BY DryRunStep
<1> QED BY <1>1, <1>2, <1>3, RestoreTypes, RestoreVerdict, PTL DEF Spec, FlashInv

\* The partitions, the flags that report them and the options are as they were.
Untouched == UNCHANGED <<env, boot, vbmeta>> /\ report'.boot = report.boot /\ report'.vbmeta = report.vbmeta

LEMMA UntouchedIs == Untouched => UNCHANGED <<Held, Reported>>
BY DEF Untouched, Held, Reported, Targets

\* The ways in which a step of the host is one of a reliable flash.
LEMMA PassesOver ==
    ASSUME Untouched, pc \notin {"connect", "done"}, pc' \notin {"connect", "done"},
           MayChange' \subseteq MayChange
    PROVE  Flasher!Step
<1>1. CallState = "busy" /\ CallState' = "busy" /\ Due' = Due
  BY UntouchedIs DEF CallState, Due
<1> QED BY <1>1, UntouchedIs DEF Flasher!PassOver, Flasher!Goes, Flasher!Step

LEMMA EndsIdle ==
    ASSUME pc' = "done", status' # "Restored"
    PROVE  Flasher!Ends("idle")
BY DEF Flasher!Ends, CallState, MayChange, Due

LEMMA GivesUp ==
    ASSUME pc' = "done", status' # "Restored", UNCHANGED <<boot, vbmeta>>, Reported' \in {Reported, {}}
    PROVE  Flasher!Step
<1>1. Held' = Held
  BY DEF Held
<1> QED BY <1>1, EndsIdle DEF Flasher!GiveUp, Flasher!Step

\* Flashing changes the partition it names and settles whether it may change again.
LEMMA Programs ==
    ASSUME NEW p \in Targets, pc \notin {"connect", "done"}, p \in MayChange \ Reported,
           Reported' = Reported, Held' = [Held EXCEPT ![p] = Held'[p]], Held'[p] \in Images,
           \/ pc' \notin {"connect", "done"} /\ MayChange' \subseteq MayChange
           \/ pc' = "done" /\ status' # "Restored"
    PROVE  Flasher!Step
<1>1. CallState = "busy"
  BY DEF CallState
<1>2. (Flasher!Goes /\ UNCHANGED Due) \/ Flasher!Ends("idle")
  <2>1. CASE pc' \notin {"connect", "done"} /\ MayChange' \subseteq MayChange
    BY <2>1, <1>1 DEF Flasher!Goes, CallState, Due
  <2> QED BY <2>1, EndsIdle
<1>3. Flasher!Program(p)
  BY <1>1, <1>2 DEF Flasher!Program
<1> QED BY <1>3 DEF Flasher!Step

LEMMA FlashProgramStep ==
    ASSUME FlashInv, FlashBoot \/ FlashVbmeta
    PROVE  Flasher!Step
<1> USE DEF FlashInv
<1>1. /\ ~env.dryRun /\ env' = env /\ ~report.boot /\ ~report.vbmeta /\ report' = report
      /\ status = "none" /\ boot \in Images /\ vbmeta \in Images
  BY DEF FlashBoot, FlashVbmeta, DryRunInv, FlagsInOrder, VerdictInv, RestoredIsVerified, TypeOK,
         DeviceOK
<1>2. Reported = {} /\ Reported' = {}
  BY <1>1 DEF Reported, Targets
<1>3. CASE FlashBoot
  <2>1. PICK r \in FlashResults(boot, suffix = Suffix) : Flashed(r, "flashVbmeta") /\ boot' = r.image
    BY <1>3 DEF FlashBoot
  <2>2. boot' \in Images
    BY <1>1, <2>1, FlashTypes
  <2>3. pc' = "flashVbmeta" \/ (pc' = "done" /\ status' # "Restored")
    BY <2>1 DEF Flashed, GoesTo, Finishes
  <2>4. pc = "flashBoot" /\ vbmeta' = vbmeta
    BY <1>3 DEF FlashBoot
  <2>5. "boot" \in MayChange /\ (pc' = "flashVbmeta" => MayChange' \subseteq MayChange)
    BY <1>1, <2>4 DEF MayChange, Targets
  <2>6. Held' = [Held EXCEPT !["boot"] = Held'["boot"]] /\ Held'["boot"] \in Images
    BY <2>2, <2>4 DEF Held, Targets
  <2>7. "boot" \in Targets
    BY DEF Targets
  <2> QED BY <1>2, <2>3, <2>4, <2>5, <2>6, <2>7, Programs
<1>4. CASE FlashVbmeta
  <2>1. PICK r \in FlashResults(vbmeta, ~env.ab) : Flashed(r, "reboot") /\ vbmeta' = r.image
    BY <1>4 DEF FlashVbmeta
  <2>2. vbmeta' \in Images
    BY <1>1, <2>1, FlashTypes
  <2>3. pc' = "reboot" \/ (pc' = "done" /\ status' # "Restored")
    BY <2>1 DEF Flashed, GoesTo, Finishes
  <2>4. pc = "flashVbmeta" /\ boot' = boot
    BY <1>4 DEF FlashVbmeta
  <2>5. "vbmeta" \in MayChange /\ (pc' = "reboot" => MayChange' \subseteq MayChange)
    BY <1>1, <2>4 DEF MayChange, Targets
  <2>6. Held' = [Held EXCEPT !["vbmeta"] = Held'["vbmeta"]] /\ Held'["vbmeta"] \in Images
    BY <2>2, <2>4 DEF Held, Targets
  <2>7. "vbmeta" \in Targets
    BY DEF Targets
  <2> QED BY <1>2, <2>3, <2>4, <2>5, <2>6, <2>7, Programs
<1> QED BY <1>3, <1>4

LEMMA ReportsOne ==
    ASSUME NEW p \in Targets, Held[p] = "stock", p \notin Reported, Reported' = Reported \cup {p},
           UNCHANGED <<env, boot, vbmeta>>, pc \notin {"connect", "done"},
           pc' \notin {"connect", "done"}, MayChange' \subseteq MayChange
    PROVE  Flasher!Step
<1>1. CallState = "busy" /\ CallState' = "busy" /\ p \in Due /\ Due' = Due \ {p} /\ Held' = Held
  BY DEF CallState, Due, Held
<1>2. Flasher!Report(p)
  BY <1>1 DEF Flasher!Report, Flasher!Goes
<1> QED BY <1>2 DEF Flasher!Step

LEMMA FlashVerifyStep ==
    ASSUME FlashInv, VerifyBoot \/ VerifyVbmeta \/ VerifyData \/ VerifyMounts
    PROVE  Flasher!Step
<1> USE DEF FlashInv
<1>1. /\ UNCHANGED <<env, boot, vbmeta>> /\ pc \in Verification
      /\ MayChange' \subseteq MayChange
  BY DEF VerifyBoot, VerifyVbmeta, VerifyData, VerifyMounts, GoesTo, Finishes, Silent, device,
         Verification, MayChange
<1>2. CASE VerifyBoot
  <2>1. pc = "verifyBoot" /\ pc' = "verifyVbmeta" /\ ~report.boot /\ report'.vbmeta = report.vbmeta
        /\ (report'.boot => boot = "stock") /\ {report.boot, report'.boot} \subseteq BOOLEAN
    BY <1>2 DEF VerifyBoot, GoesTo, Verified, Pullable, Reachable, FlagsInOrder, TypeOK, HostOK, Reports
  <2>2. CASE report'.boot
    <3>1. "boot" \in Targets /\ Held["boot"] = "stock" /\ "boot" \notin Reported
          /\ Reported' = Reported \cup {"boot"}
      BY <2>1, <2>2 DEF Targets, Held, Reported
    <3> QED BY <1>1, <2>1, <3>1, ReportsOne
  <2>3. CASE ~report'.boot
    BY <1>1, <2>1, <2>3, PassesOver DEF Untouched, Verification
  <2> QED BY <2>2, <2>3
<1>3. CASE VerifyVbmeta
  <2>1. pc = "verifyVbmeta" /\ pc' = "verifyData" /\ ~report.vbmeta /\ report'.boot = report.boot
        /\ (report'.vbmeta => vbmeta = "stock") /\ {report.vbmeta, report'.vbmeta} \subseteq BOOLEAN
    BY <1>3 DEF VerifyVbmeta, GoesTo, Verified, Pullable, Reachable, FlagsInOrder, TypeOK, HostOK, Reports
  <2>2. CASE report'.vbmeta
    <3>1. "vbmeta" \in Targets /\ Held["vbmeta"] = "stock" /\ "vbmeta" \notin Reported
          /\ Reported' = Reported \cup {"vbmeta"}
      BY <2>1, <2>2 DEF Targets, Held, Reported
    <3> QED BY <1>1, <2>1, <3>1, ReportsOne
  <2>3. CASE ~report'.vbmeta
    BY <1>1, <2>1, <2>3, PassesOver DEF Untouched, Verification
  <2> QED BY <2>2, <2>3
<1>4. CASE VerifyData
  <2>1. pc = "verifyData" /\ pc' = "verifyMounts" /\ report'.boot = report.boot
        /\ report'.vbmeta = report.vbmeta
    BY <1>4 DEF VerifyData, GoesTo, TypeOK, HostOK, Reports
  <2> QED BY <1>1, <2>1, PassesOver DEF Untouched
<1>5. CASE VerifyMounts
  <2>1. pc' = "done" /\ pc = "verifyMounts" /\ report' = report
        /\ (status' = "Restored" => report.boot /\ report.vbmeta)
    BY <1>5 DEF VerifyMounts, Finishes, Silent
  <2>2. Held' = Held /\ Reported' = Reported
    BY <1>1, <2>1 DEF Held, Reported
  <2>3. CASE status' = "Restored"
    <3>1. Due = {} /\ CallState = "busy"
      BY <2>1, <2>3 DEF Due, Reported, Targets, CallState
    <3>2. CallState' = "success" /\ MayChange' = {} /\ Due' = {}
      BY <2>1, <2>3 DEF CallState, MayChange, Due
    <3> QED BY <2>2, <3>1, <3>2 DEF Flasher!Succeed, Flasher!Ends, Flasher!Step
  <2>4. CASE status' # "Restored"
    BY <1>1, <2>1, <2>2, <2>4, GivesUp
  <2> QED BY <2>3, <2>4
<1> QED BY <1>2, <1>3, <1>4, <1>5

\* Every other step of the host leaves both partitions and their flags alone: the
\* call begins, goes on, or fails.
LEMMA FlashOtherStep ==
    ASSUME FlashInv,
           \/ ConnectAdb \/ Analyse \/ RebootBootloader \/ ConnectFastboot \/ FastbootReboot
           \/ WaitForDevice \/ RebootRecovery \/ ConnectRecovery \/ Clean \/ CheckClean
           \/ RebootSystem \/ WaitAgain
    PROVE  Flasher!Step
<1> USE DEF FlashInv
<1>1. Untouched
  BY DEF Untouched, ConnectAdb, Analyse, RebootBootloader, ConnectFastboot, FastbootReboot,
         WaitForDevice, RebootRecovery, ConnectRecovery, Clean, CheckClean, RebootSystem, WaitAgain,
         CleanEnds, Silent, device, TypeOK, HostOK, Reports
<1>2. status = "none"
  BY DEF VerdictInv, RestoredIsVerified, ConnectAdb, Analyse, RebootBootloader, ConnectFastboot,
         FastbootReboot, WaitForDevice, RebootRecovery, ConnectRecovery, Clean, CheckClean,
         RebootSystem, WaitAgain
<1>3. \/ pc' = "done" /\ status' # "Restored"
      \/ pc' \notin {"connect", "done"}
  BY DEF ConnectAdb, Analyse, Analysed, RebootBootloader, ConnectFastboot, FastbootReboot,
         WaitForDevice, RebootRecovery, ConnectRecovery, Clean, CheckClean, RebootSystem, WaitAgain,
         CleanEnds, GoesTo, Finishes
<1>4. CASE pc' = "done" /\ status' # "Restored"
  BY <1>1, <1>4, UntouchedIs, GivesUp DEF Untouched
<1>5. CASE pc' \notin {"connect", "done"} /\ pc = "connect"
  <2>1. ~report.boot /\ ~report.vbmeta
    BY <1>5 DEF FlagsInOrder
  <2>2. Reported' = {} /\ Held' = Held
    BY <1>1, <2>1, UntouchedIs DEF Reported, Targets
  <2>3. CallState = "idle" /\ CallState' = "busy" /\ Due' = Targets
    BY <1>5, <2>2 DEF CallState, Due
  <2>4. MayChange' \subseteq Targets
    BY DEF MayChange, Targets
  <2> QED BY <2>2, <2>3, <2>4 DEF Flasher!Call, Flasher!Step
<1>6. CASE pc' \notin {"connect", "done"} /\ pc # "connect"
  <2>1. pc # "done" /\ MayChange' \subseteq MayChange
    BY <1>1, <1>6 DEF Untouched, MayChange, Targets, ConnectAdb, Analyse, Analysed, RebootBootloader,
         ConnectFastboot, FastbootReboot, WaitForDevice, RebootRecovery, ConnectRecovery, Clean,
         CheckClean, RebootSystem, WaitAgain, CleanEnds, GoesTo, Finishes
  <2> QED BY <1>1, <1>6, <2>1, PassesOver
<1> QED BY <1>3, <1>4, <1>5, <1>6

LEMMA FlashThrowsStep == ASSUME FlashInv, Throws PROVE Flasher!Step
<1> USE DEF FlashInv
<1>1. UNCHANGED <<env, boot, vbmeta>> /\ pc # "done"
  BY DEF Throws, device, Recovery, Verification
<1>2. CASE pc \in Recovery /\ CleanEnds(FALSE)
  <2>1. Untouched /\ pc \notin {"connect", "done"} /\ pc' = "restart"
    BY <1>1, <1>2 DEF Untouched, CleanEnds, GoesTo, Recovery, TypeOK, HostOK, Reports
  <2> QED BY <2>1, PassesOver DEF MayChange
<1>3. CASE Aborts
  <2>1. pc' = "done" /\ status' = "Failed" /\ ~report'.boot /\ ~report'.vbmeta
    BY <1>3 DEF Aborts, Finishes, TypeOK, HostOK, Reports
  <2>2. Reported' = {}
    BY <2>1 DEF Reported, Targets
  <2> QED BY <1>1, <2>1, <2>2, GivesUp
<1> QED BY <1>2, <1>3 DEF Throws

LEMMA FlashStep == ASSUME FlashInv, [Next]_vars PROVE [Flasher!Next]_Flasher!vars
<1>1. CASE UNCHANGED vars \/ GoesDown \/ ComesUp
  <2>1. UNCHANGED <<env, pc, status, report, boot, vbmeta>>
    BY <1>1 DEF vars, device, GoesDown, ComesUp
  <2>2. UNCHANGED <<CallState, MayChange, Due, Reported, Held>>
    BY <2>1 DEF CallState, MayChange, Due, Reported, Held
  <2> QED BY <2>2 DEF Flasher!vars
<1>2. CASE Host
  <2>1. Flasher!Step
    BY <1>2, FlashProgramStep, FlashVerifyStep, FlashOtherStep, FlashThrowsStep DEF Host
  <2> QED BY <2>1 DEF Flasher!Next
<1> QED BY <1>1, <1>2 DEF Next

\* The stock restore is a reliable flash, for every device and any number of faults.
THEOREM RestoreIsReliable == Spec => FlashIsReliable
<1>1. Init => Flasher!Init
  BY DEF Init, Flasher!Init, CallState, MayChange, Due, Reported, Targets
<1> QED BY <1>1, FlashInvariant, FlashStep, PTL DEF Spec, Flasher!Spec, FlashIsReliable
=============================================================================
