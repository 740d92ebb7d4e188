----------------------------- MODULE RestoreStock -----------------------------
(* RestoreStockOrchestrator.RunAsync: flash stock boot and vbmeta by fastboot, *)
(* clean /data/adb from recovery, verify from the system, over IAdbClient and  *)
(* IFastbootClient.                                                            *)
(*                                                                             *)
(* The device is rebooted three times.  A reboot request only asks: the device *)
(* goes down later, or never, and the host goes on after a fixed delay with    *)
(* whatever answers it then.  What the analysis prints is left out: of its     *)
(* result the later phases use the slot suffix and the stock images.           *)
EXTENDS Integers, FiniteSets

CONSTANTS
    Entries,     \* names that may be in /data/adb
    Setups,      \* the devices and options of the runs considered
    MaxFaults    \* bound: calls that fail, and boots that go elsewhere

AdbModes == {"system", "recovery"}      \* in which adbd answers
Modes == AdbModes \cup {"bootloader"}

\* ab: the device has two slots; root: where the ADB shell is root; blocks: a
\* shell that is not can read partitions; mounted: recovery has /data; adbDir:
\* /data/adb exists; proxy: AdbClient goes through the ADB server.  A boot.img
\* that does not parse is "bad", an empty vbmeta.img is as good as none.
Setup ==
    [dryRun : BOOLEAN, stockBoot : {"image", "bad", "none"}, stockVbmeta : {"image", "none"},
     ab : BOOLEAN, root : SUBSET AdbModes, blocks : BOOLEAN, mounted : BOOLEAN,
     adbDir : BOOLEAN, proxy : BOOLEAN]

ASSUME StockAssumption ==
    Setups \subseteq Setup /\ IsFiniteSet(Entries) /\ MaxFaults \in Nat

VARIABLES
    env,            \* the setup of this run
    pc, step,       \* the call the host is at, the cleaning command
    suffix,         \* analysis.SlotSuffix
    report,         \* RestoreStockResult's flags
    status,         \* RestoreStockResult.Status
    mode, goal,     \* what the device runs, what it has been asked to reboot to
    boot, vbmeta,   \* the partitions of the slot in use
    data,           \* the entries of /data/adb
    faults

device == <<mode, goal, boot, vbmeta, data>>
vars == <<env, pc, step, suffix, report, status, device, faults>>

Images == {"stock", "magisk", "torn"}
\* what "rm -rf" and "find -name *.sh -delete" remove, command by command
Commands == <<"magisk", "modules", "post-fs-data.d", "service.d", "scripts">>

Flash == {"bootloader", "fastboot", "flashBoot", "flashVbmeta", "reboot", "wait"}
Recovery == {"recovery", "connectRecovery", "clean"}
Verification == {"verifyBoot", "verifyVbmeta", "verifyData", "verifyMounts"}
Locations ==
    {"connect", "analyse", "restart", "waitAgain", "done"} \cup Flash \cup Recovery \cup Verification

Statuses == {"none", "DryRun", "Restored", "Partial", "FlashFailed", "Failed"}
Reports ==
    [flash : BOOLEAN, clean : BOOLEAN, boot : BOOLEAN, vbmeta : BOOLEAN, dataClean : BOOLEAN]

(* -------------------- the device, as the host sees it -------------------- *)

Reachable == mode \in AdbModes
Suffix == IF env.ab THEN "_a" ELSE "none"
SlotProperty == IF env.ab THEN "_a\n" ELSE "\n"

Fault == faults < MaxFaults /\ faults' = faults + 1
NoFault == faults' = faults
\* a call over ADB fails: certainly when nothing answers, else by a fault
Fails == (~Reachable /\ NoFault) \/ Fault

\* "ls /data/adb/ 2>&1 || echo NO_DATA_ADB"
Listing ==
    IF ~env.adbDir \/ (mode = "recovery" /\ ~env.mounted) THEN "missing"
    ELSE IF mode \in env.root THEN "listed" ELSE "denied"

\* NO_DATA_ADB is printed whenever ls fails, and a failed call answers nothing
\* through the ADB server.  "ls -la" of a directory, an empty one too, has three lines.
IsClean(listing) == listing # "listed"
DataAdbCleanUpToThree(listing) == listing # "listed" \/ Cardinality(data) <= 3  \* mutant
DataAdbClean(listing) == listing # "listed" \/ Cardinality(data) <= 2

Readable == env.blocks \/ mode \in env.root
\* /dev/block/by-name has no partition without a suffix on a device with slots
Pullable(name) == Reachable /\ Readable /\ name = Suffix

(* ------------------------------- the host -------------------------------- *)

GoesTo(l) == pc' = l /\ UNCHANGED status
Finishes(s) == pc' = "done" /\ status' = s
Silent == UNCHANGED <<env, device, step, suffix, report>>

\* the device may be asked to reboot; the answer does not tell whether it was
Asks(g, able) == goal' = goal \/ (able /\ goal' = g)

ConnectAdb ==
    /\ pc = "connect"
    /\ (Reachable /\ NoFault /\ GoesTo("analyse")) \/ (Fails /\ Finishes("Failed"))
    /\ Silent

\* Parsing throws on an image that is none, the stock one or the device's own.
AnalysedRegardless(pulled) ==                   \* mutant
    IF env.stockBoot = "bad" \/ (pulled /\ boot = "torn") THEN Finishes("Failed")
    ELSE GoesTo("bootloader")
Analysed(pulled) ==
    IF env.stockBoot = "bad" \/ (pulled /\ boot = "torn") THEN Finishes("Failed")
    ELSE IF env.dryRun THEN Finishes("DryRun") ELSE GoesTo("bootloader")

\* getprop ends its answer with a newline; an empty property means no slots
Untrimmed(answer) == answer                     \* mutant
Trimmed(answer) == IF answer = "_a\n" THEN "_a" ELSE "none"

Analyse ==
    /\ pc = "analyse"
    /\ \E pulled \in BOOLEAN :
        /\ \/ suffix' = Trimmed(SlotProperty) /\ pulled = Pullable(suffix') /\ NoFault
           \/ suffix' = Trimmed(SlotProperty) /\ ~pulled /\ Fails
           \/ env.proxy /\ suffix' = "none" /\ pulled = Pullable(suffix') /\ Fails
        /\ Analysed(pulled)
    /\ UNCHANGED <<env, device, step, report>>

HasStock == env.stockBoot = "image" /\ env.stockVbmeta = "image"

RebootBootloader ==
    /\ pc = "bootloader"
    /\ IF HasStock
       THEN Asks("bootloader", Reachable) /\ (GoesTo("fastboot") \/ Finishes("FlashFailed"))
       ELSE UNCHANGED goal /\ Finishes("FlashFailed")
    /\ UNCHANGED <<env, mode, boot, vbmeta, data, step, suffix, report, faults>>

\* after a delay of three seconds, whatever the device is doing by then
ConnectFastboot ==
    /\ pc = "fastboot"
    /\ \/ mode = "bootloader" /\ NoFault /\ GoesTo("flashBoot")
       \/ mode # "bootloader" /\ NoFault /\ Finishes("FlashFailed")
       \/ Fault /\ Finishes("FlashFailed")
    /\ Silent

\* FlashAsync of a name the device knows programs the image; of another it may
\* be refused.  A fault tears it, and FlashAsync, which takes no response for a
\* good one and a late OKAY for its own, may answer true nevertheless.
FlashResults(old, known) ==
    {[image |-> "stock", ok |-> TRUE, faults |-> 0]}
      \cup (IF known THEN {} ELSE {[image |-> old, ok |-> FALSE, faults |-> 0]})
      \cup [image : {old, "torn"}, ok : BOOLEAN, faults : {1}]

\* false ends the run, an exception too
Flashed(r, l) ==
    /\ faults' = faults + r.faults /\ faults' <= MaxFaults
    /\ IF r.ok THEN GoesTo(l) ELSE Finishes("FlashFailed") \/ Finishes("Failed")

FlashBoot ==
    /\ pc = "flashBoot" /\ mode = "bootloader"
    /\ \E r \in FlashResults(boot, suffix = Suffix) : Flashed(r, "flashVbmeta") /\ boot' = r.image
    /\ UNCHANGED <<env, mode, goal, vbmeta, data, step, suffix, report>>

FlashVbmeta ==
    /\ pc = "flashVbmeta" /\ mode = "bootloader"
    /\ \E r \in FlashResults(vbmeta, ~env.ab) : Flashed(r, "reboot") /\ vbmeta' = r.image
    /\ UNCHANGED <<env, mode, goal, boot, data, step, suffix, report>>

FastbootReboot ==
    /\ pc = "reboot"
    /\ Asks("system", mode = "bootloader")
    /\ GoesTo("wait") \/ Finishes("FlashFailed")
    /\ UNCHANGED <<env, mode, boot, vbmeta, data, step, suffix, report, faults>>

\* WaitForDeviceAsync gives up after a minute, if the shell call that it is in
\* returns; the connection of before the reboot may never work again.
WaitForEver ==                                  \* mutant
    /\ pc = "wait"
    /\ Reachable /\ report' = [report EXCEPT !.flash = TRUE] /\ GoesTo("recovery")
    /\ UNCHANGED <<env, device, step, suffix, faults>>
WaitForDevice ==
    /\ pc = "wait"
    /\ \/ Reachable /\ report' = [report EXCEPT !.flash = TRUE] /\ GoesTo("recovery")
       \/ UNCHANGED report /\ Finishes("FlashFailed")
    /\ UNCHANGED <<env, device, step, suffix, faults>>

\* cleaning never ends the run: its result is only reported
CleanEnds(success) == report' = [report EXCEPT !.clean = success] /\ GoesTo("restart")

RebootRecovery ==
    /\ pc = "recovery"
    /\ Asks("recovery", Reachable)
    /\ (UNCHANGED report /\ GoesTo("connectRecovery")) \/ CleanEnds(FALSE)
    /\ UNCHANGED <<env, mode, boot, vbmeta, data, step, suffix, faults>>

\* five seconds later: it may still be the system that answers
ConnectRecovery ==
    /\ pc = "connectRecovery"
    /\ \/ Reachable /\ NoFault /\ UNCHANGED report /\ GoesTo("clean")
       \/ Fails /\ CleanEnds(FALSE)
    /\ UNCHANGED <<env, device, step, suffix>>

Clean ==
    /\ pc = "clean" /\ step \in DOMAIN Commands
    /\ \/ /\ Reachable /\ NoFault
          /\ data' = IF Listing = "listed" THEN data \ {Commands[step]} ELSE data
          /\ step' = step + 1 /\ UNCHANGED report /\ GoesTo("clean")
       \/ /\ Fails /\ UNCHANGED data
          /\ IF env.proxy THEN step' = step + 1 /\ UNCHANGED report /\ GoesTo("clean")
                          ELSE step' = step /\ CleanEnds(FALSE)
    /\ UNCHANGED <<env, mode, goal, boot, vbmeta, suffix>>

CheckClean ==
    /\ pc = "clean" /\ step \notin DOMAIN Commands
    /\ \/ Reachable /\ NoFault /\ CleanEnds(IsClean(Listing))
       \/ Fails /\ CleanEnds(IF env.proxy THEN IsClean("nothing") ELSE FALSE)
    /\ UNCHANGED <<env, device, step, suffix>>

\* a false answer is only a warning
RebootSystem ==
    /\ pc = "restart"
    /\ Asks("system", Reachable)
    /\ GoesTo("waitAgain")
    /\ UNCHANGED <<env, mode, boot, vbmeta, data, step, suffix, report, faults>>

WaitAgain ==
    /\ pc = "waitAgain"
    /\ (Reachable /\ GoesTo("verifyBoot")) \/ Finishes("Partial")
    /\ NoFault /\ Silent

\* a pull that fails leaves the flag false
VerifiedOnceFlashed(name, image) == report.flash        \* mutant
Verified(name, image) == Pullable(name) /\ image = "stock"

VerifyBoot ==
    /\ pc = "verifyBoot"
    /\ \/ Reachable /\ NoFault /\ report' = [report EXCEPT !.boot = Verified(suffix, boot)]
       \/ Fails /\ UNCHANGED report
    /\ GoesTo("verifyVbmeta")
    /\ UNCHANGED <<env, device, step, suffix>>

VerifyVbmeta ==
    /\ pc = "verifyVbmeta"
    /\ \/ Reachable /\ NoFault /\ report' = [report EXCEPT !.vbmeta = Verified("none", vbmeta)]
       \/ Fails /\ UNCHANGED report
    /\ GoesTo("verifyData")
    /\ UNCHANGED <<env, device, step, suffix>>

VerifyData ==
    /\ pc = "verifyData"
    /\ \/ Reachable /\ NoFault /\ report' = [report EXCEPT !.dataClean = DataAdbClean(Listing)]
       \/ env.proxy /\ Fails /\ report' = [report EXCEPT !.dataClean = DataAdbClean("nothing")]
    /\ GoesTo("verifyMounts")
    /\ UNCHANGED <<env, device, step, suffix>>

\* no answer does not contain NO_OVERLAYS either
VerifyMounts ==
    /\ pc = "verifyMounts"
    /\ \E overlays \in BOOLEAN :
        /\ (Reachable /\ NoFault) \/ (env.proxy /\ overlays /\ Fails)
        /\ Finishes(IF report.boot /\ report.vbmeta /\ report.dataClean /\ ~overlays
                    THEN "Restored" ELSE "Partial")
    /\ Silent

\* the flags of a verification that throws are lost with it
Aborts ==
    /\ Finishes("Failed")
    /\ report' = [report EXCEPT !.boot = FALSE, !.vbmeta = FALSE, !.dataClean = FALSE]

\* An exception, a cancellation among them: RunRecoveryCleanAsync catches its
\* own, RunAsync any other.
Throws ==
    /\ \/ pc \in Recovery /\ Fault /\ CleanEnds(FALSE)
       \/ pc \notin Recovery \cup {"done"} /\ Fault /\ Aborts
       \/ pc \in {"analyse"} \cup Verification /\ ~env.proxy /\ ~Reachable /\ NoFault /\ Aborts
       \/ pc \in {"flashBoot", "flashVbmeta"} /\ mode # "bootloader" /\ NoFault /\ Aborts
    /\ UNCHANGED <<env, device, step, suffix>>

(* ------------------------------ the device ------------------------------- *)

\* when asked, or by the user's hand, the battery or the cable
GoesDown ==
    /\ mode # "off" /\ mode' = "off"
    /\ (goal # "none" /\ NoFault) \/ Fault
    /\ UNCHANGED <<env, pc, step, suffix, report, status, goal, boot, vbmeta, data>>

\* a boot image that is not whole does not boot; by a fault it boots elsewhere
Boots(m) == m = "system" => boot # "torn"
ComesUp ==
    /\ mode = "off" /\ goal' = "none"
    /\ LET target == IF goal = "none" THEN "system" ELSE goal
       IN  \/ mode' = target /\ Boots(target) /\ NoFault
           \/ mode' \in Modes \ {"system"} /\ ~Boots(target) /\ NoFault
           \/ mode' \in Modes \ {target} /\ Boots(mode') /\ Fault
    /\ UNCHANGED <<env, pc, step, suffix, report, status, boot, vbmeta, data>>

(* ---------------------------- specification ------------------------------ *)

Init ==
    /\ env \in Setups
    /\ pc = "connect" /\ step = 1 /\ suffix = "none" /\ status = "none"
    /\ report = [flash |-> FALSE, clean |-> FALSE, boot |-> FALSE, vbmeta |-> FALSE,
                 dataClean |-> FALSE]
    /\ mode \in AdbModes /\ goal = "none"
    /\ boot \in Images /\ (boot = "torn" => mode = "recovery") /\ vbmeta \in {"stock", "magisk"}
    /\ data \in SUBSET Entries /\ (~env.adbDir => data = {})
    /\ faults = 0

Host == ConnectAdb \/ Analyse \/ RebootBootloader \/ ConnectFastboot \/ FlashBoot \/ FlashVbmeta
          \/ FastbootReboot \/ WaitForDevice \/ RebootRecovery \/ ConnectRecovery \/ Clean
          \/ CheckClean \/ RebootSystem \/ WaitAgain \/ VerifyBoot \/ VerifyVbmeta \/ VerifyData
          \/ VerifyMounts \/ Throws
Next == Host \/ GoesDown \/ ComesUp

\* Every read over USB, of ADB as of fastboot, has a timeout, and every delay an end.
\* A call through the ADB server has none: ExecuteShellViaServerAsync and
\* PullFileViaServerAsync read until the server closes, and WaitForDeviceAsync looks at
\* its minute only between two such calls.  So the host goes on by itself except in
\* one of these, and nothing is assumed of the device.
Fastboot == {"fastboot", "flashBoot", "flashVbmeta", "reboot"}
OverServer ==
    /\ env.proxy /\ pc \notin Fastboot \cup {"done"}
    /\ pc = "bootloader" => HasStock
Spec == Init /\ [][Next]_vars /\ WF_vars(Host /\ ~OverServer)

(* ------------------------------ properties ------------------------------- *)

HostOK ==
    /\ env \in Setups /\ pc \in Locations /\ status \in Statuses /\ report \in Reports
    /\ step \in 1 .. 6 /\ suffix \in {"none", "_a"}
DeviceOK ==
    /\ mode \in Modes \cup {"off"} /\ goal \in Modes \cup {"none"}
    /\ boot \in Images /\ vbmeta \in Images /\ data \subseteq Entries
TypeOK == HostOK /\ DeviceOK /\ faults \in 0 .. MaxFaults

\* Restored means that both partitions hold the stock images, even when the
\* bootloader said OKAY to an image that it did not program and the device was
\* in any mode when it was asked.
RestoredIsStock == status = "Restored" => boot = "stock" /\ vbmeta = "stock"

\* --dry-run neither programs, cleans nor reboots.
DryRunTouchesNothing == [][env.dryRun => UNCHANGED <<goal, boot, vbmeta, data>>]_vars

\* What Restored says of /data/adb on a device where every ADB shell is root and
\* recovery mounts /data, over a direct connection: at most two entries are left.
RestoredLeavesLittle ==
    status = "Restored" /\ env.root = AdbModes /\ env.mounted /\ ~env.proxy => Cardinality(data) <= 2

\* The stock restore is a reliable flash: boot and vbmeta change only while it is at
\* the step that programs them, which a dry run never is; each is reported when it
\* was read back, and does not change from there on; Restored leaves out neither.
Targets == {"boot", "vbmeta"}
CallState ==
    IF pc = "connect" THEN "idle" ELSE IF pc # "done" THEN "busy"
    ELSE IF status = "Restored" THEN "success" ELSE "idle"
MayChange ==
    IF env.dryRun THEN {}
    ELSE IF pc \in {"analyse", "bootloader", "fastboot", "flashBoot"} THEN Targets
    ELSE IF pc = "flashVbmeta" THEN {"vbmeta"} ELSE {}
Reported == {p \in Targets : report[p]}
Due == IF pc \in {"connect", "done"} THEN {} ELSE Targets \ Reported
Held == [p \in Targets |-> IF p = "boot" THEN boot ELSE vbmeta]
Flasher == INSTANCE ReliableFlash WITH
    Partitions <- Targets,
    Image <- [p \in Targets |-> "stock"],
    Content <- [p \in Targets |-> Images],
    state <- CallState, asked <- MayChange, due <- Due, reported <- Reported,
    flash <- Held, late <- FALSE
FlashIsReliable == Flasher!Spec

\* The run ends, whatever the device does and wherever it is left, unless it waits for
\* ever in a call through the ADB server: directly over USB always, and through the
\* server never between two calls, in fastboot, or by waiting for the device once more.
Terminates == <>(pc = "done") \/ <>[]OverServer
=============================================================================
