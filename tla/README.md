# A verification of BACKRabbit

BACKRabbit restores phones that Magisk (or worse) has changed: over Qualcomm's
Emergency Download mode (EDL: Sahara, then Firehose), over Samsung's Download
Mode, over fastboot and over ADB. It programs and erases partitions of a device
that it sees only through a cable. What must not go wrong is therefore about
pairs of states: what the report says and what the flash holds; what one phase
read and what a later phase writes; what the host believes of the protocol and
what the device is doing. This directory holds TLA+ models of that core, TLC
configurations that check them on small instances, and TLAPS proofs of the main
results for every instance.

All paths below are relative to `src/`.

## Inventory

| Component | State it keeps | Operations | Talks to | What is hard | What makes it correct |
|---|---|---|---|---|---|
| `RescueOrchestrator` | the report, the tampered list, the audit | `RunFullRescueAsync` | diagnostics, restorer, remover, fuse auditor, reboot manager | results of one phase used after the device has changed; any device call may fail, tear or be lost | gates hold over all phases; the report tells the truth about the flash |
| `PartitionDiagnostics` | none | GPT audit, diagnosis, verdict | Firehose client, backup directory, boot image parser | reads that end early or fail become an absence of evidence | a changed partition is seen, or the verdict says it was not |
| `PartitionRestorer` | none (options) | sparse repair, full restore, userdata wipe | Firehose client, backup directory, manifest, console | erase succeeds and write fails; results ignored; three gates in two files | only stock content is written; `Repaired` and `Verified` are true; no single fault makes `WipedAndVerified` false of what is to be sampled |
| `MagiskRemover` | result list | `RemoveAllAsync` | Firehose client, boot image classes | read, repack, write, re-read: each may fail | what it leaves is seen by the second audit |
| `QFuseAuditor` | report | `AuditAsync` | Firehose `PeekAsync` | unreadable fuse counts as not blown | the verdict does not promise more than was read |
| `RebootDownloadManager` | none | find, reboot, prompt, poll | ADB, fastboot, Windows device list | polls and operator prompts | ends in EDL or gives up |
| `FirehoseClient`, `FirehoseResponse` | `IsInitialized` by way of the state machine, chip info | initialise, configure, about ten commands, disconnect | transport, Sahara classes | a response ends on a timer, a cap or an ACK; late answers | the caller gets the device's answer to its own command |
| `SaharaStateMachine`, `SaharaLoaderUploader`, `SaharaPacket` | `CurrentState` | transitions, `UploadAsync` | transport | device chooses offsets and order; unsigned words cast to `int`; reset in mid-transfer | the device ends up with the loader's bytes; stages in order |
| `LoaderDatabase`, `LoaderDetector` | table | lookup, `DetectAsync` | transport | answers HELLO with no state machine | the right loader or none |
| `WinUsbTransport`, `UsbDeviceManager` | handle, endpoints | connect, read, write, control | libusb, WinUSB | failures become 0 bytes | bytes in order; a failure is not an empty success |
| `DownloadModeFlasher`, `PitFile` | `_sessionActive` | initialise, identify, PIT, flash, end, reboot, dispose | `UsbDeviceManager` | late, lost and refused answers; cancellation; short writes | a partition reported flashed is on the device |
| `FastbootClient`, `SparseImage` | `_connected` | connect, getvar, flash, erase, boot, reboot, lock | TCP stream | responses that are neither OKAY nor FAIL; data phases | OKAY is of this command; what was not accepted is not reported |
| `AdbClient`, `AdbKeyManager` | stream ids, connection, keys | connect, auth, shell, push, pull, reboot | TCP stream, key files | no packet is checked to be of the stream that is read; reads with and without a timeout; a user who takes long | a stream gets its own packets; connected means authorised |
| `RestoreStockOrchestrator` (CLI) | result | analysis, flash, verify, recovery clean | ADB, fastboot, MagiskCore | analysis used after a reboot; verify on what was not re-read | success means stock |
| `MagiskUninstaller` | the result | `UninstallAsync` | all MagiskCore classes | any of them may throw, or find nothing where there is something | a clean verdict is true; what comes out boots, and holds nothing of Magisk |
| `BootImageParser`, `BootImageRepacker` | the image | parse, extract, repack | byte arrays | the layout is computed twice, for seven header versions | sections are where a bootloader looks for them |
| `CpioArchive`, `MagiskArtifactDetector` | the entries | parse, serialise, detect, restore, remove | byte arrays | names matched by their endings; detection and removal work from different lists | removal removes what detection detects, and nothing else |
| `AvbRestorer`, `SamsungKernelPatcher`, `CompressionEngine`, `FormatDetector` | none | restore flags, unhook, (de)compress | byte arrays | what is not recognised is passed on | |
| `FirmwareSourcer`, extractor, importer | files | download, decrypt, unpack, import | HTTP, disk | interrupted download or import | backup directory matches its manifest |
| `WizardRunner`, `TrapEscapeRunner`, `ForensicDiagnostics` | menu state | menus | all of the above, console | | |
| `Program`, `FirehoseCommands`, TUI | none | option parsing | all of the above | | |
| Mocks, Python tools, `knowledge-base` | | | | test doubles, an earlier tool, documents and vendored Magisk sources | |

How they interact. Everything is `async` code with one caller: there are no
locks and no worker threads, so the interleavings that matter are those of the
host with the device, with its own timers, and with the caller's order of calls
on an object that an earlier call left half way. The exceptions of a lower layer
pass through phases some of which catch them and some of which do not. Nothing
is persisted that a restart reads back, except the backup directory, which the
rescue only reads (apart from forensic copies).

## Plan

| Order | Module | Composes | State |
|---|---|---|---|
| 1 | `PartitionImage`, `Rescue` (+ `RescueClaims`, `MCRescue`) | orchestrator, diagnostics, restorer, remover, fuse auditor against a faulty device | done, proved |
| 2 | `SaharaSession` (+ `SaharaClaims`, `MCSahara`) | client, state machine, uploader, detector, device | done, proved |
| 3 | `DownloadModeSession` (+ `DownloadModeClaims`, `MCDownloadMode`) | flasher, USB manager, device | done, proved |
| 4 | `RestoreStock` (+ `RestoreStockClaims`, `MCRestoreStock`) | CLI orchestrator over what the fastboot and ADB clients may answer | done, proved |
| 5 | `AdbSession` (+ `MCAdb`) | client, one connection, adbd | done, proved |
| 6 | `Blob`, `CpioFormat`, `RamdiskEdit`, `BootLayout`, `MagiskUninstall` (+ `MCMagiskUninstall`) | uninstaller over archive, detector, parser, repacker, beside magiskboot's formats | done, proved |
| 7 | `DeviceGuard` | what a rescue promises of the device; `Rescue` implements it | done, checked and proved |
| 8 | `ReliableFlash` | what a caller who has partitions flashed may rely on; `DownloadModeSession` and `RestoreStock` implement it | done, checked and proved |

`DeviceGuard` and `ReliableFlash` are the abstract specifications. What the plan
has left to prove is said under "What is proved".

## The modules and the code

In every module the host is the program, one `async` method at a time: `pc` is
the `await` it is parked at, an action is what it does from there to the next
one. The device is code outside the repository; its actions say what a device
may do, and little is assumed of it. The operators marked *mutant* are wrong
versions of the definition under them, kept to see that a property depends on it.

**`PartitionImage`** is the data of the rescue. A partition is a function from
sectors to the block values the code tells apart; a stock file that is too
short and a read that ends early have an `End` suffix. The contracts of the boot
image parser, artifact detector and repacker are predicates on these.

**`Rescue`** is `RunFullRescueAsync`. `EnsureDownloadMode`, `Audit`, `Diagnose`
and `AuditFuses` are phases 0 to 3; `Sparse...` is one partition of
`SparseRepairAsync`; `RestoreBegin`, `RestoreErase`, `RestoreWrite` and
`RestoreVerify` one of `RestoreAsync`, with a device call each, as the device may
be lost between two of them; `Wipe...` is `WipeUserDataAsync` with its token;
`ReadBoot`, `FlashBoot`, `CheckBoot` and `RestoreVbmeta` are one slot of
`MagiskRemover`; then the second audit, the second diagnosis with the verdict,
and the report. `RestoreThrows`, `SparseThrows` and `FlashBootThrows` are the
`catch` branches, `Escapes` the calls whose exceptions nothing catches. `rep` is
the `RescueReport`; `erased` and `written` are the partitions an erase or program
command was ever sent for. The list built before the sparse repair and used
after it is in `rep.diag`, as in the code.

**`DeviceGuard`** knows nothing of phases, reports or failed commands. A
partition changes by `Erase`, `Restore` or `Rebuild`, sector by sector, each with
its gates: no change in a dry run; none of a protected partition without
`--force`; userdata only to zero, with `--wipe-data` and the token; a restored
sector only to the stock image; a rebuilt one only in a boot slot; nothing after
a failed wipe, whose verdict stays. `Rescue!GuardHolds` is its instance with the
pipeline's state substituted: `failed` is `rep.wipe = "VerificationFailed"`, and
the report's other fields are hidden.

**`ReliableFlash`** knows nothing of messages, transfers or modes of a device. A
call is asked for some partitions; those alone may come to change, each to
something an attempt at it leaves; one is reported only when it holds its image
and is left alone from then on; the call succeeds only when nothing is due any
more; and one that gives up promises nothing. It is implemented twice.
In `DownloadModeSession`, `asked` is what is left of the list with its current
partition, `due` that and what was refused, `late` is `strayed`: once an answer was
given up too early, the flasher promises nothing. In `RestoreStock` all of it is
due until the verification has matched it, and `late` is `FALSE`: a device that
reboots, hangs or comes up elsewhere breaks no promise.

**`SaharaSession`** is `FirehoseClient` from `InitializeAsync` on, with two FIFO
queues for `IDeviceTransport`. `sm` is `SaharaStateMachine.CurrentState`.
`ReceiveRequest` is one pass of `UploadAsync`'s loop; `Signed`, `Wrap`,
`Available` and `SendLen` are its casts and subtractions on `Word` = 2^w.
`SendXml`, `ReadReply` and `ReplyIsOver` are `SendCommandAsync`. A response is
followed no further than whether an ACK was found: none ever is (finding
`sahara_ack_lost`), so what a command does after its ACK is not reached.
Calls come in any order, and `Detect` reads the same transport behind the
client's back.

**`DownloadModeSession`** is `DownloadModeFlasher`: `Start` and `FlashFirmware`
are the public calls, `SendRequest`/`ReceiveResponse`/`ResponseTimesOut` is
`ControlTransferAsync`, `SendChunk`/`ReceiveAck`/`AckTimesOut` the loop of
`FlashPartitionAsync`. An image is a sequence of units that know where they
belong, so that the flash shows a hole, a repetition or a foreign byte.
`strayed` records that the host once stopped waiting for an answer that was
still to come. It is history: no action depends on it.

**`RestoreStock`** is `RestoreStockOrchestrator.RunAsync`, a call over ADB or
fastboot being an action. `mode` is what the device runs and `goal` what it has
been asked to reboot to: `Asks` does not wait, `GoesDown` and `ComesUp` happen
when the device likes, and the host's fixed delays guarantee nothing. `env` is
what a run cannot change: options, image files, slots, where the shell is root,
whether recovery mounts `/data`, whether calls go through an ADB server. `Fails`
is a failed call, which throws over a direct connection and answers nothing
through the server. `FlashResults` is what `FlashAsync` may answer. `OverServer` is
where the host waits in a call through the ADB server, which it tries first: such a
call has no timeout. `WaitForDeviceAsync` looks at its minute only between two calls.

**`MagiskUninstall`** is `UninstallAsync`, one action for each of its seven steps;
whatever a step throws is `Fail`. It works on bytes: **`Blob`** keeps a byte
string as its size and the meaningful runs at their offsets, so that a slice at
the wrong offset yields nothing. **`CpioFormat`** holds `CpioArchive.Parse` and
`Serialize` and, beside them, the reader and writer of magiskboot's `cpio.rs`.
**`RamdiskEdit`** holds the entry operations, `Detect`, `SurgicalRemoval` and
`RestoreFromBackup`; text files keep the lines the edits look at. A name is a sequence
of pieces of text, cut wherever the code looks for a beginning, an ending or a part of
a name, so that `sbin/xinit` ends in `init` as it does for `EndsWith`, and every file
that begins with `fstab.` is edited. **`BootLayout`**
holds the parser's and the repacker's layout, and after them (`Ref...`) that of
`bootimg.cpp`: a header is an atom with the words read from it by byte offset, so
that the same bytes are read by both. A system call table that the kernel cuts off
(`TableCut`) makes the kernel's step throw. The constant `Contents` is what a compressed
part may decompress to. `RunAgain` puts an output in again, as a
user would who checks the result.

**`AdbSession`** is `AdbClient` on a connection of its own, not through an ADB
server. `Connect`, `CnxnAnswered`, `SignatureAnswered` and `Polled` are the
handshake; `Operation` begins a shell command, reboot, pull or push, and
`ShellReads`, `PullReads`, `PushReads` are what each makes of the next packet
`AdbStream.ReadAsync` gets. As in the code, no packet's ids are looked at. The
device (`DeviceReceives`, `DeviceWrites`, `CommandEnds`, `UserAccepts`) follows
the protocol the code is documented with
(`knowledge-base/companion-docs/AdbClient.cs.md:184`). Every payload carries the
operation it answers, which shows whose output is returned. The device's sync service
may refuse (FAIL) any pull or push when it hears of it; a push sends the path as the
code does, in a text that begins with `SEND` behind the header of an `ID_SEND`, which
is not the path the caller gave. `delivered` is what the device has taken as files.
`strayed` is history: an operation has ended before all that belongs to it was read.

The `...Claims` modules hold what the repository says and the code does not do;
the `MC...` modules the instances.

## What the runs check

| Run | Instance | States | Shows |
|---|---|---|---|
| `rescue` | 4 devices, 5 backups, 4 command lines, 1 fault | 169 454 | the refinement `GuardHolds`; no command past a gate (`DryRunTouchesNothing`, `BlocklistHolds`, `WipeGated`), stock-only repair (`SparseWritesStock`), the report's words (`RepairedIsStock`, `VerifiedIsStock`), `Terminates` |
| `rescue_two_faults` | 2 tampered devices, 4 backups, live, with and without a wipe, 2 faults | 911 744 | what a restored partition and a recovered verdict mean: `RestoredIsStock`, `UnrepairedIsSeen`; that verification is switched on only above a whole boot image: `VerityOverWholeBoot`; that no single fault makes a wipe verified over data in the sectors to be sampled: `WipedAsSampled` |
| `sahara` | 3-byte loader, 4-bit words, 3 calls, 2 packets, 1 reset | 580 993 | `DeviceHoldsLoader`, `HostEndsPastLoader`, `OneWayHandshake`, `CommandsEnd` |
| `download` | 3 images, 3 calls, 2 faults, 1 return | 167 664 | the refinement `FlashIsReliable`; `FlashedUnlessStrayed`, `LandsInItsPartition`, `SessionAgrees`, `CallsReturn` |
| `restore_stock` | 18 devices and options, 3 entries, 2 faults | 696 878 | the refinement `FlashIsReliable`; `RestoredIsStock`, `RestoredLeavesLittle`, `DryRunTouchesNothing`, `Terminates` |
| `uninstall` | 15 layouts, 20 ramdisks, 8 options, 2 runs each | 6 620 | `OutputReadsBack`: the new image in magiskboot's layout; `CleanIsClean`, `DoneIsClean`, `StockSurvives`: what is said and done of Magisk and of everything else |
| `adb` | 2 transports, 4 greetings, 2 operations, 1 fault | 1 093 115 | `ConnectedIsAuthorised`, `ShellReturnsItsOutput`, `OperationsEnd`; `FilesAreWhole`: the device takes no file made of two pushes, whatever was left behind |

Five runs find a statement of the repository violated:

| Run | Statement | What happens |
|---|---|---|
| `rescue_stale_list` | the fallback takes partitions still tampered after the repair | it erases one that was repaired and verified |
| `rescue_now_match` | all previously mismatched partitions now match | said of one that the second audit could not read |
| `sahara_ack_lost` | the response loop sees the ACK | the read's bytes never reach its buffer |
| `download_late` | "flashed successfully" | a late answer acknowledged something else |
| `restore_stock_clean` | "/data/adb is clean or minimal" | permission denied is taken for a clean directory |

### Bounds, and why they are enough

`rescue`: two sectors are the fewest with a header and a ramdisk, a sector that
is repaired beside one that is not, a torn write and a short file; one boot slot,
its vbmeta, one blocklisted partition and userdata are one of every class the
code distinguishes; slots and partitions do not share state, and the theorems
hold for any number. One fault reaches every `catch`; two are needed for a
repair that is lost and then not seen, and for a torn erase whose readback ends short
of what it left. `rescue_now_match` has a partition
outside the critical list instead of `sec`, where the fault bites.

`sahara`: with four-bit words and three bytes, the five offsets are inside the
loader, its last byte, its end, and the two signs with and without wrap-around;
a second packet shows order, and a reset a request answered late. Three calls
allow a failed handshake, a second one, and a command or disconnect.

`download`: an image of two chunks with a short last one, one of a single chunk
and an empty one, a list with a partition that is not in the package; three
calls are initialise, a flash that goes wrong, and the flash that finds what it
left; two faults make a short write and a lost request meet.

`restore_stock`: two faults let a reboot be missed and a call fail, or a torn
image be taken for good. Three entries are one more than the verdict forgives:
two that the cleaning removes and one that it does not.

`uninstall`: the layouts are every header version, with and without a second stage, a
DTBO, a DTB, a signature, a prefix, an extra section, a header that says it is shorter
than what is written into it, and Samsung's PXA header, with its sections where they
belong and where the parser looks for them; sizes leave every remainder modulo four
and modulo a page. The ramdisks are unpatched, patched in each of Magisk's ways, with
each kind of backup (raw, gzip, xz, an archive of this program's own and a newc one),
and with a second injected `init.rc`. Eight hold files of the maker's that a search by
ending or beginning finds: `sbin/xinit` or `avb/system/bin/init` ahead of `/init`, no
`init` at all, a `.backup/init` beside the saved one, `foo_init.rc`,
`vendor/sepolicy.rules` and `vendor_ramdisk.cpio.orig` ahead of Magisk's, and several
fstabs, one of which ends in `init.rc`. A kernel has a whole table, a hooked one or
one that is cut off. Tails are none, Samsung's marker, and a vbmeta near the end and
far from it. Two runs are a run and its check.

`adb`: two operations are one that leaves something behind and one that meets
it; empty output and two pieces show both ends of a stream and its order; two
polls are the last one and one before it; one fault is a late answer, a
cancellation or a cut cable. A refusal is no fault: the device may refuse whenever it
is asked.

Deadlock is not checked for the last five modules: a session whose caller has
made its calls, an uninstall that has ended, and a `RestoreStock` that is done
with the device up, stop.

### Fairness

`Rescue` has `WF_vars(Next)`: the pipeline is one method whose every call on the
device returns or throws. `SaharaSession` has it for `Exchange`, the command loop and
its 500 ms timer, but not for the handshake, whose reads are bounded only by what the
transport does, nor for callers or devices. That timer is a token given to
`IDeviceTransport`, and `CommandsEnd` rests on a transport that honours it: where
`WinUsbTransport` reads from a tty (`WinUsbTransport.cs:105-114`) the read may block
in spite of it. `DownloadModeSession` has it for `Host`: every transfer carries a
timeout. Nothing is assumed of a caller, and a device may stop answering for ever; the
liveness properties hold in spite of that. `RestoreStock` has it for `Host /\
~OverServer`: reads over USB, of ADB and of fastboot, have a timeout, the fixed delays
end, and a poll that fails is followed by the next or by the end of the minute. A call
through the ADB server has none (`ExecuteShellViaServerAsync`, `AdbClient.cs:640-697`;
`PullFileViaServerAsync`, `AdbClient.cs:1049`), and `WaitForDeviceAsync`
(`AdbClient.cs:767-790`) looks at its minute only between two of them. So `Terminates`
says that a run ends or waits for ever in such a call: not between calls, not in
fastboot, not over USB, and not by waiting for the device again and again.
`AdbSession` is different: over TCP `ReadPacketAsync` has no timeout, so an operation
ends only if the device answers. Its fairness is `WF` of `Client` and of `Adbd`; none
of the user, who may never accept the key (the handshake then waits for ever:
`OperationsEnd` starts after it), of cancellations or of the USB timeout.
`MagiskUninstall` is a function in steps and states no liveness.

## What is proved

TLAPS checks these for every value of the constants: any number of partitions,
sectors, faults, loaders of any length and words of any width, any set of
devices. The assumptions are the `...Assumption`s of each module, which TLC
evaluates on every run; all of them describe the tables and files the code is
built with (userdata is neither critical nor a boot slot; a boot slot and its
vbmeta are not on the blocklist; a loader is shorter than 2^(w-1)).

The proofs are in `RescueProofs` (types, gates, the failed wipe),
`RescueRepairProofs` (what the report says of the flash, the verdict, the
refinement), `SaharaProofs`, `DownloadModeProofs`, `RestoreStockProofs`,
`AdbProofs`, `ArchiveProofs` (byte strings and archives) and `UninstallProofs`.

- **Types** (`TypeCorrect`, `SessionTypes` of three modules, `RestoreTypes`). For
  `Rescue`, `TypeOK` is not inductive: what a `RestoreErase` does is typed only if
  `cur` is a partition, so `Typed` adds which partitions `cur` may be at each step.
  For `SaharaSession` the work is that no chunk holds a byte from outside the loader:
  the lemmas on `Wrap` and `SendLen` show that a request that passes both checks lies
  inside.
- **Gates of the rescue** (`DryRunSafe`, `BlocklistSafe`, `WipeSafe`). Each speaks of
  what was ever erased or written; inductive is `Gates`, which adds `Control`: the
  guards passed on the way to a device call still hold when it is made, and userdata
  is not erased before the wipe.
- **A failed wipe** (`FailedWipeSafe`) from `WipeOver`: it is in the report only
  once the pipeline has jumped to its end.
- **The refinement** (`RescueGuarded`): `Spec => GuardHolds`, in
  `RescueRepairProofs`. `GuardInvariant` gathers what a step needs from the
  invariants above: that a device call is past its gates, that a boot image in
  `buf` is one the repacker builds, that the jump of a failed wipe is taken.
  `GuardStep` maps each action to an abstract one: an erase to `Erase`, a write of
  a stock file to `Restore`, of a repacked image to `Rebuild`, the prompt to
  `Confirm`, everything else to `Deliberate` or a stutter.
- **Repair and restore** (`SparseStockSafe`, `RepairedSafe`, `VerifiedSafe`).
  `RepairInv` and `RestoreInv` add that a partition is done once: one that is
  already marked is neither in the loop's list nor the current one, so a later
  write cannot disturb it.
- **The verdict** (`RestoredSafe`, `UnrepairedSafe`) from `VerdictInv`: what the
  second audit saw matching is what the device holds, and nothing is written after it.
- **A verified wipe** (`WipedSafe`, of `WipedAsSampled`). Over data that is left in the
  sectors to be sampled, the first and the last of the partition, `WipedAndVerified`
  is said only after two device calls have gone wrong: an erase that left it, and a
  readback that ended short of it. `WipedInv` says that data survives an erase only at
  the cost of a fault, that a readback with no fault of its own is of the whole
  partition and finds it, and that a verified wipe leaves no Magisk removal due, so
  that nothing writes userdata after it.
- **Verified boot over a whole image** (`VeritySafe`) from `VerityInv`: a slot is
  cleaned once (it is no longer in the list when its vbmeta is written back, and
  what is in the list has no vbmeta restored), and at that point its boot image has
  been read back. A readback that parses and whose ramdisk can be extracted is not
  a prefix (`InspectedIsWhole`).
- **The loader on the device** (`LoaderArrives`). Inductive is `Places /\ InOrder`:
  before the upload no chunk is on its way (`BeforeUpload`); from then on either the
  chunks in flight, and those the host has still to send for the requests in its
  queue, answer what the device waits on, request by request (`Paired`), or the
  device has started over under the upload (`Stale`) and takes no chunk before the
  host has greeted it again, ahead of which it must read something that is no
  request. Until the restart the only HELLO is the first (`FirstHello`).
- **Download Mode** (`SessionKept`, `SuccessIsFlashed`, `ImagesLandInPlace`).
  `InStep` lists, for every `await` the host can be parked at, what is in the two
  pipes and where the device is while nothing has strayed: at most one message is on
  its way, and it is of the transfer the host is at. A pulled cable empties them
  (`GoneIsQuiet`). `DoneOnce` says that a partition counted as successful is not
  transferred again, which needs that no list has a name twice; `Agrees`, that an
  active session is a device's session until the answer to a command that ends it.
- **ADB** (`OnlyAuthorised`, `ShellOutputIsItsOwn`). `Authorised` adds to
  `ConnectedIsAuthorised` that a CNXN on the way is that of a device that has
  accepted. `InStep` says, stage by stage, what may be on the wire; while a shell
  command is read, what was got, the packets on the way and what the device has
  still to write are the output of that command, in order, then the end of its
  stream (`Flow`).
- **The loader's end and the order of the handshake** (`EndSafe`,
  `HandshakeForward`): the second rests on `Error`, `Done` and `MemoryDebugMode`
  being unreachable, so that the one way back to `Disconnected` is closed.
- **restore-stock** (`RestoredHoldsStock`, `RestoredIsMinimal`): inductive is
  `VerdictInv`, that the flags of the verification are set only while verifying
  and nothing changes the partitions or `/data/adb` from there on, so that a
  device that reboots, hangs or comes up elsewhere cannot make them stale;
  `DryRunIsHarmless` needs that a dry run is never past the analysis.
- **A reliable flash, twice** (`FlasherIsReliable`, `RestoreIsReliable`):
  `Spec => FlashIsReliable`. For the flasher, `DoneOnce` makes `Program` one of a
  partition that is not reported, `Agrees` and `InStep` make the device program only
  the current one, and `Counts` that a list that has ended without a failure leaves
  nothing due. A settled partition is `Report` or `PassOver`, the end of the list
  `Succeed` or `GiveUp`, a step that strays free. For the stock restore the
  invariant is `FlagsInOrder` with `VerdictInv` and `DryRunInv`: a flag of the
  verification is set only past the last write, so that what it reports stays.
- **The archive** (`ParseSerialize`): whatever the entries, `Parse` returns exactly
  those that `Serialize` wrote. `Parse` and `ConcatAll` are recursive functions, over
  bytes and over sequences. The prover cannot use the library's induction theorems,
  but it can use `WFMin`, that some of a set of numbers is the least; from it comes
  `SetInduction`, and from that both that the functions exist (`ParsedUnfolds`,
  `JoinedUnfolds`, `ChosenUnfolds`, `StartsUnfolds`) and what they return. An entry is
  read where it was written because a blob that is joined from others `Holds` each
  (`JoinedHolds`), and a slice of where it is held is that blob (`SliceHeld`).
- **The two archive formats**: for every length of name and file,
  `DataNeverWhereNewcHasThem` and `EntryNeverWhereNewcHasIt`. A header of 110 bytes is
  2 modulo 4; one format pads it together with the name, the other the name alone.
  So where either reader looks for the second header of the other's archive there is
  none, as the real one is two bytes away (`TwoBytesApart`) and headers do not overlap
  in a well formed blob: `NewcIsRefused`, `OwnIsRefused`, and of all that the two
  writers write `NoArchiveIsMisread`.
- **The image** (`RepackReadsBack`): in a ported header parser and reference agree on
  page and sizes (`PagesAgree`, `SizesAgree`), so on the place of each section
  (`RefPlaces`, `SectionsAgree`). The header that is written is again ported, with the
  new sizes and no other changed (`NewSizes`); so the sections, each padded to a page
  and joined, are where it says (`PartsInPlace`).
- **The uninstaller** (`UninstallTypes`, `ReadsBack`): `OutputReadsBack` follows from
  the two above and `FromFile`, the inductive invariant: image, kernel and output are
  what the steps made of the file, and everything they are made of is well formed to
  any depth (`Good`): the entries that `Parse` returns of any bytes
  (`ParseIsArchive`), those left by each edit of a ramdisk (`SurgicalGood`,
  `RestoreIsArchive`), the kernel unhooked, and so what is written, which the next run
  takes for its file. `ContentsAssumption` says that the images to start from are well
  formed: atoms do not overlap, and what the code reads as a number is one.

- **What the uninstaller says and does of Magisk** (`CleanIsTrue`, `DoneIsTrue`,
  `StockIsKept`). `FromFile` is not enough: a run may take what an earlier one wrote.
  `Known`, the second inductive invariant, says that the file a run has is a sound one
  (`SoundImage`: if its header is ported, what is assumed of the images to start from
  holds of it), that `found` is what `Parse` read of its ramdisk, with Magisk in it but
  at a clean end, and that `restored` is what the chosen way makes of `found`. A
  ramdisk that is written has been cleaned by an edit that `PatchedAsKnown` survives
  (`RestoredIsKnown`), is packed as `Parse` reads it (`ParseSerialize`), and is found
  in the output (`RepackReadsBack`); hence the output is sound (`OutputIsSound`), and
  `RunAgain` keeps `Known`. A clean verdict is then true because the ramdisk is an
  archive of one format: if `Parse` has read it, the newc reader refuses it. A
  successful run leaves nothing because detection and removal, which work from
  different lists, agree on entries placed as Magisk places them. `StockIsKept` holds
  whatever the files are called. `GetEntry` takes the first whose name ends as it
  should, so for each ending that is searched one file may be lost or overwritten, and
  it is the first. The kept entries are split into those with none of the searched
  endings, which an edit does not touch (`Others`), and those with each (`Ending`), of
  which all but the first stay (`AllButFirst`). `SurgicalRemovalKeeps` and
  `RestoreInitRestores` follow these through the edits one by one; `ChosenOfPicked` and
  `SameButFor` say what a selection of entries is after one entry is taken out or
  changed.

What is assumed of an image, in the two assumptions of `MagiskUninstall`:
`ContentsAssumption`, that it is well formed (above; an entry's header is one whole
header), and `ImagesAssumption`, that its ramdisk is what Magisk leaves. That is: the
ramdisk, if the decoder knows its compression, is an archive of one of the two
formats (`IsCpio`); and if `CpioArchive` reads it and there is Magisk in it, then
Magisk's files are in its two directories or end in one of three names
(`ArtifactsPlaced`), an `init.rc` is a text (`InitRcIsText`), with a saved `init`,
and no saved ramdisk, nothing of Magisk is outside its directories (`InitSaved`), and a
saved ramdisk is no fstab and, if it can be read, was packed as `Serialize` packs it
and has no Magisk in it (`RamdiskSaved`). Nothing is assumed of what the maker's files
are called, nor of which file a search finds first. Without the assumptions the three
are not true: bytes can be put together that both readers accept and read differently,
and a backup may be of a ramdisk that was patched before. TLC evaluates both
assumptions on every image of `MCMagiskUninstall`.

Only model-checked are the liveness properties (`Terminates` of two modules,
`CommandsEnd`, `CallsReturn`, `OperationsEnd`), as fairness and `ENABLED` are beyond
the prover, and `FilesAreWhole`, whose proof is left to do. The `...Claims` are refuted
by TLC's counterexamples. Every other invariant, action property and refinement of a
passing run is a theorem.

## What is not modelled, and what to know

- `Rescue` takes `IFirehoseClient` by its contract, as the repository's tests do
  with `MockFirehoseClient`. The `FirehoseClient` that ships never sees an ACK
  (`sahara_ack_lost`), so over it every phase that writes fails.
- `SaharaSession` takes `IDeviceTransport` by its contract. `WinUsbTransport`
  reads the packet length from beyond the header (`WinUsbTransport.cs:92`).
- `DeviceHoldsLoader` is stated for a device that starts over at most once. With a
  second restart it is false: the HELLO that the host finds in its queue may be that
  of the device before, which it greets, and then answers a request of that one to
  the device that has started over since (`SaharaLoaderUploader.cs:42` has no more
  than the offset and the length to go by). Two restarts in one upload are out of
  the ordinary, and no document promises anything of them.
- Nothing in the CLI calls `DownloadModeFlasher`; `ReadPitAsync` asks for fewer
  bytes than a PIT has and always throws, and is modelled so.
- `WipedAndVerified` with a short or an empty readback compares only the sectors that
  came, be it none (`PartitionRestorer.cs:412-478`), although the first 1000 and the
  last 100 are promised (`PartitionRestorer.cs:339`, `WipeDataResult.cs:9`). The model
  has it; `WipedAsSampled` is about the data under the verdict and does not excuse it.
- What the vbmeta of a slot is tested for is the word at its offset 4
  (`MagiskRemover.cs:186`), the version of AVB and not its flags. `VerificationDisabled`
  is a property of the block and does not say of which word; a `<boot>_ramdisk.img` in
  the backup directory, if there is one, is used before the stock boot image
  (`Ramdisks`).
- That a late answer is read by the next command, and that `IsInitialized` is set
  before the configure is acknowledged, are in `SaharaSession`; no property is about
  them. As no ACK is ever seen, nothing tells a late answer from the right one.
- A stock file that is shorter than its partition is always a mismatch for the
  diagnosis, also after a restore: the verdict is then `PermanentDamage`.
- `RestoreStock` leaves out the analysis's verdict and printing (no later phase
  reads them), the fallback of the analysis to a recovery ramdisk, and
  `RunCleanAsync`, which nothing calls. `ls -la` of an empty directory has three
  lines, so a complete cleaning is reported as partial
  (`RestoreStockOrchestrator.cs:690`), and `AdbClient.RebootAsync` sends
  `reboot:` to the shell (`AdbClient.cs:1130`): a reboot may always be without
  effect in the model.
- The rule "`VerifyStockIntegrity` must check the manifest.json SHA256 hash BEFORE
  any write" (`.clinerules/03-safety-constraints.md:12`) is kept by the sparse
  repair alone (`SparseWritesStock`): `RestoreAsync` (`PartitionRestorer.cs:139`)
  and `MagiskRemover` (`MagiskRemover.cs:153`, `:194`) write files that the
  manifest does not vouch for. `DeviceGuard` asks only for the stock file.
- `SaharaState.Error` "reached from any state on protocol violation"
  (`knowledge-base/firehose/OPERATIONS.md:42`) is entered by no code, and as it is
  the only state from which `Disconnected` can be reached, `DisconnectAsync`
  throws from every state.
- A file longer than its partition is programmed past its end
  (`FirehoseClient.cs:192`; the restore only warns): files here are not longer.
- On a device with slots `RestoreStock` flashes `vbmeta` without the suffix boot
  gets (`RestoreStockOrchestrator.cs:401`), and its analysis throws on a boot image
  that does not parse (`:205`). Both are in the model; no document says otherwise.

### The uninstaller

- `OutputReadsBack`, `CleanIsClean`, `DoneIsClean` and `StockSurvives` speak of
  headers on which parser and reference agree (`Ported`). On the others they disagree,
  and the model has them: a PXA header's page size is read at the wrong offset (36
  instead of 44, `BootImageParser.cs:154`, although `knowledge-base/USER_GUIDE.md:405`
  calls the format fully supported): the run fails, or, should there be sections that
  far out, writes the word it read into the place of the page size; a version 0 header
  with an extra section of more than four bytes is taken for an unknown version
  without a ramdisk, which gives "No Magisk installation detected"; a second stage in
  versions 1 and 2 is dropped; a vendor header longer than its page is taken to end
  with the page; the DHTB prefix is not written back. Within `Ported`, the command
  line of versions 3 and 4 comes out four bytes later, the signature's size and the
  vendor ramdisk table are lost from the header, `recovery_dtbo_offset` is not
  updated, and an output is not padded to the partition: none of it moves the kernel
  or the ramdisk.
- Every real ramdisk is a newc archive, and `CpioArchive.Parse`, which calls itself a
  parser of newc (`CpioArchive.cs:9`), refuses it (`NewcIsRefused`): line 62 pads the
  name alone where newc pads header and name together. The archives it writes, no
  other reader can read (`NoArchiveIsMisread`). So the other properties are about
  archives of its own kind, which is what its unit tests use, and `CleanIsClean` says
  that a newc one fails rather than passes for clean.
- Surgical removal leaves Magisk's `init` as `/init` and deletes the backup it came
  from; of several injected `init.rc` files it cleans the first, so that a run says
  success and the next finds Magisk again, for ever (the exception in
  `DoneIsClean`). `RemovePatterns` drops whole fstab lines, `/data`'s among them.
- AVB flags are hardly ever restored: an `AVB0` in the last 1024 bytes makes `Parse`
  throw, and elsewhere it is not looked for. `ForceStockFirmware` is ignored when
  there is a backup. The command line tool's handler writes no output file.
- `GetEntry` compares the ends of names as strings (`CpioArchive.cs:195`). With
  `sbin/xinit` ahead of `init` the saved `init` is written into that and Magisk's stays
  `/init`, and the run is a success: `StockSurvives` names the file that is lost, and
  `DoneIsClean` is about what `Detect` finds. An entry `.backup/init` receives the saved
  `init` and is then removed with its directory.
- `Detect` looks for `init.rc` in any case of letters, the edits in lower case; names
  here are in one case.

### ADB

- Over a direct connection a pull ends at the device's `OKAY` to its request: it
  returns true with an empty file. Two of them in a row, as the stock restore makes,
  may leave the client waiting for ever over TCP. A push returns true whatever the
  device's status says, a FAIL included, and its path goes to the device in the text
  `SEND<path>,<mode>` behind the header of an `ID_SEND` (`AdbClient.cs:1083-1090`), so
  that the file, if it is taken, is not where the caller wants it. No document
  promises more than "Push file to device" (`AdbClient.cs:1071`), and no property
  does: `FilesAreWhole` says what the device can rely on, that a file is of one push.
  Both leave packets behind, so that a later command may return nothing, or another's
  output, or a mixture: the properties hold only while nothing has strayed, and the
  runs show that this is enough.
- `_connected` stays true after the cable is gone. The thirty polls do not bound the
  wait over TCP. `RebootAsync` returns true whatever happens.
- Keys and signatures are the device's judgement. The path through an ADB server
  has no packets and is a choice of answers in `RestoreStock`; a push has no such
  path.

### The rest

- The components with status `not_modelled` in `PROJECT.json`: console menus,
  option parsing and rendering; HTTP and archives; test doubles; an earlier Python
  tool.
- `knowledge-base/` holds documents and Magisk's own C++ and Rust sources of some
  ten versions. They are reference material and no part of the program, which is
  C#: they are modelled where the program says it is ported from them (`Ref...` in
  `BootLayout`, `Newc...` in `CpioFormat`, after version 30.7) and serve as the
  definition that the port is compared with. The rest of them has no counterpart
  here and is not modelled.
