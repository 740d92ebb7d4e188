-------------------------- MODULE MagiskUninstall ---------------------------
(***************************************************************************)
(* MagiskUninstaller.UninstallAsync: a boot image is parsed, its ramdisk   *)
(* unpacked and searched, restored or cleaned, the kernel is put back, the *)
(* image is repacked, its AVB flags are restored, and it is written out.   *)
(* One action is one step of the method; whatever a step throws ends the   *)
(* run with Success = false.  An image that came out may go in again,      *)
(* which is how a user checks that Magisk is gone: MaxRuns bounds it.      *)
(***************************************************************************)
EXTENDS BootLayout

CONSTANTS
    Images,     \* the boot images to start from
    Contents,   \* what their compressed parts decompress to
    Options,    \* [prefer, force, kernel: BOOLEAN]: PreferBackupRestore,
                \* ForceStockFirmware and RestoreKernel of UninstallOptions
    MaxRuns     \* bound: runs, each on the image that the last one wrote

\* What an atom of a kind has in it: numbers where the code reads numbers, lines
\* where it reads lines, the sizes of kernel and ramdisk in a boot header, and in
\* what is compressed something in B.
IsSequence(s) == s \in Seq({s[i] : i \in DOMAIN s})
Proper(v, B) ==
    /\ v.kind = "070701" => v.namesize \in Nat /\ v.filesize \in Nat
    /\ v.kind = "name" => NameSize(v.name) \in Nat \ {0}
    /\ v.kind \in {"fstab", "rc"} => IsSequence(v.lines)
    /\ v.kind = "gzip" => v.of \in B
    /\ v.kind = "kernel" => v = [kind |-> "kernel", marks |-> v.marks, table |-> v.table]
    /\ IsBootHeader(v) =>
          /\ v = [kind |-> v.kind, words |-> v.words]
          /\ v.words \in [DOMAIN v.words -> Nat]
          /\ SizeWords(v) \subseteq DOMAIN v.words

\* The header of an entry is one whole header.
HeaderWhole(a) == IsHeader(a.val) => a.size = HeaderSize

\* A set of byte strings that are well formed, and so is all that is in them.
Closed(B) ==
    \A b \in B :
        IsBlob(b) /\ \A x \in DOMAIN b.at : Proper(b.at[x].val, B) /\ HeaderWhole(b.at[x])

\* A first entry that is not the trailer, and where the readers look for the next:
\* an archive is of the one format or the other if it goes on there, with a header
\* or, for the reference's, with a header and its name.
FirstEntry(b) == IsHeader(ReadAt(b, 0)) /\ NameAt(b, HeaderSize) # Trailer.name
OwnNext(b)  == EntrySize(ReadAt(b, 0).namesize, ReadAt(b, 0).filesize)
NewcNext(b) == NewcEntrySize(ReadAt(b, 0).namesize, ReadAt(b, 0).filesize)
GoesOn(b)     == IsHeader(ReadAt(b, OwnNext(b)))
NewcGoesOn(b) ==
    /\ IsHeader(ReadAt(b, NewcNext(b)))
    /\ InRange(b, NewcNext(b), NewcDataOffset(ReadAt(b, NewcNext(b)).namesize))
IsCpio(b) == FirstEntry(b) => GoesOn(b) \/ NewcGoesOn(b)

ASSUME UninstallAssumption ==
    /\ MaxRuns \in Nat \ {0}
    /\ Options \subseteq [prefer : BOOLEAN, force : BOOLEAN, kernel : BOOLEAN]

ASSUME ContentsAssumption ==
    /\ Closed(Images \cup Contents)
    /\ FstabLineSize \in Nat /\ RcLineSize \in Nat
    /\ \A name \in {Trailer.name, Garbled, <<"init">>} : NameSize(name) \in Nat \ {0}

\* Where Magisk has put what it installed: in its two directories, or under one of
\* three names.
InMagiskDir(e) == InDirectory(e, Overlay) \/ InDirectory(e, BackupDir)
OutsideNames == {FullBackup, MagiskRc, Policy}
AtMostOnce(es, name) ==
    \A i, j \in DOMAIN es :
        /\ ~InMagiskDir(es[i]) /\ IsSuffix(name, es[i].name)
        /\ ~InMagiskDir(es[j]) /\ IsSuffix(name, es[j].name)
        => i = j
ArtifactsPlaced(es) ==
    \A i \in DOMAIN es :
        IsArtifact(es[i]) => \/ InMagiskDir(es[i])
                            \/ \E name \in OutsideNames : IsSuffix(name, es[i].name)

\* An init.rc is a text.
InitRcIsText(e) ==
    IsSuffix(InitRc, e.name) /\ ~IsFstab(e) => e.data = RcBlob(Lines(e.data, "rc"))

\* With a saved init everything else of Magisk is in its directories.  A saved ramdisk
\* is no fstab and, if it can be read, an archive without Magisk.
InitSaved(es) ==
    HasEntry(es, InitBackup) /\ ~HasEntry(es, FullBackup) =>
        \A i \in DOMAIN es : IsArtifact(es[i]) \/ IsInjected(es[i]) => InMagiskDir(es[i])
RamdiskSaved(es) ==
    \A i \in DOMAIN es :
        IsSuffix(FullBackup, es[i].name) =>
            LET saved == es[i].data
                a     == Parse(saved)
            IN  /\ ~IsFstab(es[i])
                /\ a.ok => saved = Serialize(a.entries) /\ ~IsMagiskInstalled(a.entries)

PatchedAsKnown(es) ==
    /\ ArtifactsPlaced(es) /\ InitSaved(es) /\ RamdiskSaved(es)
    /\ \A i \in DOMAIN es : InitRcIsText(es[i])

KnownRamdisk(im) ==
    CanExtract(im, "ramdisk") /\ ~Undecodable(Extract(im, "ramdisk")) =>
        LET b == Decompress(Extract(im, "ramdisk"))
        IN  /\ IsCpio(b)
            /\ Parse(b).ok /\ IsMagiskInstalled(Parse(b).entries)
                  => PatchedAsKnown(Parse(b).entries)

\* The ramdisks of the images to start from are archives, and nothing but Magisk has
\* put Magisk into them.
ASSUME ImagesAssumption == \A f \in Images : HasHeader(f) => KnownRamdisk(ParsedImage(f))

VARIABLES
    pc,        \* the next step of UninstallAsync
    opt,       \* the options
    run,       \* how many runs there have been
    file,      \* the image at BootImagePath
    image,     \* what Parse made of it, in a sequence of length at most one
    found,     \* the entries of its ramdisk
    restored,  \* the entries of the restored ramdisk
    method,    \* UninstallResult.Method
    kernel,    \* the kernel that will be repacked
    output     \* UninstallResult.RepackedImage, in a sequence of at most one

vars == <<pc, opt, run, file, image, found, restored, method, kernel, output>>

Methods == {"none", "full", "init", "surgical"}
Ends    == {"failed", "clean", "needsStock", "done"}
Steps   == {"load", "extract", "choose", "kernel", "repack", "avb", "write"} \cup Ends

Init ==
    /\ pc = "load" /\ run = 1
    /\ opt \in Options /\ file \in Images
    /\ image = <<>> /\ found = <<>> /\ restored = <<>> /\ method = "none"
    /\ kernel = Zeros(0) /\ output = <<>>

FailGoesOn == pc' = "write"                       \* mutant
Fail == pc' = "failed"

\* Step 1: _bootParser.Parse.
Load ==
    /\ pc = "load"
    /\ IF Parses(file) THEN pc' = "extract" /\ image' = <<ParsedImage(file)>>
       ELSE Fail /\ UNCHANGED image
    /\ UNCHANGED <<opt, run, file, found, restored, method, kernel, output>>

\* ExtractRamdiskArchive: the archive, or what it throws.
RamdiskArchiveOrEmpty(im) ==                        \* mutant
    IF ~CanExtract(im, "ramdisk") THEN Read(<<>>)
    ELSE LET a == Parse(Decompress(Extract(im, "ramdisk"))) IN IF a.ok THEN a ELSE Read(<<>>)
RamdiskArchive(im) ==
    IF ~CanExtract(im, "ramdisk") \/ Undecodable(Extract(im, "ramdisk")) THEN Invalid
    ELSE Parse(Decompress(Extract(im, "ramdisk")))

\* Step 2: the ramdisk is unpacked and searched; without Magisk the run is over.
ExtractRamdisk ==
    /\ pc = "extract"
    /\ LET a == RamdiskArchive(image[1])
       IN  IF ~a.ok THEN Fail /\ UNCHANGED found
           ELSE /\ found' = a.entries
                /\ pc' = IF IsMagiskInstalled(a.entries) THEN "choose" ELSE "clean"
    /\ UNCHANGED <<opt, run, file, image, restored, method, kernel, output>>

\* Step 3.  ForceStockFirmware only counts when no backup is used.
ChosenMethod ==
    IF HasEntry(found, FullBackup) /\ opt.prefer THEN "full"
    ELSE IF HasEntry(found, InitBackup) /\ opt.prefer THEN "init"
    ELSE IF opt.force THEN "none" ELSE "surgical"

ChooseMethod ==
    /\ pc = "choose"
    /\ IF ChosenMethod = "none" THEN pc' = "needsStock" /\ UNCHANGED <<restored, method>>
       ELSE LET r == IF ChosenMethod = "surgical" THEN Read(SurgicalRemoval(found))
                     ELSE RestoreFromBackup(found)
            IN  IF r.ok THEN /\ restored' = r.entries
                             /\ method' = ChosenMethod
                             /\ pc' = "kernel"
                ELSE Fail /\ UNCHANGED <<restored, method>>
    /\ UNCHANGED <<opt, run, file, image, found, kernel, output>>

\* SamsungKernelPatcher: a kernel is stock when a syscall table is found unhooked
\* and none of the four names occurs; RestoreStock unhooks the table and blanks
\* two of the names.  Nothing of it is found in bytes that are no kernel.  A table
\* that begins less than 256 bytes before the kernel's end is cut: reading it throws.
TableCut(k) == k.kind = "kernel" /\ k.table = "cut"
IsStock(k) == k.kind = "kernel" => k.marks = {} /\ k.table = "stock"
Unhooked(k) ==
    [kind |-> "kernel", marks |-> k.marks \ {"DEFEX", "PROCA"},
     table |-> IF k.table = "hooked" THEN "unhooked" ELSE k.table]
RestoreStock(b) == [b EXCEPT !.at[0].val = Unhooked(@)]

\* Step 4.
RestoreKernel ==
    /\ pc = "kernel"
    /\ LET k        == Extract(image[1], "kernel")
           analysed == opt.kernel /\ k.size > 0
       IN  IF \/ ~CanExtract(image[1], "kernel")
              \/ analysed /\ TableCut(ReadAt(k, 0))
           THEN Fail /\ UNCHANGED kernel
           ELSE /\ kernel' = IF analysed /\ ~IsStock(ReadAt(k, 0)) THEN RestoreStock(k) ELSE k
                /\ pc' = "repack"
    /\ UNCHANGED <<opt, run, file, image, found, restored, method, output>>

\* Step 5: the archive is serialised, compressed and put into the image.
RepackImage ==
    /\ pc = "repack"
    /\ IF CanRepack(image[1])
       THEN /\ output' = <<Repack(image[1], kernel, Gzip(Serialize(restored)))>>
            /\ pc' = "avb"
       ELSE Fail /\ UNCHANGED output
    /\ UNCHANGED <<opt, run, file, image, found, restored, method, kernel>>

\* Step 6: AvbRestorer looks for "AVB0" where Parse has looked for it.  Finding the
\* vbmeta there it reads an offset out of the middle of it, so the image stays as
\* it is; without it, it says that there is no footer.  Its result is not a
\* condition of Success.
RestoreAvb ==
    /\ pc = "avb" /\ pc' = "write"
    /\ UNCHANGED <<opt, run, file, image, found, restored, method, kernel, output>>

\* Step 7: the output file.  Success.
WriteOutput ==
    /\ pc = "write" /\ pc' = "done"
    /\ UNCHANGED <<opt, run, file, image, found, restored, method, kernel, output>>

\* UninstallAsync on the image that the last run wrote.
RunAgain ==
    /\ pc = "done" /\ run < MaxRuns
    /\ run' = run + 1 /\ pc' = "load"
    /\ file' = output[1]
    /\ image' = <<>> /\ found' = <<>> /\ restored' = <<>> /\ method' = "none"
    /\ kernel' = Zeros(0) /\ output' = <<>>
    /\ UNCHANGED opt

Next ==
    \/ Load \/ ExtractRamdisk \/ ChooseMethod \/ RestoreKernel
    \/ RepackImage \/ RestoreAvb \/ WriteOutput \/ RunAgain

Spec == Init /\ [][Next]_vars

-----------------------------------------------------------------------------
(* Correctness.  What a bootloader will make of an image is what magiskboot   *)
(* reads in it, so the properties compare the uninstaller's work with that.   *)

TypeOK ==
    /\ pc \in Steps /\ opt \in Options /\ run \in 1 .. MaxRuns /\ method \in Methods
    /\ Len(image) <= 1 /\ Len(output) <= 1
    /\ pc \in {"avb", "write", "done"} <=> output # <<>>
    /\ (pc \in Steps \ {"load", "failed"}) => image # <<>>

\* The headers on which parser and reference agree: no PXA header, no size of an
\* extra section where version 0 may have one, a second stage in version 0 only,
\* the recovery DTBO where the header says, a header within its page.
Ported(f) ==
    /\ HasHeader(f)
    /\ LET base == HeaderOffset(f)
            h    == f.at[base].val
            v    == HeaderVersion(h)
        IN  /\ ~IsPxa(h)
            /\ StructSize(h) \in 1 .. RefPageSize(h)
            /\ ~IsVendor(h) =>
                  /\ v <= 4
                  /\ v \in {1, 2} =>
                       /\ Word(h, 24) = 0
                       /\ Word(h, 1632) > 0 => Word(h, 1636) = RefOffset(f, "recovery_dtbo")

OutputRamdisk == Parse(Decompress(RefSection(output[1], "ramdisk")))

\* The sections that an uninstall hands on as they are.
Kept == {"second", "recovery_dtbo", "dtb"}

\* The image written for a ported header reads back in the reference as the kernel
\* and ramdisk that were put in, with every other section as it was and whatever
\* followed the sections (the Samsung marker) at the end, and its archive parses to
\* the entries that went in, whichever sections grow or shrink.  The reference finds
\* the sections by their sizes, one after the other; the offset of the recovery DTBO
\* that is also in the header (Ported) is not updated, and may be wrong after this.
OutputReadsBack ==
    pc = "done" /\ Ported(file) =>
        LET new  == output[1]
            rest == image[1].tail
        IN  /\ RefSection(new, "kernel") = kernel
            /\ RefSection(new, "ramdisk") = Gzip(Serialize(restored))
            /\ OutputRamdisk = Read(restored)
            /\ \A s \in Kept : RefSection(new, s) = RefSection(file, s)
            /\ new.size >= rest.size /\ Slice(new, new.size - rest.size, rest.size) = rest

\* The archives that the bytes of a ramdisk may be read as.
Archives(ramdisk) ==
    LET b == Decompress(ramdisk) IN {a \in {Parse(b), NewcLoad(b)} : a.ok}

\* "No Magisk installation detected" is said of no image whose ramdisk, where the
\* reference finds it and by either reader of archives, has Magisk in it; an
\* archive that this parser cannot read, a newc one, fails instead.
CleanIsClean ==
    pc = "clean" /\ Ported(file) =>
        \A a \in Archives(RefSection(file, "ramdisk")) : ~IsMagiskInstalled(a.entries)

\* Magisk's lines in an init.rc other than the first, which GetEntry returns.
InjectedFurther(es) ==
    \E i \in DOMAIN es : /\ IsSuffix(InitRc, es[i].name) /\ IsInjected(es[i])
                         /\ i # EntryIndex(es, InitRc)
\* A run that succeeds leaves nothing that the detector finds, by any method, so that
\* the next run finds the image clean; except that of several init.rc files only the
\* first is ever cleaned, and of several files that end in one of Magisk's three other
\* names only the first removed.
DoneIsClean ==
    pc = "done" /\ Ported(file) =>
        /\ OutputRamdisk.ok
        /\ IsMagiskInstalled(OutputRamdisk.entries) =>
              /\ method = "surgical"
              /\ \/ InjectedFurther(found)
                 \/ \E name \in OutsideNames : ~AtMostOnce(found, name)

\* The endings by which a method looks for a file to replace, remove or edit, and the
\* files it keeps: those outside Magisk's directories, but for the fstabs, every one of
\* which surgical removal rewrites.
Searched(m) == IF m = "init" THEN {<<"init">>} ELSE OutsideNames \cup {InitRc}
Keeps(m, e) == ~InMagiskDir(e) /\ (m = "surgical" => ~IsFstab(e))
EndsIn(e, names) == \E name \in names : IsSuffix(name, e.name)

\* In their order: the kept files with such an ending, and those without any.
Ending(m, name, es) ==
    Chosen(es, {i \in DOMAIN es : Keeps(m, es[i]) /\ IsSuffix(name, es[i].name)})
Others(m, es) == Chosen(es, {i \in DOMAIN es : Keeps(m, es[i]) /\ ~EndsIn(es[i], Searched(m))})

AllButFirst(was, is) ==
    was # <<>> => is = Tail(was) \/ (is # <<>> /\ Tail(is) = Tail(was))

\* What a successful run puts back: the saved ramdisk to the byte, or, without one,
\* every file that was not Magisk's, in its place and unchanged.  GetEntry takes the
\* first file whose name ends as it should: so for each ending that is searched one
\* file may be lost, whosever it is, the first of them; nothing else is, and a saved
\* init is put into that first one (sbin/xinit, if that comes before init), unless it
\* is in a directory of Magisk's.  An init.rc without Magisk's lines stays as it is.
StockSurvives ==
    pc = "done" /\ Ported(file) =>
        LET out == OutputRamdisk.entries IN
        /\ method = "full" =>
              Decompress(RefSection(output[1], "ramdisk")) = EntryData(found, FullBackup)
        /\ method \in {"init", "surgical"} =>
              /\ Others(method, out) = Others(method, found)
              /\ \A name \in Searched(method) :
                    AllButFirst(Ending(method, name, found), Ending(method, name, out))
        /\ method = "init" =>
              \/ /\ HasEntry(found, <<"init">>)
                 /\ InMagiskDir(found[EntryIndex(found, <<"init">>)])
              \/ /\ HasEntry(out, <<"init">>)
                 /\ EntryData(out, <<"init">>) = Decompress(EntryData(found, InitBackup))
        /\ method = "surgical" =>
              LET was == Ending(method, InitRc, found) IN
              was # <<>> /\ ~IsInjected(was[1]) => Ending(method, InitRc, out) = was
=============================================================================
