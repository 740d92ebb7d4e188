---------------------------- MODULE RamdiskEdit -----------------------------
(***************************************************************************)
(* What CpioArchive and MagiskArtifactDetector do to the entries of a      *)
(* ramdisk: detecting Magisk, restoring a backup, surgical removal.        *)
(*                                                                         *)
(* A name is a sequence of pieces of text, cut wherever a text that the    *)
(* code looks for begins or ends: "/" is a piece, sbin/xinit is            *)
(* <<"sbin", "/", "x", "init">> and foo_init.rc is <<"foo_", "init.rc">>,  *)
(* so string.EndsWith, StartsWith and Contains are suffix, prefix and      *)
(* substring on pieces.  The text files keep what the edits look at: an    *)
(* fstab is a sequence of lines with a mount point, mount options (the     *)
(* fourth field) and fs_mgr flags (the fifth); an init.rc is a sequence of *)
(* lines that are Magisk's or not.                                         *)
(***************************************************************************)
EXTENDS CpioFormat, SequencesExt

CONSTANTS
    FstabLineSize,   \* bytes of a line of text in an fstab
    RcLineSize       \* ... and in an init.rc

FstabBlob(lines) ==
    Atom(FstabLineSize * Len(lines), [kind |-> "fstab", lines |-> lines])
RcBlob(lines) ==
    Atom(RcLineSize * Len(lines), [kind |-> "rc", lines |-> lines])

\* The lines of a text; a file that is not one is taken to have none.
Lines(data, kind) ==
    LET v == ReadAt(data, 0) IN IF v.kind = kind THEN v.lines ELSE <<>>

\* The elements of a sequence at the indices in kept, in their order.
ChosenUpto(s, kept) ==
    LET Upto[i \in 0 .. Len(s)] ==
          IF i = 0 THEN <<>>
          ELSE IF i \in kept THEN Append(Upto[i - 1], s[i]) ELSE Upto[i - 1]
    IN  Upto
Chosen(s, kept) == ChosenUpto(s, kept)[Len(s)]

-----------------------------------------------------------------------------
(* CompressionEngine: gzip is what Repack writes; a real xz stream always    *)
(* throws, because the decoder is LZMA's; anything else is returned as it is. *)

GzipSize(n) == n \div 2 + 20
Gzip(b) == Atom(GzipSize(b.size), [kind |-> "gzip", of |-> b])

Undecodable(b)  == ReadAt(b, 0).kind = "xz"
Decompress(b) == LET v == ReadAt(b, 0) IN IF v.kind = "gzip" THEN v.of ELSE b

-----------------------------------------------------------------------------
(* CpioArchive's operations on entries.  GetEntry takes a partial match: the *)
(* first entry whose path ends with the name.                                *)

InDirectory(e, dir) == e.name = dir \/ IsPrefix(dir \o <<"/">>, e.name)

HasEntry(es, name) == \E i \in DOMAIN es : IsSuffix(name, es[i].name)
EntryIndex(es, name) ==
    CHOOSE i \in DOMAIN es :
        /\ IsSuffix(name, es[i].name)
        /\ \A j \in 1 .. i - 1 : ~IsSuffix(name, es[j].name)
EntryData(es, name) == es[EntryIndex(es, name)].data

ReplaceEntryAppends(es, name, data) ==              \* mutant
    Append(es, [name |-> name, data |-> data])
ReplaceEntry(es, name, data) ==
    IF HasEntry(es, name) THEN [es EXCEPT ![EntryIndex(es, name)].data = data]
    ELSE Append(es, [name |-> name, data |-> data])

RemoveEntry(es, name) ==
    IF HasEntry(es, name) THEN RemoveAt(es, EntryIndex(es, name)) ELSE es

RemoveDirectory(es, dir) == Chosen(es, {i \in DOMAIN es : ~InDirectory(es[i], dir)})

-----------------------------------------------------------------------------
(* MagiskArtifactDetector.Detect                                             *)

FullBackup == <<"ramdisk.cpio.orig">>
InitBackup == <<".backup", "/", "init.xz">>
InitRc     == <<"init.rc">>
MagiskRc   == <<"init.magisk.rc">>
Policy     == <<"sepolicy.rules">>
Overlay    == <<"overlay.d">>
BackupDir  == <<".backup">>

\* MagiskArtifacts.Paths outside overlay.d/sbin, whose files are all artifacts.
ArtifactPaths ==
    {<<".backup", "/", ".magisk">>, InitBackup, <<".backup", "/", "stock_init.xz">>,
     FullBackup, MagiskRc, Policy}

InOverlaySbin(name) ==
    \E i \in 1 .. Len(name) - 3 : SubSeq(name, i, i + 3) = <<"overlay.d", "/", "sbin", "/">>

IsArtifact(e) ==
    \/ InOverlaySbin(e.name)
    \/ \E p \in ArtifactPaths : IsSuffix(p, e.name)

IsInjected(e) ==
    /\ IsSuffix(InitRc, e.name) \/ IsSuffix(MagiskRc, e.name)
    /\ "magisk" \in ToSet(Lines(e.data, "rc"))

IsMagiskInstalled(es) == \E e \in ToSet(es) : IsArtifact(e) \/ IsInjected(e)

-----------------------------------------------------------------------------
(* MagiskArtifactDetector.SurgicalRemoval                                    *)

VerityWords     == {"verify", "avb", "support_scfs", "fsverity"}
EncryptionWords == {"forceencrypt", "forcefdeorfbe", "fileencryption"}

Words(line) == line.options \cup line.flags

\* RemovePatterns drops every line that mentions verity or encryption.
RemovePatterns(lines) ==
    Chosen(lines, {i \in DOMAIN lines :
                     Words(lines[i]) \cap (VerityWords \cup EncryptionWords) = {}})

\* RestoreFstabFlags without an original: the flags go into the mount options.
RequiredFlags(mount) ==
    IF mount = "/data" THEN {"fsverity"}
    ELSE IF mount \in {"/system", "/vendor", "/product", "/system_ext"}
         THEN {"avb", "verify"}
    ELSE {"verify"}

RestoreFstabFlags(lines) ==
    [i \in DOMAIN lines |->
       [lines[i] EXCEPT !.options = (@ \ {"magisk", "wait", "recoveryonly"})
                                      \cup RequiredFlags(lines[i].mount)]]

IsFstab(e) == IsPrefix(<<"fstab.">>, e.name)

CleanFstabs(es) ==
    [i \in DOMAIN es |->
       IF IsFstab(es[i])
       THEN [es[i] EXCEPT !.data =
               FstabBlob(RestoreFstabFlags(RemovePatterns(Lines(@, "fstab"))))]
       ELSE es[i]]

InitRcLeft(es) == es                                \* mutant
CleanInitRc(es) ==
    IF HasEntry(es, InitRc)
    THEN [es EXCEPT ![EntryIndex(es, InitRc)].data =
            LET lines == Lines(@, "rc")
            IN  RcBlob(Chosen(lines, {i \in DOMAIN lines : lines[i] # "magisk"}))]
    ELSE es

SurgicalRemoval(es) ==
    LET noDirs  == RemoveDirectory(RemoveDirectory(es, Overlay), BackupDir)
        noFiles == RemoveEntry(RemoveEntry(RemoveEntry(noDirs, FullBackup), MagiskRc), Policy)
    IN  CleanInitRc(CleanFstabs(noFiles))

-----------------------------------------------------------------------------
(* MagiskArtifactDetector.RestoreFromBackup: the whole archive Magisk saved, *)
(* or its init, or, without either, surgical removal.  ok is FALSE when it   *)
(* throws.                                                                   *)

RestoreInit(es) ==
    LET init == Decompress(EntryData(es, InitBackup))
        new  == ReplaceEntry(es, <<"init">>, init)
    IN  RemoveEntry(RemoveDirectory(RemoveDirectory(new, Overlay), BackupDir), FullBackup)

RestoreFromBackup(es) ==
    IF HasEntry(es, FullBackup) THEN Parse(EntryData(es, FullBackup))
    ELSE IF HasEntry(es, InitBackup)
         THEN IF Undecodable(EntryData(es, InitBackup)) THEN Invalid
              ELSE Read(RestoreInit(es))
    ELSE Read(SurgicalRemoval(es))
=============================================================================
