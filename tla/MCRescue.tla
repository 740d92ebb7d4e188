------------------------------ MODULE MCRescue ------------------------------
(***************************************************************************)
(* A small A/B device for TLC: one boot slot with its vbmeta, one          *)
(* blocklisted partition and userdata, of two sectors each.                *)
(***************************************************************************)
EXTENDS RescueClaims

MCGpt == {"boot_a", "vbmeta_a", "sec", "userdata"}
MCCritical == {"boot_a", "vbmeta_a", "sec"}
MCMagiskChecked == {"boot_a"}
MCBootSlots == {"boot_a"}
MCVbmetaOf == [b \in MCBootSlots |-> "vbmeta_a"]
MCNeverRestore == {"sec"}

All(v) == [s \in Sectors |-> v]
Tail2(h, v) == [s \in Sectors |-> IF s = 1 THEN h ELSE v]

Device(boot, vbmeta, sec) ==
    [p \in MCGpt |-> CASE p = "boot_a" -> boot [] p = "vbmeta_a" -> vbmeta
                       [] p = "sec" -> sec [] p = "userdata" -> All("other")]

\* A stock device, a Magisk-patched boot image (with and without verification
\* disabled), a foreign boot image with a changed sec partition.
MCDevices ==
    {Device(All("stock"), All("stock"), All("stock")),
     Device(Tail2("stock", "patched"), All("stock"), All("stock")),
     Device(All("patched"), Tail2("patched", "stock"), All("stock")),
     Device(All("other"), All("stock"), All("other"))}

Files(boot, vbmeta, sec, data) ==
    [p \in MCGpt |-> CASE p = "boot_a" -> boot [] p = "vbmeta_a" -> vbmeta
                       [] p = "sec" -> sec [] p = "userdata" -> data]

WithRamdisk(s, m, r) ==
    [stock |-> s, manifest |-> m, ramdisk |-> [b \in MCBootSlots |-> r]]
Backup(s, m) == WithRamdisk(s, m, NoFile)

Full == Files(All("stock"), All("stock"), All("stock"), NoFile)
Short == Files(Tail2("stock", End), All("stock"), NoFile, NoFile)
Damaged == Files(Tail2("stock", "other"), All("stock"), All("stock"), NoFile)
None == Files(NoFile, NoFile, NoFile, NoFile)

\* Imported firmware; the same without a manifest; a boot file shorter than the
\* partition; a boot file that is not what the manifest says; no backup; and a
\* ramdisk file that is none.
MCBackups ==
    {Backup(Full, Full), Backup(Full, None), Backup(Short, Short),
     Backup(Damaged, Full), Backup(None, None), WithRamdisk(Full, None, "broken")}

Opt(d, f, w) == [dryRun |-> d, force |-> f, wipeData |-> w, skipModeCheck |-> TRUE]
MCOptions == {Opt(FALSE, FALSE, FALSE), Opt(TRUE, TRUE, TRUE), Opt(FALSE, TRUE, TRUE),
              [Opt(TRUE, FALSE, FALSE) EXCEPT !.skipModeCheck = FALSE]}

\* Two faults in a live rescue, with and without a wipe, on the tampered devices only.
TwoFaultDevices == {Device(All("patched"), Tail2("patched", "stock"), All("stock")),
                    Device(All("other"), All("stock"), All("other"))}
NoBoot == Files(NoFile, All("stock"), All("stock"), NoFile)
TwoFaultBackups == {Backup(Full, Full), Backup(Damaged, Full), Backup(NoBoot, None),
                    WithRamdisk(Full, Full, "broken")}
TwoFaultOptions == {Opt(FALSE, FALSE, FALSE), Opt(FALSE, FALSE, TRUE)}
\* A changed partition outside the critical list, which is not repaired without
\* --force.
DdrGpt == {"boot_a", "vbmeta_a", "ddr", "userdata"}
DdrCritical == {"boot_a", "vbmeta_a"}
DdrNeverRestore == {"ddr"}
DdrDevices ==
    {[p \in DdrGpt |-> IF p \in DdrCritical THEN All("stock") ELSE All("other")]}
DdrBackups ==
    LET files == [p \in DdrGpt |-> IF p = "userdata" THEN NoFile ELSE All("stock")]
    IN  {Backup(files, files)}
=============================================================================
