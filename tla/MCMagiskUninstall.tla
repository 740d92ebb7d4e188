-------------------------- MODULE MCMagiskUninstall --------------------------
(***************************************************************************)
(* Boot images for TLC, built section by section as the reference lays     *)
(* them out: every version of the header, with ramdisks that Magisk has    *)
(* patched in each of its ways, and one that it has not.                   *)
(***************************************************************************)
EXTENDS MagiskUninstall

\* Bytes of a name: those of its pieces, and the final zero.
MCNameSize(name) == FoldLeft(LAMBDA n, piece : n + Len(piece), 1, name)

F(name, data) == [name |-> name, data |-> data]
Bin(n, what)  == Atom(n, [kind |-> "file", what |-> what])
Magisk(name)  == F(name, Bin(61, "magisk"))
StockInit == Bin(701, "stock init")

Fstab == FstabBlob(<<[mount |-> "/system", options |-> {"ro"}, flags |-> {"wait"}],
                     [mount |-> "/data", options |-> {"rw"}, flags |-> {"fileencryption"}]>>)

\* An unpatched ramdisk; sizes of every remainder modulo four, and an empty file.
Rest == <<F(<<"fstab.", "qcom">>, Fstab), F(<<"init.rc">>, RcBlob(<<"stock", "stock">>)),
          F(<<"mnt">>, Zeros(0)), F(<<"sbin", "/", "charger">>, Bin(6, "charger")),
          F(<<"system", "/", "etc", "/", "prop.default">>, Bin(15, "prop"))>>
Stocked == <<F(<<"init">>, StockInit)>> \o Rest

Overlayed == <<F(<<".backup", "/", ".magisk">>, Bin(40, "config")), Magisk(<<"init">>),
               Magisk(<<"overlay.d", "/", "sbin", "/", "magisk64.xz">>),
               Magisk(<<"overlay.d", "/", "sbin", "/", "stub.xz">>)>> \o Rest
Modern(backup) == <<F(InitBackup, backup)>> \o Overlayed
Full(backup)   == Overlayed \o <<F(FullBackup, backup)>>
Injected1 == [Stocked EXCEPT ![3].data = RcBlob(<<"stock", "magisk", "stock">>)]
Old == Injected1 \o <<Magisk(MagiskRc), Magisk(Policy)>>
OldTwice == Injected1 \o <<F(<<"vendor", "/", "init.rc">>, RcBlob(<<"magisk", "stock">>))>>

\* Stock files whose names end in, or begin with, what is searched: init, init.rc,
\* sepolicy.rules and ramdisk.cpio.orig, ahead of the file that is meant; fstabs, one
\* of them with such an ending; and an init of Magisk's own.
XinitFirst   == <<F(<<"sbin", "/", "x", "init">>, Bin(9, "xinit"))>> \o Modern(StockInit)
SecondStage  == <<F(<<"avb", "/", "system", "/", "bin", "/", "init">>, Bin(13, "second stage"))>>
                  \o Modern(Gzip(StockInit))
NoInit       == <<F(InitBackup, StockInit)>> \o SelectSeq(Overlayed, LAMBDA e : e.name # <<"init">>)
BackedUpInit == <<F(<<".backup", "/", "init">>, StockInit)>> \o Modern(StockInit)
RcFirst      == <<F(<<"foo_", "init.rc">>, RcBlob(<<"stock">>))>> \o Old
RulesFirst   == <<F(<<"vendor", "/", "sepolicy.rules">>, Bin(21, "rules"))>> \o Old
OrigFirst    == <<F(<<"vendor_", "ramdisk.cpio.orig">>, Serialize(Rest))>>
                  \o Full(Serialize(Stocked))
Fstabs       == <<F(<<"fstab.", "zram">>, Fstab), F(<<"fstab.", "init.rc">>, Fstab),
                  F(<<"first", "/", "fstab.", "qcom">>, Fstab)>> \o Old

Xz == Atom(333, [kind |-> "xz"])

\* Archives, the parser's own unless they say newc.
Archive == [stocked |-> Serialize(Stocked), surgical |-> Serialize(Overlayed),
            raw |-> Serialize(Modern(StockInit)), xz |-> Serialize(Modern(Xz)),
            gz |-> Serialize(Modern(Gzip(StockInit))),
            full |-> Serialize(Full(Serialize(Stocked))),
            fullNewc |-> Serialize(Full(NewcDump(Stocked))),
            both |-> Serialize(Full(Serialize(Stocked)) \o <<F(InitBackup, Xz)>>),
            old |-> Serialize(Old), oldTwice |-> Serialize(OldTwice),
            xinit |-> Serialize(XinitFirst), secondStage |-> Serialize(SecondStage),
            noInit |-> Serialize(NoInit), backedUp |-> Serialize(BackedUpInit),
            rcFirst |-> Serialize(RcFirst), rulesFirst |-> Serialize(RulesFirst),
            origFirst |-> Serialize(OrigFirst), fstabs |-> Serialize(Fstabs),
            newc |-> NewcDump(Old), newcStocked |-> NewcDump(Stocked)]
RamdiskKinds == DOMAIN Archive

Kernel(marks, table) == Atom(5000, [kind |-> "kernel", marks |-> marks, table |-> table])
Kernels == {Kernel({}, "stock"), Kernel({"DEFEX", "RKP"}, "hooked"), Kernel({"KNOX"}, "cut")}

\* What follows the sections: the Samsung marker, a vbmeta that the search for
\* a footer sees, one that it does not see.
Seandroid == Atom(16, [kind |-> "SEANDROIDENFORCE"])
Avb(n)    == Concat(Seandroid, Concat(Atom(256, [kind |-> "AVB0"]), Zeros(n)))
Tails     == {Zeros(0), Seandroid, Avb(300), Avb(2000)}

\* An image: a prefix, a header of n bytes in the space given, and the sections.
\* v2Words, when there are sections of version 2, says where the DTBO is.
Layout(prefix, kind, n, space, page, words, sections, tail) ==
    Concat(prefix,
      Concat(Concat([Atom(n, [kind |-> kind, words |-> words]) EXCEPT !.size = space],
                    ConcatAll([i \in DOMAIN sections |-> PadTo(sections[i], page)])),
             tail))

Boot(n, page, words, sections, tail) ==
    Layout(Zeros(0), "ANDROID!", n, page, page, words, sections, tail)

Second == Bin(3000, "second")
Dtbo   == Bin(2500, "dtbo")
Dtb    == Bin(4097, "dtb")
Extra  == Bin(900, "extra")

\* The words of a header: 8, 16, 24 the sizes of kernel, ramdisk and second stage,
\* 36 the page size, 40 the version (or the size of an extra section), and so on.
Words012(k, r, s, page, v) ==
    8 :> k.size @@ 16 :> r.size @@ 24 :> s @@ 36 :> page @@ 40 :> v

V0(k, r, tail) == Boot(1632, 2048, Words012(k, r, 0, 2048, 0), <<k, r>>, tail)
V0Second(k, r, tail) ==
    Boot(1632, 2048, Words012(k, r, Second.size, 2048, 0), <<k, r, Second>>, tail)
V0Extra(k, r, tail) ==
    Boot(1632, 2048, Words012(k, r, 0, 2048, Extra.size), <<k, r, Extra>>, tail)
V0Dhtb(k, r, tail) ==
    Layout(Atom(DhtbSize, [kind |-> "DHTB"]), "ANDROID!", 1632, 2048, 2048,
           Words012(k, r, 0, 2048, 0), <<k, r>>, tail)

At(page, sections) == page + ConcatAll([i \in DOMAIN sections |-> PadTo(sections[i], page)]).size
V1(k, r, tail) ==
    Boot(1648, 2048,
         Words012(k, r, 0, 2048, 1) @@ 1632 :> Dtbo.size @@ 1636 :> At(2048, <<k, r>>),
         <<k, r, Dtbo>>, tail)
V2(k, r, tail) ==
    Boot(1660, 4096,
         Words012(k, r, 0, 4096, 2) @@ 1632 :> Dtbo.size @@ 1636 :> At(4096, <<k, r>>)
           @@ 1648 :> Dtb.size,
         <<k, r, Dtbo, Dtb>>, tail)
V2Second(k, r, tail) ==
    Boot(1660, 4096,
         Words012(k, r, Second.size, 4096, 2) @@ 1632 :> 0 @@ 1636 :> 0 @@ 1648 :> Dtb.size,
         <<k, r, Second, Dtb>>, tail)
\* A header that says how long it is.
V3Of(n, k, r, tail) ==
    Boot(1580, 4096,
         8 :> k.size @@ 12 :> r.size @@ 20 :> n @@ 36 :> 0 @@ 40 :> 3 @@ 44 :> 77 @@ 48 :> 78,
         <<k, r>>, tail)
V3(k, r, tail)      == V3Of(1580, k, r, tail)
V3Short(k, r, tail) == V3Of(1579, k, r, tail)
V4(k, r, tail) ==
    Boot(1584, 4096,
         8 :> k.size @@ 12 :> r.size @@ 20 :> 1584 @@ 36 :> 0 @@ 40 :> 4 @@ 44 :> 77 @@ 48 :> 78
           @@ 1580 :> 4096,
         <<k, r, Bin(4096, "signature")>>, tail)
\* A PXA header, and the same with its sections where the parser looks for them.
PxaWith(page, k, r, tail) ==
    Boot(1640, page,
         Words012(k, r, 0, PxaPage, 0) @@ 32 :> 0 @@ 44 :> 2048, <<k, r>>, tail)
Pxa(k, r, tail)     == PxaWith(2048, k, r, tail)
PxaWide(k, r, tail) == PxaWith(PxaPage, k, r, tail)

Vendor(v, n, page, r, more, words, tail) ==
    Layout(Zeros(0), "VNDRBOOT", n, Align(n, page), page,
           8 :> v @@ 12 :> page @@ 24 :> r.size @@ 2096 :> n @@ 2100 :> Dtb.size @@ words,
           <<r, Dtb>> \o more, tail)
Vendor3(r, page, tail) == Vendor(3, 2112, page, r, <<>>, 2108 :> 0, tail)
Vendor4(r, tail) ==
    Vendor(4, 2128, 4096, r, <<Bin(216, "table"), Bin(50, "bootconfig")>>,
           2112 :> 216 @@ 2124 :> 50, tail)

K1 == Kernel({"DEFEX", "RKP"}, "hooked")
Layouts(k, r, tail) ==
    {V0(k, r, tail), V0Second(k, r, tail), V0Extra(k, r, tail), V0Dhtb(k, r, tail),
     V1(k, r, tail), V2(k, r, tail), V2Second(k, r, tail), V3(k, r, tail),
     V3Short(k, r, tail), V4(k, r, tail), Pxa(k, r, tail), PxaWide(k, r, tail),
     Vendor3(r, 4096, tail), Vendor3(r, 2048, tail), Vendor4(r, tail)}

\* Every ramdisk in an image of version 0 and 2, every layout with three ramdisks,
\* every tail, and ramdisks that are not compressed, or with what the decoder
\* does not know.
MCImages ==
    {V0(k, Gzip(Archive[a]), Seandroid) : k \in Kernels, a \in RamdiskKinds}
      \cup {V2(K1, Gzip(Archive[a]), Seandroid) : a \in RamdiskKinds}
      \cup UNION {Layouts(K1, Gzip(Archive[a]), Seandroid) : a \in {"old", "full", "stocked"}}
      \cup {V1(K1, Gzip(Archive.raw), t) : t \in Tails}
      \cup {V0(K1, Archive[a], Seandroid) : a \in {"raw", "stocked", "newc"}}
      \cup {V0(K1, Xz, Seandroid)}

MCContents == {Archive[a] : a \in RamdiskKinds} \cup {StockInit}

MCOptions == [prefer : BOOLEAN, force : BOOLEAN, kernel : BOOLEAN]
=============================================================================
