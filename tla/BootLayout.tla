----------------------------- MODULE BootLayout -----------------------------
(***************************************************************************)
(* The layout of a boot image: BootImageParser.Parse and                   *)
(* BootImageRepacker.Repack, beside the layout of magiskboot, which they   *)
(* are ported from (bootimg.cpp and bootimg.hpp of version 30.7 in the     *)
(* knowledge base).  A header is an atom that holds the words read from    *)
(* it, by their byte offset; all offsets, sizes and pages are bytes.  The  *)
(* command line of a version 3 or 4 header is represented by the first     *)
(* two of its words.                                                       *)
(***************************************************************************)
EXTENDS RamdiskEdit

Word(h, o) == IF o \in DOMAIN h.words THEN h.words[o] ELSE 0
IsVendor(h) == h.kind = "VNDRBOOT"
IsBootHeader(v) == v.kind \in {"ANDROID!", "VNDRBOOT"}

HeaderVersion(h) == Word(h, IF IsVendor(h) THEN 8 ELSE 40)
PxaPage == 33554432           \* 0x02000000
PxaSize == 1640               \* Marshal.SizeOf<BootImgHdrPxa>()
IsPxa(h) == ~IsVendor(h) /\ Word(h, 36) >= PxaPage
DhtbSize == 512               \* the prefix of MediaTek images
FooterSearch == 1024          \* the end of an image searched for "AVB0"
FooterSize == 64              \* AvbFooter.SIZE

\* Where sections of these sizes begin, and where the last one ends.
Starts(first, page, sizes) ==
    LET At[i \in 1 .. Len(sizes) + 1] ==
          IF i = 1 THEN first ELSE At[i - 1] + Align(sizes[i - 1], page)
    IN  At

-----------------------------------------------------------------------------
(* BootImageParser                                                           *)

\* GetPageSize; the offset 36 is where the parser looks for it in a PXA header.
PageSize(h) ==
    LET page == IF IsVendor(h) THEN Word(h, 12)
                ELSE IF ~IsPxa(h) /\ HeaderVersion(h) \in {3, 4} THEN 4096
                ELSE Word(h, 36)
    IN  IF page > 0 THEN page ELSE 4096

\* The headers with a size and an offset of the recovery DTBO.
HasDtbo(h) == ~IsVendor(h) /\ ~IsPxa(h) /\ HeaderVersion(h) \in {1, 2}

\* GetKernelSize ... GetSignatureSize.  A boot header of a version above 4 has
\* no size that the parser reads, and the second stage only counts in version 0.
SectionSize(h, s) ==
    LET v == HeaderVersion(h)
        known == IsPxa(h) \/ v <= 4
    IN  CASE s = "kernel" -> IF IsVendor(h) \/ ~known THEN 0 ELSE Word(h, 8)
          [] s = "ramdisk" -> IF IsVendor(h) THEN Word(h, 24)
                              ELSE IF ~known THEN 0
                              ELSE Word(h, IF v >= 3 THEN 12 ELSE 16)
          [] s = "second" -> IF IsVendor(h) \/ v >= 3 THEN 0
                             ELSE IF IsPxa(h) \/ v = 0 THEN Word(h, 24) ELSE 0
          [] s = "recovery_dtbo" -> IF HasDtbo(h) THEN Word(h, 1632) ELSE 0
          [] s = "dtb" -> IF IsVendor(h) THEN Word(h, 2100)
                          ELSE IF ~IsPxa(h) /\ v = 2 THEN Word(h, 1648) ELSE 0
          [] s = "signature" -> IF ~IsVendor(h) /\ ~IsPxa(h) /\ v = 4
                                THEN Word(h, 1580) ELSE 0

Sections == <<"kernel", "ramdisk", "second", "recovery_dtbo", "dtb", "signature">>

\* Parse's scan: the first header; DHTB is the prefix that images here have.
HeaderOffset(f) ==
    CHOOSE o \in DOMAIN f.at : /\ IsBootHeader(f.at[o].val)
                               /\ \A x \in DOMAIN f.at : x < o => ~IsBootHeader(f.at[x].val)
HasHeader(f) == \E o \in DOMAIN f.at : IsBootHeader(f.at[o].val)

\* "AVB0" begins the vbmeta structure; FindAvbFooter takes it for the footer's.
SeesAvb0(f) ==
    \E o \in DOMAIN f.at : /\ f.at[o].val.kind = "AVB0"
                           /\ o + FooterSearch >= f.size /\ o + FooterSize <= f.size

\* ParseSections: the sections begin one page after the header's offset.  The
\* recovery DTBO is where the header says, the others one after the other.
ParsedImage(f) ==
    LET base  == HeaderOffset(f)
        h     == f.at[base].val
        at    == Starts(base + PageSize(h), PageSize(h),
                        [i \in DOMAIN Sections |-> SectionSize(h, Sections[i])])
        Index(s) == CHOOSE i \in DOMAIN Sections : Sections[i] = s
        end   == at[Len(Sections) + 1]
    IN  [raw    |-> f,
         header |-> h,
         offset |-> [s \in ToSet(Sections) |->
                       IF s = "recovery_dtbo"
                       THEN IF HasDtbo(h) THEN Word(h, 1636) ELSE 0
                       ELSE at[Index(s)]],
         size   |-> [s \in ToSet(Sections) |-> SectionSize(h, s)],
         tail   |-> IF f.size > end THEN Slice(f, end, f.size - end) ELSE Zeros(0)]

\* MemoryMarshal.Read of a structure with arrays throws, so that an image whose
\* tail shows "AVB0" does not parse.
Parses(f) == HasHeader(f) /\ ~(ParsedImage(f).tail.size > 0 /\ SeesAvb0(f))

CanExtract(image, s) == InRange(image.raw, image.offset[s], image.size[s])
Extract(image, s)    == Slice(image.raw, image.offset[s], image.size[s])

-----------------------------------------------------------------------------
(* BootImageRepacker                                                         *)

StructSize(h) ==
    IF IsVendor(h) THEN Word(h, 2096)
    ELSE IF IsPxa(h) THEN PxaSize
    ELSE CASE HeaderVersion(h) = 0 -> 1632
           [] HeaderVersion(h) \in {1, 2} -> 1660
           [] HeaderVersion(h) \in {3, 4} -> Word(h, 20)
           [] OTHER -> 4096

\* WriteV0Header ... WriteVendorHeader: the header read, with the new sizes.  The
\* command line of versions 3 and 4 was read four bytes early, and the page size of
\* a PXA header from another word than it is written to.
NewWords(h, kernel, ramdisk) ==
    LET v == HeaderVersion(h)
        Put(o) ==
          IF IsVendor(h)
          THEN IF o = 24 THEN ramdisk ELSE IF o >= 2112 THEN 0 ELSE h.words[o]
          ELSE IF o = 8 THEN kernel
          ELSE IF IsPxa(h)
          THEN IF o = 16 THEN ramdisk ELSE IF o = 44 THEN Word(h, 36) ELSE h.words[o]
          ELSE IF o = (IF v >= 3 THEN 12 ELSE 16) THEN ramdisk
          ELSE IF v >= 3 /\ o \in {44, 48} THEN Word(h, o - 4)
          ELSE IF v = 4 /\ o = 1580 THEN 0
          ELSE h.words[o]
    IN  [o \in DOMAIN h.words |-> Put(o)]

\* A version above 4 has no case of its own, in no switch of the repacker.
NoCase(h) == ~IsVendor(h) /\ ~IsPxa(h) /\ HeaderVersion(h) > 4

\* The words that the sizes of kernel and ramdisk are written to.
SizeWords(h) ==
    IF IsVendor(h) THEN {24}
    ELSE IF NoCase(h) THEN {}
    ELSE IF IsPxa(h) THEN {8, 16}
    ELSE {8, IF HeaderVersion(h) >= 3 THEN 12 ELSE 16}

\* Without a case the header is a page of zeros.
NewHeader(h, kernel, ramdisk) ==
    IF NoCase(h) THEN Zeros(StructSize(h))
    ELSE Atom(StructSize(h), [h EXCEPT !.words = NewWords(h, kernel, ramdisk)])

RepackPageFixed(h) == 4096                          \* mutant
RepackPage(h) == IF NoCase(h) THEN 4096 ELSE PageSize(h)

\* Repack: header, kernel and ramdisk, the other sections as they were, each
\* padded to a page; then the tail.  A prefix before the header is not written.
Repack(image, kernel, ramdisk) ==
    LET page == RepackPage(image.header)
        Part(i) == CASE Sections[i] = "kernel" -> kernel
                     [] Sections[i] = "ramdisk" -> ramdisk
                     [] OTHER -> Extract(image, Sections[i])
        body == ConcatAll([i \in DOMAIN Sections |-> PadTo(Part(i), page)])
        head == NewHeader(image.header, kernel.size, ramdisk.size)
    IN  Concat(Concat(PadTo(head, page), body), image.tail)

\* The buffer of a header is as long as the header says; a write past it throws.
HeaderFits(h) ==
    StructSize(h) >= IF IsVendor(h) THEN 2112
                     ELSE IF IsPxa(h) \/ HeaderVersion(h) \notin {3, 4} THEN 0
                     ELSE IF HeaderVersion(h) = 3 THEN 1580 ELSE 1584

CanRepack(image) ==
    HeaderFits(image.header) /\ \A s \in ToSet(Sections) : CanExtract(image, s)

-----------------------------------------------------------------------------
(* magiskboot: parse_hdr and parse_image, over the same headers.             *)

RefVersion(h) == IF IsPxa(h) \/ HeaderVersion(h) > 4 THEN 0 ELSE HeaderVersion(h)

RefPageSize(h) ==
    IF IsVendor(h) THEN Word(h, 12)
    ELSE IF IsPxa(h) THEN Word(h, 44)
    ELSE IF RefVersion(h) \in {3, 4} THEN 4096 ELSE Word(h, 36)

HeaderSpace(h) == IF IsVendor(h) THEN Align(Word(h, 2096), Word(h, 12)) ELSE RefPageSize(h)

RefSections == <<"kernel", "ramdisk", "second", "extra", "recovery_dtbo", "dtb",
                 "signature", "vendor_ramdisk_table", "bootconfig">>

RefSize(h, s) ==
    LET v == RefVersion(h)
        boot == ~IsVendor(h)
    IN  CASE s = "kernel" -> IF boot THEN Word(h, 8) ELSE 0
          [] s = "ramdisk" -> Word(h, IF ~boot THEN 24 ELSE IF v >= 3 THEN 12 ELSE 16)
          [] s = "second" -> IF boot /\ v <= 2 THEN Word(h, 24) ELSE 0
          [] s = "extra" -> IF boot /\ v = 0 THEN Word(h, IF IsPxa(h) THEN 32 ELSE 40) ELSE 0
          [] s = "recovery_dtbo" -> IF boot /\ v \in {1, 2} THEN Word(h, 1632) ELSE 0
          [] s = "dtb" -> IF ~boot THEN Word(h, 2100) ELSE IF v = 2 THEN Word(h, 1648) ELSE 0
          [] s = "signature" -> IF boot /\ v = 4 THEN Word(h, 1580) ELSE 0
          [] s = "vendor_ramdisk_table" -> IF ~boot /\ v = 4 THEN Word(h, 2112) ELSE 0
          [] s = "bootconfig" -> IF ~boot /\ v = 4 THEN Word(h, 2124) ELSE 0

RefOffset(f, s) ==
    LET base == HeaderOffset(f)
        h    == f.at[base].val
        i    == CHOOSE n \in DOMAIN RefSections : RefSections[n] = s
    IN  Starts(base + HeaderSpace(h), RefPageSize(h),
               [n \in DOMAIN RefSections |-> RefSize(h, RefSections[n])])[i]

RefSection(f, s) == Slice(f, RefOffset(f, s), RefSize(f.at[HeaderOffset(f)].val, s))
=============================================================================
