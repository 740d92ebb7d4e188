----------------------------- MODULE CpioFormat -----------------------------
(***************************************************************************)
(* The CPIO archive of a ramdisk, as CpioArchive.cs writes and reads it,   *)
(* and as Magisk's cpio.rs, which it says it is ported from, does (the     *)
(* copy of version 30.7 in the knowledge base).  An entry is a name, which *)
(* is a sequence of pieces of text, and a blob of data; the owner, the     *)
(* device numbers and the times are left out.                              *)
(***************************************************************************)
EXTENDS Blob

CONSTANT NameSize(_)     \* bytes of a name with its final zero

HeaderSize == 110        \* CpioConstants.HEADER_SIZE
Trailer    == [name |-> <<"TRAILER!!!">>, data |-> Zeros(0)]

Header(namesize, filesize) ==
    Atom(HeaderSize, [kind |-> "070701", namesize |-> namesize, filesize |-> filesize])

IsHeader(h) == h.kind = "070701"

NameBlob(e) == Atom(NameSize(e.name), [kind |-> "name", name |-> e.name])

\* The name read at an offset where there is none.
Garbled == <<"garbled">>
NameAt(b, o) == LET v == ReadAt(b, o) IN IF v.kind = "name" THEN v.name ELSE Garbled

-----------------------------------------------------------------------------
(* CpioArchive.  The name alone is padded to a multiple of four, and the     *)
(* padded length is what the header says; the data begin after that, at an   *)
(* offset that is never a multiple of four because the header's is not.      *)

WriteEntry(e) ==
    Concat(Header(Align(NameSize(e.name), 4), e.data.size),
           Concat(PadTo(NameBlob(e), 4), PadTo(e.data, 4)))

Serialize(entries) ==
    Concat(ConcatAll([i \in DOMAIN entries |-> WriteEntry(entries[i])]),
           WriteEntry(Trailer))

DataOffset(namesize)          == HeaderSize + Align(namesize, 4)
EntrySize(namesize, filesize) == DataOffset(namesize) + Align(filesize, 4)

Invalid   == [ok |-> FALSE, entries |-> <<>>]   \* InvalidDataException
Read(es)  == [ok |-> TRUE, entries |-> es]
Before(e, rest) == [rest EXCEPT !.entries = <<e>> \o @]

\* One turn of the loop, at offset o, where rest[n] is what the turns from n on
\* return.  A file that runs past the end of the archive is read as zeros.
ParseAt(b, o, rest) ==
    LET h    == ReadAt(b, o)
        name == NameAt(b, o + HeaderSize)
        at   == o + DataOffset(h.namesize)
        data == IF h.filesize > 0 /\ InRange(b, at, h.filesize)
                THEN Slice(b, at, h.filesize) ELSE Zeros(h.filesize)
        next == o + EntrySize(h.namesize, h.filesize)
    IN  IF o + HeaderSize > b.size THEN Read(<<>>)
        ELSE IF ~IsHeader(h) \/ ~InRange(b, o + HeaderSize, h.namesize) THEN Invalid
        ELSE IF name = Trailer.name THEN Read(<<>>)
        ELSE IF h.filesize > 0 /\ at >= b.size THEN Invalid
        ELSE Before([name |-> name, data |-> data],
                    IF next > b.size THEN Read(<<>>) ELSE rest[next])

ParsedFrom(b) == LET From[o \in 0 .. b.size] == ParseAt(b, o, From) IN From
Parse(b) == ParsedFrom(b)[0]

-----------------------------------------------------------------------------
(* cpio.rs, and the kernel that unpacks a ramdisk: header and name together  *)
(* are padded to a multiple of four, and the header says the name's own      *)
(* length.  Archives that follow a trailer, and entries "." and "..", which  *)
(* cpio.rs reads on past, do not occur here.                                 *)

NewcDataOffset(namesize)          == Align(HeaderSize + namesize, 4)
NewcEntrySize(namesize, filesize) == NewcDataOffset(namesize) + Align(filesize, 4)

NewcEntry(e) ==
    Concat(PadTo(Concat(Header(NameSize(e.name), e.data.size), NameBlob(e)), 4),
           PadTo(e.data, 4))

NewcDump(entries) ==
    Concat(ConcatAll([i \in DOMAIN entries |-> NewcEntry(entries[i])]),
           NewcEntry(Trailer))

NewcAt(b, o, rest) ==
    LET h    == ReadAt(b, o)
        name == NameAt(b, o + HeaderSize)
        at   == o + NewcDataOffset(h.namesize)
        next == o + NewcEntrySize(h.namesize, h.filesize)
    IN  IF o >= b.size THEN Read(<<>>)
        ELSE IF ~IsHeader(h) \/ ~InRange(b, at, h.filesize) THEN Invalid
        ELSE IF name = Trailer.name THEN Read(<<>>)
        ELSE Before([name |-> name, data |-> Slice(b, at, h.filesize)],
                    IF next > b.size THEN Read(<<>>) ELSE rest[next])

NewcFrom(b) == LET From[o \in 0 .. b.size] == NewcAt(b, o, From) IN From
NewcLoad(b) == NewcFrom(b)[0]
=============================================================================
