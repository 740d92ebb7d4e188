--------------------------- MODULE PartitionImage ---------------------------
(***************************************************************************)
(* What the rescue code computes from the bytes of a partition.            *)
(*                                                                         *)
(* An image is a function on sector numbers.  A sector holds a block       *)
(* value, or End where the data stops: a stock file shorter than the       *)
(* partition and a read that timed out early are images with an End        *)
(* suffix.  The block values are the ones the code tells apart:            *)
(*   "stock"    a sector of the factory image                              *)
(*   "patched"  changed by Magisk; in vbmeta, bit 0 of byte 4 is set       *)
(*   "rebuilt"  produced by BootImageRepacker, not bit-identical to stock  *)
(*   "dirty"    ... with a ramdisk in which Magisk was left                *)
(*   "broken"   ... with a ramdisk that is no archive                      *)
(*   "other"    any other content                                          *)
(*   "zero"     erased                                                     *)
(***************************************************************************)
EXTENDS Integers, FiniteSets

CONSTANT NSectors                \* sectors of a partition

ASSUME NSectorsAssumption == NSectors \in Nat \ {0}

Sectors == 1 .. NSectors
Blocks  == {"stock", "patched", "rebuilt", "dirty", "broken", "other", "zero"}
End     == "end"
Image   == [Sectors -> Blocks \cup {End}]

Length(d) == Cardinality({s \in Sectors : d[s] # End})

\* The first k sectors of d: what ReadPartitionAsync returns when the device
\* stops sending before the partition's end.
Prefix(d, k) == [s \in Sectors |-> IF s <= k THEN d[s] ELSE End]

\* d after the sectors in S have been programmed with the data of file f.
PastItsEnd(d, f, S) == [s \in Sectors |-> IF s \in S THEN f[s] ELSE d[s]]
Programmed(d, f, S) == [s \in Sectors |-> IF s \in S /\ f[s] # End THEN f[s] ELSE d[s]]

\* d after the device has erased the sectors in Z.
Erased(d, Z) == [s \in Sectors |-> IF s \in Z THEN "zero" ELSE d[s]]

\* The sectors RunFullGptAuditAsync lists: those that both the device data and
\* the stock file have, and where they differ.
DifferingSectors(dev, stk) ==
    {s \in Sectors : dev[s] # End /\ stk[s] # End /\ dev[s] # stk[s]}

\* Every sector of the file is on the device.
Carries(dev, f) == \A s \in Sectors : f[s] # End => dev[s] = f[s]

-----------------------------------------------------------------------------
(* Boot images: sector 1 is the header, the others hold the ramdisk. *)

\* BootImageParser.Parse finds a header (it throws otherwise).
Parses(d) == d[1] \notin {"zero", End}

\* ExtractRamdiskArchive returns instead of throwing: the header's sizes are those
\* of this ramdisk, all of which is there.
RamdiskReadable(d) ==
    \A s \in Sectors \ {1} :
        /\ d[s] \notin {"zero", "broken", End}
        /\ d[1] = "rebuilt" <=> d[s] \in {"rebuilt", "dirty"}

\* MagiskArtifactDetector.Detect on the parsed ramdisk.
MagiskDetected(d) ==
    /\ Parses(d)
    /\ RamdiskReadable(d)
    /\ \E s \in Sectors \ {1} : d[s] \in {"patched", "dirty"}

\* BootImageRepacker.Repack of boot image d with ramdisk blocks r.
Repacked(d, r) ==
    [s \in Sectors |-> IF d[s] = End THEN End ELSE IF s = 1 THEN "rebuilt" ELSE r]

\* What MagiskRemover takes for "verification disabled": bit 0 of the little-endian
\* word at offset 4 of vbmeta, where the AVB version stands; the flags are not read.
VerificationDisabled(d) == d[1] = "patched"
=============================================================================
