----------------------------- MODULE DeviceGuard -----------------------------
(***************************************************************************)
(* What a rescue promises of the device it works on, whatever the pipeline *)
(* does and whatever goes wrong on the way: the specification that Rescue  *)
(* implements.  There are no phases here, no reports and no commands that  *)
(* fail, only the ways in which a partition may come to change, each with  *)
(* its gates, and an end after which none may.                             *)
(***************************************************************************)
EXTENDS PartitionImage

CONSTANTS
    Partitions,
    Critical,      \* the partitions that a restore may erase
    Boot,          \* those whose ramdisk may be rebuilt
    Protected,     \* those that only --force opens
    Userdata,      \* the partition that only the operator's word opens
    Verdicts

VARIABLES
    opt,           \* [dryRun, force, wipeData: BOOLEAN], and others
    stock,         \* the stock image of each partition, where there is one
    img,           \* what the device holds
    confirmed,     \* the operator has typed the token
    failed,        \* a wipe has failed
    verdict

vars == <<opt, stock, img, confirmed, failed, verdict>>

Init == ~confirmed /\ ~failed

Open(p) == ~opt.dryRun /\ (p \in Protected => opt.force)
WipeAllowed == opt.wipeData /\ confirmed

\* Some sectors are erased: in an ordinary partition, to be programmed again; in
\* userdata for good.
Erase(p) ==
    /\ Open(p) /\ (p \in Critical \/ (p = Userdata /\ WipeAllowed))
    /\ \E Z \in SUBSET Sectors : img' = [img EXCEPT ![p] = Erased(@, Z)]
    /\ UNCHANGED confirmed

\* Some sectors get the content of the stock image, and no other.
Restore(p) ==
    /\ Open(p) /\ stock[p] \in Image
    /\ \E S \in SUBSET Sectors : img' = [img EXCEPT ![p] = Programmed(@, stock[p], S)]
    /\ UNCHANGED confirmed

\* A boot image as the repacker builds it: its ramdisk may still have Magisk in it,
\* or be a file of the backup directory that is no ramdisk at all.
Rebuilt == {f \in [Sectors -> {"rebuilt", "dirty", "broken", End}] :
              f[1] \notin {"dirty", "broken"}}

Rebuild(p) ==
    /\ Open(p)
    /\ \E f \in Rebuilt, S \in SUBSET Sectors :
          img' = [img EXCEPT ![p] = Programmed(@, f, S)]
    /\ UNCHANGED confirmed

\* The operator is asked in a live run that was told to wipe.
Confirm == ~opt.dryRun /\ opt.wipeData /\ confirmed' \in BOOLEAN /\ UNCHANGED img

Deliberate == UNCHANGED <<img, confirmed>>

\* A failed wipe is the last thing that happens to the device, and the verdict.
Next ==
    /\ ~failed /\ UNCHANGED <<opt, stock>>
    /\ \/ \E p \in Partitions : Erase(p) \/ Restore(p)
       \/ \E p \in Boot : Rebuild(p)
       \/ Confirm \/ Deliberate
    /\ failed' \in BOOLEAN /\ verdict' \in Verdicts
    /\ failed' => verdict' = "PermanentDamage"

Spec == Init /\ [][Next]_vars
=============================================================================
