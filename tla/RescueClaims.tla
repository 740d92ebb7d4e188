---------------------------- MODULE RescueClaims ----------------------------
(***************************************************************************)
(* What the repository's comments and rules say of the rescue and the code *)
(* does not do.  Each is checked by a run of its own, which finds it       *)
(* violated.                                                               *)
(***************************************************************************)
EXTENDS Rescue

\* "Full restore fallback for partitions still tampered after sparse repair"
\* (RescueOrchestrator, phase 4b): a partition the sparse repair has brought back
\* to its stock image and verified is not erased.  The list of phase 4b is taken
\* before phase 4a runs.
RepairedNotErased ==
    [][\A p \in erased' \ erased :
        ~(p # Userdata /\ rep.sparse[p] = "Repaired" /\ img[p] = backup.stock[p])]_vars

Mismatched(audit) == {p \in Partitions : audit[p] = "Mismatch"}

\* "All previously-mismatched partition(s) now match stock", printed when no
\* partition mismatches in both audits, and the verdict FullyRecovered: it is
\* printed also of a partition the second audit could not read.
NowMatchStock ==
    pc = "done" /\ rep.verdict = "FullyRecovered" /\ StillMismatched(rep) = {} =>
        \A p \in Mismatched(rep.audit) : Carries(img[p], backup.stock[p])
=============================================================================
