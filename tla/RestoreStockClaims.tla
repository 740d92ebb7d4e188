-------------------------- MODULE RestoreStockClaims --------------------------
(* What restore-stock says of /data/adb and does not keep.                     *)
EXTENDS RestoreStock

\* "/data/adb is clean or minimal" (RestoreStockOrchestrator.cs:492), printed for
\* every run that ends Restored: nothing that the cleaning commands name is left.
RestoredIsClean ==
    status = "Restored" => \A i \in DOMAIN Commands : Commands[i] \notin data
=============================================================================
