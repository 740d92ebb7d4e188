---------------------------- MODULE MCDownloadMode ----------------------------
(***************************************************************************)
(* A package with an image of two chunks, the second one short, a small     *)
(* and an empty image, for TLC.                                             *)
(***************************************************************************)
EXTENDS DownloadModeClaims

MCPackage == {"boot", "vbmeta", "empty"}
MCUnits == [p \in MCPackage |-> CASE p = "boot" -> 3 [] p = "vbmeta" -> 1 [] p = "empty" -> 0]
\* "cache" is not in the package
MCLists == {<<"boot", "vbmeta">>, <<"cache", "vbmeta", "empty">>}
=============================================================================
