---------------------------- MODULE MCRestoreStock ----------------------------
(***************************************************************************)
(* Devices and options for TLC.  Every option and every property of the     *)
(* device occurs with and without the shell being root.                     *)
(***************************************************************************)
EXTENDS RestoreStockClaims

MCEntries == {"magisk", "modules", "magisk.db"}

Usual == [dryRun |-> FALSE, stockBoot |-> "image", stockVbmeta |-> "image", ab |-> FALSE,
          root |-> {"recovery"}, blocks |-> TRUE, mounted |-> TRUE, adbDir |-> TRUE,
          proxy |-> FALSE]

MCSetups ==
    {[Usual EXCEPT !.root = r, !.mounted = m, !.proxy = p] :
        r \in {{"recovery"}, AdbModes}, m \in BOOLEAN, p \in BOOLEAN}
      \cup {[Usual EXCEPT !.root = {}],
            [Usual EXCEPT !.ab = TRUE], [Usual EXCEPT !.ab = TRUE, !.proxy = TRUE],
            [Usual EXCEPT !.dryRun = TRUE], [Usual EXCEPT !.dryRun = TRUE, !.proxy = TRUE],
            [Usual EXCEPT !.stockBoot = "bad"], [Usual EXCEPT !.stockBoot = "none"],
            [Usual EXCEPT !.stockVbmeta = "none"], [Usual EXCEPT !.blocks = FALSE],
            [Usual EXCEPT !.adbDir = FALSE, !.root = AdbModes, !.blocks = FALSE]}

MCLocked == {Usual}
=============================================================================
