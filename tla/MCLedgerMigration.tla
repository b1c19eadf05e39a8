------------------------- MODULE MCLedgerMigration -------------------------
(* Small instances of LedgerMigration. *)
EXTENDS LedgerMigration

CONSTANTS n1, n2
MCNonces == {n1, n2}
=============================================================================
