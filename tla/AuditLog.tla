------------------------------ MODULE AuditLog ------------------------------
(***************************************************************************)
(* What the local log promises to the rest of the system, whatever the     *)
(* number of proxy processes writing to it and wherever they crash: it     *)
(* grows by one row at a time, the first row of a call is its              *)
(* SEAL_REQUESTED, and at most one terminal row follows.  Relay implements *)
(* this specification and SealQueue relies on it.                          *)
(***************************************************************************)
EXTENDS QueueDb

CONSTANTS Nonces, Payloads, Keys

(* Variant of Record: the primary key alone, which lets a call have a       *)
(* SEAL_COMPLETED and a SEAL_FAILED.                                        *)
RecordByKey(row) ==
    /\ log' = Append(log, row)
    /\ ~HasRow(row.nonce, row.status)
    /\ row.status \in Terminal => HasRow(row.nonce, "SEAL_REQUESTED")
    /\ row.ts \in Stamps(row.nonce)

(* One insertion of relay_with_intercept.  The table itself enforces only    *)
(* the key; that a first row is a SEAL_REQUESTED and that one outcome        *)
(* follows is what the checks and the tables of the two tasks make of it.    *)
Record(row) ==
    /\ log' = Append(log, row)
    /\ IF row.status = "SEAL_REQUESTED"
       THEN ~HasNonce(row.nonce)
       ELSE HasRow(row.nonce, "SEAL_REQUESTED") /\ ~HasTerminal(row.nonce)
    /\ row.ts \in Stamps(row.nonce)

AuditInit == log = <<>>

AuditNext == \E row \in Row(Nonces, Payloads, Keys) : Record(row)

AuditSpec == AuditInit /\ [][AuditNext]_log
=============================================================================
