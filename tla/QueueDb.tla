------------------------------ MODULE QueueDb ------------------------------
(***************************************************************************)
(* The local queue database (queue.db) of the daemon, table                *)
(* local_audit_log: the durable log of the events a device has signed.     *)
(* Rows are only ever inserted, so the log is the sequence of the rows in  *)
(* rowid order.  The columns receipt_signature and ledger_timestamp, which *)
(* are set in one transaction with the row of table receipts, are kept by  *)
(* SealQueue.                                                              *)
(***************************************************************************)
EXTENDS Naturals, Sequences

CONSTANTS
    Times,          \* the values of the wall clock, in seconds
    MonotonicClock  \* TRUE when the wall clock is never set back

ASSUME ClockAssumption == Times \subseteq Nat /\ MonotonicClock \in BOOLEAN

VARIABLE log

Terminal == {"SEAL_COMPLETED", "SEAL_FAILED"}
ActionStatus == {"SEAL_REQUESTED"} \cup Terminal

Row(Nonces, Payloads, Keys) ==
    [nonce: Nonces, status: ActionStatus, payload: Payloads, ts: Times, key: Keys]

Rows == {log[i] : i \in DOMAIN log}

HasRow(nonce, status) == \E r \in Rows : r.nonce = nonce /\ r.status = status

HasNonce(nonce) == \E r \in Rows : r.nonce = nonce

HasTerminal(nonce) == \E r \in Rows : r.nonce = nonce /\ r.status \in Terminal

(* The timestamps a new row of this nonce may carry: the clock is read      *)
(* before the database lock is taken, so it is ordered only after the rows  *)
(* that made this insert happen, those of the same nonce.                   *)
Stamps(nonce) ==
    {t \in Times : MonotonicClock => \A r \in Rows : r.nonce = nonce => r.ts <= t}

(* Variants of the INSERT for the sensitivity of the checks: the status      *)
(* column left to a default, INSERT OR IGNORE, a table without primary key. *)
InsertUnlabelled(nonce, status, payload, key) ==
    /\ ~HasRow(nonce, status)
    /\ \E t \in Stamps(nonce) :
          log' = Append(log, [nonce |-> nonce, status |-> "UNKNOWN",
                              payload |-> payload, ts |-> t, key |-> key])

InsertUnkeyed(nonce, status, payload, key) ==
    \E t \in Stamps(nonce) :
        log' = Append(log, [nonce |-> nonce, status |-> status,
                            payload |-> payload, ts |-> t, key |-> key])

InsertOrIgnore(nonce, status, payload, key) ==
    IF HasRow(nonce, status) THEN UNCHANGED log
    ELSE InsertUnkeyed(nonce, status, payload, key)

(* The INSERT succeeds exactly when the primary key (nonce, action_status)  *)
(* is free.                                                                 *)
InsertLocalEvent(nonce, status, payload, key) ==
    /\ ~HasRow(nonce, status)
    /\ \E t \in Stamps(nonce) :
          log' = Append(log, [nonce |-> nonce, status |-> status,
                              payload |-> payload, ts |-> t, key |-> key])
=============================================================================
