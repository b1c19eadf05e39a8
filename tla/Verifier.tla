------------------------------ MODULE Verifier ------------------------------
(***************************************************************************)
(* The head of the chain, as anchor_ledger publishes it, and the page that *)
(* checks the records of a bundle against a published head, one by one.    *)
(*                                                                         *)
(* The page is given text from anywhere: any sequence of records, of which *)
(* some are as the ledger returns them, some have one field replaced, and  *)
(* some were signed anew by the device and by the ledger over another      *)
(* history.  A signature is the row or the entry that was signed.          *)
(***************************************************************************)
EXTENDS Ledger, FiniteSets

CONSTANTS
    Rows,        \* the events of the device, each with the key that signs it
    Keys,
    MaxEvents,   \* bounds on the ledger, on a bundle and on the published
    MaxRecords,  \*   heads of an instance
    MaxAnchors

ASSUME VerifierAssumption ==
    /\ NoKey \notin Keys
    /\ \A row \in Rows : row.key \in Keys
    /\ MaxEvents \in Nat /\ MaxRecords \in Nat

VARIABLES
    anchors,   \* the published heads
    bundle,    \* the records in the page, and what was typed beside them:
    expected,  \*   the anchor,
    trusted,   \*   the key of the device
    checked,   \* how many records the loop has passed
    prevHash,
    verdict

ledgerVars == <<events, registry, anchors>>
inputs == <<bundle, expected, trusted>>
vars == <<ledgerVars, inputs, checked, prevHash, verdict>>

-----------------------------------------------------------------------------
(* The ledger and its anchors *)

Seal(row) ==
    /\ Len(events) < MaxEvents
    /\ \E a \in Answers(row) : a # Rejected /\ SealEvent(row, a)
    /\ UNCHANGED <<registry, anchors, inputs, checked, prevHash, verdict>>

(* A restart with another AUTHORIZED_DEVICES_JSON. *)
Reconfigure ==
    /\ registry' \in Keys \cup {NoKey}
    /\ UNCHANGED <<events, anchors, inputs, checked, prevHash, verdict>>

(* The newest chain hash; a query that fails leaves the initial value. *)
Anchor ==
    /\ \E h \in {LastHash, Genesis} : anchors' = anchors \cup {h}
    /\ Cardinality(anchors') <= MaxAnchors
    /\ UNCHANGED <<events, registry, inputs, checked, prevHash, verdict>>

-----------------------------------------------------------------------------
(* The text that is pasted *)

(* The row of GET /logs for an entry. *)
RecordOf(entry, previous) ==
    [row |-> entry.row, signature |-> entry.row, lts |-> entry.lts,
     previous |-> previous, chain |-> entry.chain, receipt |-> entry]

Logs == [i \in DOMAIN events |->
            RecordOf(events[i], IF i = 1 THEN Genesis ELSE events[i - 1].chain)]

Hashes == {Genesis} \cup {e.chain : e \in Entries}

SignedAnew ==
    {RecordOf([row |-> row, lts |-> t, chain |-> ChainHash(h, row, t)], h) :
        row \in Rows, t \in LedgerTimes, h \in Hashes}

Replaced(r) ==
    {[r EXCEPT !.row = row] : row \in Rows}
    \cup {[r EXCEPT !.signature = row] : row \in Rows}
    \cup {[r EXCEPT !.previous = h] : h \in Hashes}
    \cup {[r EXCEPT !.chain = h] : h \in Hashes}
    \cup {[r EXCEPT !.receipt = e] : e \in Entries}

Pasteable == SignedAnew \cup UNION {Replaced(Logs[i]) : i \in DOMAIN events}

-----------------------------------------------------------------------------
(* The page *)

(* A form is submitted when the verification before it has its verdict; the *)
(* page does not keep the auditor from submitting during one, which then    *)
(* writes its results among those of the other.                             *)
Submit ==
    /\ verdict = "none"
    /\ \E n \in 0..MaxRecords : bundle' \in [1..n -> Pasteable]
    /\ expected' \in anchors
    /\ trusted' = registry
    /\ verdict' = "checking"
    /\ UNCHANGED <<ledgerVars, checked, prevHash>>

DeviceSigned(r) == r.signature = r.row /\ r.row.key = trusted

(* Variant of Linked: a record is believed about its predecessor. *)
LinkedToItself(r) == r.chain = ChainHash(r.previous, r.row, r.lts)

Linked(r) == r.previous = prevHash /\ r.chain = ChainHash(r.previous, r.row, r.lts)

(* Variant of Receipted: the hash before the record is in the message. *)
ReceiptedBefore(r) == r.receipt = [row |-> r.row, lts |-> r.lts, chain |-> r.previous]

Receipted(r) == r.receipt = [row |-> r.row, lts |-> r.lts, chain |-> r.chain]

CheckRecord ==
    /\ verdict = "checking" /\ checked < Len(bundle)
    /\ LET r == bundle[checked + 1] IN
          IF DeviceSigned(r) /\ Linked(r) /\ Receipted(r)
          THEN checked' = checked + 1 /\ prevHash' = r.chain /\ UNCHANGED verdict
          ELSE verdict' = "failed" /\ UNCHANGED <<checked, prevHash>>
    /\ UNCHANGED <<ledgerVars, inputs>>

Conclude ==
    /\ verdict = "checking" /\ checked = Len(bundle)
    /\ verdict' = IF prevHash = expected THEN "valid" ELSE "failed"
    /\ UNCHANGED <<ledgerVars, inputs, checked, prevHash>>

(* Variant of Clear: the position of the last run is kept. *)
ClearResults ==
    /\ verdict \in {"valid", "failed"}
    /\ bundle' = <<>> /\ expected' = Genesis /\ trusted' = NoKey
    /\ prevHash' = Genesis /\ verdict' = "none"
    /\ UNCHANGED <<ledgerVars, checked>>

(* The next submission starts from nothing. *)
Clear ==
    /\ verdict \in {"valid", "failed"}
    /\ bundle' = <<>> /\ expected' = Genesis /\ trusted' = NoKey
    /\ checked' = 0 /\ prevHash' = Genesis /\ verdict' = "none"
    /\ UNCHANGED ledgerVars

Init ==
    /\ events = <<>>
    /\ registry \in Keys
    /\ anchors = {}
    /\ bundle = <<>> /\ expected = Genesis /\ trusted = NoKey
    /\ checked = 0 /\ prevHash = Genesis /\ verdict = "none"

Next ==
    \/ \E row \in Rows : Seal(row)
    \/ Reconfigure \/ Anchor
    \/ Submit \/ CheckRecord \/ Conclude \/ Clear

Spec == Init /\ [][Next]_vars

-----------------------------------------------------------------------------
(* Properties *)

Hash == Seq([row : Rows, lts : LedgerTimes])

Entry == [row : Rows, lts : LedgerTimes, chain : Hash]

BundleRecord ==
    [row : Rows, signature : Rows, lts : LedgerTimes,
     previous : Hash, chain : Hash, receipt : Entry]

TypeOK ==
    /\ events \in Seq(Entry)
    /\ {registry, trusted} \subseteq Keys \cup {NoKey}
    /\ anchors \subseteq Hash /\ {expected, prevHash} \subseteq Hash
    /\ bundle \in Seq(BundleRecord)
    /\ checked \in 0..Len(bundle)
    /\ verdict \in {"none", "checking", "failed", "valid"}

(* The bundle is what the ledger held when the expected head was published. *)
IsHistory == bundle = SubSeq(Logs, 1, Len(expected))

(* "ALL RECORDS CRYPTOGRAPHICALLY VALID AND FULLY ANCHORED": a bundle that  *)
(* passes is the ledger's history up to the anchor, with no record altered, *)
(* left out, moved or added, whoever signed it.                             *)
AcceptedIsHistory == verdict = "valid" => IsHistory

(* A failure has a cause: the bundle is not that history, or a record was   *)
(* signed with a key that is no longer the device's.                        *)
FailedForCause ==
    verdict = "failed" => ~IsHistory \/ \E i \in DOMAIN bundle : bundle[i].row.key # trusted
=============================================================================
