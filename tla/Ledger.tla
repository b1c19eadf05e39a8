------------------------------- MODULE Ledger -------------------------------
(***************************************************************************)
(* The remote ledger: the append-only table events and the handler of      *)
(* POST /seal, which is one transaction.  A chain hash is identified with  *)
(* what it hashes, so the hash of an entry is the sequence of the records  *)
(* up to it.  The receipt of an entry signs its row, its timestamp and its *)
(* chain hash, which are all its fields: it is the entry itself.           *)
(***************************************************************************)
EXTENDS Naturals, Sequences

CONSTANTS
    LedgerTimes,  \* the values of the ledger's clock
    NoKey         \* the device is not in AUTHORIZED_DEVICES

VARIABLES
    events,    \* table events in rowid order
    registry   \* the public key AUTHORIZED_DEVICES holds for the device

Entries == {events[i] : i \in DOMAIN events}

Genesis == <<>>

(* Variant of LastHash: the rows in the other order. *)
FirstHash == IF events = <<>> THEN Genesis ELSE events[1].chain

LastHash == IF events = <<>> THEN Genesis ELSE events[Len(events)].chain

ChainHash(previous, row, lts) == Append(previous, [row |-> row, lts |-> lts])

NewEntry(row, lts) == [row |-> row, lts |-> lts, chain |-> ChainHash(LastHash, row, lts)]

SameKey(row1, row2) == row1.nonce = row2.nonce /\ row1.status = row2.status

(* Variant of IsStored: only the latest entry is compared. *)
IsLatest(row) == events # <<>> /\ SameKey(events[Len(events)].row, row)

IsStored(row) == \E e \in Entries : SameKey(e.row, row)

(* The device is known and its signature on the row is valid. *)
Accepts(row) == registry = row.key

Rejected == [row |-> NoKey, lts |-> 0, chain |-> Genesis]

Answers(row) == {Rejected} \cup Entries \cup {NewEntry(row, t) : t \in LedgerTimes}

(* Variant of SealEvent: a repeated request is countersigned anew. *)
SealAnew(row, answer) ==
    \/ answer = Rejected /\ UNCHANGED events
    \/ /\ Accepts(row)
       /\ \E t \in LedgerTimes : answer = NewEntry(row, t)
       /\ events' = IF IsStored(row) THEN events ELSE Append(events, answer)

(* The handler of POST /seal and its answer: 401, 403, 500 or the 409 of a  *)
(* row that differs from the stored one; a new entry; the receipt of the    *)
(* entry already stored for an identical row.                               *)
SealEvent(row, answer) ==
    \/ answer = Rejected /\ UNCHANGED events
    \/ /\ Accepts(row) /\ ~IsStored(row)
       /\ \E t \in LedgerTimes : answer = NewEntry(row, t)
       /\ events' = Append(events, answer)
    \/ /\ Accepts(row)
       /\ answer \in Entries /\ answer.row = row
       /\ UNCHANGED events
=============================================================================
