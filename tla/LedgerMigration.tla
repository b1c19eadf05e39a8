-------------------------- MODULE LedgerMigration --------------------------
(***************************************************************************)
(* The startup of the ledger on a database that may be of an older version *)
(* (primary key nonce, without the columns added since).  Each statement   *)
(* is committed by itself, so the process can stop between any two, and an *)
(* error in the migration is printed and forgotten.                        *)
(*                                                                         *)
(* A trigger belongs to a table, follows it when it is renamed, and has a  *)
(* name that is unique in the database.                                    *)
(***************************************************************************)
EXTENDS Naturals, Sequences

CONSTANTS
    Nonces, Statuses,
    MaxFaults  \* bound on the crashes and failed statements of an instance

ASSUME MigrationAssumption ==
    /\ "UNKNOWN" \in Statuses
    /\ MaxFaults \in Nat

VARIABLES
    events, eventsOld,  \* the tables
    trigger,            \* the table each append-only trigger is on
    pc,                 \* the next statement of the startup
    faults,
    sealed              \* the rows the ledger has ever answered for (history)

vars == <<events, eventsOld, trigger, pc, faults, sealed>>

(* The columns added to the first version, in order. *)
Added == <<"previous_hash", "chain_hash", "action_status">>

AllAdded == {Added[i] : i \in DOMAIN Added}

Triggers == {"prevent_events_update", "prevent_events_delete"}

NoTable == [key |-> {}, columns |-> {}, rows |-> <<>>]

NewTable == [key |-> {"nonce", "action_status"}, columns |-> AllAdded, rows |-> <<>>]

Rows == [nonce : Nonces, status : Statuses]

Holds(table, row) == \E i \in DOMAIN table.rows : table.rows[i] = row

KeyTaken(table, row) ==
    \E i \in DOMAIN table.rows :
        /\ table.rows[i].nonce = row.nonce
        /\ "action_status" \in table.key => table.rows[i].status = row.status

IsNextToCreate(t) == t = "prevent_events_delete" => trigger["prevent_events_update"] # "none"

IsNextToDrop(t) == t = "prevent_events_delete" => trigger["prevent_events_update"] = "none"

(* Variant of CreateTable: an existing table is replaced. *)
CreateFresh ==
    /\ pc = "down"
    /\ events' = NewTable
    /\ pc' = "inspect"
    /\ UNCHANGED <<eventsOld, trigger, faults, sealed>>

(* CREATE TABLE IF NOT EXISTS events *)
CreateTable ==
    /\ pc = "down"
    /\ events' = IF events = NoTable THEN NewTable ELSE events
    /\ pc' = "inspect"
    /\ UNCHANGED <<eventsOld, trigger, faults, sealed>>

(* PRAGMA table_info(events): a key of one column is the old one. *)
Inspect ==
    /\ pc = "inspect"
    /\ pc' = IF events.key = {"nonce"} THEN "unprotect" ELSE "columns"
    /\ UNCHANGED <<events, eventsOld, trigger, faults, sealed>>

DropTrigger(t) ==
    /\ pc = "unprotect"
    /\ trigger[t] # "none" /\ IsNextToDrop(t)
    /\ trigger' = [trigger EXCEPT ![t] = "none"]
    /\ UNCHANGED <<events, eventsOld, pc, faults, sealed>>

Renamed == [t \in Triggers |-> IF trigger[t] = "events" THEN "events_old" ELSE trigger[t]]

(* Variant of RenameTable: the triggers are not dropped first. *)
RenameProtected ==
    /\ pc = "unprotect"
    /\ eventsOld' = events
    /\ events' = NoTable
    /\ trigger' = Renamed
    /\ pc' = "recreate"
    /\ UNCHANGED <<faults, sealed>>

RenameTable ==
    /\ pc = "unprotect"
    /\ \A t \in Triggers : trigger[t] = "none"
    /\ eventsOld' = events
    /\ events' = NoTable
    /\ trigger' = Renamed
    /\ pc' = "recreate"
    /\ UNCHANGED <<faults, sealed>>

RecreateTable ==
    /\ pc = "recreate"
    /\ events' = NewTable
    /\ pc' = "copy"
    /\ UNCHANGED <<eventsOld, trigger, faults, sealed>>

(* Variant of CopyRows: the table is dropped whether or not it was copied. *)
CopyAndGoOn ==
    /\ pc = "copy"
    /\ events' = IF eventsOld.columns = events.columns
                 THEN [events EXCEPT !.rows = eventsOld.rows] ELSE events
    /\ pc' = "dropOld"
    /\ UNCHANGED <<eventsOld, trigger, faults, sealed>>

(* INSERT INTO events SELECT * FROM events_old, an error when the old table *)
(* has fewer columns.                                                       *)
CopyRows ==
    /\ pc = "copy"
    /\ IF eventsOld.columns = events.columns
       THEN events' = [events EXCEPT !.rows = eventsOld.rows] /\ pc' = "dropOld"
       ELSE UNCHANGED events /\ pc' = "columns"
    /\ UNCHANGED <<eventsOld, trigger, faults, sealed>>

DropOld ==
    /\ pc = "dropOld"
    /\ eventsOld' = NoTable
    /\ trigger' = [t \in Triggers |-> IF trigger[t] = "events_old" THEN "none" ELSE trigger[t]]
    /\ pc' = "columns"
    /\ UNCHANGED <<events, faults, sealed>>

(* Another error, which is caught: of the migration, or of an ALTER.  What  *)
(* makes an ALTER fail (a lock) is taken to outlast those after it, so that *)
(* the columns are always added in order.                                   *)
StatementFails ==
    /\ pc \in {"inspect", "unprotect", "recreate", "copy", "dropOld", "columns"}
    /\ faults < MaxFaults
    /\ faults' = faults + 1
    /\ pc' = IF pc = "columns" THEN "protect" ELSE "columns"
    /\ UNCHANGED <<events, eventsOld, trigger, sealed>>

(* Variant of AddColumn: the new columns become part of the key. *)
AddAnyColumn ==
    /\ pc = "columns"
    /\ \E i \in DOMAIN Added :
        /\ Added[i] \notin events.columns
        /\ events' = [events EXCEPT !.key = @ \cup {Added[i]}, !.columns = @ \cup {Added[i]}]
    /\ UNCHANGED <<eventsOld, trigger, pc, faults, sealed>>

(* ALTER TABLE events ADD COLUMN, one by one; those that are there fail. *)
AddColumn ==
    /\ pc = "columns" /\ events # NoTable
    /\ \E i \in DOMAIN Added :
        /\ Added[i] \notin events.columns
        /\ \A j \in 1..(i - 1) : Added[j] \in events.columns
        /\ events' = [events EXCEPT !.columns = @ \cup {Added[i]}]
    /\ UNCHANGED <<eventsOld, trigger, pc, faults, sealed>>

ColumnsDone ==
    /\ pc = "columns"
    /\ events = NoTable \/ AllAdded \subseteq events.columns
    /\ pc' = "protect"
    /\ UNCHANGED <<events, eventsOld, trigger, faults, sealed>>

(* CREATE TRIGGER IF NOT EXISTS, outside of the try: without the table the  *)
(* startup fails.                                                           *)
CreateTrigger(t) ==
    /\ pc = "protect"
    /\ trigger[t] = "none" /\ IsNextToCreate(t)
    /\ IF events = NoTable
       THEN pc' = "down" /\ UNCHANGED trigger
       ELSE trigger' = [trigger EXCEPT ![t] = "events"] /\ UNCHANGED pc
    /\ UNCHANGED <<events, eventsOld, faults, sealed>>

Serve ==
    /\ pc = "protect"
    /\ \A t \in Triggers : trigger[t] # "none"
    /\ pc' = "serving"
    /\ UNCHANGED <<events, eventsOld, trigger, faults, sealed>>

(* The insertion of POST /seal, an error while the table lacks a column. *)
Seal(row) ==
    /\ pc = "serving"
    /\ AllAdded \subseteq events.columns
    /\ ~KeyTaken(events, row)
    /\ events' = [events EXCEPT !.rows = Append(@, row)]
    /\ sealed' = Append(sealed, row)
    /\ UNCHANGED <<eventsOld, trigger, pc, faults>>

Stop ==
    /\ pc = "serving"
    /\ pc' = "down"
    /\ UNCHANGED <<events, eventsOld, trigger, faults, sealed>>

Crash ==
    /\ pc \notin {"down", "serving"}
    /\ faults < MaxFaults
    /\ faults' = faults + 1
    /\ pc' = "down"
    /\ UNCHANGED <<events, eventsOld, trigger, sealed>>

(* Tables of the older versions: a row has the status UNKNOWN as long as    *)
(* there is no column for it.                                               *)
OldTable(columns, row) == [key |-> {"nonce"}, columns |-> columns, rows |-> <<row>>]

OldTables ==
    {OldTable(c, [nonce |-> n, status |-> "UNKNOWN"]) :
        c \in {{}, {"previous_hash", "chain_hash"}}, n \in Nonces}
    \cup {OldTable(AllAdded, row) : row \in Rows}

Init ==
    /\ events \in {NoTable} \cup OldTables
    /\ eventsOld = NoTable
    /\ trigger \in [Triggers -> IF events = NoTable THEN {"none"} ELSE {"none", "events"}]
    /\ pc = "down"
    /\ faults = 0
    /\ sealed = events.rows

Next ==
    \/ CreateTable \/ Inspect \/ RenameTable \/ RecreateTable \/ CopyRows \/ DropOld
    \/ StatementFails \/ AddColumn \/ ColumnsDone \/ Serve \/ Stop \/ Crash
    \/ \E t \in Triggers : DropTrigger(t) \/ CreateTrigger(t)
    \/ \E row \in Rows : Seal(row)

Spec == Init /\ [][Next]_vars

-----------------------------------------------------------------------------
(* Properties *)

Tables ==
    [key : {{}, {"nonce"}, {"nonce", "action_status"}}, columns : SUBSET AllAdded, rows : Seq(Rows)]

Steps == {"down", "inspect", "unprotect", "recreate", "copy", "dropOld", "columns", "protect", "serving"}

TypeOK ==
    /\ events \in Tables /\ eventsOld \in Tables
    /\ trigger \in [Triggers -> {"none", "events", "events_old"}]
    /\ pc \in Steps
    /\ faults \in 0..MaxFaults
    /\ sealed \in Seq(Rows)

(* "Ensure Immutability at the DB engine level": whatever the startup went  *)
(* through, a ledger that serves has both triggers on its table.            *)
ProtectedWhenServing ==
    pc = "serving" => \A t \in Triggers : trigger[t] = "events"

(* The old table goes only after its rows are copied: no crash or error of  *)
(* the migration destroys a row the ledger has answered for.                *)
NothingDestroyed ==
    \A i \in DOMAIN sealed : Holds(events, sealed[i]) \/ Holds(eventsOld, sealed[i])

(* Once nothing is left behind in events_old the ledger serves exactly what *)
(* it has answered for, in the order its chain has.                         *)
WholeUnlessLeft ==
    (pc = "serving" /\ eventsOld = NoTable) => events.rows = sealed

(* main.py: "Migration for older schema that used `nonce TEXT PRIMARY       *)
(* KEY`": after it the ledger still has the rows it had.                    *)
MigrationKeepsRows ==
    pc = "serving" => \A i \in DOMAIN sealed : Holds(events, sealed[i])
=============================================================================
