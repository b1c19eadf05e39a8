----------------------- MODULE LedgerMigrationProofs -----------------------
(***************************************************************************)
(* Theorems about LedgerMigration, for any nonces and statuses and any     *)
(* number of crashes and failed statements.                                *)
(***************************************************************************)
EXTENDS LedgerMigration, TLAPS

(* Which tables there are; only a table that was never migrated has the old *)
(* key, and there is no other beside it.                                    *)
TablesInv ==
    /\ events = NoTable <=> events.key = {}
    /\ eventsOld = NoTable <=> eventsOld.key = {}
    /\ events.key = {"nonce"} => eventsOld = NoTable
    /\ pc = "unprotect" => events.key = {"nonce"}
    /\ pc = "recreate" => events = NoTable
    /\ pc = "copy" => events = NewTable

(* No trigger is on the old table, and there is none without a table.       *)
TriggersInv ==
    /\ \A t \in Triggers : trigger[t] # "events_old"
    /\ events = NoTable => \A t \in Triggers : trigger[t] = "none"
    /\ pc = "serving" => \A t \in Triggers : trigger[t] # "none"

(* Where all rows are while they are moved.                                 *)
RowsInv ==
    /\ eventsOld = NoTable => events.rows = sealed
    /\ pc \in {"recreate", "copy"} => eventsOld.rows = sealed
    /\ pc = "dropOld" => events.rows = sealed

IInv == TablesInv /\ TriggersInv /\ RowsInv /\ NothingDestroyed

USE DEF NoTable, NewTable, Tables, Steps

LEMMA AddedColumns ==
    /\ AllAdded = {"previous_hash", "chain_hash", "action_status"}
    /\ \A i \in DOMAIN Added : Added[i] \in AllAdded
  BY DEF AllAdded, Added

LEMMA RowsType == \A r \in Rows : r \in [nonce : Nonces, status : Statuses]
  BY DEF Rows

LEMMA InitType == Init => TypeOK
  <1> SUFFICES ASSUME Init PROVE TypeOK
    OBVIOUS
  <1>1. \A n \in Nonces : [nonce |-> n, status |-> "UNKNOWN"] \in Rows
    BY MigrationAssumption DEF Rows
  <1>2. \A row \in Rows : <<row>> \in Seq(Rows)
    OBVIOUS
  <1>3. \A c \in SUBSET AllAdded, row \in Rows : OldTable(c, row) \in Tables
    BY <1>2 DEF OldTable
  <1>4. {{}, {"previous_hash", "chain_hash"}} \subseteq SUBSET AllAdded
    BY AddedColumns
  <1>5. OldTables \subseteq Tables
    <2>1. ASSUME NEW c \in {{}, {"previous_hash", "chain_hash"}}, NEW n \in Nonces
          PROVE  OldTable(c, [nonce |-> n, status |-> "UNKNOWN"]) \in Tables
      BY <1>1, <1>3, <1>4
    <2>2. ASSUME NEW row \in Rows
          PROVE  OldTable(AllAdded, row) \in Tables
      BY <1>3
    <2> HIDE DEF Tables
    <2>3. ASSUME NEW table \in OldTables
          PROVE  table \in Tables
      <3>1. \/ \E c \in {{}, {"previous_hash", "chain_hash"}}, n \in Nonces :
                   table = OldTable(c, [nonce |-> n, status |-> "UNKNOWN"])
            \/ \E row \in Rows : table = OldTable(AllAdded, row)
        BY DEF OldTables
      <3>2. QED
        BY <2>1, <2>2, <3>1
    <2>4. QED
      BY <2>3
  <1>6. NoTable \in Tables
    OBVIOUS
  <1>7. trigger \in [Triggers -> {"none", "events", "events_old"}]
    BY DEF Init
  <1>8. events \in Tables /\ eventsOld \in Tables /\ sealed \in Seq(Rows)
    BY <1>5, <1>6 DEF Init
  <1>9. QED
    BY <1>7, <1>8, MigrationAssumption DEF Init, TypeOK

LEMMA TypeStep == TypeOK /\ [Next]_vars => TypeOK'
  <1> SUFFICES ASSUME TypeOK, [Next]_vars
               PROVE  TypeOK'
    OBVIOUS
  <1> USE DEF TypeOK
  <1>1. CASE CreateTable
    BY <1>1 DEF CreateTable
  <1>2. CASE Inspect
    BY <1>2 DEF Inspect
  <1>3. CASE RenameTable
    BY <1>3 DEF RenameTable, Renamed
  <1>4. CASE RecreateTable
    BY <1>4 DEF RecreateTable
  <1>5. CASE CopyRows
    BY <1>5 DEF CopyRows
  <1>6. CASE DropOld
    BY <1>6 DEF DropOld
  <1>7. CASE StatementFails
    BY <1>7, MigrationAssumption DEF StatementFails
  <1>8. CASE AddColumn
    BY <1>8, AddedColumns DEF AddColumn
  <1>9. CASE ColumnsDone
    BY <1>9 DEF ColumnsDone
  <1>10. CASE Serve \/ Stop
    BY <1>10 DEF Serve, Stop
  <1>11. CASE Crash
    BY <1>11, MigrationAssumption DEF Crash
  <1>12. ASSUME NEW t \in Triggers, DropTrigger(t)
         PROVE  TypeOK'
    BY <1>12 DEF DropTrigger
  <1>13. ASSUME NEW t \in Triggers, CreateTrigger(t)
         PROVE  TypeOK'
    BY <1>13 DEF CreateTrigger
  <1>14. ASSUME NEW row \in Rows, Seal(row)
         PROVE  TypeOK'
    <2>1. Append(events.rows, row) \in Seq(Rows) /\ Append(sealed, row) \in Seq(Rows)
      OBVIOUS
    <2>2. events' \in Tables
      <3>1. events' = [events EXCEPT !.rows = Append(events.rows, row)]
        BY <1>14 DEF Seal
      <3>2. QED
        BY <2>1, <3>1
    <2>3. QED
      BY <1>14, <2>1, <2>2 DEF Seal
  <1>15. CASE UNCHANGED vars
    BY <1>15 DEF vars
  <1>16. QED
    BY <1>1, <1>2, <1>3, <1>4, <1>5, <1>6, <1>7, <1>8, <1>9, <1>10, <1>11, <1>12,
       <1>13, <1>14, <1>15 DEF Next

(* Every variable keeps its type.                                           *)
THEOREM TypeCorrect == Spec => []TypeOK
  BY InitType, TypeStep, PTL DEF Spec

LEMMA InitInv == Init => IInv
  <1> SUFFICES ASSUME Init PROVE IInv
    OBVIOUS
  <1>1. \A table \in OldTables : table.key = {"nonce"}
    BY DEF OldTables, OldTable
  <1>2. TablesInv
    BY <1>1 DEF Init, TablesInv
  <1>3. TriggersInv
    BY DEF Init, TriggersInv
  <1>4. RowsInv
    BY DEF Init, RowsInv
  <1>5. NothingDestroyed
    BY DEF Init, NothingDestroyed, Holds
  <1>6. QED
    BY <1>2, <1>3, <1>4, <1>5 DEF IInv

(* A step that leaves the rows and the history alone destroys nothing.      *)
LEMMA SameRows ==
    ASSUME NothingDestroyed, sealed' = sealed,
           events'.rows = events.rows, eventsOld'.rows = eventsOld.rows
    PROVE  NothingDestroyed'
  BY DEF NothingDestroyed, Holds

(* All rows are in one of the tables.                                       *)
LEMMA AllInOne ==
    ASSUME events.rows = sealed \/ eventsOld.rows = sealed
    PROVE  NothingDestroyed
  BY DEF NothingDestroyed, Holds

(* The steps that touch no table.                                           *)
LEMMA OtherStep ==
    ASSUME TypeOK, IInv, UNCHANGED <<events, eventsOld, sealed>>,
           \/ Inspect \/ StatementFails \/ ColumnsDone \/ Serve \/ Stop \/ Crash
           \/ \E t \in Triggers : DropTrigger(t) \/ CreateTrigger(t)
           \/ UNCHANGED vars
    PROVE  IInv'
  <1>1. NothingDestroyed'
    BY SameRows DEF IInv
  <1>2. CASE Inspect
    BY <1>1, <1>2 DEF Inspect, IInv, TablesInv, TriggersInv, RowsInv
  <1>3. CASE StatementFails \/ Crash
    BY <1>1, <1>3 DEF StatementFails, Crash, IInv, TablesInv, TriggersInv, RowsInv
  <1>4. CASE ColumnsDone \/ Serve \/ Stop
    BY <1>1, <1>4 DEF ColumnsDone, Serve, Stop, IInv, TablesInv, TriggersInv, RowsInv
  <1>5. ASSUME NEW t \in Triggers, DropTrigger(t)
        PROVE  IInv'
    <2>1. trigger' = [trigger EXCEPT ![t] = "none"] /\ pc = "unprotect" /\ pc' = pc
      BY <1>5 DEF DropTrigger
    <2>2. TablesInv' /\ RowsInv'
      BY <2>1 DEF IInv, TablesInv, RowsInv
    <2>3. TriggersInv'
      BY <2>1 DEF IInv, TriggersInv, TypeOK
    <2>4. QED
      BY <1>1, <2>2, <2>3 DEF IInv
  <1>6. ASSUME NEW t \in Triggers, CreateTrigger(t)
        PROVE  IInv'
    <2>1. TablesInv' /\ RowsInv'
      BY <1>6 DEF CreateTrigger, IInv, TablesInv, RowsInv
    <2>2. TriggersInv'
      BY <1>6 DEF CreateTrigger, IInv, TriggersInv, TypeOK
    <2>3. QED
      BY <1>1, <2>1, <2>2 DEF IInv
  <1>7. CASE UNCHANGED vars
    BY <1>1, <1>7 DEF vars, IInv, TablesInv, TriggersInv, RowsInv
  <1>8. QED
    BY <1>2, <1>3, <1>4, <1>5, <1>6, <1>7

LEMMA InvStep == TypeOK /\ IInv /\ [Next]_vars => IInv'
  <1> SUFFICES ASSUME TypeOK, IInv, [Next]_vars
               PROVE  IInv'
    OBVIOUS
  <1>1. CASE CreateTable
    <2>1. /\ events' = IF events = NoTable THEN NewTable ELSE events
          /\ pc = "down" /\ pc' = "inspect"
          /\ UNCHANGED <<eventsOld, trigger, sealed>>
      BY <1>1 DEF CreateTable
    <2>2. events'.rows = events.rows
      BY <2>1
    <2>3. TablesInv' /\ RowsInv' /\ TriggersInv'
      BY <2>1, <2>2 DEF IInv, TablesInv, TriggersInv, RowsInv
    <2>4. QED
      BY <2>1, <2>2, <2>3, SameRows DEF IInv
  <1>2. CASE RenameTable
    <2>1. /\ pc = "unprotect" /\ pc' = "recreate"
          /\ eventsOld' = events /\ events' = NoTable
          /\ trigger' = Renamed /\ sealed' = sealed
          /\ \A t \in Triggers : trigger[t] = "none"
      BY <1>2 DEF RenameTable
    <2>2. events.key = {"nonce"} /\ events.rows = sealed
      BY <2>1 DEF IInv, TablesInv, RowsInv
    <2>3. TablesInv' /\ RowsInv'
      BY <2>1, <2>2 DEF TablesInv, RowsInv
    <2>4. TriggersInv'
      BY <2>1 DEF TriggersInv, Renamed
    <2>5. NothingDestroyed'
      BY <2>1, <2>2 DEF NothingDestroyed, Holds
    <2>6. QED
      BY <2>3, <2>4, <2>5 DEF IInv
  <1>3. CASE RecreateTable
    <2>1. /\ pc = "recreate" /\ pc' = "copy" /\ events' = NewTable
          /\ UNCHANGED <<eventsOld, trigger, sealed>>
      BY <1>3 DEF RecreateTable
    <2>2. events = NoTable
      BY <2>1 DEF IInv, TablesInv
    <2>3. /\ events' # NoTable /\ events'.key = {"nonce", "action_status"}
          /\ events'.rows = events.rows
      BY <2>1, <2>2
    <2>4. TablesInv'
      BY <2>1, <2>3 DEF IInv, TablesInv
    <2>5. RowsInv' /\ TriggersInv'
      BY <2>1, <2>3 DEF IInv, TriggersInv, RowsInv
    <2>6. QED
      BY <2>1, <2>3, <2>4, <2>5, SameRows DEF IInv
  <1>4. CASE CopyRows
    <2>1. /\ pc = "copy" /\ events = NewTable /\ eventsOld.rows = sealed
          /\ UNCHANGED <<eventsOld, trigger, sealed>>
      BY <1>4 DEF CopyRows, IInv, TablesInv, RowsInv
    <2>2. \/ events' = [events EXCEPT !.rows = eventsOld.rows] /\ pc' = "dropOld"
          \/ events' = events /\ pc' = "columns"
      BY <1>4 DEF CopyRows
    <2>3. events'.key = NewTable.key
      BY <2>1, <2>2
    <2>4. TablesInv' /\ TriggersInv'
      BY <2>1, <2>2, <2>3 DEF IInv, TablesInv, TriggersInv
    <2>5. RowsInv'
      BY <2>1, <2>2 DEF IInv, RowsInv
    <2>6. NothingDestroyed'
      BY <2>1 DEF NothingDestroyed, Holds
    <2>7. QED
      BY <2>4, <2>5, <2>6 DEF IInv
  <1>5. CASE DropOld
    <2>1. /\ pc = "dropOld" /\ pc' = "columns" /\ eventsOld' = NoTable
          /\ events.rows = sealed
          /\ trigger' = [t \in Triggers |->
                IF trigger[t] = "events_old" THEN "none" ELSE trigger[t]]
          /\ UNCHANGED <<events, sealed>>
      BY <1>5 DEF DropOld, IInv, RowsInv
    <2>2. TablesInv' /\ RowsInv'
      BY <2>1 DEF IInv, TablesInv, RowsInv
    <2>3. TriggersInv'
      BY <2>1 DEF IInv, TriggersInv
    <2>4. NothingDestroyed'
      BY <2>1 DEF NothingDestroyed, Holds
    <2>5. QED
      BY <2>2, <2>3, <2>4 DEF IInv
  <1>6. CASE AddColumn
    <2>1. PICK c : events' = [events EXCEPT !.columns = @ \cup {c}]
      BY <1>6 DEF AddColumn
    <2>2. /\ pc = "columns" /\ pc' = pc /\ events # NoTable
          /\ UNCHANGED <<eventsOld, trigger, sealed>>
      BY <1>6 DEF AddColumn
    <2>3. events'.key = events.key /\ events'.rows = events.rows
      BY <2>1 DEF TypeOK
    <2>4. events'.key # {}
      BY <2>2, <2>3 DEF IInv, TablesInv
    <2>5. TablesInv' /\ RowsInv' /\ TriggersInv'
      BY <2>2, <2>3, <2>4 DEF IInv, TablesInv, TriggersInv, RowsInv
    <2>6. QED
      BY <2>2, <2>3, <2>5, SameRows DEF IInv
  <1>7. ASSUME NEW row \in Rows, Seal(row)
        PROVE  IInv'
    <2>1. /\ pc = "serving" /\ pc' = pc
          /\ events' = [events EXCEPT !.rows = Append(@, row)]
          /\ sealed' = Append(sealed, row)
          /\ UNCHANGED <<eventsOld, trigger>>
      BY <1>7 DEF Seal
    <2>2. events'.key = events.key /\ events'.rows = Append(events.rows, row)
      BY <2>1 DEF TypeOK
    <2>3. events # NoTable
      BY <2>1 DEF IInv, TriggersInv, Triggers
    <2>4. events'.key # {}
      BY <2>2, <2>3 DEF IInv, TablesInv
    <2>5. TablesInv' /\ TriggersInv'
      BY <2>1, <2>2, <2>3, <2>4 DEF IInv, TablesInv, TriggersInv
    <2>6. RowsInv'
      BY <2>1, <2>2 DEF IInv, RowsInv
    <2>7. ASSUME NEW i \in DOMAIN sealed'
          PROVE  Holds(events', sealed'[i]) \/ Holds(eventsOld', sealed'[i])
      <3>1. events.rows \in Seq(Rows) /\ sealed \in Seq(Rows)
        BY DEF TypeOK
      <3>2. Holds(events', row)
        BY <2>2, <3>1 DEF Holds
      <3>3. \A r : Holds(events, r) => Holds(events', r)
        BY <2>2, <3>1 DEF Holds
      <3>4. CASE i \in DOMAIN sealed
        <4>1. sealed'[i] = sealed[i]
          BY <2>1, <3>1, <3>4
        <4>2. Holds(events, sealed[i]) \/ Holds(eventsOld, sealed[i])
          BY <3>4 DEF IInv, NothingDestroyed
        <4>3. Holds(eventsOld', sealed[i]) <=> Holds(eventsOld, sealed[i])
          BY <2>1 DEF Holds
        <4>4. QED
          BY <3>3, <4>1, <4>2, <4>3
      <3>5. CASE i \notin DOMAIN sealed
        <4>1. sealed'[i] = row
          BY <2>1, <3>1, <3>5
        <4>2. QED
          BY <3>2, <4>1
      <3>6. QED
        BY <3>4, <3>5
    <2>8. NothingDestroyed'
      BY <2>7 DEF NothingDestroyed
    <2>9. QED
      BY <2>5, <2>6, <2>8 DEF IInv
  <1>8. CASE Inspect \/ StatementFails \/ ColumnsDone \/ Serve \/ Stop \/ Crash
    BY <1>8, OtherStep DEF Inspect, StatementFails, ColumnsDone, Serve, Stop, Crash
  <1>9. ASSUME NEW t \in Triggers, DropTrigger(t) \/ CreateTrigger(t)
        PROVE  IInv'
    BY <1>9, OtherStep DEF DropTrigger, CreateTrigger
  <1>10. CASE UNCHANGED vars
    BY <1>10, OtherStep DEF vars
  <1>11. QED
    BY <1>1, <1>2, <1>3, <1>4, <1>5, <1>6, <1>7, <1>8, <1>9, <1>10 DEF Next

LEMMA InvCorrect == Spec => [](TypeOK /\ IInv)
  BY InitType, TypeStep, InitInv, InvStep, PTL DEF Spec

(* A ledger that serves has both append-only triggers on its table.         *)
THEOREM ProtectedCorrect == Spec => []ProtectedWhenServing
  <1>1. TypeOK /\ IInv => ProtectedWhenServing
    BY DEF TypeOK, IInv, TriggersInv, ProtectedWhenServing
  <1>2. QED
    BY <1>1, InvCorrect, PTL

(* No row the ledger has answered for is destroyed.                         *)
THEOREM NothingDestroyedCorrect == Spec => []NothingDestroyed
  <1>1. TypeOK /\ IInv => NothingDestroyed
    BY DEF IInv
  <1>2. QED
    BY <1>1, InvCorrect, PTL

(* Without a table left behind the ledger serves exactly what it answered.  *)
THEOREM WholeCorrect == Spec => []WholeUnlessLeft
  <1>1. TypeOK /\ IInv => WholeUnlessLeft
    BY DEF IInv, RowsInv, WholeUnlessLeft
  <1>2. QED
    BY <1>1, InvCorrect, PTL
=============================================================================
