------------------------------- MODULE Bundle -------------------------------
(***************************************************************************)
(* The way of the ledger's records to the page of module Verifier: the     *)
(* transaction of POST /seal, whose connection GET /logs shares from       *)
(* another thread, and create_bundle.py, which compares what /logs returns *)
(* with the device's own records and writes the file an auditor verifies.  *)
(* An auditor may also be given any other text.                            *)
(*                                                                         *)
(* The table local_events of the device's records is external: the daemon  *)
(* does not create it.                                                     *)
(***************************************************************************)
EXTENDS Verifier

CONSTANT NoEntry

(* The page has room for all that is exported. *)
ASSUME BundleAssumption == NoEntry \notin Entry /\ MaxEvents <= MaxRecords

VARIABLES
    source,    \* where the auditor's bundles are from: "export" or "text"
    open,      \* the entry inserted and not committed yet, or NoEntry
    local,     \* table local_events
    exporter,  \* where create_bundle is
    devices,   \* its registry of devices: the key it has for this one
    known,     \* local_records, the rows it has read
    fetched,   \* the answer of GET /logs
    records,   \* bundle["records"]
    file,      \* the bundle on disk
    seenOpen,  \* the transaction the answer was read in, or NoEntry (history)
    fileOpen   \* that of the bundle on disk (history)

readVars == <<devices, known, fetched, records, seenOpen>>
exportVars == <<source, local, exporter, readVars, file, fileOpen>>
pageVars == <<anchors, inputs, checked, prevHash, verdict>>
bundleVars == <<vars, open, exportVars>>

(* A row of the device's own records; followed only when they are read.     *)
Log(row) ==
    /\ source = "export"
    /\ \A other \in local : ~SameKey(other, row)
    /\ local' = local \cup {row}
    /\ UNCHANGED <<vars, open, source, exporter, readVars, file, fileOpen>>

-----------------------------------------------------------------------------
(* The ledger *)

(* Variant of InsertEvent: the signature of the device is not verified. *)
InsertUnverified(row) ==
    /\ open = NoEntry /\ ~IsStored(row) /\ Len(events) < MaxEvents
    /\ \E t \in LedgerTimes : open' = NewEntry(row, t)
    /\ UNCHANGED <<vars, exportVars>>

(* Between BEGIN EXCLUSIVE and commit. *)
InsertEvent(row) ==
    /\ open = NoEntry /\ Accepts(row) /\ ~IsStored(row) /\ Len(events) < MaxEvents
    /\ \E t \in LedgerTimes : open' = NewEntry(row, t)
    /\ UNCHANGED <<vars, exportVars>>

Commit ==
    /\ open # NoEntry
    /\ events' = Append(events, open)
    /\ open' = NoEntry
    /\ UNCHANGED <<registry, pageVars, exportVars>>

(* An error of the commit, or a crash. *)
Rollback ==
    /\ open # NoEntry
    /\ open' = NoEntry
    /\ UNCHANGED <<vars, exportVars>>

Restart ==
    /\ Reconfigure
    /\ open' = NoEntry
    /\ UNCHANGED exportVars

-----------------------------------------------------------------------------
(* create_bundle *)

(* The registry is read first; a query that fails leaves no local record.   *)
ReadLocal ==
    /\ source = "export" /\ exporter = "idle"
    /\ devices' = registry
    /\ known' \in {local, {}}
    /\ exporter' = "fetching"
    /\ UNCHANGED <<vars, open, source, local, fetched, records, seenOpen, file, fileOpen>>

(* Variants of TableRows: the rows come in no particular order, or the row  *)
(* of the transaction comes without the hash before it.                     *)
AnyOrder == LET n == Len(Logs) IN [i \in 1..n |-> Logs[n + 1 - i]]

UnlinkedRow == IF open = NoEntry THEN Logs ELSE Append(Logs, open)

(* The SELECT of GET /logs runs on the connection of POST /seal and sees    *)
(* its transaction.                                                         *)
TableRows == IF open = NoEntry THEN Logs ELSE Append(Logs, RecordOf(open, LastHash))

(* An error that is answered in JSON reads as an empty ledger. *)
FetchLogs ==
    /\ exporter = "fetching"
    /\ \/ fetched' = TableRows /\ seenOpen' = open
       \/ fetched' = <<>> /\ seenOpen' = NoEntry
    /\ exporter' = "comparing"
    /\ UNCHANGED <<vars, open, source, local, devices, known, records, file, fileOpen>>

(* The local record of the same key has the same payload, its device is     *)
(* registered and has signed it, and the ledger has countersigned it.       *)
Matches(row, r) ==
    /\ SameKey(row, r.row)
    /\ row.key = devices
    /\ r.receipt = [row |-> row, lts |-> r.lts, chain |-> r.chain]

EndExport ==
    /\ exporter' = "idle"
    /\ devices' = NoKey /\ known' = {}
    /\ fetched' = <<>> /\ records' = <<>> /\ seenOpen' = NoEntry

(* The ledger does not answer, or the tool is stopped. *)
FailExport ==
    /\ exporter # "idle"
    /\ EndExport
    /\ UNCHANGED <<vars, open, source, local, file, fileOpen>>

(* A record that no local one matches ends in a report. *)
CompareRecord ==
    /\ exporter = "comparing" /\ Len(records) < Len(fetched)
    /\ LET r == fetched[Len(records) + 1] IN
          \/ \E row \in known :
                /\ Matches(row, r)
                /\ records' = Append(records, [r EXCEPT !.row = row, !.signature = row])
                /\ UNCHANGED <<exporter, devices, known, fetched, seenOpen>>
          \/ (\A row \in known : ~Matches(row, r)) /\ EndExport
    /\ UNCHANGED <<vars, open, source, local, file, fileOpen>>

IsFetched(row) == \E i \in DOMAIN fetched : SameKey(row, fetched[i].row)

(* Variant of WriteBundle: only the ledger's records are looked up. *)
WriteFetched ==
    /\ exporter = "comparing" /\ Len(records) = Len(fetched)
    /\ file' = records /\ fileOpen' = seenOpen
    /\ EndExport
    /\ UNCHANGED <<vars, open, source, local>>

(* A local record the ledger has not returned ends in a report instead. *)
WriteBundle ==
    /\ exporter = "comparing" /\ Len(records) = Len(fetched)
    /\ IF \A row \in known : IsFetched(row)
       THEN file' = records /\ fileOpen' = seenOpen
       ELSE UNCHANGED <<file, fileOpen>>
    /\ EndExport
    /\ UNCHANGED <<vars, open, source, local>>

-----------------------------------------------------------------------------
(* The auditor *)

SubmitFile ==
    /\ source = "export" /\ verdict = "none"
    /\ bundle' = file
    /\ expected' \in anchors
    /\ trusted' = registry
    /\ verdict' = "checking"
    /\ UNCHANGED <<ledgerVars, checked, prevHash, open, exportVars>>

SubmitText == source = "text" /\ Submit /\ UNCHANGED <<open, exportVars>>

Page ==
    /\ Anchor \/ CheckRecord \/ Conclude \/ Clear
    /\ UNCHANGED <<open, exportVars>>

BundleInit ==
    /\ Init
    /\ source \in {"export", "text"}
    /\ open = NoEntry
    /\ local = {}
    /\ exporter = "idle"
    /\ devices = NoKey /\ known = {}
    /\ fetched = <<>> /\ records = <<>> /\ seenOpen = NoEntry
    /\ file = <<>> /\ fileOpen = NoEntry

BundleNext ==
    \/ \E row \in Rows : Log(row) \/ InsertEvent(row)
    \/ Commit \/ Rollback \/ Restart
    \/ ReadLocal \/ FetchLogs \/ CompareRecord \/ WriteBundle \/ FailExport
    \/ SubmitFile \/ SubmitText \/ Page

BundleSpec == BundleInit /\ [][BundleNext]_bundleVars

-----------------------------------------------------------------------------
(* Properties *)

BundleTypeOK ==
    /\ source \in {"export", "text"}
    /\ {open, seenOpen, fileOpen} \subseteq Entry \cup {NoEntry}
    /\ devices \in Keys \cup {NoKey}
    /\ known \subseteq local /\ local \subseteq Rows
    /\ exporter \in {"idle", "fetching", "comparing"}
    /\ {fetched, records, file} \subseteq Seq(BundleRecord)

(* The head of the first n records of s. *)
HeadOf(s, n) == IF n = 0 THEN Genesis ELSE s[n].chain

(* What is exported is the ledger's history, record by record, whatever is  *)
(* sealed, rolled back or restarted meanwhile.  If /logs was read in a      *)
(* transaction the last record is that transaction's, chained to the        *)
(* history before it; a rollback then leaves a bundle that has it and a     *)
(* ledger that does not, although the tool says that "Local and remote      *)
(* match exactly".                                                          *)
ExportIsHistory ==
    LET n == IF fileOpen = NoEntry THEN Len(file) ELSE Len(file) - 1
    IN  /\ n \in 0..Len(events)
        /\ SubSeq(file, 1, n) = SubSeq(Logs, 1, n)
        /\ fileOpen # NoEntry => file[n + 1] = RecordOf(fileOpen, HeadOf(file, n))

(* A bundle is only written when its records are the local ones, all of     *)
(* them, whatever has been logged and sealed since they were read.          *)
ExportIsLocal ==
    [][file' # file => {file'[i].row : i \in DOMAIN file'} = known]_bundleVars
=============================================================================
