\* Three events signed with two keys, bundles of up to two records, exported or not, one head
\* of the chain published at any time.
SPECIFICATION BundleSpec
CONSTANTS
    Rows <- MCRows
    Keys = {"k1", "k2"}
    LedgerTimes = {0}
    NoKey = NoKey
    NoEntry = NoEntry
    MaxEvents = 2
    MaxRecords = 2
    MaxAnchors = 1
INVARIANTS TypeOK BundleTypeOK AcceptedIsHistory FailedForCause ExportIsHistory
PROPERTIES Spec ExportIsLocal
