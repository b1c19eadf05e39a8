\* Two workers, one call, a foreign device, late requests.
SPECIFICATION QueueSpec
CONSTANTS
    Times = {0, 1}
    MonotonicClock = TRUE
    Nonces = {"n1"}
    Payloads = {"x"}
    Keys = {"k1", "k2"}
    LedgerTimes = {0, 1}
    NoKey = NoKey
    w1 = w1
    w2 = w2
    Workers = {w1, w2}
    ForeignRows <- OneForeignRow
    NoRow = NoRow
SYMMETRY WorkerSymmetry
INVARIANTS QueueTypeOK ReceiptIsOnLedger SealedOnce ChainCommits RequestedIsSealedFirst OneOutcome
PROPERTY TrailSpec
