\* The device is revoked while its events are queued.
SPECIFICATION QueueFairSpec
CONSTANTS
    Times = {0}
    MonotonicClock = TRUE
    Nonces = {"n1"}
    Payloads = {"x"}
    Keys = {"k1"}
    LedgerTimes = {0}
    NoKey = NoKey
    w1 = w1
    w2 = w2
    Workers = {w1}
    ForeignRows <- NoForeignRow
    NoRow = NoRow
PROPERTY EveryEventIsReceipted
