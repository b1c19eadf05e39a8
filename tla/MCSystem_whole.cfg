\* One process that comes and goes, one call, both of its sync tasks.
SPECIFICATION SystemFairSpec
CONSTANTS
    Times = {0}
    MonotonicClock = TRUE
    p1 = p1
    b1 = b1
    Procs = {p1}
    CallIds = {"c1"}
    Fractional = {}
    Bodies = {b1}
    OpenIds = {}
    ServerIds = {}
    PipeCap = 1
    ClientStates = {"reads", "stalled"}
    DeviceKey = "k1"
    None = None
    Nonces <- Call
    Payloads <- AnswersAndCalls
    Keys <- OneKey
    LedgerTimes = {0}
    NoKey = NoKey
    Workers <- BothWorkers
    ForeignRows <- NoForeignRow
    NoRow = NoRow
INVARIANT EntryIsTrue
PROPERTIES PromiseSpec QueueSpec EventuallyReceipted
