\* A lease of three seconds, requests of two, a ledger whose clock is up to two seconds ahead.
SPECIFICATION Spec
CONSTANTS
    Procs = {"p1"}
    TTL = 3
    Timeout = 2
    Skews = {0, 2}
    MaxTime = 9
INVARIANT ShutDownInTTL
