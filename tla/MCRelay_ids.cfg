\* One process, two calls, one with an id that is no integer, open lines and server requests.
SPECIFICATION FairSpec
CONSTANTS
    Times = {0}
    MonotonicClock = TRUE
    p1 = p1
    p2 = p2
    b1 = b1
    b2 = b2
    Procs = {p1}
    CallIds = {"c1", "c2"}
    Fractional = {"c2"}
    Bodies = {b1}
    OpenIds = {"o1"}
    ServerIds = {"s1"}
    PipeCap = 1
    ClientStates = {"reads", "stalled", "gone"}
    DeviceKey = "k1"
    None = None
INVARIANTS OutcomeIsSealed CompletedWasForwarded
PROPERTIES LineIsHandled CallIsConcluded
