\* The server numbers its own requests as the client does.
SPECIFICATION Spec
CONSTANTS
    Times = {0}
    MonotonicClock = TRUE
    p1 = p1
    p2 = p2
    b1 = b1
    b2 = b2
    Procs = {p1}
    CallIds = {"c1"}
    Fractional = {}
    Bodies = {b1}
    OpenIds = {}
    ServerIds = {"c1"}
    PipeCap = 1
    ClientStates = {"reads"}
    DeviceKey = "k1"
    None = None
INVARIANT CompletedWasForwarded
