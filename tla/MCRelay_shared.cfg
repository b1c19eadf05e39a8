\* Two processes on one queue database, two calls with one id that they both receive.
SPECIFICATION Spec
CONSTANTS
    Times = {0}
    MonotonicClock = TRUE
    p1 = p1
    p2 = p2
    b1 = b1
    b2 = b2
    Procs = {p1, p2}
    CallIds = {"c1"}
    Fractional = {}
    Bodies = {b1, b2}
    OpenIds = {}
    ServerIds = {}
    PipeCap = 1
    ClientStates = {"reads"}
    DeviceKey = "k1"
    None = None
SYMMETRY RelaySymmetry
INVARIANTS TypeOK AtMostOnce ForwardedIsRecorded OutcomeIsSealed
PROPERTY ContractSpec
