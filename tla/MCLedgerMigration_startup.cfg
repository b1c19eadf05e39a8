\* Databases of every version, two faults.
SPECIFICATION Spec
CONSTANTS
    n1 = n1
    n2 = n2
    Nonces <- MCNonces
    Statuses = {"UNKNOWN", "COMPLETED"}
    MaxFaults = 2
INVARIANTS TypeOK ProtectedWhenServing NothingDestroyed WholeUnlessLeft
