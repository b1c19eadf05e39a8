\* An older database, no fault.
SPECIFICATION Spec
CONSTANTS
    n1 = n1
    n2 = n2
    Nonces <- MCNonces
    Statuses = {"UNKNOWN", "COMPLETED"}
    MaxFaults = 0
INVARIANT MigrationKeepsRows
