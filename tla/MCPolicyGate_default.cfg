\* Two tools, policies of up to two rules, modes the relay does not know among theirs.
SPECIFICATION Spec
CONSTANTS
    t1 = t1
    t2 = t2
    Tools <- MCTools
    Modes = {"require_ledger", "bypass", "bypass_if", "block"}
    Limits = {0, 2}
    Amounts = {1, 2}
    Absent = Absent
    MaxRules = 2
INVARIANT UnrecordedIsOptedOut
