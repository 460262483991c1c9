SPECIFICATION Spec
SYMMETRY Symmetry
CONSTANTS
    None = None
    Accounts = {a1}
    Backups = {b1, b2}
    Files = {f1, f2}
    MaxTime = 2
    MaxRestores = 1
CHECK_DEADLOCK FALSE
INVARIANT LedgersAreComplete
