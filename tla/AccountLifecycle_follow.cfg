\* The sessions of following members are due for a touch too.
SPECIFICATION Spec
SYMMETRY Symmetry
CONSTANTS
    None = None
    Accounts = {1, 2}
    Identities = {i1, i2}
    Sessions = {s1, s2}
    Logins = {l1, l2}
    Workers = {w1, w2}
    Touching = {"follow"}
CHECK_DEADLOCK FALSE
INVARIANT NoWaitCycle
