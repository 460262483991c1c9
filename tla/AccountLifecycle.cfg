SPECIFICATION Spec
SYMMETRY Symmetry
CONSTANTS
    None = None
    Accounts = {1, 2}
    Identities = {i1, i2}
    Sessions = {s1, s2}
    Logins = {l1, l2}
    Workers = {w1, w2, w3}
    Touching = {"profile"}
CHECK_DEADLOCK FALSE
INVARIANTS OneSessionPerCallback NoWaitCycle
PROPERTIES SignInsEndForGood ImplementsPersonalData
