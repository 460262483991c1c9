SPECIFICATION PartsSpec
SYMMETRY Symmetry
CONSTANTS
    None = None
    Pages = {p1, p2}
    Ratings = {1, 2}
    MaxClicks = 4
    n1 = n1
    a1 = a1
    i1 = i1
    Workers = {w1, w2, w3}
    Networks = {n1}
    Accounts = {a1}
    Identities = {i1}
    Untouched = Untouched
    Limit <- TwoPerNetwork
    Width = 1
    Batch = 1
    MaxTime = 2
    MaxAttempts = 3
    Tabs = {t1}
    Visits = {v1, v2}
    Blank = Blank
    Sources = {s1}
    Nil = Nil
    MaxCalls = 3
    Processes = {q1, q2}
    Generations = {1, 2}
    Lifetime = 2
    Ttl = 1
    EndOfTime = 4
CHECK_DEADLOCK FALSE
INVARIANTS SavesSettle LimitsHold AnsweredAttemptsCount NoDraftIsLost OneGeneration OnlyWatchedAreReady
