SPECIFICATION FairSpec
CONSTANTS
    None = None
    Accounts = {a1}
    Backups = {b1, b2}
    Files = {f1, f2}
    MaxTime = 2
    MaxRestores = 2
CHECK_DEADLOCK FALSE
INVARIANTS DeletionsSurviveRestores
PROPERTY RestoreCompletes
