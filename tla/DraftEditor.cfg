SPECIFICATION Spec
SYMMETRY Symmetry
CONSTANTS
    None = None
    Tabs = {t1, t2}
    Texts = {x, y}
    MaxRequests = 3
CHECK_DEADLOCK FALSE
INVARIANTS CleanTabsAreSaved
PROPERTIES NoSilentOverwrite PublishedAsConfirmed
