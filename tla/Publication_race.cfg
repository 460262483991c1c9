\* Two authors, one of them a moderator, and every kind of draft and intent.
SPECIFICATION Spec
SYMMETRY Symmetry
CONSTANTS
    m1 = m1
    m2 = m2
    d1 = d1
    d2 = d2
    d3 = d3
    a1 = a1
    a2 = a2
    a3 = a3
    s1 = s1
    s2 = s2
    None = None
    Members = {m1, m2}
    Authors = {m1, m2}
    Moderators = {m2}
    Drafts = {d1, d2}
    Versions = {1, 2}
    Actions = {a1, a2}
    Structures = {s1, s2}
    Probable <- SimilarPair
    MaxCandidates = 1
    MaxRevision = 2
    DraftKinds = {"original", "adaptation", "revision"}
    Intents <- AllIntents
CHECK_DEADLOCK FALSE
INVARIANTS ChecksStillHold PublishedOnce SnapshotIsReviewedDraft LineageNumbering PublicMeansNeitherAxis ForkEventsMatchAdaptations
PROPERTIES CorrectionHandsOver RefinesHistory
