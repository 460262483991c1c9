\* One author with three drafts and three versions against a shortlist of one, and a moderator.
SPECIFICATION Spec
SYMMETRY Symmetry
CONSTANTS
    m1 = m1
    m2 = m2
    d1 = d1
    d2 = d2
    d3 = d3
    a1 = a1
    a2 = a2
    a3 = a3
    s1 = s1
    s2 = s2
    None = None
    Members = {m1, m2}
    Authors = {m1}
    Moderators = {m2}
    Drafts = {d1, d2, d3}
    Versions = {1, 2, 3}
    Actions = {a1, a2, a3}
    Structures = {s1}
    Probable <- NothingSimilar
    MaxCandidates = 1
    MaxRevision = 2
    DraftKinds = {"original", "revision"}
    Intents <- PlainIntent
CHECK_DEADLOCK FALSE
INVARIANTS EditionChain
PROPERTIES PublishedOnCurrentEvidence
