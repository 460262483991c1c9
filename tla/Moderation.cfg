\* One recipe, reported by two members and fought over by two moderators and its author,
\* one of the moderators on a page.
SPECIFICATION PartsSpec
SYMMETRY Symmetry
CONSTANTS
    m1 = m1
    m2 = m2
    m3 = m3
    d1 = d1
    a1 = a1
    s1 = s1
    k1 = k1
    k2 = k2
    w1 = w1
    None = None
    Members = {m1, m2, m3}
    Authors = {m1}
    Moderators = {m2, m3}
    Reporters = {m2, m3}
    Drafts = {d1}
    Versions = {1}
    Actions = {a1}
    Keys = {k1, k2}
    Structures = {s1}
    Probable <- NothingSimilar
    MaxCandidates = 1
    MaxRevision = 2
    DraftKinds = {"original"}
    Intents <- PlainIntent
    Workspaces = {w1}
    Reviewer <- FirstReviewer
    MaxCalls = 2
CHECK_DEADLOCK FALSE
INVARIANTS AuditExplainsHiding CasesCountReporters CaseHistoryConnects SuccessesAreActions PagesDoNotFallBack
