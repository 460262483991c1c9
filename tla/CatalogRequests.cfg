\* Two members who both submit, review and delete; two requests; two names.
SPECIFICATION Spec
SYMMETRY Symmetry
CONSTANTS
    None = None
    Seed = Seed
    Members = {m1, m2}
    Requests = {q1, q2}
    Names = {1, 2}
CHECK_DEADLOCK FALSE
INVARIANTS NamesAwaitOneReview DecisionsAreEvidenced DeletionLeavesNoContext NoWaitCycle
PROPERTIES DecisionsStay
