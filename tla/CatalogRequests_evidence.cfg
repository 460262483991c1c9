\* A curator decides a request between two statements of its requester's deletion.
SPECIFICATION Spec
SYMMETRY Symmetry
CONSTANTS
    None = None
    Seed = Seed
    Members = {m1, m2}
    Requests = {q1}
    Names = {1}
CHECK_DEADLOCK FALSE
INVARIANTS SubmissionsStay
