\* Four requests on two applications.
SPECIFICATION Spec
CONSTANTS
    Apps = {a1, a2}
    Requests = {r1, r2, r3, r4}
    NULL = NULL
SYMMETRY Symmetry
INVARIANTS
    AppliedAtAgrees
    AppliedIsRecorded
    ConflictHasWinner
    OnlyDecisionsUnmark
CHECK_DEADLOCK FALSE
