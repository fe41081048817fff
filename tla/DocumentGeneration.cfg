\* Three requests for documents of one job, of which at least two of one type.
SPECIFICATION MCSpec
CONSTANTS
    Jobs = {j1}
    DocTypes = {"resume", "cover_letter"}
    Requests = {r1, r2, r3}
    MaxAttempts = 2
    Flags = {"null", "pass"}
INVARIANTS
    OneApplicationPerJob
    VersionsContiguous
    CollisionsNeedRivals
    OnlyLosersClobber
    OkMeansReviewed
PROPERTIES
    ImplementsVersionLog
    EveryRequestEnds
CHECK_DEADLOCK FALSE
