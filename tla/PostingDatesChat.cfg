\* A chat message that found a posting with its zone.
SPECIFICATION DatesSpec
CONSTANTS
    Jobs = {j1, j2}
    Chats = {c}
    Postings <- AllPostings
    Offsets <- Zones
    LocalOffset = 1
    DbOffset = 1
    MaxOffset = 1
    Day = 2
    MaxTime = 6
    NULL = NULL
SYMMETRY Symmetry
INVARIANTS
    StagingNeedsNoNormalizing
