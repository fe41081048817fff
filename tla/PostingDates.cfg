\* Two jobs of any kinds, one chat session: a day of two ticks, zones half a
\* day off, and time for a job to leave the list of the last day or two.
SPECIFICATION DatesSpec
CONSTANTS
    Jobs = {j1, j2}
    Chats = {c}
    Postings <- AllPostings
    Offsets <- Zones
    LocalOffset = 1
    DbOffset = 1
    MaxOffset = 1
    Day = 2
    MaxTime = 6
    NULL = NULL
SYMMETRY Symmetry
INVARIANTS
    ListedByAge
    UtcListedExactly
    AgedNeverOlder
