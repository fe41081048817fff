\* Two jobs, of one company or of two; two mark-applied requests at once;
\* a cooldown of two days of two ticks, time for it to end and for a last
\* day to be counted out.
SPECIFICATION Spec
CONSTANTS
    j1 = j1
    Jobs = {j1, j2}
    a = a
    b = b
    Companies = {a, b}
    Marks = {m1, m2}
    Files <- MCFiles
    Postings <- MCPostings
    Day = 2
    CooldownDays = 2
    MaxTime = 5
    NULL = NULL
SYMMETRY Symmetry
INVARIANTS
    PassedOutsideCooldown
    DaysLeftAreLeft
    DaysLeftAreEnough
