\* Two sources of any schema over four parameters or over three others, two
\* filters, two-hour days.
SPECIFICATION Spec
CONSTANTS
    Sources = {s1, s2}
    ToolLists <- MCToolLists
    Filters <- MCFilters
    MaxDays = 1
    DayHours = 2
    MaxAge = 3
    NULL = NULL
SYMMETRY Symmetry
INVARIANTS
    NoFilterMissing
    AnsweredIsKept
    OnlyRecentShown
CHECK_DEADLOCK FALSE
