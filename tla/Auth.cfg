\* Three requests, restarts, up to three users rows.
SPECIFICATION MCSpec
CONSTANTS
    Ids = {i1, i2, i3}
    Emails = {admin, e1, e2}
    Slugs = {default, s1}
    Requests = {r1, r2, r3}
    DefaultEmail = admin
    DefaultSlug = default
    NULL = NULL
    Clients = {home}
    Keys <- MCKeys
    MaxAttempts = 2
    Window = 1
    MaxTime = 2
SYMMETRY Symmetry
INVARIANTS
    OneDefaultAdmin
    UsersInDefaultTenant
    LosersHaveRivals
    DeletedStaysDeleted
    TokenNamesItsUser
    AttemptsAreSpaced
CHECK_DEADLOCK FALSE
