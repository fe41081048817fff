\* As DocumentReview.cfg: a failed claim check blocks the application.
SPECIFICATION MCSpec
CONSTANTS
    Words <- MCWords
    Inside <- MCInside
    Contact <- MCContact
    Texts <- MCTexts
    Losses <- MCLosses
    Versions <- MCVersions
    NULL = NULL
INVARIANT UnverifiedBlocks
CHECK_DEADLOCK FALSE
