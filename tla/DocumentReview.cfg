\* Two versions; resumes and letters at the boundaries of the tenth.
SPECIFICATION MCSpec
CONSTANTS
    Words <- MCWords
    Inside <- MCInside
    Contact <- MCContact
    Texts <- MCTexts
    Losses <- MCLosses
    Versions <- MCVersions
    NULL = NULL
INVARIANTS
    PassedIsFaithful
    IntactVerdict
CHECK_DEADLOCK FALSE
