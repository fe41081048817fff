\* Three messages in two sessions, two sources.
SPECIFICATION Spec
CONSTANTS
    Messages = {m1, m2, m3}
    Sessions = {c1, c2}
    Sources = {explore, scrape}
SYMMETRY Symmetry
INVARIANTS
    OnlyRacesMix
    StagedWhatWasFound
    LostToOwnSession
CHECK_DEADLOCK FALSE
