\* Three requests on one posting: saves, analyses, rejects, restores.
SPECIFICATION FairSpec
CONSTANTS
    Jobs = {j1}
    Tasks = {t1, t2, t3}
INVARIANTS
    StatusBacked
    DiscoveredExplained
    OneAutoAnalysis
    ShownDecidedTogether
PROPERTIES
    NoScoreAfterVerdict
    SavedJobIsDecided
CHECK_DEADLOCK FALSE
