\* Three requests, two connections, two workers: two hung scrapes can hold both
\* workers, a message's second call waits behind them, and a third request has
\* to wait for a connection or is refused one.
SPECIFICATION MCSpec
CONSTANTS
    Calls <- MCCalls
    Connections = 2
    Workers = 2
    Companies <- MCCompanies
INVARIANTS
    PoolBoundsQueue
    FailuresAreSkipped
PROPERTY OnlyHungSitesBlock
CHECK_DEADLOCK FALSE
