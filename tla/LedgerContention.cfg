\* Three writers, one of which PostgreSQL may abort without a conflict; two
\* streams, so that the ids of one writer commit before smaller ids of another.
SPECIFICATION FairSpec
CONSTANTS
    Writers = {w1, w2, w3}
    Aggregates = {a1, a2}
    MaxAttempts = 3
    MaxBatch = 1
    MaxCommands = 1
    Spurious = {w3}
INVARIANT EveryConflictHasAWinner
PROPERTIES SaveReturns ImplementsIdFeed
CHECK_DEADLOCK FALSE
