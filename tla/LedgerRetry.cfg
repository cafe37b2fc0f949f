SPECIFICATION Spec
CONSTANTS
    Writers = {w1, w2}
    Aggregates = {a1}
    MaxAttempts = 2
    MaxBatch = 1
    MaxCommands = 2
    Spurious = {}
INVARIANT RetriesRebuildTheAggregate
CHECK_DEADLOCK FALSE
