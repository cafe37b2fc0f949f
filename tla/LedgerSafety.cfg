\* Two writers, one aggregate, two commands each, batches of up to two events.
SPECIFICATION Spec
CONSTANTS
    Writers = {w1, w2}
    Aggregates = {a1}
    MaxAttempts = 2
    MaxBatch = 2
    MaxCommands = 2
    Spurious = {w1, w2}
SYMMETRY Symmetry
INVARIANTS TypeOK LedgerVerifies ChainInvariant
PROPERTIES StreamsGrowInIdOrder ImplementsEventLog
CHECK_DEADLOCK FALSE
