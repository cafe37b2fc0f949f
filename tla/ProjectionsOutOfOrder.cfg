\* A later id may commit first.
SPECIFICATION Spec
CONSTANTS
    Plain = {plain}
    Transactional = {counter}
    BatchSize = 2
    MaxEvents = 2
    MaxCrashes = 0
    MaxRebuilds = 0
    OutOfOrder = TRUE
INVARIANT NoEventSkipped
CHECK_DEADLOCK TRUE
