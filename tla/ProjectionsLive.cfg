\* The manager and the writers, every failure and a restart; ids commit in order.
SPECIFICATION FairSpec
CONSTANTS
    Plain = {plain}
    Transactional = {counter}
    BatchSize = 2
    MaxEvents = 2
    MaxCrashes = 1
    MaxRebuilds = 0
    OutOfOrder = FALSE
INVARIANTS TypeOK NoEventSkipped CountedOnce LongSleepMeansDrained
PROPERTY EventuallyProjected
CHECK_DEADLOCK TRUE
