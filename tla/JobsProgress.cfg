\* Two jobs for one worker and a queue of one, a type with a handler and one without,
\* a restart or a failed write.
SPECIFICATION FairSpec
CONSTANTS
    JobIds = {1, 2}
    Workers = {u1}
    Items = 2
    Unregistered = {1}
    FlushBatch = 2
    QueueCap = 1
    SweepLimit = 1
    MaxJobs = 2
    MaxRuns = 1
    MaxFailures = 1
INVARIANT FinishedJobsAreComplete
PROPERTIES ProgressIsKept EveryJobEnds
CHECK_DEADLOCK FALSE
