\* The rebuild of one read model beside the manager and the writers, every failure and a restart; ids commit in any order.
SPECIFICATION Spec
CONSTANTS
    Plain = {plain}
    Transactional = {}
    BatchSize = 2
    MaxEvents = 2
    MaxCrashes = 1
    MaxRebuilds = 1
    OutOfOrder = TRUE
PROPERTY CompleteRebuildHasAll
CHECK_DEADLOCK TRUE
