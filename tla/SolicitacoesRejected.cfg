\* One request, one decision at a time, on a read model that lags.
SPECIFICATION Spec
CONSTANTS
    Requests = {r1}
    Deciders = {d1}
    MaxKinds = 0
INVARIANT RejectedLeavesData
CHECK_DEADLOCK FALSE
