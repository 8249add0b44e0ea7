SPECIFICATION FairSpec
CONSTANTS
    Reqs = {r1, r2}
    Hft = {r1}
    Orders = {}
    MaxAttempts = 2
    LoginAttempts = 2
    MaxReconnects = 2
    Backoff = 1
    RetryAfter = {1, 2}
    LatencyLimit = 1
    Interval = 1
    QueueMax = 2
    Answers = {"429", "401", "error"}
    CanFail = TRUE
    CanStop = TRUE
INVARIANT RetriesAreBounded
PROPERTY RequestsAreTimely
