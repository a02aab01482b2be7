SPECIFICATION FairSpec
CONSTANTS
    Route = {a, b}
    Other = {}
    Pinned = {a}
    RetryWait = 1
    MaxLeft = 2
CHECK_DEADLOCK FALSE
INVARIANTS HonestStatus BoundedWait BoundedAttempts ReportedOnce LatchFollowsAnswer
PROPERTY Terminates
