SPECIFICATION FairSpec
CONSTANTS
    Threads = {t1, t2}
    FailureThreshold = 2
    SuccessThreshold = 2
    ResetTimeout = 2
    MaxAttempts = 2
    NoTime = NoTime
PROPERTY TripsOnlyAfterARun
PROPERTY ClosesOnlyAfterARun
PROPERTY FastFailsUntilCooledDown
PROPERTY Recovers
