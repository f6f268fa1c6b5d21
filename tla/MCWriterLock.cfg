SPECIFICATION FairSpec
CONSTANTS
    shell = shell
    service = service
    s1 = s1
    v1 = v1
    v2 = v2
    Procs <- MCProcs
    Writers <- MCWriters
    ProcOf <- MCProcOf
    Pids = {1, 2, 3}
    Interactive = {shell}
    MaxCrashes = 1
    NoLock = NoLock
INVARIANT ExclusiveUnlessMisjudged
INVARIANT StaleMeansAbandoned
PROPERTY LeavesOwnLock
PROPERTY AbandonedLockIsBroken
