SPECIFICATION Spec
CONSTANTS
    guest = guest
    member = member
    staff = staff
    manual = manual
    note = note
    Requests = {r1, r2}
    Questions = {q}
    Blank = blank
    Injections = {}
    InputGuard = TRUE
    Callers = {guest}
    Roles = {staff}
    RolesOf <- MCRolesOfGuest
    Chunks = {manual}
    Corpus = {manual}
    Tags <- MCTagsManual
    TopK = 1
    Scores = {1, 2}
    Thresholds = {1, 2}
    CiteSets <- MCCiteSets
    Guards = {TRUE, FALSE}
    HotReload = {"guard", "cache", "threshold", "prompt"}
    MaxRevision = 1
    MaxReloads = 2
    Nothing = Nothing
INVARIANT CacheEntriesMatchKeys
INVARIANT NoAnswerFromNothing
INVARIANT ScreenedUnlessGuardRemoved
INVARIANT AuditedOnce
INVARIANT InternalErrorsNeedAReload
SYMMETRY RequestSymmetry
CHECK_DEADLOCK FALSE
