SPECIFICATION Spec
CONSTANTS
    guest = guest
    member = member
    staff = staff
    manual = manual
    note = note
    Requests = {r1, r2}
    Questions = {q, attack}
    Blank = blank
    Injections = {attack}
    InputGuard = TRUE
    Callers <- MCCallers
    Roles = {staff}
    RolesOf <- MCRolesOf
    Chunks <- MCChunks
    Corpus = {manual}
    Tags <- MCTags
    TopK = 2
    Scores = {1, 2}
    Thresholds = {2}
    CiteSets <- MCCiteSets
    Guards = {FALSE}
    HotReload = {"llm"}
    MaxRevision = 2
    MaxReloads = 2
    Nothing = Nothing
INVARIANT AnswerMatchesSources
INVARIANT AnswerIsEntitled
INVARIANT AuditNamesTheSources
SYMMETRY RequestSymmetry
CHECK_DEADLOCK FALSE
