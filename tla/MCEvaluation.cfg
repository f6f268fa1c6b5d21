SPECIFICATION Spec
CONSTANTS
    a = a
    b = b
    d1 = d1
    d2 = d2
    Runners = {a, b}
    RunIds = {a, b}
    RunId <- MCOwn
    Judges = {a, b}
    NoJudge = NoJudge
    RunnerJudge <- MCOwn
    Docs = {d1, d2}
    Expected <- MCExpected
    K = 1
    Gain <- MCGain
    Samples <- MCSamples
    NoLabels = NoLabels
    Raising <- MCRaising
    NoRow = NoRow
    MaxRuns = 2
    MaxCrashes = 1
INVARIANTS
    MeanIsAcrossTheDataset
    JudgesAreOnlyFilledIn
    StoresAgreeOnLatest
PROPERTY KeepsAnArchive
SYMMETRY SymmetryRunners
CHECK_DEADLOCK FALSE
