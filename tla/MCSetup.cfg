CONSTANTS
    p1 = p1
    p2 = p2
    Processes = {p1, p2}
    Services = {"openai", "openrouter"}
    Rank <- MCRank
    Models = {"llama"}
    None = None
    Machines <- MCMachines
    Configurations <- MCConfigurations
    MaxStarts = 2
    MaxChanges = 1
    MaxCrashes = 1
SPECIFICATION Spec
INVARIANTS
    DecisionsSurvive
    NoDownloadUnasked
    BuiltAsResolved
PROPERTIES
    ContinuesWithLastUsed
SYMMETRY SymmetryProcesses
CHECK_DEADLOCK FALSE
