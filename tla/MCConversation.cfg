SPECIFICATION Spec
CONSTANTS
    Fields = {name}
    Required = {name}
    Schemas = {order, complaint}
    None = None
    Providers = 2
    MaxRetries = 1
    MaxTurns = 3
INVARIANTS
    NoValueOfAnotherObject
    CompleteIsJudged
    RefusedIsNotShown
PROPERTIES
    EarlierDataIsKept
    GivesUpLast
SYMMETRY SymmetrySchemas
CHECK_DEADLOCK FALSE
