CONSTANTS
    q1 = q1
    q2 = q2
    reader = reader
    writer = writer
    read = read
    any = any
    key = key
    token = token
    noRule = noRule
    Requests = {q1, q2}
    Roles = {reader, writer}
    Permissions = {read}
    Wildcard = any
    Keys = {key}
    Claims <- MCClaims
    Tokens = {token}
    Expiry <- MCExpiry
    Policies <- MCPolicies
    NoRule = noRule
    MaxChanges = 4
    MaxTime = 1
SPECIFICATION Spec
INVARIANTS
    AnswersForAConfiguredPolicy
    ZonesAreEarned
SYMMETRY SymmetryRequests
CHECK_DEADLOCK FALSE
