SPECIFICATION Spec
CONSTANTS
    v0 = v0
    v1 = v1
    v2 = v2
    v3 = v3
    none = none
    user = user
    typo = typo
    p1 = p1
    p2 = p2
    Vectors <- MCVectors
    fields <- MCFields
    previous <- MCPrevious
    Overclaiming = {}
    Passphrases = {user, typo}
    Submissions <- MCSubmissions
    Commands = {p1}
    MaxCommands = 5
    MaxCrashes = 0
INVARIANT AppendLeavesValidLedger
CHECK_DEADLOCK FALSE
