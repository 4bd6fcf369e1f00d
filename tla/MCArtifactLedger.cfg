SPECIFICATION Spec
CONSTANTS
    b1 = b1
    b2 = b2
    p1 = p1
    p2 = p2
    Procs = {p1, p2}
    Bundles = {b1, b2}
    Starts <- MCStarts
    None = None
    Torn = Torn
    MaxSize = 5
    MaxCommands = 3
    MaxFaults = 2
INVARIANTS TypeOK PublishedStaysCovered QuietLedgerIsHealthy VerdictHolds InclusionProofsHold ConsistencyProofsHold
PROPERTY ImplementsLog
SYMMETRY MCSymmetry
CHECK_DEADLOCK FALSE
