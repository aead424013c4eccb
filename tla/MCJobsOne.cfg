SPECIFICATION FairSpec
CONSTANTS
    NoProc = NoProc
    p1 = p1
    p2 = p2
    f1 = f1
    f2 = f2
    n1 = n1
    Procs <- OneProc
    Rows = {f1, f2}
    Kind <- RowKind
    Key <- RowKey
    MaxAttempts = 2
    Batch = 2
    MaxClaims = 2
    MaxBoots = 3
INVARIANTS
    OneOpenPerKey
PROPERTIES
    SendingResolved
CHECK_DEADLOCK FALSE
