SPECIFICATION Spec
CONSTANTS
    NoProc = NoProc
    p1 = p1
    p2 = p2
    f1 = f1
    f2 = f2
    n1 = n1
    Procs <- MCProcs
    Rows = {f1, n1}
    Kind <- RowKind
    Key <- RowKey
    MaxAttempts = 2
    Batch = 2
    MaxClaims = 2
    MaxBoots = 3
CONSTRAINT OneRow
SYMMETRY Symmetry
INVARIANTS TypeOK AtMostOncePush NotReclaimable ResultsAreEarned
PROPERTIES NeverRerun RecoverySparesOwn TicketSpec
CHECK_DEADLOCK FALSE
