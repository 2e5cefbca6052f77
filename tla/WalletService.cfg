SPECIFICATION Spec
CONSTANTS
    Procs = {p1, p2}
    Accounts = {1, 2}
    Keys = {k1, k2}
    Amounts = {1}
    Fees = {}
    Opening = 2
    DailyLimit = 2
    MaxRetries = 1
    MaxOps = 3
    NoProc = NoProc
    NoTx = NoTx
    NoOp = NoOp
SYMMETRY Handlers
INVARIANTS
    NoOverdraft
    ChecksStillHold
    OnePosting
PROPERTIES
    FrozenMovesOnlyIfStale
    ImplementsLedger
CHECK_DEADLOCK TRUE
