SPECIFICATION FairSpec
CONSTANTS
    Procs = {p1, p2}
    Accounts = {1, 2}
    Keys = {k1, k2}
    Amounts = {1}
    Fees = {1}
    Opening = 3
    DailyLimit = 1
    MaxRetries = 1
    MaxOps = 2
    NoProc = NoProc
    NoTx = NoTx
    NoOp = NoOp
INVARIANT DailyCeiling
PROPERTY CallsReturn
