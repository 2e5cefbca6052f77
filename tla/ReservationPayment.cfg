SPECIFICATION FairSpec
CONSTANTS
    Procs = {p1, p2}
    Keys = {k1, k2, k3}
    Vehicles = {1, 2}
    SupplyIds = {1, 2}
    Horizon = 2
    MaxQty = 2
    Requests <- CrossRequests
    Declarations <- NoSlices
    OpeningSupply <- OneSlice
    Refs = {f1}
    MaxOps = 4
    NoProc = NoProc
    NoRes = NoRes
    NoReq = NoReq
    NoSlice = NoSlice
    NoKey = NoKey
    NoRef = NoRef
    NoBill = NoBill
INVARIANT ReservedIsPaid
PROPERTIES
    ExpiresOnlyUnpaid
    CallsReturn
CHECK_DEADLOCK FALSE
