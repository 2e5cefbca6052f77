SPECIFICATION Spec
CONSTANTS
    Procs = {p1, p2, p3}
    Keys = {k1, k2, k3}
    Vehicles = {1, 2}
    SupplyIds = {1, 2, 3}
    Horizon = 2
    MaxQty = 2
    Requests <- MixedRequests
    Declarations <- RacingSlices
    OpeningSupply <- FirstHalf
    Refs = {}
    MaxOps = 4
    NoProc = NoProc
    NoRes = NoRes
    NoReq = NoReq
    NoSlice = NoSlice
    NoKey = NoKey
    NoRef = NoRef
    NoBill = NoBill
SYMMETRY Handlers
INVARIANT VehicleExclusive
INVARIANT CapacityRespected
INVARIANT TerminalHoldsNothing
CHECK_DEADLOCK FALSE
