SPECIFICATION Spec
CONSTANTS
    Procs = {p1, p2}
    Tiers = {vip, free}
    FreeTiers = {free}
    Persons = {a, b, c}
    Holds = {h}
    Capacity <- SmallHall
    MaxCapacity = 2
    MaxGroup = 2
    MaxOps = 5
    MaxFaults = 1
    NoProc = NoProc
    NoRow = NoRow
    NoOp = NoOp
SYMMETRY Handlers
INVARIANTS
    TypeOK
    EventCapRespected
    NoUnexplainedSeats
    NoUnexplainedLoss
    ChargesMatchTickets
CHECK_DEADLOCK FALSE
