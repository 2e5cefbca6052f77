SPECIFICATION Spec
CONSTANTS
    Procs = {p1, p2}
    Tiers = {vip}
    FreeTiers = {}
    Persons = {a, b, c}
    Holds = {}
    Capacity <- SmallHall
    MaxCapacity = 0
    MaxGroup = 1
    MaxOps = 5
    MaxFaults = 0
    NoProc = NoProc
    NoRow = NoRow
    NoOp = NoOp
INVARIANT NeverOversold
CHECK_DEADLOCK FALSE
