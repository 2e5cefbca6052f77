SPECIFICATION Spec
CONSTANTS
    Procs = {p1, p2}
    Bookings = {b1, b2}
    Rooms = {r1, r2}
    Stays <- Nights
    Requests <- FewRequests
    Standing = {b1}
    MaxOps = 5
    None = None
INVARIANTS
    UnitsFit
    HoldsAwait
    RoomExclusive
SYMMETRY Alike
CHECK_DEADLOCK FALSE
