SPECIFICATION Spec
CONSTANTS
    Calls = {c1, c2, c3}
    Bookings = {b1, b2, b3}
    ByWallet = {b1}
    Requested = {b3}
    Watched = {b1, b2}
    Payer = payer
    Escrow = escrow
    Fare = 1
    Opening = 1
    MaxFaults = 1
    NoBooking = NoBooking
INVARIANTS
    PaidIsBacked
    FareRecoverable
    SettlementKept
    TripIsInvoiced
PROPERTIES
    CallsReturn
CHECK_DEADLOCK FALSE
