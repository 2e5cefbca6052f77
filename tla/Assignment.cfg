\* Two bookings, drivers and vehicles; two requests at a time.
CONSTANTS
    Bookings = {b1, b2}
    Drivers = {d1, d2}
    Vehicles = {v1, v2}
    Calls = {c1, c2}
    None = None
SPECIFICATION Spec
SYMMETRY Alike
INVARIANT TypeOK
INVARIANT DriverExclusive
INVARIANT VehicleExclusive
INVARIANT FlagMatchesTrips
PROPERTY TerminalStays
