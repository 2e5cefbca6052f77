\* Two drivers, two searches, three requests of riders or drivers at a time.
CONSTANTS
    d1 = d1
    d2 = d2
    Drivers = {d1, d2}
    Calls = {c1, c2, c3}
    Pools <- Rankings
    MaxCycles = 2
    None = None
SPECIFICATION RideFairSpec
INVARIANT OffersLive
INVARIANT WinnerRecorded
PROPERTY OutcomesStay
PROPERTY SearchEnds
\* A request that is converted or cancelled is over.
CHECK_DEADLOCK FALSE
