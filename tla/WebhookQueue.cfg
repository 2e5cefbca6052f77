SPECIFICATION Spec
CONSTANTS
    Workers = {w1, w2}
    Events = {e1, e2}
    Account = acc
    Keys = {k1}
    Amount = 1
    Opening = 1
    MaxAttempts = 2
    BatchSize = 2
    MaxFaults = 1
    MaxRequeues = 1
    Reports <- PaidReport
    NoEvent = NoEvent
INVARIANTS
    StuckOnlyByFault
    DeadLetterEarned
PROPERTIES
    EventsSettle
CHECK_DEADLOCK FALSE
