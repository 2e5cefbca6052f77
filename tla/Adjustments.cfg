SPECIFICATION Spec
CONSTANTS
    Calls = {c1, c2, c3, c4, c5}
    Requests = {r1, r2}
    Account = acc
    Amount = 1
    Opening = 1
    MaxFaults = 2
    NoRequest = NoRequest
INVARIANTS
    ApprovedIsExecuted
    DecisionMatchesMoney
SYMMETRY AlikeCalls
CHECK_DEADLOCK FALSE
