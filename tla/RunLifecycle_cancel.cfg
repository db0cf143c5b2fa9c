CONSTANTS
    c1 = c1
    b1 = b1
    s1 = s1
    Clients = {c1}
    Bridge = {b1}
    Sweepers = {s1}
    Requests = {"cancel", "observe"}
    Outcomes = {"success", "interrupted"}
    Streams = {"values"}
    MaxRetries = 2
    FaultKinds = {}
    MaxFaults = 0
SPECIFICATION Spec
INVARIANTS
    CanceledIsTerminal
    OutputOfWinner
SYMMETRY Slots
CHECK_DEADLOCK FALSE
