CONSTANTS
    c1 = c1
    b1 = b1
    s1 = s1
    Clients = {c1}
    Bridge = {b1}
    Sweepers = {s1}
    Requests = {"cancel"}
    Outcomes = {"success"}
    Streams = {"values"}
    MaxRetries = 2
    FaultKinds = {"insert", "enqueue", "getjob", "report", "crash"}
    MaxFaults = 1
SPECIFICATION Spec
INVARIANTS
    FinalizationRecoverable
CHECK_DEADLOCK FALSE
