CONSTANTS
    c1 = c1
    b1 = b1
    s1 = s1
    s2 = s2
    Clients = {c1}
    Bridge = {b1}
    Sweepers = {s1, s2}
    Requests = {}
    Outcomes = {"success"}
    Streams = {}
    MaxRetries = 2
    FaultKinds = {"insert", "enqueue", "getjob", "report", "crash"}
    MaxFaults = 1
SPECIFICATION Spec
INVARIANTS
    TypeOK
    SingleCopy
    LeaseRetained
    ThreadFollowsRun
PROPERTIES
    ContractSpec
SYMMETRY Slots
CHECK_DEADLOCK FALSE
