CONSTANTS
    c1 = c1
    b1 = b1
    s1 = s1
    Clients = {c1}
    Bridge = {b1}
    Sweepers = {s1}
    Requests = {"timeout"}
    Outcomes = {"success"}
    Streams = {}
    MaxRetries = 2
    FaultKinds = {"insert", "enqueue", "getjob", "report", "crash"}
    MaxFaults = 1
SPECIFICATION FairSpec
PROPERTIES
    EventuallySettled
CHECK_DEADLOCK FALSE
