CONSTANTS
    c1 = c1
    b1 = b1
    b2 = b2
    s1 = s1
    Clients = {c1}
    Bridge = {b1, b2}
    Sweepers = {s1}
    Requests = {"timeout"}
    Outcomes = {"success"}
    Streams = {"values"}
    MaxRetries = 2
    FaultKinds = {"getjob", "report"}
    MaxFaults = 1
SPECIFICATION Spec
INVARIANTS
    FencedCompletion
    SuccessHasOutput
    MergedOnce
    AcceptedIsDurable
PROPERTIES
    AttemptsAdvance
    NotExecutedAgain
    TerminalIsFinal
    ContractSpec
SYMMETRY Slots
CHECK_DEADLOCK FALSE
