SPECIFICATION Spec
CONSTANTS
    a = a
    b = b
    c1 = c1
    c2 = c2
    Calls <- MCCalls
    Keys <- MCKeys
    Urls <- MCUrls
    Hosts <- MCHosts
    HostOf <- MCHostOf
    Local = "local"
    Invalid = "invalid"
    Requests <- MCRequests
    Priority <- MCPriority
    Concurrency = 2
    PerHost = 1
    Retries = 1
    MaxQueued = 2
    Shared = {b}
    MaxOther = 1
INVARIANTS
    BatchesAccounted
    TransfersAccounted
    ShutdownClean
PROPERTIES
    CancelIsolated
    WindowRespected
    ImplementsService
CHECK_DEADLOCK FALSE
