SPECIFICATION ThreadSpec
CONSTANTS
    a = a
    b = b
    c1 = c1
    c2 = c2
    Calls <- MCCalls
    Keys <- MCKeys
    Urls <- MCUrls
    Hosts <- MCHosts
    HostOf <- MCHostOf
    Local = "local"
    Invalid = "invalid"
    Requests <- HungRequests
    Priority <- MCPriority
    Concurrency = 1
    PerHost = 1
    Retries = 0
    MaxQueued = 1
    Shared = {}
    MaxOther = 0
INVARIANTS
    AllAccounted
PROPERTIES
    EnsureReturns
    CancelReturns
    StopReturns
CHECK_DEADLOCK FALSE
