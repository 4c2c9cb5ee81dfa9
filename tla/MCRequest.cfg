CONSTANTS
    Requests <- SomeRequests
    MaxMethod = 3
    MaxPath = 5
    MaxHeaders = 3
    MaxName = 3
    MaxValue = 5
    MaxBody = 3
SPECIFICATION Spec
INVARIANTS TypeOK BuffersHoldPrefixes HandlerGetsHeaders
CHECK_DEADLOCK FALSE
