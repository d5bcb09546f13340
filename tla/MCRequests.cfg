SPECIFICATION FairRequestsSpec
CONSTANTS
    Clients = {1, 3}
    Limiting = {1}
    Base = 4
    Service = 2
    Instance = 1
    Method = 3
    MaxCalls <- FirstTwice
    MaxReplies = 1
INVARIANTS
    AnswersItsCaller
PROPERTIES
    HandlerGetsResponse
CHECK_DEADLOCK FALSE
