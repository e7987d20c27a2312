SPECIFICATION PromptSpec
CONSTANTS
    None = None
    Consumers = {c1, c2}
    Messages = {m1, m2}
    Poison = {}
    Batch = 2
    Concurrency = 1
    VisibilityTimeout = 3
    ProcessingTimeout = 2
    RetryMax = 1
    MaxReceive = 2
    MaxFaults = 0
    MaxStops = 0
INVARIANTS
    OwnershipIsExclusive
CHECK_DEADLOCK FALSE
