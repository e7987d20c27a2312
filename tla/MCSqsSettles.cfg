SPECIFICATION FairSpec
CONSTANTS
    None = None
    Consumers = {c1}
    Messages = {m1, m2}
    Poison = {m2}
    Batch = 2
    Concurrency = 1
    VisibilityTimeout = 2
    ProcessingTimeout = 1
    RetryMax = 1
    MaxReceive = 2
    MaxFaults = 1
    MaxStops = 1
PROPERTIES
    EveryMessageSettles
\* Once every message is settled the instance polls on, which changes nothing.
CHECK_DEADLOCK FALSE
