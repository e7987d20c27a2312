SPECIFICATION Spec
CONSTANTS
    None = None
    Consumers = {c1, c2}
    Messages = {m1, m2}
    Poison = {m2}
    Batch = 2
    Concurrency = 1
    VisibilityTimeout = 2
    ProcessingTimeout = 1
    RetryMax = 1
    MaxReceive = 2
    MaxFaults = 1
    MaxStops = 1
SYMMETRY Symmetry
INVARIANTS
    NoMessageIsLost
    DeadLettersWereRefused
PROPERTIES
    GracefulStopHandsBack
\* Once every message is settled the instances poll on, which changes nothing.
CHECK_DEADLOCK FALSE
