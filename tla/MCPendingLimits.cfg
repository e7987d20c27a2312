SPECIFICATION FairSpec
CONSTANTS
    None = None
    o1 = o1
    o2 = o2
    Operations = {o1}
    Chain <- MCChain
    Overflowing = {o1}
    Fragile = {}
    Workers = {w1}
    BatchSize = 1
    MaxAttempts = 2
    MaxFaults = 0
    MaxOverruns = 0
PROPERTIES
    LimitsEndEveryPending
\* Once every operation has ended the workers poll on, which changes nothing.
CHECK_DEADLOCK FALSE
