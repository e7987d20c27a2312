SPECIFICATION FairSpec
CONSTANTS
    None = None
    o1 = o1
    o2 = o2
    Operations = {o1, o2}
    Chain <- MCChain
    Overflowing = {}
    Fragile = {o2}
    Workers = {w1, w2}
    BatchSize = 1
    MaxAttempts = 2
    MaxFaults = 1
    MaxOverruns = 1
INVARIANTS
    TypeOK
    SharedOnlyAfterOverrun
PROPERTIES
    NoOperationGivesUpEarly
    ImplementsPendingLife
    EveryPendingEnds
\* Once every operation has ended the workers poll on, which changes nothing.
CHECK_DEADLOCK FALSE
