SPECIFICATION FairSpec
CONSTANTS
    None = None
    Events = {e1, e2}
    Publishers = {p1, p2}
    BatchSize = 2
    MaxFaults = 2
    MaxOverruns = 1
INVARIANTS
    TypeOK
    ClaimsAreAccounted
PROPERTIES
    PublishedRowsAreFrozen
    ImplementsDelivery
    EveryEventIsPublished
\* Every event is published and no more are committed: the publishers poll on.
CHECK_DEADLOCK FALSE
