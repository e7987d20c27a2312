SPECIFICATION Spec
CONSTANTS
    None = None
    Wallets = {"w1"}
    Player <- MCPlayer
    Currency <- MCCurrency
    OpeningBalances = {0, 1}
    TxIds = {t1, t2, t3, t4}
    Sessions = {s1, s2}
    Messages = {"m1", "m2"}
    HttpOps <- MCHttpOps
    Deliveries <- MCDeliveries
    MaxAttempts = 1
    AttemptsCap = 2
    MaxMoney = 3
    Corrupt <- MCCorrupt
SYMMETRY Symmetry
CONSTRAINT OneScenario
INVARIANTS
    TypeOK
    LedgerReconciles
    OneReversalPerReference
    LockedReadsStayTrue
    OutboxMirrorsState
    NoWaitCycle
    AckedMessagesTookEffect
PROPERTIES
    HistoryIsImmutable
    InboxIsFinal
    ExpiryCodeIsTruthful
