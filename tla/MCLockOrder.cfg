SPECIFICATION Spec
CONSTANTS
    None = None
    Wallets = {"w1", "w2"}
    Player <- MCPlayer
    Currency <- MCCurrency
    OpeningBalances = {0}
    TxIds = {t1, t2}
    Sessions = {s1, s2}
    Messages = {}
    HttpOps <- MCHttpOps
    Deliveries = {}
    MaxAttempts = 1
    AttemptsCap = 2
    MaxMoney = 3
    Corrupt = {}
SYMMETRY Symmetry
INVARIANTS
    NoWaitCycle
