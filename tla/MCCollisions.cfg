SPECIFICATION Spec
CONSTANTS
    None = None
    Wallets = {"w1", "w2"}
    Player <- MCPlayer
    Currency <- MCCurrency
    OpeningBalances = {1}
    TxIds = {t1, t2, t3, t4}
    Sessions = {s1, s2, s3}
    Messages = {}
    HttpOps <- MCHttpOps
    Deliveries = {}
    MaxAttempts = 1
    AttemptsCap = 2
    MaxMoney = 3
    Corrupt = {}
SYMMETRY Symmetry
INVARIANTS
    EffectExactlyOnce
    OneRowPerOperation
    RetryIsConclusive
    AnswersAreDurable
    ReferencesAreSound
