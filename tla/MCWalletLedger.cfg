SPECIFICATION Spec
CONSTANTS
    None = None
    WalletIds = {w1, w2}
    Owners = {o1, o2}
    InitialBalances = {0, 1}
    Sessions = {s1, s2}
    Readers = {r1}
    MaxLimit = 2
    MaxBalance = 1
    MaxSequence = 5
SYMMETRY Symmetry
INVARIANTS
    PagesAreExact
    ReconciliationNeverDiverges
    OneWalletPerOwner
