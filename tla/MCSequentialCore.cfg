SPECIFICATION CoreSpec
CONSTANTS
    None = None
    Players = {"x", "y"}
    Rounds = {"r", "q"}
    Amounts = {0, 1, 2}
    MaxBalance = 2
    MaxInt = 127
    MaxDuration = 127
    Delays = {1, 3, 5, 40, 84}
    Attempts <- AttemptNumbers
INVARIANTS
    ReversalUndoesReference
    ExpiryFollowsTheDomain
    EveryLayerAgrees
    RowsReadBack
    MoneyIsExact
    DelaysAreBounded
PROPERTIES
    DecisionIsFinal
CHECK_DEADLOCK FALSE
