SPECIFICATION CoreSpec
CONSTANTS
    None = None
    Players = {"x"}
    Rounds = {"r"}
    Amounts = {0, 1}
    MaxBalance = 1
    MaxInt = 127
    MaxDuration = 127
    Delays = {1}
    Attempts = {0}
INVARIANTS
    AnswersAreAsDocumented
CHECK_DEADLOCK FALSE
