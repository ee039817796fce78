SPECIFICATION FinalSpec
CONSTANTS
    Ballots = {v1}
    Servers = {i1, i2}
    EndsAt = 1
    Grace = 1
    Settle = 3
    SettleWindow = 5
    FlushLimit = 1
    ResultsEnd = 7
INVARIANT ImmutableIsOne
CHECK_DEADLOCK FALSE
