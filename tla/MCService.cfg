SPECIFICATION Spec
CONSTANTS
    s1 = s1
    s2 = s2
    u1 = u1
    MaxOptions = 3
    Precision = 2
    Blank = "-"
    Texts = {"a", "b", "c"}
    OptionIds = {1, 2, 3}
    PollTimes = {0, 2, 3, 4}
    NoPoll = NoPoll
    Polls = {p1}
    Fakes = {p2}
    PollEnd = 2
    Getters = {g1, g2}
    Nobody = Nobody
    Nothing = Nothing
    NegativeTTL = 1
    MaxNegative = 1
    LoadLimit = 1
    CacheEnd = 3
    Pages = {b1, b2}
    Skews = {0, 1}
    TokenTTL = 3
    ClockSkew = 1
    Second = 2
    NoToken = NoToken
    MaxTokens = 2
    ViewersEnd = 3
    Served = {s1, s2}
    Latency <- LatencyOf
    Status <- StatusOf
    Tracked <- TrackedStatuses
    MaxTicks = 1
    Workers = {w1, w2}
    Total = 3
    Duration = 1
    QueueLength = 1
    Refusals = {429}
    LastSecond = 3
    Ballots = {v1, v2}
    Servers = {i1, i2}
    EndsAt = 1
    Grace = 1
    Settle = 3
    SettleWindow = 5
    FlushLimit = 1
    ResultsEnd = 7
    Attempts = {a1, a2}
    Voters = {u1, u2}
    VoterOf <- OneVoter
    Ends = 1
    Margin = 2
    Limit = 2
    MaxRestarts = 1
    MaxTime = 4
INVARIANTS
    TypeOK
    ValidIsStorable
    LoadsAgree
    VoteAddsUp
    PageIsAccepted
    CreatedIsFound
    WarmedIsHit
    OneVotePerBrowser
    CountedOnce
    LinesAgree
    LastIntervalWritten
    VotesAccounted
    DivergenceExplained
    ImmutableIsFinal
    FirstOnce
    RefusedForAnother
PROPERTIES
    HonestVoteCounts
    GetEnds
    FireEnds
    HandlerEnds
CHECK_DEADLOCK FALSE
