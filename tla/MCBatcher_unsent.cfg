SPECIFICATION Spec
CONSTANTS
    v1 = v1
    v2 = v2
    p1 = p1
    None = None
    Votes <- TwoVotes
    Polls <- OnePoll
    NumOptions = 2
    Choices <- SingleChoices
    MaxFaults = 1
PROPERTY UnsentDeltaIsKept
SYMMETRY VoteSymmetry
