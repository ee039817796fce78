SPECIFICATION FairSpec
CONSTANTS
    v1 = v1
    v2 = v2
    p1 = p1
    None = None
    Votes <- TwoVotes
    Polls <- OnePoll
    NumOptions = 1
    Choices <- OneChoice
    MaxFaults = 1
PROPERTY EventuallySettled
