SPECIFICATION FairSpec
CONSTANTS
    i1 = i1
    i2 = i2
    Instances <- TwoInstances
    NumShards = 1
    NumOptions = 2
    MaxCount <- OptionsOnly
    MaxFaults = 0
    MaxResets = 0
PROPERTY EventuallyStored
