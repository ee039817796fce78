SPECIFICATION Spec
CONSTANTS
    i1 = i1
    i2 = i2
    Instances <- OneInstance
    NumShards = 1
    NumOptions = 1
    MaxCount <- OneEach
    MaxFaults = 1
    MaxResets = 0
PROPERTY LastFlushStored
