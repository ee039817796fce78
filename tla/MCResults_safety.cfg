SPECIFICATION Spec
CONSTANTS
    i1 = i1
    i2 = i2
    Instances <- TwoInstances
    NumShards = 1
    NumOptions = 1
    MaxCount <- VotersOnly
    MaxFaults = 1
    MaxResets = 1
INVARIANTS
    TypeOK
    NothingInvented
    PlannedStopStores
PROPERTIES
    StoredNeverRegresses
    ShownNeverRegresses
    ImplementsStandings
SYMMETRY InstanceSymmetry
