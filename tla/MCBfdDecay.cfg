SPECIFICATION FairSpec
CONSTANTS
    Configs <- None
    First <- Decaying
    Changing <- None
    MaxWire = 2
    MaxChanges = 2
    MaxFaults = 0
    MaxEvents = 2
PROPERTY DecayEnds
