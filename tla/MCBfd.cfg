SPECIFICATION FairSpec
CONSTANTS
    Configs <- DecayChanged
    First <- Decaying
    Changing <- One
    MaxWire = 2
    MaxChanges = 2
    MaxFaults = 1
    MaxEvents = 2
INVARIANT UpMeansHeard
PROPERTY Settles
