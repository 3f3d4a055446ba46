CONSTANTS
    System <- Two
    Link <- OneLink
    Ends <- Single
    Settings <- Modes
    Active = {1}
    Fast = {1}
    Key <- NoKeys
    Keys = {0}
    MaxEvents = 2
SPECIFICATION FairSpec
PROPERTY LinksComeUp
