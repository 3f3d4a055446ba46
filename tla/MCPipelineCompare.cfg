SPECIFICATION Spec
CONSTANTS
    h1 = h1
    h2 = h2
    m = m
    Handler = {h1, h2}
    Main = m
    Flow = {"a", "b"}
    Production = 3
    Egress = 5
    Internal = 8
    Width = 10
    MaxRecursion = 3
    Scenarios <- Compares
INVARIANT SourceCompared
CHECK_DEADLOCK FALSE
