SPECIFICATION Spec
CONSTANTS
    c1 = c1
    c2 = c2
    s = s
    Conn = {c1, c2, s}
    Primary = {c1, c2}
    Table = {0, 1}
    Match = {"x", "any"}
    BufferLimit = 1
    ReplyMax = 2
    Generation = 4
    Scenarios <- MCScenarios
INVARIANTS MonitorsFollow QueueBounded OneMaster
CHECK_DEADLOCK FALSE
PROPERTIES SlavesWriteNothing PauseEnds
