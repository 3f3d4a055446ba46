CONSTANTS
    s1 = s1
    s2 = s2
    t1 = t1
    t2 = t2
    SEQ = {s1, s2}
    THREAD = {t1, t2}
    MaxNext = 3
SPECIFICATION FairSpec
INVARIANT NoMissedWakeup
PROPERTIES ValuesNeverReturn SleeperWakes ImplementsWakeup
CHECK_DEADLOCK FALSE
