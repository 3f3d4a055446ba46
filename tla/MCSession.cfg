CONSTANTS
    RECONNECT_DEFAULT_MIN_BACKOFF = 1
    RECONNECT_DEFAULT_MAX_BACKOFF = 4
    RECONNECT_DEFAULT_PROBE_INTERVAL = 2
    Forever = 1000
    MaxTime = 5
    MaxConns = 2
    Kinds <- All
    Backoffs <- MCBackoffs
    Probes <- MCProbes
SPECIFICATION Spec
INVARIANTS SessionConsistent ProbedBeforeDrop AliveAsPromised
