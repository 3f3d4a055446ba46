CONSTANTS
    Flow <- OneFlow
    Hash <- MCHash
    MaxHandlers = 2
    MAX_QUEUE_LENGTH = 1
    FLOW_MISS_MAX_BATCH = 1
    MAX_POPS = 2
    MaxEvents = 2
SPECIFICATION FromOneHandler
INVARIANTS FacetsFresh MainNotStranded
PROPERTIES ThreadsStop MissesAreTaken StaleDropsEnd RevalidationCompletes
