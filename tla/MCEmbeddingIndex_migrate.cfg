SPECIFICATION Spec
CONSTANTS
    Assets = {a1, a2}
    Versions = {v1, v2}
    First = v1
    None = None
    Batch = 2
    MigrateLimit = 2
    MaxRetries = 1
    MaxEdits = 2
    MaxFaults = 1
    Reuse = FALSE
INVARIANTS
    AtRestFresh
PROPERTIES
    EventuallyEmbedded
CHECK_DEADLOCK FALSE
