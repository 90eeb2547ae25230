SPECIFICATION Spec
CONSTANTS
    Paths = {p, q}
    First = {p}
    Nested = {}
    Aliased = {}
    Handlers = {w1}
    Cron = cron
    Provider = "compare"
    None = None
    MaxCommits = 3
    MaxFaults = 1
INVARIANTS
    AtHeadIndexed
PROPERTY ReachesHead
CHECK_DEADLOCK FALSE
