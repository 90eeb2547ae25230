SPECIFICATION Spec
CONSTANTS
    Procs = {daemon}
    OutIds = {m1, m2}
    InIds = {r1}
    MaxCrashes = 2
    NoFile = NoFile
INVARIANTS
    StatusHasLine
    DuplicatesBounded
PROPERTIES
    LifecycleKept
    RewriteKeepsOthers
