SPECIFICATION Spec
SYMMETRY Symmetric
CONSTANTS
    rule = rule
    here = here
    there = there
    Assets = {rule}
    Restricted = {rule}
    Places = {here, there}
    None = None
    CacheSize = 1
    MaxCommits = 2
    MaxFaults = 1
INVARIANTS
    NothingDeleted
    
PROPERTIES
    BindingKept
