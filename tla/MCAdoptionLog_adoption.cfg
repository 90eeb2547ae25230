SPECIFICATION AdoptSpec
CHECK_DEADLOCK FALSE
CONSTANTS
    e1 = e1
    bad = bad
    sig = sig
    loop = loop
    trigger = trigger
    Events = {e1, bad, sig}
    Signals = {sig}
    Unfit = {bad}
    Flushers = {loop, trigger}
    BatchSize = 1
    MaxBatches = 2
    NoFile = NoFile
    Loop = loop
    MaxTriggers = 1
    MaxFaults = 1
INVARIANTS
    Accounted
    CountedOnce
PROPERTIES
    AllCounted
