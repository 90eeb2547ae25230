SPECIFICATION DistillFairSpec
CHECK_DEADLOCK FALSE
CONSTANTS
    s1 = s1
    s2 = s2
    bob = bob
    memory = memory
    tool = tool
    rule = rule
    once = once
    Sessions = {s1, s2}
    Peers = {bob}
    Topics = {memory, tool, rule, once}
    TopicsOf <- MCTopicsOf
    OneTime = {once}
    Vague = {rule}
    Refused = {tool}
    Threshold = 5700
    LowSignals = 1
    HighSignals = 3
    MaxSessions = 1
    Daily = 2
    MaxTime = 2
    MaxEvents = 1
INVARIANTS
    NonePassed
PROPERTIES
    HandedOnce
    PendingProcessed
