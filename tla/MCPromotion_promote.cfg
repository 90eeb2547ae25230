SPECIFICATION Spec
SYMMETRY Symmetry
CHECK_DEADLOCK FALSE
CONSTANTS
    Prompts = {p1, p2}
    NoCat = NoCat
    None = None
    DedupMax = 6
    RetestMax = 4
    PromoteMax = 6
    GlobalMax = 10
    MaxDependent = 3
    Kinds <- MCKinds
    ProjectRules <- MCProjectRules
    Within <- MCWithin
    Memories <- MCMemories
INVARIANTS
    HotFromTested
    FusesHold
    OriginKnown
    DependsAcyclic
PROPERTY
    RuleNodesKeep
