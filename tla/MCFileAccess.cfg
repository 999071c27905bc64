SPECIFICATION Spec
CHECK_DEADLOCK FALSE
CONSTANTS
    Roots <- TwoRoots
    LinkLimit = 4
    TargetLimit = 2
    Trees <- SmallTrees
    Requests <- SmallRequests
    Ends <- SmallEnds
    GrantsFiles <- SmallGrants
    Spelling <- Letters
INVARIANTS
    ResolvedStaysInside
    NamedStaysInside
    NothingCutOff
PROPERTIES
    CreatesInside
    ActsWithinGrants
