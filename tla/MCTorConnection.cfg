SPECIFICATION FairSpec
CONSTANTS
    Strategies <- ThreeStrategies
    MaxPages = 2
    MaxQueued = 2
    MaxUser = 3
INVARIANTS
    StatusesConsistent
    ReportedIsCurrent
    TimeoutIsCurrent
PROPERTY
    AutomaticSettles
CHECK_DEADLOCK FALSE
