SPECIFICATION Spec
CONSTANTS
    Strategies <- ThreeStrategies
    MaxPages = 2
    MaxQueued = 2
    MaxUser = 3
INVARIANT
    ConnectedAfterBootstrap
CHECK_DEADLOCK FALSE
