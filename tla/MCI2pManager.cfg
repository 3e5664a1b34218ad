\* Every outcome of a start; the thresholds of the code.
SPECIFICATION I2pFairSpec
CONSTANTS
    ConfirmedFailures = 3
    RestartFailures = 8
INVARIANTS
    RouteBelongsToProcess
    RouterWatched
PROPERTIES
    RevocationConfirmed
    UnverifiedRouterReplaced
