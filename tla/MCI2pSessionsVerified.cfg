CONSTANTS
    TorEndpoints = {managed}
    I2pEndpoint = i2pd
    NoEndpoint = none
    Conns = {c1}
    FailureThreshold = 3

SPECIFICATION Spec

INVARIANT I2pSessionsVerified
