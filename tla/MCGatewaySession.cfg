CONSTANTS
    TorEndpoints = {loopback, remote}
    RemoteEndpoints = {remote}
    I2pEndpoint = i2pd
    NoEndpoint = none
    Conns = {c1, c2}
    MaximumActiveConnections = 2
    FailureThreshold = 2

SPECIFICATION Spec
SYMMETRY ConnSymmetry

PROPERTIES
    OnlyWaitingSessionsFail
    ImplementsRouteGate
