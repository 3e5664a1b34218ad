\* A cap of one and a second client; a Tor endpoint beyond loopback, so that
\* only I2P can be connected to.
CONSTANTS
    TorEndpoints = {remote}
    RemoteEndpoints = {remote}
    I2pEndpoint = i2pd
    NoEndpoint = none
    Conns = {c1, c2}
    MaximumActiveConnections = 1
    FailureThreshold = 2

SPECIFICATION FairSpec

INVARIANT NoOrphans
PROPERTY HandshakesEnd
