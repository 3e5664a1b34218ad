CONSTANTS
    TorEndpoints = {managed, external}
    I2pEndpoint = i2pd
    NoEndpoint = none
    Conns = {c1, c2}
    FailureThreshold = 3

SPECIFICATION FairSpec

INVARIANTS
    GateFollowsVerification

PROPERTIES
    NoSessionSurvivesASwitch
    CooldownBeforeSwitchBack
    ImplementsRouteGate
    PreferredRestored
