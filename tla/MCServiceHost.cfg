\* Two introduction points and the least limit the host accepts;
\* two failed routes in a row ask for a recovery.
SPECIFICATION FairSpec
CONSTANTS
    Cookies = {c1, c2, c3}
    Introductions = {p1, p2}
    MaxSessions = 2
    None = None
    RouteFailureLimit = 2
    ThreadsFail = TRUE
CHECK_DEADLOCK FALSE
INVARIANTS
    Accounted
    GrantsAreLive
    ReadyMeansOffered
PROPERTIES
    StopCloses
    RecoveryEnds
    OfferedAgain
