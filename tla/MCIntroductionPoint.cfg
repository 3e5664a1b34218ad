\* Two circuits of the host, two descriptors, two clients and a queue of one.
SPECIFICATION Spec
CONSTANTS
    Registrations = {r1, r2}
    Requests = {q1, q2}
    Nonces = {n1, n2}
    None = None
    MaxSequence = 2
    QueueSize = 1
    MaxReplayEntries = 2
SYMMETRY Interchangeable
CHECK_DEADLOCK FALSE
INVARIANTS
    SingleUse
    SessionInForce
    NobodyForgotten
