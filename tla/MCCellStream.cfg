\* One stream with a window of two cells on a receive budget of one: the peer keeps
\* the protocol, and its data may still find the budget used up.  Every close, reset
\* and timeout; at one end the multiplexer may be closed and the channel may break.
SPECIFICATION FairSpec
CONSTANTS
    MaxStreams = 1
    StreamWindow = 2
    Budget = 1
    Capacity = 2
    MaxUnits = 3
    Talkers = {"Initiator"}
    Closers = {"Acceptor"}
    Faults = {"Acceptor"}
CHECK_DEADLOCK FALSE
INVARIANTS
    CreditConserved
    NothingLost
    PeerNeverFaulted
    BudgetReturned
    NoLostWakeup
PROPERTY CreditReturns
