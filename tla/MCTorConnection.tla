--------------------------- MODULE MCTorConnection ---------------------------
EXTENDS TorConnection
\* An external Tor first, then two managed strategies, as when the user configured both.
ThreeStrategies == <<"external", "managed", "managed">>
=============================================================================
