--------------------------- MODULE GatewayPolicy ---------------------------
(***************************************************************************)
(* The routing policy of the loopback SOCKS gateway                        *)
(* (granger/network/PrivateRouteGateway.cpp): which backend, if any, a     *)
(* CONNECT request for a host is sent to under the policy the gateway      *)
(* holds.  These are operators only; PrivateRoute and GatewaySession give  *)
(* them state.                                                             *)
(*                                                                         *)
(* A host name is abstracted to the class routeFor() tells apart: a name   *)
(* ending in .onion, one ending in .i2p, the host of the Tor route check   *)
(* and any other name ("clearnet").                                        *)
(***************************************************************************)

CONSTANTS
    TorEndpoints,   \* SOCKS endpoints Tor may be reached at
    I2pEndpoint,    \* the SOCKS endpoint of the bundled i2pd
    NoEndpoint      \* the empty endpoint string

ASSUME EndpointsDistinct ==
    /\ NoEndpoint \notin TorEndpoints
    /\ I2pEndpoint # NoEndpoint

Hosts == {"onion", "i2p", "check", "clearnet"}

Networks == {"None", "Tor", "I2p"}

Policies == [active      : Networks,
             torEndpoint : TorEndpoints \cup {NoEndpoint},
             probes      : SUBSET Hosts,
             torReady    : BOOLEAN,
             torVerified : BOOLEAN,
             i2pVerified : BOOLEAN,
             i2pClearnet : BOOLEAN]

\* A default-constructed PrivateRoutePolicy: what blockAll() installs.
BlockingPolicy == [active      |-> "None",
                   torEndpoint |-> NoEndpoint,
                   probes      |-> {},
                   torReady    |-> FALSE,
                   torVerified |-> FALSE,
                   i2pVerified |-> FALSE,
                   i2pClearnet |-> FALSE]

Routes == [network : Networks, endpoint : TorEndpoints \cup {NoEndpoint, I2pEndpoint}]

NoRoute == [network |-> "None", endpoint |-> NoEndpoint]

TorRoute(p) == [network |-> "Tor", endpoint |-> p.torEndpoint]

I2pRoute == [network |-> "I2p", endpoint |-> I2pEndpoint]

\* A host outside .onion and .i2p goes over Tor when it is a probe host of a
\* ready transport or when Tor is the active and verified network.
ClearnetOverTor(p, h) ==
    \/ p.torReady /\ h \in p.probes
    \/ p.active = "Tor" /\ p.torVerified

ClearnetOverI2p(p) == p.active = "I2p" /\ p.i2pVerified /\ p.i2pClearnet

RouteFor(p, h) ==
    CASE h = "onion" -> IF p.torVerified THEN TorRoute(p) ELSE NoRoute
      [] h = "i2p"   -> IF p.i2pVerified THEN I2pRoute ELSE NoRoute
      [] OTHER       -> IF ClearnetOverTor(p, h) THEN TorRoute(p)
                        ELSE IF ClearnetOverI2p(p) THEN I2pRoute
                        ELSE NoRoute

=============================================================================
