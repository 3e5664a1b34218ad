------------------------- MODULE PrivateRouteClaims -------------------------
(***************************************************************************)
(* A statement of the documentation about the private-route manager that   *)
(* PrivateRoute does not satisfy; its run's counterexample is described in *)
(* the README.                                                             *)
(***************************************************************************)
EXTENDS PrivateRoute

\* ".i2p -> verified I2P only" (docs/PRIVATE_NETWORK_ROUTING.md:120): a session
\* on the I2P backend has a verified I2P route under it.
I2pSessionsVerified ==
    \A c \in Conns : net.sessions[c].route.network = "I2p" => net.i2p.verified

=============================================================================
