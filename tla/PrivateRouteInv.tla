-------------------------- MODULE PrivateRouteInv --------------------------
(***************************************************************************)
(* The inductive invariant behind the safety properties of PrivateRoute,   *)
(* as properties of a manager state n, so that they can be stated of the   *)
(* states between the calls of one slot as well.  PrivateRouteProofs       *)
(* proves it.                                                              *)
(***************************************************************************)
EXTENDS PrivateRoute

\* A session that is not free was routed somewhere, and the policy held now
\* routes it there.
SessionsRouted(n) ==
    \A c \in Conns : n.sessions[c] # Free =>
        /\ n.sessions[c].route.network # "None"
        /\ RouteFor(n.policy, n.sessions[c].host) = n.sessions[c].route

\* What every slot relies on and no call inside a slot disturbs.
Steady(n) ==
    /\ n.allowed <=> n.active # "None"
    /\ n.active # "None" => n.started /\ ~n.stopping /\ Verified(n, n.active)
    /\ n.started /\ ~n.stopping => n.listening
    /\ n.recovery => n.active \notin {"None", n.preferred}
    /\ n.pending => n.tor.ready /\ ~n.tor.verified
    /\ n.state = "VerifyingTor" => n.started /\ ~n.stopping /\ n.active = "None"
    /\ SessionsRouted(n)

\* A gate that is closed, with nothing let through.
Closed(n) == n.policy = BlockingPolicy /\ n.sessions = FreeAll

\* A gate that lets the route check through and no clearnet traffic.  What its
\* policy says of I2P and of the Tor endpoint is as old as the verification.
Probing(n) ==
    /\ n.policy.active = "None"
    /\ n.policy.torReady
    /\ ~n.policy.torVerified
    /\ ~n.policy.i2pClearnet
    /\ n.policy.probes = {"check"}

\* A manager state between two calls of a slot: the statuses are new, the
\* policy of an open gate may still be the one they replace.
MidSlot(n) ==
    /\ Steady(n)
    /\ ~n.requested
    /\ n.active = "None" /\ n.state # "VerifyingTor" => Closed(n)
    /\ n.state = "VerifyingTor" /\ n.pending => Probing(n)

\* A manager state between two slots: the policy is the one the state calls for.
AtRest(n) ==
    /\ Steady(n)
    /\ n.requested => n.pending /\ RouteFor(n.policy, "check").network = "Tor"
    /\ n.active # "None" => n.policy = PolicyOf(n)
    /\ n.active = "None" /\ n.state # "VerifyingTor" => Closed(n)
    /\ n.state = "VerifyingTor" => n.pending /\ Probing(n)

\* The inductive invariant.
IInv == TypeOK /\ AtRest(net)

=============================================================================
