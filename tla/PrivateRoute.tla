---------------------------- MODULE PrivateRoute ----------------------------
(***************************************************************************)
(* PrivacyNetworkManager (granger/network/PrivacyNetworkManager.cpp)       *)
(* together with the gateway it owns: the state machine that decides which *)
(* private network carries the browser's traffic and installs the          *)
(* gateway's policy.                                                       *)
(*                                                                         *)
(* The manager lives on the Qt main thread, and its slots call one another *)
(* synchronously (a status update may block the gate, install a policy and *)
(* request a verification before it returns).  One slot is therefore one   *)
(* action, and the functions it calls are operators from a manager state   *)
(* to the manager state they leave, applied in the order of the calls.     *)
(***************************************************************************)
EXTENDS Naturals, GatewayPolicy

CONSTANTS
    Conns,              \* the gateway's client connections
    FailureThreshold    \* endpoint failures that count as a lost route (3)

ASSUME ThresholdPositive == FailureThreshold \in Nat \ {0}

VARIABLE net            \* the manager, its gateway's policy and sessions

-----------------------------------------------------------------------------
(* Types *)

RouteStates == {"Blocked", "StartingTor", "VerifyingTor", "TorConnected",
                "StartingI2p", "VerifyingI2p", "I2pConnected",
                "SwitchingTorToI2p", "SwitchingI2pToTor",
                "NoPrivateRoute", "Stopping"}

\* What the manager reads of a TorStatus.  TorManager never reports a verified
\* route without a verified transport, a verified route in state "Failed", or
\* a verified transport without an endpoint.
TorStatuses ==
    {s \in [endpoint : TorEndpoints \cup {NoEndpoint},
            ready : BOOLEAN, verified : BOOLEAN, failed : BOOLEAN] :
        /\ s.verified => s.ready /\ ~s.failed
        /\ s.ready => s.endpoint # NoEndpoint}

\* What the manager reads of an I2pStatus.  setFailure() clears the proxy and
\* the route; a verified route may have lost its proxy to a transient failure.
I2pStatuses ==
    {s \in [proxy : BOOLEAN, verified : BOOLEAN, failed : BOOLEAN] :
        s.failed => ~s.proxy /\ ~s.verified}

NoTor == [endpoint |-> NoEndpoint, ready |-> FALSE, verified |-> FALSE, failed |-> FALSE]

I2pDown == [proxy |-> FALSE, verified |-> FALSE, failed |-> FALSE]

I2pFailed == [proxy |-> FALSE, verified |-> FALSE, failed |-> TRUE]

\* A session is Free until its CONNECT request has been routed: until then no
\* policy change touches it.
Free == [host |-> "clearnet", route |-> NoRoute]

Sessions == [host : Hosts, route : Routes]

Managers == [listening   : BOOLEAN,
             started     : BOOLEAN,
             stopping    : BOOLEAN,
             preferred   : {"Tor", "I2p"},
             active      : Networks,
             state       : RouteStates,
             allowed     : BOOLEAN,
             tor         : TorStatuses,
             i2p         : I2pStatuses,
             failoverFrom : Networks,
             pending     : BOOLEAN,
             requested   : BOOLEAN,
             recovery    : BOOLEAN,
             failures    : [{"Tor", "I2p"} -> 0 .. FailureThreshold - 1],
             policy      : Policies,
             sessions    : [Conns -> Sessions]]

TypeOK == net \in Managers

-----------------------------------------------------------------------------
(* The gateway's two entry points *)

FreeAll == [c \in Conns |-> Free]

BlockAll(n) == [n EXCEPT !.policy = BlockingPolicy, !.sessions = FreeAll]

\* The sessions a new policy leaves open: those it would route as they are.
StillRouted(p, sessions) ==
    [c \in Conns |-> IF RouteFor(p, sessions[c].host) = sessions[c].route
                     THEN sessions[c] ELSE Free]

\* Mutant: sessions routed under the old policy are not looked at.
SetPolicyKeepsSessions(n, p) == [n EXCEPT !.policy = p]

SetPolicy(n, p) ==
    IF p = n.policy THEN n
    ELSE [n EXCEPT !.policy = p, !.sessions = StillRouted(p, n.sessions)]

-----------------------------------------------------------------------------
(* The manager's private functions *)

Verified(n, network) == \/ network = "Tor" /\ n.tor.verified
                        \/ network = "I2p" /\ n.i2p.verified

\* The policy the manager's status calls for.
PolicyOf(n) ==
    [active      |-> n.active,
     torEndpoint |-> n.tor.endpoint,
     probes      |-> IF n.tor.ready /\ ~n.tor.verified THEN {"check"} ELSE {},
     torReady    |-> n.tor.ready,
     torVerified |-> n.tor.verified,
     i2pVerified |-> n.i2p.verified,
     i2pClearnet |-> FALSE]

ApplyGatewayPolicy(n) == SetPolicy(n, PolicyOf(n))

Block(n, state) ==
    BlockAll([n EXCEPT !.recovery = FALSE,
                       !.active = "None",
                       !.state = state,
                       !.allowed = FALSE])

Activate(n, network) ==
    ApplyGatewayPolicy(
        [n EXCEPT !.recovery = FALSE,
                  !.active = network,
                  !.state = IF network = "Tor" THEN "TorConnected" ELSE "I2pConnected",
                  !.allowed = Verified(n, network)])

RequestTorVerification(n) ==
    IF n.pending \/ ~n.tor.ready \/ n.tor.endpoint = NoEndpoint \/ n.tor.verified
    THEN n
    ELSE [n EXCEPT !.pending = TRUE, !.requested = TRUE]

SchedulePreferredRecovery(n) ==
    IF n.active \in {"None", n.preferred} \/ ~Verified(n, n.preferred)
    THEN n
    ELSE [n EXCEPT !.recovery = TRUE]

\* The branches of reevaluate() that open the gate for the route check alone.
VerifyTor(n) ==
    IF n.pending THEN n
    ELSE RequestTorVerification(ApplyGatewayPolicy(Block(n, "VerifyingTor")))

\* Mutants: the policy is not refreshed; the preferred network is taken back
\* the moment it is verified.
KeepActiveStalePolicy(n) ==
    IF n.active # n.preferred /\ Verified(n, n.preferred)
    THEN SchedulePreferredRecovery(n) ELSE n

KeepActiveNoCooldown(n) ==
    IF n.active # n.preferred /\ Verified(n, n.preferred)
    THEN Activate(Block(n, "SwitchingTorToI2p"), n.preferred)
    ELSE ApplyGatewayPolicy(n)

\* The active network is still verified: refresh the policy, and look after
\* the network the user prefers.
KeepActive(n) ==
    LET m == ApplyGatewayPolicy(n)
    IN  IF m.active = m.preferred THEN m
        ELSE IF Verified(m, m.preferred) THEN SchedulePreferredRecovery(m)
        ELSE IF m.preferred = "Tor" THEN RequestTorVerification(m)
        ELSE m

AfterTorLoss(n) ==
    IF n.i2p.verified THEN Activate(n, "I2p")
    ELSE IF n.i2p.failed THEN Block(n, "NoPrivateRoute")
    ELSE Block(n, "SwitchingTorToI2p")

AfterI2pLoss(n) ==
    IF n.tor.verified THEN Activate(n, "Tor")
    ELSE IF n.tor.ready THEN VerifyTor(n)
    ELSE IF n.tor.failed THEN Block(n, "NoPrivateRoute")
    ELSE Block(n, "SwitchingI2pToTor")

PreferTor(n) ==
    IF n.tor.verified THEN Activate(n, "Tor")
    ELSE IF n.tor.ready THEN VerifyTor(n)
    ELSE IF n.tor.failed /\ n.i2p.verified
         THEN Activate([n EXCEPT !.failoverFrom = "Tor"], "I2p")
    ELSE IF n.tor.failed /\ n.i2p.failed THEN Block(n, "NoPrivateRoute")
    ELSE Block(n, "StartingTor")

PreferI2p(n) ==
    IF n.i2p.verified THEN RequestTorVerification(Activate(n, "I2p"))
    ELSE IF n.i2p.failed /\ n.tor.verified
         THEN Activate([n EXCEPT !.failoverFrom = "I2p"], "Tor")
    ELSE IF n.i2p.failed /\ n.tor.ready THEN VerifyTor(n)
    ELSE IF n.i2p.failed /\ n.tor.failed THEN Block(n, "NoPrivateRoute")
    ELSE Block(n, IF n.i2p.proxy THEN "VerifyingI2p" ELSE "StartingI2p")

Reevaluate(n) ==
    IF ~n.started \/ n.stopping THEN n
    ELSE IF Verified(n, n.active) THEN KeepActive(n)
    ELSE IF n.failoverFrom = "Tor" THEN AfterTorLoss(n)
    ELSE IF n.failoverFrom = "I2p" THEN AfterI2pLoss(n)
    ELSE IF n.preferred = "Tor" THEN PreferTor(n)
    ELSE PreferI2p(n)

\* updateTorStatus(): s is the status the Tor manager reports.
UpdateTorStatus(n, s) ==
    LET settled == ~s.ready \/ s.failed \/ s.verified
        m == [n EXCEPT !.tor = s,
                       !.pending = n.pending /\ ~settled,
                       !.failures["Tor"] = IF s.verified THEN 0 ELSE @]
        lost == n.tor.verified /\ ~s.verified /\ n.active = "Tor"
    IN  Reevaluate(IF lost
                   THEN Block([m EXCEPT !.failoverFrom = "Tor"], "SwitchingTorToI2p")
                   ELSE m)

UpdateI2pStatus(n, s) ==
    LET m == [n EXCEPT !.i2p = s,
                       !.failures["I2p"] = IF s.verified THEN 0 ELSE @]
        lost == n.i2p.verified /\ ~s.verified /\ n.active = "I2p"
    IN  Reevaluate(IF lost
                   THEN Block([m EXCEPT !.failoverFrom = "I2p"], "SwitchingI2pToTor")
                   ELSE m)

\* handleBackendFailure(): the last of FailureThreshold failures in a row
\* reports the route lost to the Tor manager, whose setBrowserRouteFailed()
\* answers with a failed status, or restarts i2pd, which reports it stopped.
CountBackendFailure(n, network) ==
    [n EXCEPT !.failures[network] = (@ + 1) % FailureThreshold]

RouteFailureDetected(n, network) ==
    n.failures[network] + 1 = FailureThreshold /\ Verified(n, network)

TorRouteFailed(n) ==
    [n.tor EXCEPT !.ready = FALSE, !.verified = FALSE, !.failed = TRUE]

HandleBackendFailure(n, network) ==
    LET m == CountBackendFailure(n, network)
    IN  IF ~RouteFailureDetected(n, network) THEN m
        ELSE IF network = "Tor" THEN UpdateTorStatus(m, TorRouteFailed(m))
        ELSE UpdateI2pStatus(m, I2pDown)

-----------------------------------------------------------------------------
(* Initial state *)

Init ==
    net = [listening    |-> FALSE,
           started      |-> FALSE,
           stopping     |-> FALSE,
           preferred    |-> "Tor",
           active       |-> "None",
           state        |-> "Blocked",
           allowed      |-> FALSE,
           tor          |-> NoTor,
           i2p          |-> I2pDown,
           failoverFrom |-> "None",
           pending      |-> FALSE,
           requested    |-> FALSE,
           recovery     |-> FALSE,
           failures     |-> [network \in {"Tor", "I2p"} |-> 0],
           policy       |-> BlockingPolicy,
           sessions     |-> FreeAll]

\* The manager at the start of a slot: no verification requested in it yet.
Now == [net EXCEPT !.requested = FALSE]

-----------------------------------------------------------------------------
(* Slots of the manager *)

InitializeGateway ==
    /\ ~net.listening
    /\ ~net.stopping
    /\ net' = BlockAll([Now EXCEPT !.listening = TRUE])

\* start() also starts the bundled i2pd, which reports that it is starting or,
\* when it cannot be, that it failed.
Start(preferred, report) ==
    /\ net.listening
    /\ ~net.started
    /\ LET n == Block([Now EXCEPT !.started = TRUE, !.stopping = FALSE,
                                  !.preferred = preferred],
                      IF preferred = "Tor" THEN "StartingTor" ELSE "StartingI2p")
       IN  net' = UpdateI2pStatus(n, report)

SetPreferredNetwork(preferred) ==
    /\ net.listening
    /\ ~(preferred = net.preferred /\ net.started)
    /\ net' = Reevaluate(BlockAll([Now EXCEPT !.preferred = preferred,
                                             !.recovery = FALSE,
                                             !.failoverFrom = "None",
                                             !.pending = FALSE,
                                             !.active = "None",
                                             !.allowed = FALSE]))

TorStatusChanged(s) == net' = UpdateTorStatus(Now, s)

I2pStatusChanged(s) == net' = UpdateI2pStatus(Now, s)

\* Mutants: the network that was lost before is still avoided; the gate is not
\* blocked between the two networks.
RecoveryTimeoutKeepsFailover ==
    /\ net.recovery
    /\ LET n == [Now EXCEPT !.recovery = FALSE]
       IN  net' = IF ~Verified(n, n.preferred) THEN n
                  ELSE Reevaluate(Block(n, "SwitchingI2pToTor"))

RecoveryTimeoutWithoutBlock ==
    /\ net.recovery
    /\ LET n == [Now EXCEPT !.recovery = FALSE]
       IN  net' = IF ~Verified(n, n.preferred) THEN n
                  ELSE Activate([n EXCEPT !.failoverFrom = "None"], n.preferred)

\* The single-shot preferred-recovery timer fires.
RecoveryTimeout ==
    /\ net.recovery
    /\ LET n == [Now EXCEPT !.recovery = FALSE]
       IN  net' = IF \/ ~n.started
                    \/ n.stopping
                    \/ n.active = n.preferred
                    \/ ~Verified(n, n.preferred)
                  THEN n
                  ELSE Reevaluate(Block([n EXCEPT !.failoverFrom = "None"],
                                        IF n.active = "Tor" THEN "SwitchingTorToI2p"
                                        ELSE "SwitchingI2pToTor"))

\* stop() blocks the gate, stops i2pd (which reports it) and closes the gateway.
Stop ==
    /\ ~net.stopping
    /\ LET n == Block([Now EXCEPT !.stopping = TRUE], "Stopping")
       IN  net' = [UpdateI2pStatus(n, I2pDown) EXCEPT !.sessions = FreeAll,
                                                      !.listening = FALSE,
                                                      !.allowed = FALSE,
                                                      !.active = "None"]

-----------------------------------------------------------------------------
(* What the gateway's sessions do to the manager.  GatewaySession has the   *)
(* handshake itself.                                                        *)

\* A CONNECT request is routed under the policy of the moment, or refused.
OpenSession(c, h) ==
    /\ net.listening
    /\ net.sessions[c] = Free
    /\ RouteFor(net.policy, h) # NoRoute
    /\ net' = [Now EXCEPT !.sessions[c] = [host |-> h, route |-> RouteFor(net.policy, h)]]

\* The backend accepts the CONNECT: its failures start again from zero.
EstablishTunnel(c) ==
    /\ net.sessions[c] # Free
    /\ net' = [Now EXCEPT !.failures[net.sessions[c].route.network] = 0]

CloseSession(c) ==
    /\ net.sessions[c] # Free
    /\ net' = [Now EXCEPT !.sessions[c] = Free]

\* The backend refuses, drops or stalls the handshake of a session.
FailSession(c) ==
    /\ net.sessions[c] # Free
    /\ net' = [HandleBackendFailure(Now, net.sessions[c].route.network)
                 EXCEPT !.sessions[c] = Free]

-----------------------------------------------------------------------------

Next ==
    \/ InitializeGateway
    \/ \E preferred \in {"Tor", "I2p"} :
          \/ SetPreferredNetwork(preferred)
          \/ \E report \in {I2pDown, I2pFailed} : Start(preferred, report)
    \/ \E s \in TorStatuses : TorStatusChanged(s)
    \/ \E s \in I2pStatuses : I2pStatusChanged(s)
    \/ RecoveryTimeout
    \/ Stop
    \/ \E c \in Conns :
          \/ \E h \in Hosts : OpenSession(c, h)
          \/ EstablishTunnel(c)
          \/ CloseSession(c)
          \/ FailSession(c)

Spec == Init /\ [][Next]_net

\* A running QTimer fires, and the I2P manager's health probe, which runs at
\* least every 20 seconds, reports the status again even when it is unchanged.
HealthReport == /\ net.i2p.proxy \/ net.i2p.verified
                /\ I2pStatusChanged(net.i2p)

Fairness == WF_net(RecoveryTimeout) /\ WF_net(HealthReport)

FairSpec == Spec /\ Fairness

-----------------------------------------------------------------------------
(* Safety *)

Idle == \A c \in Conns : net.sessions[c] = Free

\* The status the browser's navigation check reads and the policy the gateway
\* routes by never disagree: the gate is open exactly when a network is active,
\* the active network is verified now (not when it was chosen), and the gateway
\* holds that network, the current Tor endpoint and no Tor verification the
\* manager does not have.
GateFollowsVerification ==
    /\ net.allowed <=> net.active # "None"
    /\ net.active # "None" => Verified(net, net.active)
    /\ net.policy.active = net.active
    /\ net.policy.torVerified =>
         net.tor.verified /\ net.policy.torEndpoint = net.tor.endpoint
    /\ net.policy.torReady => net.tor.ready
    /\ net.active = "I2p" => net.policy.i2pVerified

\* Whatever sequence of losses, recoveries and preference changes closed and
\* reopened the gate, a live session is one the current policy would route the
\* same way, so no session is left on a backend the policy has moved away from.
SessionsFollowPolicy ==
    \A c \in Conns : net.sessions[c] # Free =>
        RouteFor(net.policy, net.sessions[c].host) = net.sessions[c].route

\* The destination rules of the documentation, as seen from the sessions that
\* are open: clearnet only while Tor is active and verified, .onion only while
\* Tor is verified, the Tor check over a ready transport, and nothing but
\* .i2p on I2P.
DestinationRules ==
    \A c \in Conns : LET s == net.sessions[c] IN s # Free =>
        /\ s.host = "clearnet" => net.active = "Tor" /\ net.tor.verified
        /\ s.host = "onion" => net.tor.verified
        /\ s.host = "check" => net.tor.ready
        /\ s.host = "i2p" <=> s.route.network = "I2p"

\* While the state says a Tor verification is under way, one really is: it was
\* requested, is unanswered, and the gateway lets the check through.  The
\* recovery timer only runs while traffic is on the network not preferred.
VerifyingMeansProbing ==
    /\ net.state = "VerifyingTor" =>
         net.pending /\ RouteFor(net.policy, "check").network = "Tor"
    /\ net.requested => net.pending /\ RouteFor(net.policy, "check").network = "Tor"
    /\ net.pending => net.tor.ready /\ ~net.tor.verified
    /\ net.recovery => net.active \notin {"None", net.preferred}

\* When the gate is closed and no verification is under way, no session lives.
ClosedGateIsSilent ==
    net.active = "None" /\ net.state # "VerifyingTor" => Idle

-----------------------------------------------------------------------------
(* Action properties *)

\* A session never outlives the network that was active when it was open: any
\* step that leaves the active network, by loss, switch-back, preference or
\* shutdown, ends with every session closed.
NoSessionSurvivesASwitch ==
    [][net.active # "None" /\ net'.active # net.active =>
        \A c \in Conns : net'.sessions[c] = Free]_net

\* The cooldown: traffic leaves a network that is still verified only when the
\* recovery timer was running, or because the user changed the preference or
\* the browser stops.
CooldownBeforeSwitchBack ==
    [][/\ net.active # "None"
       /\ net'.active # net.active
       /\ Verified(net', net.active)
       /\ net'.preferred = net.preferred
       /\ ~net'.stopping
       => net.recovery]_net

-----------------------------------------------------------------------------
(* Refinement *)

\* The manager and its gateway implement the gate: whatever a slot does to the
\* policy on the way, a session is opened under the policy of the moment, and
\* one that survives the slot is routed by the policy the slot ends with.
Gate == INSTANCE RouteGate WITH policy <- net.policy, tunnels <- net.sessions

ImplementsRouteGate == Gate!Spec

-----------------------------------------------------------------------------
(* Liveness *)

\* Once the preferred network is verified for good and traffic is flowing,
\* traffic ends up on the preferred network.
PreferredRestored ==
    <>[](/\ net.started
         /\ ~net.stopping
         /\ net.active # "None"
         /\ Verified(net, net.preferred))
    => <>[](net.active = net.preferred)

=============================================================================
