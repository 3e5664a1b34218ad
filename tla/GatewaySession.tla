--------------------------- MODULE GatewaySession ---------------------------
(***************************************************************************)
(* The sessions of the loopback gateway                                    *)
(* (granger/network/PrivateRouteGateway.cpp): the SOCKS5 handshake with    *)
(* the client, the handshake with the Tor or I2P backend, the timeout over *)
(* both, and what a change of policy does to a session at each stage.      *)
(*                                                                         *)
(* Everything runs on the Qt main thread: one event of one socket or timer *)
(* is one action.  A failure is reported to the manager from inside the    *)
(* event, and the manager may install a policy, and so close sessions, the *)
(* failing one included, before the event goes on.                         *)
(*                                                                         *)
(* The bytes of the handshake are abstracted to what a read completes: a   *)
(* greeting, a request for a host, a reply; the relayed data is left out.  *)
(***************************************************************************)
EXTENDS Naturals, FiniteSets, GatewayPolicy

CONSTANTS
    Conns,                      \* client connections
    MaximumActiveConnections,   \* sessions the gateway keeps (256)
    FailureThreshold,           \* failures that count as a lost route (3)
    RemoteEndpoints             \* the Tor endpoints that are not on loopback

ASSUME SessionBounds ==
    /\ MaximumActiveConnections \in Nat
    /\ FailureThreshold \in Nat \ {0}
    /\ RemoteEndpoints \subseteq TorEndpoints

VARIABLE gw     \* the gateway's policy and sessions, the failures counted

-----------------------------------------------------------------------------
(* Types *)

\* "Absent": no session.  The others are GatewaySession::State.
States == {"Absent", "ClientGreeting", "ClientRequest", "UpstreamConnecting",
           "UpstreamGreeting", "UpstreamReply", "Relaying", "Closed"}

HandshakeStates == {"ClientGreeting", "ClientRequest", "UpstreamConnecting",
                    "UpstreamGreeting", "UpstreamReply"}

UpstreamHandshake == {"UpstreamConnecting", "UpstreamGreeting", "UpstreamReply"}

\* client, upstream: the socket is open.  doomed: deleteLater() was called.
\* listed: the session is in m_sessions.  counted: failures it has reported.
SessionRecords == [state    : States,
                   host     : Hosts,
                   route    : Routes,
                   client   : BOOLEAN,
                   upstream : BOOLEAN,
                   timer    : BOOLEAN,
                   doomed   : BOOLEAN,
                   listed   : BOOLEAN,
                   counted  : 0 .. 2]

Absent == [state |-> "Absent", host |-> "clearnet", route |-> NoRoute,
           client |-> FALSE, upstream |-> FALSE, timer |-> FALSE,
           doomed |-> FALSE, listed |-> FALSE, counted |-> 0]

Accepted == [Absent EXCEPT !.state = "ClientGreeting", !.client = TRUE,
                           !.timer = TRUE, !.listed = TRUE]

Gateways == [policy   : Policies,
             sessions : [Conns -> SessionRecords],
             failures : [{"Tor", "I2p"} -> 0 .. FailureThreshold - 1]]

TypeOK == gw \in Gateways

\* The policies PrivacyNetworkManager::applyGatewayPolicy() builds.
ManagerPolicies ==
    {p \in Policies :
        /\ p.torVerified => p.torReady
        /\ p.torReady => p.torEndpoint # NoEndpoint
        /\ p.active = "Tor" => p.torVerified
        /\ p.active = "I2p" => p.i2pVerified
        /\ p.probes = IF p.torReady /\ ~p.torVerified THEN {"check"} ELSE {}
        /\ ~p.i2pClearnet}

-----------------------------------------------------------------------------
(* Closing *)

CloseNow(s) == [s EXCEPT !.timer = FALSE, !.client = FALSE, !.upstream = FALSE,
                         !.doomed = TRUE]

CloseAfterWrite(s) ==
    IF s.state = "Closed" THEN s
    ELSE [s EXCEPT !.state = "Closed", !.timer = FALSE, !.upstream = FALSE]

Unlisted(s) == [CloseNow(s) EXCEPT !.listed = FALSE]

\* Mutant: the list is emptied without closing what is in it.
CloseActiveConnectionsUnclosed(g) ==
    [g EXCEPT !.sessions = [c \in Conns |-> [g.sessions[c] EXCEPT !.listed = FALSE]]]

CloseActiveConnections(g) ==
    [g EXCEPT !.sessions =
        [c \in Conns |-> IF g.sessions[c].listed THEN Unlisted(g.sessions[c])
                         ELSE g.sessions[c]]]

BlockAll(g) == [CloseActiveConnections(g) EXCEPT !.policy = BlockingPolicy]

\* Mutant: only sessions that relay are looked at.
MisroutedRelaysOnly(p, s) ==
    /\ s.listed
    /\ s.state = "Relaying"
    /\ RouteFor(p, s.host) # s.route

\* A session whose route is resolved, and that p routes elsewhere or nowhere.
Misrouted(p, s) ==
    /\ s.listed
    /\ s.route # NoRoute
    /\ RouteFor(p, s.host) # s.route

SetPolicy(g, p) ==
    IF p = g.policy THEN g
    ELSE [g EXCEPT !.policy = p,
                   !.sessions = [c \in Conns |->
                       IF Misrouted(p, g.sessions[c]) THEN Unlisted(g.sessions[c])
                       ELSE g.sessions[c]]]

-----------------------------------------------------------------------------
(* Failures *)

\* The manager's answer to the last of FailureThreshold failures of a network that
\* it takes for verified: a policy without that network, installed over a gate it
\* may have blocked first.  The answer to the others is nothing.  What the manager
\* takes for verified may be out of step with the policy, so either may come.
Answers(g, network) ==
    IF g.failures[network] + 1 < FailureThreshold THEN {g}
    ELSE LET policies == {p \in ManagerPolicies :
                            IF network = "Tor" THEN ~p.torReady ELSE ~p.i2pVerified}
         IN  {g} \cup UNION {{SetPolicy(g, p), SetPolicy(BlockAll(g), p)} : p \in policies}

\* The states after session c has reported a failure of its backend.
ReportFailure(g, c) ==
    LET network == g.sessions[c].route.network
    IN  {[a EXCEPT !.failures[network] = (@ + 1) % FailureThreshold,
                   !.sessions[c].counted = @ + 1] : a \in Answers(g, network)}

\* fail(): a session that is already closed has nothing left to fail.
Fail(g, c) == [g EXCEPT !.sessions[c] = CloseAfterWrite(@)]

FailBackend(g, c) ==
    IF g.sessions[c].state = "Closed" \/ g.sessions[c].route = NoRoute
    THEN {Fail(g, c)}
    ELSE {Fail(r, c) : r \in ReportFailure(g, c)}

-----------------------------------------------------------------------------
(* Initial state and events *)

Init ==
    gw = [policy   |-> BlockingPolicy,
          sessions |-> [c \in Conns |-> Absent],
          failures |-> [network \in {"Tor", "I2p"} |-> 0]]

Listed(g) == {c \in Conns : g.sessions[c].listed}

\* Mutant: one session too many.
AcceptOneMore(c) ==
    /\ gw.sessions[c] = Absent
    /\ Cardinality(Listed(gw)) <= MaximumActiveConnections
    /\ gw' = [gw EXCEPT !.sessions[c] = Accepted]

\* A connection beyond the cap is aborted, and leaves no session.
Accept(c) ==
    /\ gw.sessions[c] = Absent
    /\ Cardinality(Listed(gw)) < MaximumActiveConnections
    /\ gw' = [gw EXCEPT !.sessions[c] = Accepted]

\* Mutant: the handshake timer is stopped once the request is understood.
ResolveStopsTimer(g, c, h) ==
    LET route == RouteFor(g.policy, h)
    IN  IF route = NoRoute \/ route.endpoint \in RemoteEndpoints
        THEN Fail(g, c)
        ELSE [g EXCEPT !.sessions[c] =
                 [@ EXCEPT !.state = "UpstreamConnecting", !.timer = FALSE,
                           !.host = h, !.route = route, !.upstream = TRUE]]

\* The CONNECT request of session c, complete and well-formed, for host h.
Resolve(g, c, h) ==
    LET route == RouteFor(g.policy, h)
    IN  IF route = NoRoute \/ route.endpoint \in RemoteEndpoints
        THEN Fail(g, c)
        ELSE [g EXCEPT !.sessions[c] =
                 [@ EXCEPT !.state = "UpstreamConnecting", !.host = h,
                           !.route = route, !.upstream = TRUE]]

\* A read that completes the greeting, and the request too when it came along.
ReadGreeting(c) ==
    /\ gw.sessions[c].state = "ClientGreeting"
    /\ gw.sessions[c].client
    /\ LET g == [gw EXCEPT !.sessions[c].state = "ClientRequest"]
       IN  \/ gw' = g
           \/ \E h \in Hosts : gw' = Resolve(g, c, h)

ReadRequest(c, h) ==
    /\ gw.sessions[c].state = "ClientRequest"
    /\ gw.sessions[c].client
    /\ gw' = Resolve(gw, c, h)

\* No method the gateway supports, a command or an address type it does not,
\* or more bytes than its buffer takes.
RefuseClient(c) ==
    /\ gw.sessions[c].state \in HandshakeStates
    /\ gw.sessions[c].client
    /\ gw' = Fail(gw, c)

UpstreamConnected(c) ==
    /\ gw.sessions[c].state = "UpstreamConnecting"
    /\ gw.sessions[c].upstream
    /\ gw' = [gw EXCEPT !.sessions[c].state = "UpstreamGreeting"]

\* The backend's reply: the tunnel is open, and its network's failures start
\* again from zero; or the destination is refused, which is no failure.
Reply(g, c) ==
    {[g EXCEPT !.sessions[c] = [@ EXCEPT !.state = "Relaying", !.timer = FALSE],
               !.failures[g.sessions[c].route.network] = 0],
     Fail(g, c)}

ReadUpstreamGreeting(c) ==
    /\ gw.sessions[c].state = "UpstreamGreeting"
    /\ gw.sessions[c].upstream
    /\ LET g == [gw EXCEPT !.sessions[c].state = "UpstreamReply"]
       IN  gw' \in {g} \cup Reply(g, c) \cup FailBackend(gw, c)

ReadUpstreamReply(c) ==
    /\ gw.sessions[c].state = "UpstreamReply"
    /\ gw.sessions[c].upstream
    /\ gw' \in Reply(gw, c) \cup FailBackend(gw, c)

\* Mutant: a socket error reports the failure twice.
UpstreamErrorTwice(c) ==
    /\ gw.sessions[c].upstream
    /\ IF gw.sessions[c].state = "Relaying" THEN gw' = Fail(gw, c)
       ELSE \E r \in ReportFailure(gw, c) : gw' \in FailBackend(r, c)

\* Mutant: a tunnel that ends counts as a failure of the backend.
UpstreamErrorAlways(c) ==
    /\ gw.sessions[c].upstream
    /\ gw' \in FailBackend(gw, c)

\* The backend refuses, resets or closes the connection.
UpstreamError(c) ==
    /\ gw.sessions[c].upstream
    /\ gw' \in IF gw.sessions[c].state = "Relaying" THEN {Fail(gw, c)}
               ELSE FailBackend(gw, c)

\* The 15 seconds of the handshake are over.
Timeout(c) ==
    /\ gw.sessions[c].timer
    /\ gw' \in FailBackend([gw EXCEPT !.sessions[c].timer = FALSE], c)

\* The client hangs up: a tunnel closes at once, an earlier session is deleted
\* with its upstream socket.
ClientDisconnected(c) ==
    /\ gw.sessions[c].client
    /\ gw' = [gw EXCEPT !.sessions[c] =
                 IF @.state = "Relaying" THEN CloseNow(@)
                 ELSE [@ EXCEPT !.client = FALSE, !.doomed = TRUE]]

\* The 50 milliseconds a closed session keeps its client are over.
LingerTimeout(c) ==
    /\ gw.sessions[c].state = "Closed"
    /\ ~gw.sessions[c].doomed
    /\ gw' = [gw EXCEPT !.sessions[c] = CloseNow(@)]

\* The deferred delete of a session, which also takes it off the list.
Destroy(c) ==
    /\ gw.sessions[c].doomed
    /\ gw' = [gw EXCEPT !.sessions[c] = Absent]

\* The manager blocks the gate, installs a policy, or both.  A report that a
\* network is verified clears its failures.
Block == gw' = BlockAll(gw)

InstallPolicy(p, reported) ==
    /\ reported = "Tor" => p.torVerified
    /\ reported = "I2p" => p.i2pVerified
    /\ \E g \in {gw, BlockAll(gw)} :
          gw' = [SetPolicy(g, p) EXCEPT !.failures =
                    [network \in {"Tor", "I2p"} |->
                       IF network = reported THEN 0 ELSE g.failures[network]]]

-----------------------------------------------------------------------------

Next ==
    \/ \E c \in Conns :
          \/ Accept(c)
          \/ ReadGreeting(c)
          \/ \E h \in Hosts : ReadRequest(c, h)
          \/ RefuseClient(c)
          \/ UpstreamConnected(c)
          \/ ReadUpstreamGreeting(c)
          \/ ReadUpstreamReply(c)
          \/ UpstreamError(c)
          \/ Timeout(c)
          \/ ClientDisconnected(c)
          \/ LingerTimeout(c)
          \/ Destroy(c)
    \/ Block
    \/ \E p \in ManagerPolicies, reported \in Networks : InstallPolicy(p, reported)

Spec == Init /\ [][Next]_gw

\* Timers fire, and the event loop deletes what it was asked to delete.  No
\* fairness of the client, the backend or the manager.
Fairness == \A c \in Conns :
    WF_gw(Timeout(c)) /\ WF_gw(LingerTimeout(c)) /\ WF_gw(Destroy(c))

FairSpec == Spec /\ Fairness

-----------------------------------------------------------------------------
(* Properties *)

\* A session that still has a socket is in m_sessions, where the next change of
\* policy finds it, and the list never outgrows the cap.
NoOrphans ==
    /\ TypeOK
    /\ \A c \in Conns :
          gw.sessions[c].client \/ gw.sessions[c].upstream => gw.sessions[c].listed
    /\ Cardinality(Listed(gw)) <= MaximumActiveConnections

\* A session reports at most one failure, however its sockets, its timer and the
\* manager's answer interleave, and only while it waits for a backend it is still
\* connected or connecting to: three failures are three sessions, none of which a
\* change of policy or the destination had ended, nor a tunnel that was open.  One
\* whose client has hung up may still report, until its deferred delete comes.
OnlyWaitingSessionsFail ==
    [][\A c \in Conns : gw'.sessions[c].counted > gw.sessions[c].counted =>
          /\ gw.sessions[c].state \in UpstreamHandshake
          /\ gw.sessions[c].upstream /\ gw.sessions[c].listed
          /\ gw'.sessions[c].counted = 1]_gw

\* Whatever the client and the backend do, or fail to do, a handshake ends: the
\* session relays or is gone.
HandshakesEnd ==
    \A c \in Conns : gw.sessions[c].state \in HandshakeStates \cup {"Closed"}
        ~> gw.sessions[c].state \in {"Absent", "Relaying"}

\* The sessions implement the gate: a tunnel is an open upstream socket.
Tunnel(s) == [host |-> IF s.upstream THEN s.host ELSE "clearnet",
              route |-> IF s.upstream THEN s.route ELSE NoRoute]

Gate == INSTANCE RouteGate WITH policy <- gw.policy,
                                tunnels <- [c \in Conns |-> Tunnel(gw.sessions[c])]

ImplementsRouteGate == Gate!Spec

=============================================================================
