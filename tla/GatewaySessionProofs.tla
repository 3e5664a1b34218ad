------------------------ MODULE GatewaySessionProofs ------------------------
(***************************************************************************)
(* Theorems about GatewaySession, for every set of connections, every cap  *)
(* on them, every threshold and every set of Tor endpoints: sessions with  *)
(* sockets are in the list, a session reports its backend at most once and *)
(* only while it waits for it, and the sessions implement RouteGate.       *)
(*                                                                         *)
(* An event is a chain of calls: an action is shown to be a Step by what   *)
(* each call leaves true of the sessions and of the policy.                *)
(***************************************************************************)
EXTENDS GatewaySession, FiniteSetTheorems, TLAPS

\* What holds of one session whatever the policy: the stage of the handshake tells
\* whether there is a route, a backend socket, a running timer or a failure on record.
Staged(s) ==
    /\ s.client \/ s.upstream => s.listed
    /\ s.upstream => s.state \in UpstreamHandshake \cup {"Relaying"}
    /\ s.state \in UpstreamHandshake \cup {"Relaying"} => s.route # NoRoute
    /\ s.route # NoRoute => /\ s.state \in UpstreamHandshake \cup {"Relaying", "Closed"}
                            /\ s.route.network \in {"Tor", "I2p"}
    /\ s.timer => s.state \in HandshakeStates
    /\ s.timer /\ s.state \in UpstreamHandshake => s.upstream
    /\ s.counted \in {0, 1}
    /\ s.counted = 1 => s.state = "Closed"

\* A session with a backend socket is routed by the policy.
Routable(p, s) == s.upstream => RouteFor(p, s.host) = s.route

Capped(g) ==
    /\ IsFiniteSet(Listed(g))
    /\ Cardinality(Listed(g)) <= MaximumActiveConnections

Sound(g) ==
    /\ g \in Gateways
    /\ \A c \in Conns : Staged(g.sessions[c]) /\ Routable(g.policy, g.sessions[c])
    /\ Capped(g)

IInv == Sound(gw)

-----------------------------------------------------------------------------
(* What a step may do to the sessions                                      *)

\* No tunnel is opened, moved or sent elsewhere.
Kept(g, a) ==
    \A d \in Conns : a.sessions[d].upstream =>
        /\ g.sessions[d].upstream
        /\ a.sessions[d].host = g.sessions[d].host
        /\ a.sessions[d].route = g.sessions[d].route

\* Failures are charged once, to sessions that wait for their backend.
Charged(g, a) ==
    \A d \in Conns : a.sessions[d].counted > g.sessions[d].counted =>
        /\ g.sessions[d].state \in UpstreamHandshake
        /\ g.sessions[d].upstream
        /\ a.sessions[d].counted = 1

Step(g, a) == Sound(a) /\ Kept(g, a) /\ Charged(g, a)

\* What a change of policy does: it closes, and touches nothing else.
Closes(g, a) ==
    /\ Sound(a)
    /\ a.failures = g.failures
    /\ \A d \in Conns :
          /\ a.sessions[d].state = g.sessions[d].state
          /\ a.sessions[d].host = g.sessions[d].host
          /\ a.sessions[d].route = g.sessions[d].route
          /\ a.sessions[d].counted = g.sessions[d].counted
          /\ a.sessions[d].upstream => g.sessions[d].upstream

-----------------------------------------------------------------------------
(* Routes and the list                                                     *)

LEMMA RouteLemma ==
    ASSUME NEW p \in Policies, NEW h \in Hosts
    PROVE  /\ RouteFor(p, h) \in Routes
           /\ RouteFor(p, h) # NoRoute => RouteFor(p, h).network \in {"Tor", "I2p"}
  BY DEF RouteFor, Routes, NoRoute, TorRoute, I2pRoute, Policies, Networks

LEMMA BlockingLemma == BlockingPolicy \in Policies
  BY DEF BlockingPolicy, Policies, Networks

\* A list that only loses sessions stays within the cap.
LEMMA CapLemma ==
    ASSUME NEW g, NEW a, Capped(g), g \in Gateways, a \in Gateways,
           \A d \in Conns : a.sessions[d].listed => g.sessions[d].listed
    PROVE  Capped(a)
  <1>1. Listed(a) \in SUBSET Listed(g)
    BY DEF Listed
  <1>2. /\ IsFiniteSet(Listed(a))
        /\ Cardinality(Listed(a)) <= Cardinality(Listed(g))
    BY <1>1, FS_Subset DEF Capped
  <1>3. Cardinality(Listed(a)) \in Nat /\ Cardinality(Listed(g)) \in Nat
    BY <1>2, FS_CardinalityType DEF Capped
  <1> QED BY <1>2, <1>3, SessionBounds DEF Capped

\* One session changes, and none enters the list.
LEMMA OneLemma ==
    ASSUME NEW g, NEW a, NEW c \in Conns, Sound(g), a \in Gateways,
           a.policy = g.policy,
           \A d \in Conns \ {c} : a.sessions[d] = g.sessions[d],
           Staged(a.sessions[c]), Routable(g.policy, a.sessions[c]),
           a.sessions[c].listed => g.sessions[c].listed
    PROVE  Sound(a)
  <1>1. \A d \in Conns : a.sessions[d].listed => g.sessions[d].listed
    OBVIOUS
  <1>2. Capped(a)
    BY <1>1, CapLemma DEF Sound
  <1> QED BY <1>2 DEF Sound

-----------------------------------------------------------------------------
(* Closing                                                                 *)

LEMMA UnlistedLemma ==
    ASSUME NEW s \in SessionRecords, Staged(s)
    PROVE  /\ Unlisted(s) \in SessionRecords /\ Staged(Unlisted(s))
           /\ ~Unlisted(s).upstream /\ ~Unlisted(s).listed
           /\ Unlisted(s).state = s.state /\ Unlisted(s).host = s.host
           /\ Unlisted(s).route = s.route /\ Unlisted(s).counted = s.counted
  BY DEF Unlisted, CloseNow, SessionRecords, Staged

LEMMA CloseNowLemma ==
    ASSUME NEW s \in SessionRecords, Staged(s)
    PROVE  /\ CloseNow(s) \in SessionRecords /\ Staged(CloseNow(s))
           /\ ~CloseNow(s).upstream /\ CloseNow(s).listed = s.listed
           /\ CloseNow(s).counted = s.counted
  BY DEF CloseNow, SessionRecords, Staged

LEMMA CloseAfterWriteLemma ==
    ASSUME NEW s \in SessionRecords, Staged(s)
    PROVE  /\ CloseAfterWrite(s) \in SessionRecords /\ Staged(CloseAfterWrite(s))
           /\ ~CloseAfterWrite(s).upstream /\ CloseAfterWrite(s).listed = s.listed
           /\ CloseAfterWrite(s).counted = s.counted
  <1>1. CASE s.state = "Closed"
    BY <1>1 DEF CloseAfterWrite, Staged, UpstreamHandshake
  <1>2. CASE s.state # "Closed"
    BY <1>2 DEF CloseAfterWrite, Staged, SessionRecords, States, UpstreamHandshake
  <1> QED BY <1>1, <1>2

LEMMA BlockLemma ==
    ASSUME NEW g, Sound(g)
    PROVE  Closes(g, BlockAll(g))
  <1> DEFINE f == [c \in Conns |-> IF g.sessions[c].listed THEN Unlisted(g.sessions[c])
                                   ELSE g.sessions[c]]
             a == [[g EXCEPT !.sessions = f] EXCEPT !.policy = BlockingPolicy]
  <1>1. BlockAll(g) = a
    BY DEF BlockAll, CloseActiveConnections
  <1>2. \A d \in Conns :
           /\ f[d] \in SessionRecords /\ Staged(f[d])
           /\ ~f[d].upstream /\ (f[d].listed => g.sessions[d].listed)
           /\ f[d].state = g.sessions[d].state /\ f[d].host = g.sessions[d].host
           /\ f[d].route = g.sessions[d].route /\ f[d].counted = g.sessions[d].counted
    <2>1. \A d \in Conns : g.sessions[d] \in SessionRecords /\ Staged(g.sessions[d])
      BY DEF Sound, Gateways
    <2>2. \A d \in Conns : ~g.sessions[d].listed => ~g.sessions[d].upstream
      BY DEF Sound, Staged
    <2> QED BY <2>1, <2>2, UnlistedLemma
  <1>3. f \in [Conns -> SessionRecords]
    BY <1>2
  <1> HIDE DEF f
  <1>4. /\ a \in Gateways
        /\ a.policy = BlockingPolicy /\ a.sessions = f /\ a.failures = g.failures
    BY <1>3, BlockingLemma DEF Sound, Gateways
  <1> HIDE DEF a
  <1>5. Capped(a)
    BY <1>2, <1>4, CapLemma DEF Sound
  <1>6. Closes(g, a)
    BY <1>2, <1>4, <1>5 DEF Closes, Sound, Routable
  <1> QED BY <1>1, <1>6

LEMMA SetPolicyLemma ==
    ASSUME NEW g, Sound(g), NEW p \in Policies
    PROVE  Closes(g, SetPolicy(g, p))
  <1>1. CASE p = g.policy
    BY <1>1 DEF SetPolicy, Closes
  <1>2. CASE p # g.policy
    <2> DEFINE f == [c \in Conns |-> IF Misrouted(p, g.sessions[c])
                                     THEN Unlisted(g.sessions[c]) ELSE g.sessions[c]]
               a == [g EXCEPT !.policy = p, !.sessions = f]
    <2>1. SetPolicy(g, p) = a
      BY <1>2 DEF SetPolicy
    <2>2. \A d \in Conns :
             /\ f[d] \in SessionRecords /\ Staged(f[d]) /\ Routable(p, f[d])
             /\ f[d].upstream => g.sessions[d].upstream
             /\ f[d].listed => g.sessions[d].listed
             /\ f[d].state = g.sessions[d].state /\ f[d].host = g.sessions[d].host
             /\ f[d].route = g.sessions[d].route /\ f[d].counted = g.sessions[d].counted
      <3>1. \A d \in Conns : g.sessions[d] \in SessionRecords /\ Staged(g.sessions[d])
        BY DEF Sound, Gateways
      <3>2. \A d \in Conns : ~Misrouted(p, g.sessions[d]) => Routable(p, g.sessions[d])
        BY <3>1 DEF Misrouted, Routable, Staged
      <3> QED BY <3>1, <3>2, UnlistedLemma DEF Routable
    <2>3. f \in [Conns -> SessionRecords]
      BY <2>2
    <2> HIDE DEF f
    <2>4. /\ a \in Gateways
          /\ a.policy = p /\ a.sessions = f /\ a.failures = g.failures
      BY <2>3 DEF Sound, Gateways
    <2> HIDE DEF a
    <2>5. Capped(a)
      BY <2>2, <2>4, CapLemma DEF Sound
    <2>6. Closes(g, a)
      BY <2>2, <2>4, <2>5 DEF Closes, Sound
    <2> QED BY <2>1, <2>6
  <1> QED BY <1>1, <1>2

\* A block and then a policy close as much as the two of them.
LEMMA BlockAndSetLemma ==
    ASSUME NEW g, Sound(g), NEW p \in Policies
    PROVE  Closes(g, SetPolicy(BlockAll(g), p))
  <1>1. Closes(g, BlockAll(g))
    BY BlockLemma
  <1>2. Closes(BlockAll(g), SetPolicy(BlockAll(g), p))
    BY <1>1, SetPolicyLemma DEF Closes
  <1> QED BY <1>1, <1>2 DEF Closes

-----------------------------------------------------------------------------
(* Failures                                                                *)

LEMMA AnswerLemma ==
    ASSUME NEW g, Sound(g), NEW network, NEW a \in Answers(g, network)
    PROVE  Closes(g, a)
  <1>1. Closes(g, g)
    BY DEF Closes
  <1>2. ASSUME NEW p \in ManagerPolicies
        PROVE  Closes(g, SetPolicy(g, p)) /\ Closes(g, SetPolicy(BlockAll(g), p))
    BY SetPolicyLemma, BlockAndSetLemma DEF ManagerPolicies
  <1>3. \/ a = g
        \/ \E p \in ManagerPolicies : a \in {SetPolicy(g, p), SetPolicy(BlockAll(g), p)}
    BY DEF Answers
  <1> QED BY <1>1, <1>2, <1>3

\* A session that fails without a report: it keeps its route, and has no backend.
LEMMA FailLemma ==
    ASSUME NEW g, Sound(g), NEW c \in Conns
    PROVE  Step(g, Fail(g, c))
  <1> DEFINE s == CloseAfterWrite(g.sessions[c])
             a == [g EXCEPT !.sessions[c] = s]
  <1>1. g.sessions[c] \in SessionRecords /\ Staged(g.sessions[c])
    BY DEF Sound, Gateways
  <1>2. /\ s \in SessionRecords /\ Staged(s)
        /\ ~s.upstream /\ s.listed = g.sessions[c].listed
        /\ s.counted = g.sessions[c].counted
    BY <1>1, CloseAfterWriteLemma
  <1>3. Fail(g, c) = a
    BY DEF Fail
  <1> HIDE DEF s
  <1>4. /\ a \in Gateways /\ a.policy = g.policy /\ a.sessions[c] = s
        /\ \A d \in Conns \ {c} : a.sessions[d] = g.sessions[d]
    BY <1>2 DEF Sound, Gateways
  <1> HIDE DEF a
  <1>5. Sound(a)
    BY <1>2, <1>4, OneLemma DEF Routable
  <1>6. Kept(g, a)
    BY <1>2, <1>4 DEF Kept
  <1>7. Charged(g, a)
    <2>1. \A d \in Conns : a.sessions[d].counted = g.sessions[d].counted
      BY <1>2, <1>4
    <2>2. \A d \in Conns : g.sessions[d].counted \in {0, 1}
      BY DEF Sound, Staged
    <2> QED BY <2>1, <2>2 DEF Charged
  <1> QED BY <1>3, <1>5, <1>6, <1>7 DEF Step

\* A report: the session ends closed and charged, and the manager's answer has
\* only closed others, or it.
LEMMA ReportLemma ==
    ASSUME NEW g, Sound(g), NEW c \in Conns,
           g.sessions[c].state \in UpstreamHandshake, g.sessions[c].upstream,
           NEW r \in ReportFailure(g, c)
    PROVE  Step(g, Fail(r, c))
  <1> DEFINE network == g.sessions[c].route.network
  <1>1. network \in {"Tor", "I2p"} /\ g.sessions[c].counted = 0
    BY DEF Sound, Staged, UpstreamHandshake
  <1>2. PICK a \in Answers(g, network) :
           r = [a EXCEPT !.failures[network] = (@ + 1) % FailureThreshold,
                         !.sessions[c].counted = @ + 1]
    BY DEF ReportFailure
  <1>3. Closes(g, a)
    BY AnswerLemma
  <1> HIDE DEF network
  <1> DEFINE o == a.sessions[c]
             n == (a.failures[network] + 1) % FailureThreshold
             f == [a.failures EXCEPT ![network] = n]
             u == [o EXCEPT !.counted = @ + 1]
             s == [u EXCEPT !.state = "Closed", !.timer = FALSE, !.upstream = FALSE]
             e == [a EXCEPT !.failures = f, !.sessions[c] = s]
  <1>4. /\ a \in Gateways /\ o \in SessionRecords /\ Staged(o)
        /\ o.counted = 0 /\ o.state \in UpstreamHandshake
    BY <1>1, <1>3 DEF Closes, Sound, Gateways
  <1>5. n \in 0 .. FailureThreshold - 1
    <2>1. a.failures[network] \in Nat /\ FailureThreshold \in Nat \ {0}
      BY <1>1, <1>4, SessionBounds DEF Gateways
    <2> QED BY <2>1
  <1> HIDE DEF n
  <1>6. f \in [{"Tor", "I2p"} -> 0 .. FailureThreshold - 1]
    BY <1>1, <1>4, <1>5 DEF Gateways
  <1>7. r = [a EXCEPT !.failures = f, !.sessions[c] = u]
    BY <1>2 DEF n
  <1> HIDE DEF f
  <1>8. /\ s \in SessionRecords /\ Staged(s) /\ ~s.upstream /\ s.listed = o.listed
        /\ s.counted = 1
        /\ u.state = o.state
    <2> HIDE DEF o
    <2>1. u \in SessionRecords /\ u.counted = 1
      BY <1>4 DEF SessionRecords
    <2>2. /\ u.state = o.state /\ u.listed = o.listed /\ u.client = o.client
          /\ u.route = o.route
      BY <1>4 DEF SessionRecords
    <2> HIDE DEF u
    <2> QED BY <1>4, <2>1, <2>2 DEF SessionRecords, Staged, States, UpstreamHandshake
  <1>9. CloseAfterWrite(u) = s
    BY <1>4, <1>8 DEF CloseAfterWrite, UpstreamHandshake
  <1>10. r.sessions[c] = u
    BY <1>4, <1>7 DEF Gateways
  <1> HIDE DEF u, s, o
  <1>11. Fail(r, c) = e
    BY <1>4, <1>7, <1>9, <1>10 DEF Fail, Gateways
  <1>12. /\ e \in Gateways /\ e.policy = a.policy /\ e.sessions[c] = s
         /\ \A d \in Conns \ {c} : e.sessions[d] = a.sessions[d]
    BY <1>4, <1>6, <1>8 DEF Gateways
  <1> HIDE DEF e
  <1>13. Sound(e)
    BY <1>3, <1>8, <1>12, OneLemma DEF Closes, Routable, o
  <1>14. Kept(g, e)
    BY <1>3, <1>8, <1>12 DEF Kept, Closes
  <1>15. Charged(g, e)
    <2>1. ASSUME NEW d \in Conns, d # c
          PROVE  ~(e.sessions[d].counted > g.sessions[d].counted)
      <3>1. e.sessions[d].counted = g.sessions[d].counted
        BY <1>3, <1>12, <2>1 DEF Closes
      <3>2. g.sessions[d].counted \in {0, 1}
        BY DEF Sound, Staged
      <3> QED BY <3>1, <3>2
    <2> QED BY <1>8, <1>12, <2>1 DEF Charged
  <1> QED BY <1>11, <1>13, <1>14, <1>15 DEF Step

\* A failed backend is charged to a session that waits for it, and to no other.
LEMMA FailBackendLemma ==
    ASSUME NEW g, Sound(g), NEW c \in Conns, g.sessions[c].state # "Relaying",
           g.sessions[c].state \in UpstreamHandshake => g.sessions[c].upstream,
           NEW a \in FailBackend(g, c)
    PROVE  Step(g, a)
  <1>1. CASE g.sessions[c].state = "Closed" \/ g.sessions[c].route = NoRoute
    BY <1>1, FailLemma DEF FailBackend
  <1>2. CASE ~(g.sessions[c].state = "Closed" \/ g.sessions[c].route = NoRoute)
    <2>1. g.sessions[c].state \in UpstreamHandshake
      BY <1>2 DEF Sound, Staged
    <2>2. PICK r \in ReportFailure(g, c) : a = Fail(r, c)
      BY <1>2 DEF FailBackend
    <2> QED BY <2>1, <2>2, ReportLemma
  <1> QED BY <1>1, <1>2

-----------------------------------------------------------------------------
(* The actions                                                             *)

\* A session moves on without opening a tunnel; the failures counted may change.
LEMMA TurnLemma ==
    ASSUME NEW g, NEW a, NEW c \in Conns, Sound(g), a \in Gateways,
           a.policy = g.policy,
           \A d \in Conns \ {c} : a.sessions[d] = g.sessions[d],
           Staged(a.sessions[c]),
           a.sessions[c].listed => g.sessions[c].listed,
           a.sessions[c].upstream => /\ g.sessions[c].upstream
                                     /\ a.sessions[c].host = g.sessions[c].host
                                     /\ a.sessions[c].route = g.sessions[c].route,
           a.sessions[c].counted \in {0, g.sessions[c].counted}
    PROVE  Step(g, a)
  <1>1. Routable(g.policy, a.sessions[c])
    BY DEF Sound, Routable
  <1>2. Sound(a)
    BY <1>1, OneLemma
  <1>3. Kept(g, a)
    BY DEF Kept
  <1>4. Charged(g, a)
    <2>1. \A d \in Conns : g.sessions[d].counted \in {0, 1}
      BY DEF Sound, Staged
    <2>2. \A d \in Conns : a.sessions[d].counted \in {0, g.sessions[d].counted}
      OBVIOUS
    <2> QED BY <2>1, <2>2 DEF Charged
  <1> QED BY <1>2, <1>3, <1>4 DEF Step

\* A stage of the handshake, or its timer, and then the rest of the event.
LEMMA ThenLemma ==
    ASSUME NEW g, NEW b, NEW a, Kept(g, b), Step(b, a),
           \A d \in Conns : /\ b.sessions[d].counted = g.sessions[d].counted
                            /\ b.sessions[d].state \in UpstreamHandshake =>
                                  g.sessions[d].state \in UpstreamHandshake
    PROVE  Step(g, a)
  BY DEF Step, Kept, Charged

\* Assignments to a session's stage and timer.
At(s, state, timer) == [s EXCEPT !.state = state, !.timer = timer]

Moved(g, c, state, timer) == [g EXCEPT !.sessions[c] = At(g.sessions[c], state, timer)]

LEMMA AtLemma ==
    ASSUME NEW s \in SessionRecords, NEW state \in States, NEW timer \in BOOLEAN
    PROVE  LET u == At(s, state, timer)
           IN  /\ u \in SessionRecords /\ u.state = state /\ u.timer = timer
               /\ u.upstream = s.upstream /\ u.client = s.client
               /\ u.host = s.host /\ u.route = s.route /\ u.listed = s.listed
               /\ u.counted = s.counted
  BY DEF At, SessionRecords

LEMMA MovedLemma ==
    ASSUME NEW g, Sound(g), NEW c \in Conns,
           NEW state \in States, NEW timer \in BOOLEAN,
           Staged(At(g.sessions[c], state, timer))
    PROVE  LET b == Moved(g, c, state, timer)
           IN  /\ Step(g, b)
               /\ b.policy = g.policy /\ b.failures = g.failures
               /\ b.sessions[c] = At(g.sessions[c], state, timer)
               /\ \A d \in Conns \ {c} : b.sessions[d] = g.sessions[d]
  <1> DEFINE s == At(g.sessions[c], state, timer)
             b == [g EXCEPT !.sessions[c] = s]
  <1>1. /\ s \in SessionRecords
        /\ s.upstream = g.sessions[c].upstream /\ s.host = g.sessions[c].host
        /\ s.route = g.sessions[c].route /\ s.listed = g.sessions[c].listed
        /\ s.counted = g.sessions[c].counted
    BY AtLemma DEF Sound, Gateways
  <1>2. Staged(s)
    OBVIOUS
  <1>3. Moved(g, c, state, timer) = b
    BY DEF Moved
  <1> HIDE DEF s
  <1>4. /\ b \in Gateways /\ b.policy = g.policy /\ b.failures = g.failures
        /\ b.sessions[c] = s
        /\ \A d \in Conns \ {c} : b.sessions[d] = g.sessions[d]
    BY <1>1 DEF Sound, Gateways
  <1> HIDE DEF b
  <1>5. Step(g, b)
    BY <1>1, <1>2, <1>4, TurnLemma
  <1> QED BY <1>3, <1>4, <1>5 DEF s

\* The failures counted are the gateway's own business.
LEMMA CountLemma ==
    ASSUME NEW g, NEW b, Step(g, b),
           NEW f \in [{"Tor", "I2p"} -> 0 .. FailureThreshold - 1]
    PROVE  Step(g, [b EXCEPT !.failures = f])
  <1> DEFINE a == [b EXCEPT !.failures = f]
  <1>1. a \in Gateways /\ a.policy = b.policy /\ a.sessions = b.sessions
    BY DEF Step, Sound, Gateways
  <1> HIDE DEF a
  <1>2. Sound(a)
    BY <1>1 DEF Step, Sound, Capped, Listed
  <1>3. Step(g, a)
    BY <1>1, <1>2 DEF Step, Kept, Charged
  <1> QED BY <1>3 DEF a

LEMMA ReplyLemma ==
    ASSUME NEW g, Sound(g), NEW c \in Conns, g.sessions[c].state = "UpstreamReply",
           NEW a \in Reply(g, c)
    PROVE  Step(g, a)
  <1> DEFINE b == Moved(g, c, "Relaying", FALSE)
             network == g.sessions[c].route.network
             f == [g.failures EXCEPT ![network] = 0]
  <1>1. g.sessions[c] \in SessionRecords /\ Staged(g.sessions[c])
    BY DEF Sound, Gateways
  <1>2. Staged(At(g.sessions[c], "Relaying", FALSE))
    <2>1. "Relaying" \in States /\ FALSE \in BOOLEAN
      BY DEF States
    <2> QED BY <1>1, <2>1, AtLemma DEF Staged, UpstreamHandshake
  <1>3. Step(g, b) /\ b.failures = g.failures
    BY <1>2, MovedLemma DEF States
  <1>4. a = [b EXCEPT !.failures = f] \/ a = Fail(g, c)
    <2>1. [g EXCEPT !.sessions[c] = [@ EXCEPT !.state = "Relaying", !.timer = FALSE],
                    !.failures[network] = 0] = [b EXCEPT !.failures = f]
      BY DEF Moved, At
    <2> QED BY <2>1 DEF Reply
  <1> HIDE DEF b, network
  <1>5. f \in [{"Tor", "I2p"} -> 0 .. FailureThreshold - 1]
    <2>1. 0 \in 0 .. FailureThreshold - 1
      BY SessionBounds
    <2> QED BY <2>1 DEF Sound, Gateways
  <1> HIDE DEF f
  <1> QED BY <1>3, <1>4, <1>5, CountLemma, FailLemma

LEMMA ReadUpstreamStep ==
    ASSUME NEW c \in Conns
    PROVE  IInv /\ (ReadUpstreamGreeting(c) \/ ReadUpstreamReply(c)) => Step(gw, gw')
  <1> SUFFICES ASSUME IInv, ReadUpstreamGreeting(c) \/ ReadUpstreamReply(c)
               PROVE  Step(gw, gw')
    OBVIOUS
  <1>1. CASE ReadUpstreamReply(c)
    BY <1>1, ReplyLemma, FailBackendLemma DEF IInv, ReadUpstreamReply
  <1>2. CASE ReadUpstreamGreeting(c)
    <2> DEFINE o == gw.sessions[c]
               b == Moved(gw, c, "UpstreamReply", o.timer)
    <2>1. /\ o \in SessionRecords /\ Staged(o) /\ o.state = "UpstreamGreeting"
          /\ gw \in Gateways
      BY <1>2 DEF IInv, Sound, Gateways, ReadUpstreamGreeting
    <2>2. /\ Staged(At(o, "UpstreamReply", o.timer))
          /\ At(o, "UpstreamReply", o.timer).state = "UpstreamReply"
          /\ At(o, "UpstreamReply", o.timer).counted = o.counted
          /\ o.timer \in BOOLEAN /\ "UpstreamReply" \in States
      <3>1. o.timer \in BOOLEAN /\ "UpstreamReply" \in States
        BY <2>1 DEF SessionRecords, States
      <3> QED BY <2>1, <3>1, AtLemma DEF Staged, UpstreamHandshake, HandshakeStates
    <2>3. /\ Step(gw, b)
          /\ b.sessions[c] = At(o, "UpstreamReply", o.timer)
          /\ \A d \in Conns \ {c} : b.sessions[d] = gw.sessions[d]
      BY <2>1, <2>2, MovedLemma DEF IInv
    <2>4. [gw EXCEPT !.sessions[c].state = "UpstreamReply"] = b
      <3>1. [o EXCEPT !.state = "UpstreamReply"] = At(o, "UpstreamReply", o.timer)
        BY <2>1 DEF At, SessionRecords
      <3> QED BY <3>1 DEF Moved
    <2>5. gw' \in {b} \cup Reply(b, c) \cup FailBackend(gw, c)
      BY <1>2, <2>4 DEF ReadUpstreamGreeting
    <2> HIDE DEF b
    <2>6. /\ b.sessions[c].state = "UpstreamReply"
          /\ \A d \in Conns : /\ b.sessions[d].counted = gw.sessions[d].counted
                              /\ b.sessions[d].state \in UpstreamHandshake =>
                                    gw.sessions[d].state \in UpstreamHandshake
      BY <2>1, <2>2, <2>3 DEF UpstreamHandshake
    <2>7. CASE gw' \in Reply(b, c)
      <3>1. Step(b, gw')
        BY <2>3, <2>6, <2>7, ReplyLemma DEF Step
      <3> QED BY <2>3, <2>6, <3>1, ThenLemma DEF Step
    <2>8. CASE gw' \in FailBackend(gw, c)
      BY <1>2, <2>1, <2>8, FailBackendLemma DEF IInv, ReadUpstreamGreeting
    <2> QED BY <2>3, <2>5, <2>7, <2>8
  <1> QED BY <1>1, <1>2

LEMMA ConnectedStep ==
    ASSUME NEW c \in Conns
    PROVE  IInv /\ UpstreamConnected(c) => Step(gw, gw')
  <1> SUFFICES ASSUME IInv, UpstreamConnected(c) PROVE Step(gw, gw')
    OBVIOUS
  <1> DEFINE o == gw.sessions[c]
  <1>1. o \in SessionRecords /\ Staged(o) /\ o.state = "UpstreamConnecting"
    BY DEF IInv, Sound, Gateways, UpstreamConnected
  <1>2. o.timer \in BOOLEAN /\ "UpstreamGreeting" \in States
    BY <1>1 DEF SessionRecords, States
  <1>3. Staged(At(o, "UpstreamGreeting", o.timer))
    BY <1>1, <1>2, AtLemma DEF Staged, UpstreamHandshake, HandshakeStates
  <1>4. [o EXCEPT !.state = "UpstreamGreeting"] = At(o, "UpstreamGreeting", o.timer)
    BY <1>1 DEF At, SessionRecords
  <1>5. gw' = Moved(gw, c, "UpstreamGreeting", o.timer)
    BY <1>4 DEF UpstreamConnected, Moved
  <1> QED BY <1>2, <1>3, <1>5, MovedLemma DEF IInv

LEMMA ErrorStep ==
    ASSUME NEW c \in Conns
    PROVE  IInv /\ (RefuseClient(c) \/ UpstreamError(c)) => Step(gw, gw')
  BY FailLemma, FailBackendLemma DEF IInv, RefuseClient, UpstreamError

\* Only a session in its handshake has a timer running.
LEMMA TimeoutStep ==
    ASSUME NEW c \in Conns
    PROVE  IInv /\ Timeout(c) => Step(gw, gw')
  <1> SUFFICES ASSUME IInv, Timeout(c) PROVE Step(gw, gw')
    OBVIOUS
  <1> DEFINE o == gw.sessions[c]
             b == Moved(gw, c, o.state, FALSE)
  <1>1. o \in SessionRecords /\ Staged(o) /\ o.state \in HandshakeStates
    BY DEF IInv, Sound, Gateways, Timeout, Staged
  <1>2. o.state \in States /\ FALSE \in BOOLEAN
    BY <1>1 DEF SessionRecords
  <1>3. /\ Staged(At(o, o.state, FALSE))
        /\ At(o, o.state, FALSE).state = o.state
        /\ At(o, o.state, FALSE).counted = o.counted
    <2> DEFINE u == At(o, o.state, FALSE)
    <2>1. /\ u.state = o.state /\ u.timer = FALSE /\ u.upstream = o.upstream
          /\ u.client = o.client /\ u.route = o.route /\ u.listed = o.listed
          /\ u.counted = o.counted
      BY <1>1, <1>2, AtLemma
    <2> HIDE DEF u, o
    <2>2. Staged(u)
      BY <1>1, <2>1 DEF Staged
    <2> QED BY <2>1, <2>2 DEF u
  <1>4. [o EXCEPT !.timer = FALSE] = At(o, o.state, FALSE)
    BY <1>1 DEF At, SessionRecords
  <1>5. gw' \in FailBackend(b, c)
    BY <1>4 DEF Timeout, Moved
  <1>6. /\ Step(gw, b)
        /\ b.sessions[c] = At(o, o.state, FALSE)
        /\ \A d \in Conns \ {c} : b.sessions[d] = gw.sessions[d]
    BY <1>2, <1>3, MovedLemma DEF IInv
  <1>7. /\ b.sessions[c].state # "Relaying"
        /\ b.sessions[c].state \in UpstreamHandshake => b.sessions[c].upstream
    <2>1. o.timer /\ At(o, o.state, FALSE).upstream = o.upstream
      BY <1>1, <1>2, AtLemma DEF Timeout
    <2> QED BY <1>1, <1>3, <1>6, <2>1 DEF HandshakeStates, Staged
  <1> HIDE DEF b
  <1>8. Step(b, gw')
    BY <1>5, <1>6, <1>7, FailBackendLemma DEF Step
  <1>9. \A d \in Conns : /\ b.sessions[d].counted = gw.sessions[d].counted
                         /\ b.sessions[d].state = gw.sessions[d].state
    BY <1>3, <1>6
  <1> QED BY <1>6, <1>8, <1>9, ThenLemma DEF Step

\* A session that is closed or deleted from outside the handshake.
LEMMA EndLemma ==
    ASSUME IInv, NEW c \in Conns, NEW s \in SessionRecords, Staged(s),
           s.listed => gw.sessions[c].listed,
           s.upstream => /\ gw.sessions[c].upstream
                         /\ s.host = gw.sessions[c].host
                         /\ s.route = gw.sessions[c].route,
           s.counted \in {0, gw.sessions[c].counted}
    PROVE  Step(gw, [gw EXCEPT !.sessions[c] = s])
  <1> DEFINE a == [gw EXCEPT !.sessions[c] = s]
  <1>1. /\ a \in Gateways /\ a.policy = gw.policy /\ a.sessions[c] = s
        /\ \A d \in Conns \ {c} : a.sessions[d] = gw.sessions[d]
    BY DEF IInv, Sound, Gateways
  <1> HIDE DEF a
  <1>2. Step(gw, a)
    BY <1>1, TurnLemma DEF IInv
  <1> QED BY <1>2 DEF a

LEMMA EndStep ==
    ASSUME NEW c \in Conns
    PROVE  IInv /\ (ClientDisconnected(c) \/ LingerTimeout(c) \/ Destroy(c)) => Step(gw, gw')
  <1> SUFFICES ASSUME IInv, ClientDisconnected(c) \/ LingerTimeout(c) \/ Destroy(c)
               PROVE  Step(gw, gw')
    OBVIOUS
  <1> DEFINE o == gw.sessions[c]
  <1>1. o \in SessionRecords /\ Staged(o)
    BY DEF IInv, Sound, Gateways
  <1>2. Step(gw, [gw EXCEPT !.sessions[c] = CloseNow(o)])
    BY <1>1, CloseNowLemma, EndLemma
  <1>3. Step(gw, [gw EXCEPT !.sessions[c] = Absent])
    <2>1. Absent \in SessionRecords /\ Staged(Absent) /\ ~Absent.listed
          /\ ~Absent.upstream /\ Absent.counted = 0
      <3>1. NoRoute \in Routes
        BY DEF NoRoute, Routes, Networks
      <3> QED BY <3>1 DEF Absent, SessionRecords, Staged, States, Hosts, UpstreamHandshake
    <2> QED BY <2>1, EndLemma
  <1>4. Step(gw, [gw EXCEPT !.sessions[c] = [@ EXCEPT !.client = FALSE, !.doomed = TRUE]])
    <2> DEFINE s == [o EXCEPT !.client = FALSE, !.doomed = TRUE]
    <2>1. /\ s \in SessionRecords /\ Staged(s) /\ s.listed = o.listed
          /\ s.upstream = o.upstream /\ s.host = o.host /\ s.route = o.route
          /\ s.counted = o.counted
      BY <1>1 DEF Staged, SessionRecords
    <2> HIDE DEF s
    <2>2. Step(gw, [gw EXCEPT !.sessions[c] = s])
      BY <2>1, EndLemma
    <2> QED BY <2>2 DEF s
  <1> QED BY <1>2, <1>3, <1>4 DEF ClientDisconnected, LingerTimeout, Destroy

\* A new session is in the list, which had room for it.
LEMMA AcceptStep ==
    ASSUME NEW c \in Conns
    PROVE  IInv /\ Accept(c) => Step(gw, gw')
  <1> SUFFICES ASSUME IInv, Accept(c) PROVE Step(gw, gw')
    OBVIOUS
  <1>1. /\ Accepted \in SessionRecords /\ Staged(Accepted) /\ ~Accepted.upstream
        /\ Accepted.counted = 0 /\ Accepted.listed
    <2>1. NoRoute \in Routes
      BY DEF NoRoute, Routes, Networks
    <2>2. /\ Absent \in SessionRecords /\ Absent.route = NoRoute /\ ~Absent.upstream
          /\ Absent.counted = 0
      BY <2>1 DEF Absent, SessionRecords, States, Hosts
    <2>3. /\ Accepted \in SessionRecords /\ Accepted.route = NoRoute /\ ~Accepted.upstream
          /\ Accepted.counted = 0 /\ Accepted.listed /\ Accepted.state = "ClientGreeting"
      BY <2>2 DEF Accepted, SessionRecords, States
    <2> QED BY <2>3 DEF Staged, UpstreamHandshake, HandshakeStates
  <1>2. gw' = [gw EXCEPT !.sessions[c] = Accepted] /\ gw.sessions[c] = Absent
    BY DEF Accept
  <1>3. /\ gw' \in Gateways /\ gw'.policy = gw.policy /\ gw'.sessions[c] = Accepted
        /\ \A d \in Conns \ {c} : gw'.sessions[d] = gw.sessions[d]
    BY <1>1, <1>2 DEF IInv, Sound, Gateways
  <1>4. Listed(gw') = Listed(gw) \cup {c} /\ c \notin Listed(gw)
    BY <1>1, <1>2, <1>3 DEF Listed, Absent
  <1>5. Capped(gw')
    <2>1. IsFiniteSet(Listed(gw)) /\ Cardinality(Listed(gw)) < MaximumActiveConnections
      BY DEF IInv, Sound, Capped, Accept
    <2>2. /\ IsFiniteSet(Listed(gw'))
          /\ Cardinality(Listed(gw')) = Cardinality(Listed(gw)) + 1
      BY <1>4, <2>1, FS_AddElement
    <2>3. Cardinality(Listed(gw)) \in Nat
      BY <2>1, FS_CardinalityType
    <2> QED BY <2>1, <2>2, <2>3, SessionBounds DEF Capped
  <1>6. Sound(gw')
    BY <1>1, <1>3, <1>5 DEF IInv, Sound, Routable
  <1>7. Kept(gw, gw')
    BY <1>1, <1>3 DEF Kept
  <1>8. Charged(gw, gw')
    <2>1. \A d \in Conns : gw.sessions[d].counted \in {0, 1}
      BY DEF IInv, Sound, Staged
    <2> QED BY <1>1, <1>3, <2>1 DEF Charged
  <1> QED BY <1>6, <1>7, <1>8 DEF Step

LEMMA ClosesLemma ==
    ASSUME NEW g, Sound(g), NEW a, Closes(g, a)
    PROVE  Step(g, a)
  <1>1. \A d \in Conns : g.sessions[d].counted \in {0, 1}
    BY DEF Sound, Staged
  <1> QED BY <1>1 DEF Closes, Step, Kept, Charged

LEMMA PolicyStep ==
    IInv /\ (Block \/ \E p \in ManagerPolicies, reported \in Networks : InstallPolicy(p, reported))
        => Step(gw, gw')
  <1> SUFFICES ASSUME IInv,
                      Block \/ \E p \in ManagerPolicies, reported \in Networks :
                                  InstallPolicy(p, reported)
               PROVE  Step(gw, gw')
    OBVIOUS
  <1>1. CASE Block
    BY <1>1, BlockLemma, ClosesLemma DEF IInv, Block
  <1>2. ASSUME NEW p \in ManagerPolicies, NEW reported \in Networks,
               InstallPolicy(p, reported)
        PROVE  Step(gw, gw')
    <2>1. PICK g \in {gw, BlockAll(gw)} :
             gw' = [SetPolicy(g, p) EXCEPT !.failures =
                       [network \in {"Tor", "I2p"} |->
                          IF network = reported THEN 0 ELSE g.failures[network]]]
      BY <1>2 DEF InstallPolicy
    <2> DEFINE f == [network \in {"Tor", "I2p"} |->
                       IF network = reported THEN 0 ELSE g.failures[network]]
    <2>2. /\ Closes(gw, SetPolicy(g, p))
          /\ g.failures = gw.failures
      BY BlockLemma, SetPolicyLemma, BlockAndSetLemma DEF IInv, Closes, ManagerPolicies
    <2>3. f \in [{"Tor", "I2p"} -> 0 .. FailureThreshold - 1]
      <3>1. gw.failures \in [{"Tor", "I2p"} -> 0 .. FailureThreshold - 1]
        BY DEF IInv, Sound, Gateways
      <3>2. 0 \in 0 .. FailureThreshold - 1
        BY SessionBounds
      <3> QED BY <2>2, <3>1, <3>2
    <2> HIDE DEF f
    <2>4. gw' = [SetPolicy(g, p) EXCEPT !.failures = f]
      BY <2>1 DEF f
    <2> QED BY <2>2, <2>3, <2>4, ClosesLemma, CountLemma DEF IInv
  <1> QED BY <1>1, <1>2

-----------------------------------------------------------------------------
(* Opening a tunnel                                                        *)

\* The one way to a tunnel: a session without one is sent where the policy says.
Opens(g, a, c, h) ==
    /\ ~g.sessions[c].upstream
    /\ a.policy = g.policy
    /\ RouteFor(g.policy, h) # NoRoute
    /\ a.sessions[c].upstream
    /\ a.sessions[c].host = h
    /\ a.sessions[c].route = RouteFor(g.policy, h)
    /\ \A d \in Conns \ {c} : Tunnel(a.sessions[d]) = Tunnel(g.sessions[d])

Open(g, a) ==
    /\ Sound(a)
    /\ Charged(g, a)
    /\ \E c \in Conns, h \in Hosts : Opens(g, a, c, h)

LEMMA ResolveLemma ==
    ASSUME NEW g, Sound(g), NEW c \in Conns, NEW h \in Hosts,
           g.sessions[c].state = "ClientRequest", g.sessions[c].client
    PROVE  Step(g, Resolve(g, c, h)) \/ Open(g, Resolve(g, c, h))
  <1> DEFINE route == RouteFor(g.policy, h)
             o == g.sessions[c]
             s == [o EXCEPT !.state = "UpstreamConnecting", !.host = h,
                            !.route = route, !.upstream = TRUE]
             a == [g EXCEPT !.sessions[c] = s]
  <1>1. CASE route = NoRoute \/ route.endpoint \in RemoteEndpoints
    BY <1>1, FailLemma DEF Resolve
  <1>2. CASE ~(route = NoRoute \/ route.endpoint \in RemoteEndpoints)
    <2>1. o \in SessionRecords /\ Staged(o) /\ o.listed /\ ~o.upstream /\ o.counted = 0
      BY DEF Sound, Gateways, Staged, UpstreamHandshake
    <2>2. route \in Routes /\ route # NoRoute /\ route.network \in {"Tor", "I2p"}
      BY <1>2, RouteLemma DEF Sound, Gateways
    <2>3. Resolve(g, c, h) = a
      BY <1>2 DEF Resolve
    <2> HIDE DEF route, o
    <2>4. /\ s \in SessionRecords /\ s.upstream /\ s.host = h /\ s.route = route
          /\ s.state = "UpstreamConnecting" /\ s.counted = 0 /\ s.listed
      BY <2>1, <2>2 DEF SessionRecords, States
    <2> HIDE DEF s
    <2>5. Staged(s) /\ Routable(g.policy, s)
      BY <2>2, <2>4 DEF Staged, Routable, UpstreamHandshake, HandshakeStates, route
    <2>6. /\ a \in Gateways /\ a.policy = g.policy /\ a.sessions[c] = s
          /\ \A d \in Conns \ {c} : a.sessions[d] = g.sessions[d]
      BY <2>4 DEF Sound, Gateways
    <2> HIDE DEF a
    <2>7. Sound(a)
      BY <2>1, <2>4, <2>5, <2>6, OneLemma DEF o
    <2>8. Charged(g, a)
      <3>1. \A d \in Conns : g.sessions[d].counted \in {0, 1}
        BY DEF Sound, Staged
      <3>2. \A d \in Conns : a.sessions[d].counted = g.sessions[d].counted
        BY <2>1, <2>4, <2>6 DEF o
      <3> QED BY <3>1, <3>2 DEF Charged
    <2>9. Opens(g, a, c, h)
      BY <2>1, <2>2, <2>4, <2>6 DEF Opens, o, route
    <2> QED BY <2>3, <2>7, <2>8, <2>9 DEF Open
  <1> QED BY <1>1, <1>2

LEMMA ReadClientStep ==
    ASSUME NEW c \in Conns
    PROVE  IInv /\ (ReadGreeting(c) \/ \E h \in Hosts : ReadRequest(c, h)) =>
              Step(gw, gw') \/ Open(gw, gw')
  <1> SUFFICES ASSUME IInv, ReadGreeting(c) \/ \E h \in Hosts : ReadRequest(c, h)
               PROVE  Step(gw, gw') \/ Open(gw, gw')
    OBVIOUS
  <1>1. ASSUME NEW h \in Hosts, ReadRequest(c, h)
        PROVE  Step(gw, gw') \/ Open(gw, gw')
    BY <1>1, ResolveLemma DEF IInv, ReadRequest
  <1>2. CASE ReadGreeting(c)
    <2> DEFINE o == gw.sessions[c]
               u == At(o, "ClientRequest", o.timer)
               g == Moved(gw, c, "ClientRequest", o.timer)
    <2>1. /\ o \in SessionRecords /\ Staged(o) /\ o.state = "ClientGreeting" /\ o.client
          /\ ~o.upstream
      BY <1>2 DEF IInv, Sound, Gateways, ReadGreeting, Staged, UpstreamHandshake
    <2>2. o.timer \in BOOLEAN /\ "ClientRequest" \in States
      BY <2>1 DEF SessionRecords, States
    <2>3. /\ u.state = "ClientRequest" /\ u.timer = o.timer /\ u.upstream = o.upstream
          /\ u.client = o.client /\ u.route = o.route /\ u.listed = o.listed
          /\ u.counted = o.counted /\ u.host = o.host
      <3>1. o \in SessionRecords
        BY <2>1
      <3> HIDE DEF o
      <3> QED BY <2>2, <3>1, AtLemma
    <2>4. [o EXCEPT !.state = "ClientRequest"] = u
      BY <2>1 DEF At, SessionRecords
    <2>5. gw' = g \/ \E h \in Hosts : gw' = Resolve(g, c, h)
      BY <1>2, <2>4 DEF ReadGreeting, Moved
    <2>6. Staged(u)
      <3> HIDE DEF o, u
      <3> QED BY <2>1, <2>3 DEF Staged, UpstreamHandshake, HandshakeStates
    <2>7. /\ Step(gw, g) /\ g.policy = gw.policy
          /\ g.sessions[c] = u
          /\ \A d \in Conns \ {c} : g.sessions[d] = gw.sessions[d]
      BY <2>2, <2>6, MovedLemma DEF IInv
    <2> HIDE DEF g, u
    <2>8. \A d \in Conns : /\ g.sessions[d].counted = gw.sessions[d].counted
                           /\ g.sessions[d].state \in UpstreamHandshake =>
                                 gw.sessions[d].state \in UpstreamHandshake
      BY <2>3, <2>7 DEF UpstreamHandshake
    <2>9. ASSUME NEW h \in Hosts, gw' = Resolve(g, c, h)
          PROVE  Step(gw, gw') \/ Open(gw, gw')
      <3>1. Step(g, gw') \/ Open(g, gw')
        BY <2>1, <2>3, <2>7, <2>9, ResolveLemma DEF Step
      <3>2. CASE Step(g, gw')
        BY <2>7, <2>8, <3>2, ThenLemma DEF Step
      <3>3. CASE Open(g, gw')
        <4>1. Sound(gw') /\ Charged(gw, gw')
          BY <2>7, <2>8, <3>3 DEF Open, Charged, Step, Kept
        <4>2. PICK d \in Conns, i \in Hosts : Opens(g, gw', d, i)
          BY <3>3 DEF Open
        <4>3. \A e \in Conns : /\ g.sessions[e].upstream = gw.sessions[e].upstream
                               /\ Tunnel(g.sessions[e]) = Tunnel(gw.sessions[e])
          BY <2>3, <2>7 DEF Tunnel
        <4>4. Opens(gw, gw', d, i)
          BY <2>7, <4>2, <4>3 DEF Opens
        <4> QED BY <4>1, <4>4 DEF Open
      <3> QED BY <3>1, <3>2, <3>3
    <2> QED BY <2>5, <2>7, <2>9
  <1> QED BY <1>1, <1>2

-----------------------------------------------------------------------------
(* The theorems                                                            *)

\* Every step keeps the tunnels it does not close, or opens one.
LEMMA NextStep ==
    IInv /\ Next => Step(gw, gw') \/ Open(gw, gw')
  <1> SUFFICES ASSUME IInv, Next PROVE Step(gw, gw') \/ Open(gw, gw')
    OBVIOUS
  <1>1. ASSUME NEW c \in Conns,
               \/ Accept(c)
               \/ ReadGreeting(c)
               \/ \E h \in Hosts : ReadRequest(c, h)
               \/ RefuseClient(c)
               \/ UpstreamConnected(c)
               \/ ReadUpstreamGreeting(c)
               \/ ReadUpstreamReply(c)
               \/ UpstreamError(c)
               \/ Timeout(c)
               \/ ClientDisconnected(c)
               \/ LingerTimeout(c)
               \/ Destroy(c)
        PROVE  Step(gw, gw') \/ Open(gw, gw')
    BY <1>1, AcceptStep, ReadClientStep, ErrorStep, ConnectedStep, ReadUpstreamStep,
       TimeoutStep, EndStep
  <1> QED BY <1>1, PolicyStep DEF Next

THEOREM InitIInv == Init => IInv
  <1> SUFFICES ASSUME Init PROVE IInv
    OBVIOUS
  <1>1. /\ Absent \in SessionRecords /\ Staged(Absent) /\ ~Absent.listed /\ ~Absent.upstream
    <2>1. NoRoute \in Routes
      BY DEF NoRoute, Routes, Networks
    <2> QED BY <2>1 DEF Absent, SessionRecords, Staged, States, Hosts, UpstreamHandshake
  <1>2. 0 \in 0 .. FailureThreshold - 1
    BY SessionBounds
  <1>3. /\ gw \in Gateways /\ \A c \in Conns : gw.sessions[c] = Absent
    BY <1>1, <1>2, BlockingLemma DEF Init, Gateways
  <1>4. Listed(gw) = {}
    BY <1>1, <1>3 DEF Listed
  <1>5. Capped(gw)
    BY <1>4, FS_EmptySet, SessionBounds DEF Capped
  <1> QED BY <1>1, <1>3, <1>5 DEF IInv, Sound, Routable

THEOREM NextIInv == IInv /\ [Next]_gw => IInv'
  <1>1. IInv /\ Next => IInv'
    BY NextStep DEF Step, Open, IInv
  <1>2. IInv /\ UNCHANGED gw => IInv'
    BY DEF IInv
  <1> QED BY <1>1, <1>2

\* The inductive invariant of the gateway's sessions.
THEOREM AlwaysIInv == Spec => []IInv
  BY InitIInv, NextIInv, PTL DEF Spec

\* A session with an open socket is in m_sessions, whose size the cap bounds.
THEOREM AlwaysNoOrphans == Spec => []NoOrphans
  <1>1. IInv => NoOrphans
    BY DEF IInv, Sound, Staged, Capped, NoOrphans, TypeOK
  <1> QED BY <1>1, AlwaysIInv, PTL

\* A session reports its backend at most once, and only while it waits for it with
\* its socket to the backend in hand.
THEOREM AlwaysOnlyWaitingSessionsFail == Spec => OnlyWaitingSessionsFail
  <1>1. IInv /\ [Next]_gw =>
          [\A c \in Conns : gw'.sessions[c].counted > gw.sessions[c].counted =>
              /\ gw.sessions[c].state \in UpstreamHandshake
              /\ gw.sessions[c].upstream /\ gw.sessions[c].listed
              /\ gw'.sessions[c].counted = 1]_gw
    BY NextStep DEF Step, Open, Charged, IInv, Sound, Staged
  <1> QED BY <1>1, AlwaysIInv, PTL DEF Spec, OnlyWaitingSessionsFail

LEMMA GateOperators ==
    /\ Gate!Free = [host |-> "clearnet", route |-> NoRoute]
    /\ Gate!NoRoute = NoRoute
    /\ Gate!BlockingPolicy = BlockingPolicy
    /\ Gate!Policies = Policies
    /\ Gate!Hosts = Hosts
    /\ Gate!Tunnels = [host : Hosts, route : Routes]
    /\ \A p, h : Gate!RouteFor(p, h) = RouteFor(p, h)
  BY DEF Gate!Free, NoRoute, Gate!NoRoute, BlockingPolicy, Gate!BlockingPolicy,
     Gate!Tunnels, Routes, Gate!Routes, Policies, Gate!Policies, Hosts, Gate!Hosts,
     Networks, Gate!Networks, RouteFor, Gate!RouteFor, TorRoute, Gate!TorRoute,
     I2pRoute, Gate!I2pRoute, ClearnetOverTor, Gate!ClearnetOverTor,
     ClearnetOverI2p, Gate!ClearnetOverI2p

Tunnels(g) == [c \in Conns |-> Tunnel(g.sessions[c])]

\* A tunnel is free without a backend socket, and a tunnel with one is routed.
LEMMA TunnelLemma ==
    ASSUME NEW g, Sound(g)
    PROVE  /\ Tunnels(g) \in [Conns -> Gate!Tunnels]
           /\ \A c \in Conns : Tunnels(g)[c] = Gate!Free <=> ~g.sessions[c].upstream
           /\ \A c \in Conns : g.sessions[c].upstream =>
                 Gate!Routed(g.policy, Tunnels(g)[c])
  <1>1. ASSUME NEW c \in Conns
        PROVE  /\ Tunnel(g.sessions[c]) \in Gate!Tunnels
               /\ Tunnel(g.sessions[c]) = Gate!Free <=> ~g.sessions[c].upstream
               /\ g.sessions[c].upstream => Gate!Routed(g.policy, Tunnel(g.sessions[c]))
    <2> DEFINE s == g.sessions[c]
    <2>1. s \in SessionRecords /\ Staged(s) /\ Routable(g.policy, s)
      BY DEF Sound, Gateways
    <2> HIDE DEF s
    <2>2. CASE s.upstream
      <3>1. Tunnel(s) = [host |-> s.host, route |-> s.route] /\ s.route # NoRoute
        BY <2>1, <2>2 DEF Tunnel, Staged
      <3>2. Tunnel(s) \in Gate!Tunnels
        BY <2>1, <3>1, GateOperators DEF SessionRecords
      <3>3. Tunnel(s) # Gate!Free
        BY <3>1, GateOperators
      <3>4. Gate!Routed(g.policy, Tunnel(s))
        BY <2>1, <2>2, <3>1, GateOperators DEF Gate!Routed, Routable
      <3> QED BY <2>2, <3>2, <3>3, <3>4 DEF s
    <2>3. CASE ~s.upstream
      <3>1. Tunnel(s) = Gate!Free
        BY <2>3, GateOperators DEF Tunnel
      <3>2. NoRoute \in Routes
        BY DEF NoRoute, Routes, Networks
      <3>3. Gate!Free \in Gate!Tunnels
        BY <3>2, GateOperators DEF Hosts
      <3> QED BY <2>3, <3>1, <3>3 DEF s
    <2> QED BY <2>2, <2>3
  <1> QED BY <1>1 DEF Tunnels

\* The handshakes implement RouteGate: every event opens a tunnel where the policy
\* routes it, or changes the policy and leaves only tunnels that it routes.
THEOREM Refinement == Spec => ImplementsRouteGate
  <1>1. Init => Gate!Init
    <2> SUFFICES ASSUME Init PROVE Gate!Init
      OBVIOUS
    <2>1. gw.policy = BlockingPolicy /\ \A c \in Conns : ~gw.sessions[c].upstream
      BY DEF Init, Absent
    <2>2. \A c \in Conns : Tunnel(gw.sessions[c]) = Gate!Free
      BY <2>1, GateOperators DEF Tunnel
    <2> QED BY <2>1, <2>2, GateOperators DEF Gate!Init
  <1>2. ASSUME IInv, [Next]_gw
        PROVE  [Gate!Next]_<<gw.policy, [c \in Conns |-> Tunnel(gw.sessions[c])]>>
    <2>1. CASE UNCHANGED gw
      BY <2>1
    <2>2. CASE Step(gw, gw')
      <3>1. /\ gw'.policy \in Policies
            /\ Tunnels(gw') \in [Conns -> Gate!Tunnels]
        BY <2>2, TunnelLemma DEF Step, Sound, Gateways
      <3>2. \A c \in Conns : Tunnels(gw')[c] # Gate!Free =>
              /\ Tunnels(gw')[c] = Tunnels(gw)[c]
              /\ Gate!Routed(gw'.policy, Tunnels(gw)[c])
        <4> SUFFICES ASSUME NEW c \in Conns, Tunnels(gw')[c] # Gate!Free
                     PROVE  /\ Tunnels(gw')[c] = Tunnels(gw)[c]
                            /\ Gate!Routed(gw'.policy, Tunnels(gw')[c])
          OBVIOUS
        <4>1. gw'.sessions[c].upstream
          BY <2>2, TunnelLemma DEF Step
        <4>2. Tunnels(gw')[c] = Tunnels(gw)[c]
          BY <2>2, <4>1 DEF Step, Kept, Tunnels, Tunnel
        <4>3. Gate!Routed(gw'.policy, Tunnels(gw')[c])
          BY <2>2, <4>1, TunnelLemma DEF Step
        <4> QED BY <4>2, <4>3
      <3>3. Gate!Change
        BY <3>1, <3>2, GateOperators DEF Gate!Change, Tunnels
      <3> QED BY <3>3 DEF Gate!Next
    <2>3. CASE Open(gw, gw')
      <3>1. PICK c \in Conns, h \in Hosts : Opens(gw, gw', c, h)
        BY <2>3 DEF Open
      <3>2. Tunnels(gw)[c] = Gate!Free
        BY <3>1, GateOperators DEF Opens, Tunnels, Tunnel
      <3>3. Tunnels(gw')[c] = [host |-> h, route |-> RouteFor(gw.policy, h)]
        BY <3>1 DEF Opens, Tunnels, Tunnel
      <3>4. Tunnels(gw') = [Tunnels(gw) EXCEPT ![c] =
                              [host |-> h, route |-> RouteFor(gw.policy, h)]]
        BY <3>1, <3>3 DEF Opens, Tunnels
      <3>5. Gate!Open(c, h)
        BY <3>1, <3>2, <3>4, GateOperators DEF Gate!Open, Opens, Tunnels
      <3> QED BY <3>5, GateOperators DEF Gate!Next
    <2> QED BY <1>2, <2>1, <2>2, <2>3, NextStep
  <1> QED BY <1>1, <1>2, AlwaysIInv, PTL DEF Spec, ImplementsRouteGate, Gate!Spec
=============================================================================
