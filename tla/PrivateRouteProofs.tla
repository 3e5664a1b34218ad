------------------------- MODULE PrivateRouteProofs -------------------------
(***************************************************************************)
(* Proofs about PrivateRoute, for any number of connections, any set of    *)
(* Tor endpoints and any failure threshold.                                *)
(*                                                                         *)
(* A slot is a composition of manager functions, so each function has one  *)
(* lemma about its type and one that takes a MidSlot state to a MidSlot or *)
(* an AtRest one; an action is then a line or two, and IInv says that      *)
(* every slot ends at rest.                                                *)
(***************************************************************************)
EXTENDS PrivateRouteInv, TLAPS

USE DEF Networks, Hosts

-----------------------------------------------------------------------------
(* Types *)

LEMMA RouteForType ==
    ASSUME NEW p \in Policies, NEW h \in Hosts
    PROVE  RouteFor(p, h) \in Routes
BY DEF RouteFor, Routes, NoRoute, TorRoute, I2pRoute, Policies

LEMMA FreeType == FreeAll \in [Conns -> Sessions] /\ BlockingPolicy \in Policies
BY DEF FreeAll, Free, Sessions, Routes, NoRoute, BlockingPolicy, Policies

LEMMA BlockType ==
    ASSUME NEW n \in Managers, NEW s \in RouteStates
    PROVE  Block(n, s) \in Managers
BY FreeType DEF Block, BlockAll, Managers

LEMMA StillRoutedType ==
    ASSUME NEW p \in Policies, NEW ss \in [Conns -> Sessions]
    PROVE  StillRouted(p, ss) \in [Conns -> Sessions]
BY DEF StillRouted, Free, Sessions, Routes, NoRoute

LEMMA SetPolicyType ==
    ASSUME NEW n \in Managers, NEW p \in Policies
    PROVE  SetPolicy(n, p) \in Managers
<1>1. StillRouted(p, n.sessions) \in [Conns -> Sessions]
  BY StillRoutedType DEF Managers
<1> QED
  BY <1>1, ZenonT(60) DEF SetPolicy, Managers

LEMMA PolicyOfType ==
    ASSUME NEW n \in Managers
    PROVE  PolicyOf(n) \in Policies
BY DEF PolicyOf, Policies, Managers, TorStatuses, I2pStatuses

LEMMA ApplyType ==
    ASSUME NEW n \in Managers
    PROVE  ApplyGatewayPolicy(n) \in Managers
BY PolicyOfType, SetPolicyType DEF ApplyGatewayPolicy

LEMMA ActivatedType ==
    ASSUME NEW n \in Managers, NEW k \in {"Tor", "I2p"}
    PROVE  [n EXCEPT !.recovery = FALSE,
                  !.active = k,
                  !.state = IF k = "Tor" THEN "TorConnected" ELSE "I2pConnected",
                  !.allowed = Verified(n, k)] \in Managers
<1>1. Verified(n, k) \in BOOLEAN
  BY DEF Managers, Verified, TorStatuses, I2pStatuses
<1> QED
  BY <1>1, ZenonT(60) DEF Managers, RouteStates

LEMMA ActivateType ==
    ASSUME NEW n \in Managers, NEW k \in {"Tor", "I2p"}
    PROVE  Activate(n, k) \in Managers
<1> DEFINE m == [n EXCEPT !.recovery = FALSE,
                  !.active = k,
                  !.state = IF k = "Tor" THEN "TorConnected" ELSE "I2pConnected",
                  !.allowed = Verified(n, k)]
<1>1. m \in Managers
  BY ActivatedType
<1>2. Activate(n, k) = ApplyGatewayPolicy(m)
  BY DEF Activate
<1> HIDE DEF m
<1> QED
  BY <1>1, <1>2, ApplyType

LEMMA RequestType ==
    ASSUME NEW n \in Managers
    PROVE  /\ RequestTorVerification(n) \in Managers
           /\ SchedulePreferredRecovery(n) \in Managers
<1>1. /\ [n EXCEPT !.pending = TRUE, !.requested = TRUE] \in Managers
      /\ [n EXCEPT !.recovery = TRUE] \in Managers
  BY DEF Managers
<1> QED
  BY <1>1 DEF RequestTorVerification, SchedulePreferredRecovery

LEMMA VerifyTorType ==
    ASSUME NEW n \in Managers
    PROVE  VerifyTor(n) \in Managers
BY BlockType, ApplyType, RequestType DEF VerifyTor, RouteStates

LEMMA FailoverType ==
    ASSUME NEW n \in Managers, NEW k \in Networks
    PROVE  [n EXCEPT !.failoverFrom = k] \in Managers
BY DEF Managers

LEMMA ReevaluateType ==
    ASSUME NEW n \in Managers
    PROVE  Reevaluate(n) \in Managers
<1>1. KeepActive(n) \in Managers
  BY ApplyType, RequestType DEF KeepActive
<1>3. AfterTorLoss(n) \in Managers
  BY ActivateType, BlockType DEF AfterTorLoss, RouteStates
<1>4. AfterI2pLoss(n) \in Managers
  BY ActivateType, BlockType, VerifyTorType DEF AfterI2pLoss, RouteStates
<1>5. PreferTor(n) \in Managers
  BY FailoverType, ActivateType, BlockType, VerifyTorType DEF PreferTor, RouteStates
<1>6. PreferI2p(n) \in Managers
  BY FailoverType, ActivateType, BlockType, VerifyTorType, RequestType
     DEF PreferI2p, RouteStates
<1> QED
  BY <1>1, <1>3, <1>4, <1>5, <1>6 DEF Reevaluate

-----------------------------------------------------------------------------
(* From mid-slot to rest *)

LEMMA NothingRouted ==
    ASSUME NEW n, n.sessions = FreeAll
    PROVE  SessionsRouted(n)
BY DEF SessionsRouted, FreeAll

\* A manager blocked in a state other than "VerifyingTor" is at rest.
LEMMA BlockRests ==
    ASSUME NEW n \in Managers, NEW s \in RouteStates \ {"VerifyingTor"},
           n.pending => n.tor.ready /\ ~n.tor.verified,
           n.started /\ ~n.stopping => n.listening,
           ~n.requested
    PROVE  LET b == Block(n, s)
           IN  AtRest(b) /\ MidSlot(b) /\ b.active = "None" /\ b.sessions = FreeAll
BY NothingRouted DEF Block, BlockAll, AtRest, MidSlot, Steady, Closed, Managers

\* From n to r sessions are closed, and no other is opened in their place.
Frees(n, r) == \A c \in Conns : r.sessions[c] = Free \/ r.sessions[c] = n.sessions[c]

LEMMA FreesTransitive ==
    ASSUME NEW n, NEW m, NEW r, Frees(n, m), Frees(m, r)
    PROVE  Frees(n, r)
BY DEF Frees

LEMMA ClosedFrees ==
    ASSUME NEW n, NEW r, r.sessions = FreeAll
    PROVE  Frees(n, r)
BY DEF Frees, FreeAll

LEMMA SameFrees ==
    ASSUME NEW n, NEW r, r.sessions = n.sessions
    PROVE  Frees(n, r)
BY DEF Frees

\* Installing a policy leaves only sessions that policy routes.
LEMMA SetPolicyRoutes ==
    ASSUME NEW n \in Managers, NEW p \in Policies, SessionsRouted(n)
    PROVE  /\ SessionsRouted(SetPolicy(n, p))
           /\ SetPolicy(n, p).policy = p
           /\ n.sessions = FreeAll => SetPolicy(n, p).sessions = FreeAll
           /\ Frees(n, SetPolicy(n, p))
<1>1. CASE p = n.policy
  BY <1>1, SameFrees DEF SetPolicy
<1>2. CASE p # n.policy
  <2>1. /\ SetPolicy(n, p).sessions = StillRouted(p, n.sessions)
        /\ SetPolicy(n, p).policy = p
    BY <1>2 DEF SetPolicy, Managers
  <2>2. \A c \in Conns : \/ StillRouted(p, n.sessions)[c] = Free
                         \/ /\ StillRouted(p, n.sessions)[c] = n.sessions[c]
                            /\ RouteFor(p, n.sessions[c].host) = n.sessions[c].route
    BY DEF StillRouted
  <2>3. n.sessions = FreeAll => StillRouted(p, n.sessions) = FreeAll
    BY DEF StillRouted, FreeAll
  <2> QED
    BY <2>1, <2>2, <2>3 DEF SessionsRouted, Frees
<1> QED
  BY <1>1, <1>2

\* Two manager states that differ in the policy and the sessions at most.
SameButGateway(a, n) ==
    /\ a.listening = n.listening /\ a.started = n.started
    /\ a.stopping = n.stopping /\ a.preferred = n.preferred
    /\ a.active = n.active /\ a.state = n.state /\ a.allowed = n.allowed
    /\ a.tor = n.tor /\ a.i2p = n.i2p /\ a.failoverFrom = n.failoverFrom
    /\ a.pending = n.pending /\ a.requested = n.requested
    /\ a.recovery = n.recovery /\ a.failures = n.failures

LEMMA ApplyFrame ==
    ASSUME NEW n \in Managers, SessionsRouted(n)
    PROVE  LET a == ApplyGatewayPolicy(n)
           IN  /\ SameButGateway(a, n)
               /\ SessionsRouted(a)
               /\ a.policy = PolicyOf(n)
               /\ n.sessions = FreeAll => a.sessions = FreeAll
               /\ Frees(n, a)
<1>1. SameButGateway(ApplyGatewayPolicy(n), n)
  BY DEF ApplyGatewayPolicy, SetPolicy, SameButGateway, Managers
<1> QED
  BY <1>1, SetPolicyRoutes, PolicyOfType DEF ApplyGatewayPolicy

LEMMA ActivateRests ==
    ASSUME NEW n \in Managers, NEW k \in {"Tor", "I2p"}, MidSlot(n),
           Verified(n, k), n.started, ~n.stopping
    PROVE  LET a == Activate(n, k)
           IN  AtRest(a) /\ a.active = k /\ ~a.requested
               /\ (n.sessions = FreeAll => a.sessions = FreeAll)
               /\ Frees(n, a)
<1> DEFINE m == [n EXCEPT !.recovery = FALSE,
                  !.active = k,
                  !.state = IF k = "Tor" THEN "TorConnected" ELSE "I2pConnected",
                  !.allowed = Verified(n, k)]
<1>1. m \in Managers
  BY ActivatedType
<1>2. SessionsRouted(m)
  BY DEF MidSlot, Steady, SessionsRouted, Managers
<1>3. Activate(n, k) = ApplyGatewayPolicy(m)
  BY DEF Activate
<1>4. /\ m.active = k /\ m.started /\ ~m.stopping /\ m.listening
      /\ m.allowed /\ ~m.recovery /\ ~m.requested
      /\ m.state # "VerifyingTor"
      /\ m.pending => m.tor.ready /\ ~m.tor.verified
      /\ m.sessions = n.sessions
  BY DEF MidSlot, Steady, Managers
<1>5. Verified(m, k)
  BY DEF Verified, Managers
<1> HIDE DEF m
<1> DEFINE a == ApplyGatewayPolicy(m)
<1>6. /\ SameButGateway(a, m)
      /\ SessionsRouted(a)
      /\ a.policy = PolicyOf(m)
      /\ m.sessions = FreeAll => a.sessions = FreeAll
      /\ Frees(m, a)
  BY <1>1, <1>2, ApplyFrame
<1> HIDE DEF a
<1>7. /\ a.active = k /\ a.started /\ ~a.stopping /\ a.listening
      /\ a.allowed /\ ~a.recovery /\ ~a.requested
      /\ a.state # "VerifyingTor"
      /\ a.pending => a.tor.ready /\ ~a.tor.verified
      /\ a.tor = m.tor /\ a.i2p = m.i2p
  BY <1>4, <1>6 DEF SameButGateway
<1>8. Verified(a, k) /\ PolicyOf(m) = PolicyOf(a)
  BY <1>4, <1>5, <1>7 DEF Verified, PolicyOf
<1>9. AtRest(a)
  BY <1>6, <1>7, <1>8 DEF AtRest, Steady
<1> QED
  BY <1>3, <1>4, <1>6, <1>7, <1>9, SameFrees, FreesTransitive DEF a

\* A request made while a network is active lets the check through.
LEMMA RequestRests ==
    ASSUME NEW n \in Managers, AtRest(n), n.active # "None"
    PROVE  LET r == RequestTorVerification(n)
           IN  AtRest(r) /\ r.active = n.active /\ r.sessions = n.sessions
<1> DEFINE r == RequestTorVerification(n)
<1>1. CASE r = n
  BY <1>1
<1>2. CASE r # n
  <2>1. /\ r = [n EXCEPT !.pending = TRUE, !.requested = TRUE]
        /\ n.tor.ready /\ ~n.tor.verified
    BY <1>2 DEF RequestTorVerification
  <2>2. r.policy = PolicyOf(r) /\ PolicyOf(r) = PolicyOf(n)
    BY <2>1 DEF AtRest, PolicyOf, Managers
  <2>3. RouteFor(r.policy, "check").network = "Tor"
    BY <2>1, <2>2 DEF RouteFor, ClearnetOverTor, TorRoute, PolicyOf
  <2>4. /\ r.active = n.active /\ r.allowed = n.allowed /\ r.started = n.started
        /\ r.stopping = n.stopping /\ r.listening = n.listening
        /\ r.recovery = n.recovery /\ r.preferred = n.preferred
        /\ r.state = n.state /\ r.tor = n.tor /\ r.i2p = n.i2p
        /\ r.pending /\ r.policy = n.policy /\ r.sessions = n.sessions
    BY <2>1 DEF Managers
  <2> HIDE DEF r
  <2>5. SessionsRouted(r) /\ (Verified(n, n.active) <=> Verified(r, r.active))
    BY <2>4 DEF AtRest, Steady, SessionsRouted, Verified
  <2>6. AtRest(r)
    BY <2>1, <2>2, <2>3, <2>4, <2>5 DEF AtRest, Steady
  <2> QED
    BY <2>4, <2>6 DEF r
<1> QED
  BY <1>1, <1>2

\* The gate either already lets the check of a pending verification through,
\* or is reopened for a new one.
LEMMA VerifyTorRests ==
    ASSUME NEW n \in Managers, MidSlot(n), n.active = "None",
           n.started, ~n.stopping, n.tor.ready, ~n.tor.verified
    PROVE  LET v == VerifyTor(n)
           IN  /\ AtRest(v)
               /\ n.sessions = FreeAll => v.sessions = FreeAll
               /\ Frees(n, v)
<1>1. CASE n.pending
  BY <1>1, SameFrees DEF VerifyTor, AtRest, MidSlot
<1>2. CASE ~n.pending
  <2> DEFINE b == Block(n, "VerifyingTor")
             a == ApplyGatewayPolicy(b)
             v == RequestTorVerification(a)
  <2>1. b \in Managers
    BY BlockType DEF RouteStates
  <2>2. /\ b.active = "None" /\ ~b.allowed /\ ~b.recovery /\ ~b.pending
        /\ b.state = "VerifyingTor" /\ b.sessions = FreeAll
        /\ b.started /\ ~b.stopping /\ b.listening /\ ~b.requested
        /\ b.tor = n.tor
    BY <1>2 DEF Block, BlockAll, MidSlot, Steady, Managers
  <2> HIDE DEF b
  <2>3. /\ SameButGateway(a, b) /\ a.policy = PolicyOf(b)
        /\ a.sessions = FreeAll /\ a \in Managers
    BY <2>1, <2>2, ApplyFrame, NothingRouted, ApplyType
  <2>4. a.tor = n.tor /\ ~a.pending
    BY <2>2, <2>3 DEF SameButGateway
  <2>5. n.tor.endpoint # NoEndpoint
    BY DEF Managers, TorStatuses
  <2> HIDE DEF a
  <2>6. v = [a EXCEPT !.pending = TRUE, !.requested = TRUE]
    BY <2>4, <2>5 DEF RequestTorVerification
  <2>0. /\ a.active = "None" /\ ~a.allowed /\ ~a.recovery
        /\ a.state = "VerifyingTor"
        /\ a.started /\ ~a.stopping /\ a.listening
    BY <2>2, <2>3 DEF SameButGateway
  <2> DEFINE r == [a EXCEPT !.pending = TRUE, !.requested = TRUE]
  <2>r. /\ r.active = a.active /\ r.allowed = a.allowed /\ r.recovery = a.recovery
        /\ r.pending /\ r.state = a.state /\ r.sessions = a.sessions
        /\ r.started = a.started /\ r.stopping = a.stopping
        /\ r.listening = a.listening /\ r.tor = a.tor /\ r.policy = a.policy
    BY <2>3 DEF Managers
  <2> HIDE DEF r
  <2>7. /\ v.active = "None" /\ ~v.allowed /\ ~v.recovery /\ v.pending
        /\ v.state = "VerifyingTor" /\ v.sessions = FreeAll
        /\ v.started /\ ~v.stopping /\ v.listening
        /\ v.tor = n.tor /\ v.policy = PolicyOf(b)
    BY <2>0, <2>3, <2>4, <2>6, <2>r DEF r
  <2>8. Probing(v) /\ RouteFor(v.policy, "check").network = "Tor"
    BY <2>2, <2>7 DEF PolicyOf, Probing, RouteFor, ClearnetOverTor, TorRoute
  <2>9. VerifyTor(n) = v
    BY <1>2 DEF VerifyTor, a, b
  <2> HIDE DEF v
  <2> QED
    BY <2>7, <2>8, <2>9, NothingRouted, ClosedFrees DEF AtRest, Steady
<1> QED
  BY <1>1, <1>2

LEMMA KeepActiveRests ==
    ASSUME NEW n \in Managers, MidSlot(n), Verified(n, n.active)
    PROVE  LET k == KeepActive(n)
           IN  /\ AtRest(k)
               /\ k.active = n.active
               /\ n.sessions = FreeAll => k.sessions = FreeAll
               /\ Frees(n, k)
<1> DEFINE m == ApplyGatewayPolicy(n)
<1>1. /\ SameButGateway(m, n) /\ SessionsRouted(m) /\ m.policy = PolicyOf(n)
      /\ n.sessions = FreeAll => m.sessions = FreeAll
      /\ Frees(n, m)
      /\ m \in Managers
  BY ApplyFrame, ApplyType DEF MidSlot, Steady
<1>2. n.active # "None"
  BY DEF Verified
<1>3. PolicyOf(n) = PolicyOf(m) /\ Verified(m, m.active)
  BY <1>1 DEF SameButGateway, PolicyOf, Verified
<1> HIDE DEF m
<1>4. AtRest(m) /\ m.active # "None"
  BY <1>1, <1>2, <1>3 DEF SameButGateway, AtRest, MidSlot, Steady
<1>5. LET r == SchedulePreferredRecovery(m)
      IN  AtRest(r) /\ r.active = m.active /\ r.sessions = m.sessions
  <2>1. CASE SchedulePreferredRecovery(m) = m
    BY <1>4, <2>1
  <2>2. CASE SchedulePreferredRecovery(m) # m
    <3> DEFINE r == [m EXCEPT !.recovery = TRUE]
    <3>1. m.active # m.preferred /\ SchedulePreferredRecovery(m) = r
      BY <2>2 DEF SchedulePreferredRecovery
    <3>2. /\ r.policy = m.policy /\ r.sessions = m.sessions /\ r.active = m.active
          /\ r.allowed = m.allowed /\ r.started = m.started
          /\ r.stopping = m.stopping /\ r.listening = m.listening
          /\ r.preferred = m.preferred /\ r.pending = m.pending
          /\ r.requested = m.requested /\ r.state = m.state
          /\ r.tor = m.tor /\ r.i2p = m.i2p
      BY <1>1 DEF Managers
    <3> HIDE DEF r
    <3>3. PolicyOf(r) = PolicyOf(m) /\ SessionsRouted(r) /\ Verified(r, r.active)
      BY <1>1, <1>3, <3>2 DEF PolicyOf, SessionsRouted, Verified
    <3> QED
      BY <1>4, <3>1, <3>2, <3>3 DEF AtRest, Steady
  <2> QED
    BY <2>1, <2>2
<1>6. LET r == RequestTorVerification(m)
      IN  AtRest(r) /\ r.active = m.active /\ r.sessions = m.sessions
  BY <1>1, <1>4, RequestRests
<1> QED
  BY <1>1, <1>4, <1>5, <1>6, SameFrees, FreesTransitive
     DEF KeepActive, m, SameButGateway

\* Setting failoverFrom disturbs nothing.
LEMMA FailoverMidSlot ==
    ASSUME NEW n \in Managers, MidSlot(n), NEW k \in Networks
    PROVE  LET f == [n EXCEPT !.failoverFrom = k]
           IN  /\ MidSlot(f)
               /\ \A w \in Networks : Verified(n, w) => Verified(f, w)
               /\ f.started = n.started /\ f.stopping = n.stopping
               /\ f.sessions = n.sessions /\ f.active = n.active
BY DEF MidSlot, Steady, Verified, SessionsRouted, Closed, Probing, Managers

LEMMA ReevaluateRests ==
    ASSUME NEW n \in Managers, MidSlot(n)
    PROVE  LET r == Reevaluate(n)
           IN  /\ AtRest(r)
               /\ n.active # "None" => r.active = n.active
               /\ n.sessions = FreeAll => r.sessions = FreeAll
               /\ Frees(n, r)
<1>1. CASE ~n.started \/ n.stopping
  BY <1>1, SameFrees DEF Reevaluate, MidSlot, AtRest, Steady
<1>2. CASE n.started /\ ~n.stopping /\ Verified(n, n.active)
  BY <1>2, KeepActiveRests DEF Reevaluate
<1>3. CASE n.started /\ ~n.stopping /\ ~Verified(n, n.active)
  <2>1. n.active = "None"
    BY <1>3 DEF MidSlot, Steady
  <2> DEFINE Rests(r) == /\ AtRest(r)
                         /\ n.sessions = FreeAll => r.sessions = FreeAll
                         /\ Frees(n, r)
  <2>2. \A s \in RouteStates \ {"VerifyingTor"} : Rests(Block(n, s))
    BY BlockRests, ClosedFrees DEF MidSlot, Steady
  <2>3. \A k \in {"Tor", "I2p"} : Verified(n, k) => Rests(Activate(n, k))
    BY <1>3, ActivateRests
  <2>4. n.tor.ready /\ ~n.tor.verified => Rests(VerifyTor(n))
    BY <1>3, <2>1, VerifyTorRests
  <2>5. \A k \in {"Tor", "I2p"}, w \in Networks :
          Verified(n, k) => Rests(Activate([n EXCEPT !.failoverFrom = w], k))
    <3> SUFFICES ASSUME NEW k \in {"Tor", "I2p"}, NEW w \in Networks, Verified(n, k)
                 PROVE  Rests(Activate([n EXCEPT !.failoverFrom = w], k))
      OBVIOUS
    <3> DEFINE f == [n EXCEPT !.failoverFrom = w]
    <3>1. f \in Managers
      BY FailoverType
    <3>2. /\ MidSlot(f) /\ Verified(f, k) /\ f.started /\ ~f.stopping
          /\ f.sessions = n.sessions
      BY <1>3, FailoverMidSlot
    <3> HIDE DEF f
    <3>3. Rests(Activate(f, k))
      BY <3>1, <3>2, ActivateRests, SameFrees, FreesTransitive
    <3> QED
      BY <3>3 DEF f
  <2>6. Verified(n, "I2p") =>
          Rests(RequestTorVerification(Activate(n, "I2p")))
    <3> DEFINE a == Activate(n, "I2p")
               r == RequestTorVerification(a)
    <3> SUFFICES ASSUME Verified(n, "I2p") PROVE Rests(r)
      OBVIOUS
    <3>1. /\ a \in Managers /\ AtRest(a) /\ a.active = "I2p" /\ Frees(n, a)
          /\ n.sessions = FreeAll => a.sessions = FreeAll
      BY <1>3, ActivateRests, ActivateType
    <3> HIDE DEF a
    <3>2. AtRest(r) /\ r.sessions = a.sessions
      BY <3>1, RequestRests
    <3> HIDE DEF r
    <3> QED
      BY <3>1, <3>2 DEF Frees
  <2>7. /\ n.tor.verified <=> Verified(n, "Tor")
        /\ n.i2p.verified <=> Verified(n, "I2p")
    BY DEF Verified
  <2> HIDE DEF Rests
  <2>8. Rests(AfterTorLoss(n))
    BY <2>2, <2>3, <2>7 DEF AfterTorLoss, RouteStates
  <2>9. Rests(AfterI2pLoss(n))
    BY <2>2, <2>3, <2>4, <2>7 DEF AfterI2pLoss, RouteStates
  <2>10. Rests(PreferTor(n))
    BY <2>2, <2>3, <2>4, <2>5, <2>7 DEF PreferTor, RouteStates
  <2>11. Rests(PreferI2p(n))
    BY <2>2, <2>4, <2>5, <2>6, <2>7 DEF PreferI2p, RouteStates
  <2>12. Rests(Reevaluate(n))
    BY <1>3, <2>8, <2>9, <2>10, <2>11 DEF Reevaluate
  <2> QED
    BY <2>1, <2>12 DEF Rests
<1> QED
  BY <1>1, <1>2, <1>3

-----------------------------------------------------------------------------
(* Status reports *)

LEMMA AtRestMidSlot ==
    ASSUME NEW n \in Managers, AtRest(n), ~n.requested
    PROVE  MidSlot(n)
BY DEF AtRest, MidSlot

\* A report leaves the manager at rest; if it changes the active network, or
\* if the sessions were closed before, they are closed afterwards.
LEMMA UpdateTorRests ==
    ASSUME NEW n \in Managers, MidSlot(n), NEW s \in TorStatuses
    PROVE  LET u == UpdateTorStatus(n, s)
           IN  /\ u \in Managers
               /\ AtRest(u)
               /\ n.active # "None" /\ u.active # n.active => u.sessions = FreeAll
               /\ n.sessions = FreeAll => u.sessions = FreeAll
               /\ Frees(n, u)
<1> DEFINE settled == ~s.ready \/ s.failed \/ s.verified
           m == [n EXCEPT !.tor = s,
                          !.pending = n.pending /\ ~settled,
                          !.failures["Tor"] = IF s.verified THEN 0 ELSE @]
           lost == n.tor.verified /\ ~s.verified /\ n.active = "Tor"
           l == [m EXCEPT !.failoverFrom = "Tor"]
           b == Block(l, "SwitchingTorToI2p")
<1>1. m \in Managers
  <2>1. [n.failures EXCEPT !["Tor"] = IF s.verified THEN 0 ELSE @]
           \in [{"Tor", "I2p"} -> 0 .. FailureThreshold - 1]
    BY ThresholdPositive DEF Managers
  <2> QED
    BY <2>1 DEF Managers
<1>2. /\ m.tor = s /\ m.i2p = n.i2p /\ m.active = n.active
      /\ m.allowed = n.allowed /\ m.started = n.started /\ m.stopping = n.stopping
      /\ m.listening = n.listening /\ m.recovery = n.recovery
      /\ m.preferred = n.preferred /\ m.state = n.state /\ m.policy = n.policy
      /\ m.sessions = n.sessions /\ m.requested = n.requested
      /\ m.pending => n.pending /\ s.ready /\ ~s.verified
  BY DEF Managers
<1>3. UpdateTorStatus(n, s) = Reevaluate(IF lost THEN b ELSE m)
  BY DEF UpdateTorStatus
<1> HIDE DEF m
<1>4. CASE lost
  <2>1. /\ l \in Managers
        /\ l.started = m.started /\ l.stopping = m.stopping
        /\ l.listening = m.listening /\ l.pending = m.pending
        /\ l.requested = m.requested /\ l.tor = m.tor
    BY <1>1, FailoverType, ZenonT(60) DEF SameButGateway, Managers
  <2> HIDE DEF l
  <2>2. /\ l.pending => l.tor.ready /\ ~l.tor.verified
        /\ l.started /\ ~l.stopping => l.listening
        /\ ~l.requested
    BY <1>2, <2>1 DEF MidSlot, Steady
  <2>3. b \in Managers
    BY <2>1, BlockType DEF RouteStates
  <2>4. MidSlot(b) /\ b.sessions = FreeAll
    BY <2>1, <2>2, BlockRests DEF RouteStates
  <2> HIDE DEF b
  <2> QED
    BY <1>3, <1>4, <2>3, <2>4, ReevaluateType, ReevaluateRests, ClosedFrees
<1>5. CASE ~lost
  <2>1. n.active # "None" => Verified(m, m.active)
    BY <1>2, <1>5 DEF Verified, MidSlot, Steady
  <2>2. MidSlot(m)
    BY <1>2, <2>1 DEF MidSlot, Steady, SessionsRouted, Closed, Probing
  <2> QED
    BY <1>1, <1>2, <1>3, <1>5, <2>2, ReevaluateType, ReevaluateRests,
       SameFrees, FreesTransitive
<1> QED
  BY <1>4, <1>5

LEMMA UpdateI2pRests ==
    ASSUME NEW n \in Managers, MidSlot(n), NEW s \in I2pStatuses
    PROVE  LET u == UpdateI2pStatus(n, s)
           IN  /\ u \in Managers
               /\ AtRest(u)
               /\ n.active # "None" /\ u.active # n.active => u.sessions = FreeAll
               /\ n.sessions = FreeAll => u.sessions = FreeAll
               /\ Frees(n, u)
<1> DEFINE m == [n EXCEPT !.i2p = s,
                          !.failures["I2p"] = IF s.verified THEN 0 ELSE @]
           lost == n.i2p.verified /\ ~s.verified /\ n.active = "I2p"
           l == [m EXCEPT !.failoverFrom = "I2p"]
           b == Block(l, "SwitchingI2pToTor")
<1>1. m \in Managers
  <2>1. [n.failures EXCEPT !["I2p"] = IF s.verified THEN 0 ELSE @]
           \in [{"Tor", "I2p"} -> 0 .. FailureThreshold - 1]
    BY ThresholdPositive DEF Managers
  <2> QED
    BY <2>1 DEF Managers
<1>2. /\ m.tor = n.tor /\ m.i2p = s /\ m.active = n.active
      /\ m.allowed = n.allowed /\ m.started = n.started /\ m.stopping = n.stopping
      /\ m.listening = n.listening /\ m.recovery = n.recovery
      /\ m.preferred = n.preferred /\ m.state = n.state /\ m.policy = n.policy
      /\ m.sessions = n.sessions /\ m.requested = n.requested
      /\ m.pending = n.pending
  BY DEF Managers
<1>3. UpdateI2pStatus(n, s) = Reevaluate(IF lost THEN b ELSE m)
  BY DEF UpdateI2pStatus
<1> HIDE DEF m
<1>4. CASE lost
  <2>1. /\ l \in Managers
        /\ l.started = m.started /\ l.stopping = m.stopping
        /\ l.listening = m.listening /\ l.pending = m.pending
        /\ l.requested = m.requested /\ l.tor = m.tor
    BY <1>1, FailoverType, ZenonT(60) DEF Managers
  <2> HIDE DEF l
  <2>2. /\ l.pending => l.tor.ready /\ ~l.tor.verified
        /\ l.started /\ ~l.stopping => l.listening
        /\ ~l.requested
    BY <1>2, <2>1 DEF MidSlot, Steady
  <2>3. b \in Managers
    BY <2>1, BlockType DEF RouteStates
  <2>4. MidSlot(b) /\ b.sessions = FreeAll
    BY <2>1, <2>2, BlockRests DEF RouteStates
  <2> HIDE DEF b
  <2> QED
    BY <1>3, <1>4, <2>3, <2>4, ReevaluateType, ReevaluateRests, ClosedFrees
<1>5. CASE ~lost
  <2>1. n.active # "None" => Verified(m, m.active)
    BY <1>2, <1>5 DEF Verified, MidSlot, Steady
  <2>2. MidSlot(m)
    BY <1>2, <2>1 DEF MidSlot, Steady, SessionsRouted, Closed, Probing
  <2> QED
    BY <1>1, <1>2, <1>3, <1>5, <2>2, ReevaluateType, ReevaluateRests,
       SameFrees, FreesTransitive
<1> QED
  BY <1>4, <1>5

LEMMA BackendFailureRests ==
    ASSUME NEW n \in Managers, AtRest(n), ~n.requested, NEW k \in {"Tor", "I2p"}
    PROVE  LET u == HandleBackendFailure(n, k)
           IN  /\ u \in Managers
               /\ AtRest(u)
               /\ n.active # "None" /\ u.active # n.active => u.sessions = FreeAll
               /\ Frees(n, u)
<1> DEFINE m == CountBackendFailure(n, k)
<1>1. m \in Managers
  <2>1. (n.failures[k] + 1) % FailureThreshold \in 0 .. FailureThreshold - 1
    BY ThresholdPositive DEF Managers
  <2>2. [n.failures EXCEPT ![k] = (@ + 1) % FailureThreshold]
           \in [{"Tor", "I2p"} -> 0 .. FailureThreshold - 1]
    BY <2>1 DEF Managers
  <2> QED
    BY <2>2 DEF CountBackendFailure, Managers
<1>2. /\ m.tor = n.tor /\ m.i2p = n.i2p /\ m.active = n.active
      /\ m.allowed = n.allowed /\ m.started = n.started /\ m.stopping = n.stopping
      /\ m.listening = n.listening /\ m.recovery = n.recovery
      /\ m.preferred = n.preferred /\ m.state = n.state /\ m.policy = n.policy
      /\ m.sessions = n.sessions /\ m.requested = n.requested
      /\ m.pending = n.pending
  BY DEF CountBackendFailure, Managers
<1>3. /\ HandleBackendFailure(n, k) =
           IF ~RouteFailureDetected(n, k) THEN m
           ELSE IF k = "Tor" THEN UpdateTorStatus(m, TorRouteFailed(m))
           ELSE UpdateI2pStatus(m, I2pDown)
  BY DEF HandleBackendFailure
<1> HIDE DEF m
<1>4. AtRest(m)
  BY <1>2 DEF AtRest, Steady, SessionsRouted, Closed, Probing, PolicyOf, Verified
<1>5. MidSlot(m)
  BY <1>1, <1>2, <1>4, AtRestMidSlot
<1>6. TorRouteFailed(m) \in TorStatuses /\ I2pDown \in I2pStatuses
  BY <1>1 DEF TorRouteFailed, I2pDown, TorStatuses, I2pStatuses, Managers
<1> QED
  BY <1>1, <1>2, <1>3, <1>4, <1>5, <1>6, UpdateTorRests, UpdateI2pRests,
     SameFrees, FreesTransitive

-----------------------------------------------------------------------------
(* One slot *)

\* What a slot that starts in net and ends in m establishes.
SlotRests(m) ==
    /\ m \in Managers
    /\ AtRest(m)
    /\ net.active # "None" /\ m.active # net.active => m.sessions = FreeAll
    /\ Frees(net, m) \/ \E c \in Conns, h \in Hosts : OpenSession(c, h)

LEMMA InitRests == Init => IInv
<1> SUFFICES ASSUME Init PROVE IInv
  OBVIOUS
<1>1. TypeOK
  BY FreeType, ThresholdPositive
     DEF Init, TypeOK, Managers, RouteStates, TorStatuses, NoTor, I2pStatuses, I2pDown
<1>2. AtRest(net)
  BY NothingRouted DEF Init, AtRest, Steady, Closed, NoTor
<1> QED
  BY <1>1, <1>2 DEF IInv

LEMMA NowRests ==
    ASSUME IInv
    PROVE  /\ Now \in Managers /\ AtRest(Now) /\ MidSlot(Now) /\ ~Now.requested
           /\ Now.active = net.active /\ Now.sessions = net.sessions
<1>1. /\ Now \in Managers /\ ~Now.requested
      /\ Now.policy = net.policy /\ Now.sessions = net.sessions
  BY DEF Now, IInv, TypeOK, Managers
<1>2. /\ Now.active = net.active
      /\ Now.allowed = net.allowed /\ Now.started = net.started
      /\ Now.stopping = net.stopping /\ Now.listening = net.listening
      /\ Now.recovery = net.recovery /\ Now.preferred = net.preferred
      /\ Now.state = net.state /\ Now.tor = net.tor /\ Now.i2p = net.i2p
      /\ Now.pending = net.pending
  BY DEF Now, IInv, TypeOK, Managers
<1>3. AtRest(net)
  BY DEF IInv
<1>4. AtRest(Now)
  BY <1>1, <1>2, <1>3
     DEF AtRest, Steady, SessionsRouted, Closed, Probing, PolicyOf, Verified
<1> QED
  BY <1>1, <1>2, <1>4, AtRestMidSlot

\* Closing one session leaves a manager at rest.
LEMMA FreeOneRests ==
    ASSUME NEW n \in Managers, AtRest(n), NEW c \in Conns
    PROVE  LET f == [n EXCEPT !.sessions[c] = Free]
           IN  /\ f \in Managers /\ AtRest(f) /\ f.active = n.active
               /\ n.sessions = FreeAll => f.sessions = FreeAll
               /\ Frees(n, f)
<1> DEFINE ss == [n.sessions EXCEPT ![c] = Free]
           f == [n EXCEPT !.sessions[c] = Free]
<1>1. ss \in [Conns -> Sessions] /\ (n.sessions = FreeAll => ss = FreeAll)
  BY DEF Managers, Free, Sessions, Routes, NoRoute, FreeAll
<1>2. \A d \in Conns : ss[d] = Free \/ ss[d] = n.sessions[d]
  BY DEF Managers
<1>3. f \in Managers /\ f.sessions = ss
  BY <1>1 DEF Managers
<1> HIDE DEF ss
<1>4. SameButGateway(f, n) /\ f.policy = n.policy
  BY DEF Managers, SameButGateway
<1> HIDE DEF f
<1>5. SessionsRouted(f)
  BY <1>2, <1>3, <1>4 DEF AtRest, Steady, SessionsRouted
<1>6. AtRest(f)
  BY <1>1, <1>3, <1>4, <1>5
     DEF AtRest, Steady, Closed, Probing, PolicyOf, Verified, SameButGateway
<1> QED
  BY <1>1, <1>2, <1>3, <1>4, <1>6 DEF f, SameButGateway, Frees

LEMMA InitializeGatewayRests ==
    ASSUME IInv, InitializeGateway
    PROVE  SlotRests(net')
<1> DEFINE n == [Now EXCEPT !.listening = TRUE]
<1>1. /\ n \in Managers /\ ~n.requested /\ ~n.allowed /\ n.active = "None"
      /\ ~n.recovery /\ n.state # "VerifyingTor" /\ n.listening
      /\ n.pending => n.tor.ready /\ ~n.tor.verified
      /\ net.active = "None"
  BY NowRests DEF Now, InitializeGateway, IInv, TypeOK, AtRest, Steady, Managers
<1> HIDE DEF n
<1>2. net' = [n EXCEPT !.policy = BlockingPolicy, !.sessions = FreeAll]
  BY DEF InitializeGateway, BlockAll, n
<1>3. net' \in Managers
  BY <1>1, <1>2, FreeType DEF Managers
<1>4. /\ SameButGateway(net', n) /\ net'.policy = BlockingPolicy
      /\ net'.sessions = FreeAll
  BY <1>1, <1>2 DEF Managers, SameButGateway
<1>5. AtRest(net')
  BY <1>1, <1>4, NothingRouted DEF AtRest, Steady, Closed, SameButGateway
<1> QED
  BY <1>1, <1>3, <1>4, <1>5, ClosedFrees DEF SlotRests

LEMMA StartRests ==
    ASSUME IInv, NEW preferred \in {"Tor", "I2p"}, NEW report \in {I2pDown, I2pFailed},
           Start(preferred, report)
    PROVE  SlotRests(net')
<1> DEFINE s == IF preferred = "Tor" THEN "StartingTor" ELSE "StartingI2p"
           n == [Now EXCEPT !.started = TRUE, !.stopping = FALSE,
                            !.preferred = preferred]
           b == Block(n, s)
<1>1. /\ n \in Managers /\ ~n.requested /\ n.listening
      /\ n.pending => n.tor.ready /\ ~n.tor.verified
  BY NowRests DEF Start, Now, IInv, TypeOK, AtRest, Steady, Managers
<1> HIDE DEF n
<1>2. s \in RouteStates \ {"VerifyingTor"}
  BY DEF RouteStates
<1>3. b \in Managers /\ MidSlot(b) /\ b.sessions = FreeAll
  BY <1>1, <1>2, BlockRests, BlockType
<1>4. report \in I2pStatuses
  <2>1. I2pDown \in I2pStatuses
    BY DEF I2pDown, I2pStatuses
  <2>2. I2pFailed \in I2pStatuses
    BY DEF I2pFailed, I2pStatuses
  <2> QED
    BY <2>1, <2>2
<1>5. net' = UpdateI2pStatus(b, report)
  BY DEF Start, n
<1>6. net.active = "None"
  BY DEF Start, IInv, AtRest, Steady
<1> HIDE DEF b
<1> QED
  BY <1>3, <1>4, <1>5, <1>6, UpdateI2pRests, ClosedFrees DEF SlotRests

LEMMA SetPreferredRests ==
    ASSUME IInv, NEW preferred \in {"Tor", "I2p"}, SetPreferredNetwork(preferred)
    PROVE  SlotRests(net')
<1> DEFINE n == [Now EXCEPT !.preferred = preferred, !.recovery = FALSE,
                            !.failoverFrom = "None", !.pending = FALSE,
                            !.active = "None", !.allowed = FALSE]
           b == BlockAll(n)
<1>1. /\ n \in Managers /\ ~n.requested /\ ~n.pending /\ ~n.recovery
      /\ ~n.allowed /\ n.active = "None"
      /\ n.started /\ ~n.stopping => n.listening
      /\ n.state = "VerifyingTor" => n.started /\ ~n.stopping
  BY NowRests, ZenonT(60) DEF Now, IInv, TypeOK, AtRest, Steady, Managers
<1> HIDE DEF n
<1>2. b \in Managers
  BY <1>1, FreeType DEF BlockAll, Managers
<1>3. SameButGateway(b, n) /\ b.policy = BlockingPolicy /\ b.sessions = FreeAll
  BY <1>1 DEF BlockAll, Managers, SameButGateway
<1> HIDE DEF b
<1>4. MidSlot(b)
  BY <1>1, <1>3, NothingRouted DEF MidSlot, Steady, Closed, SameButGateway
<1>5. net' = Reevaluate(b)
  BY DEF SetPreferredNetwork, n, b
<1> QED
  BY <1>2, <1>3, <1>4, <1>5, ReevaluateType, ReevaluateRests, ClosedFrees
     DEF SlotRests

LEMMA RecoveryTimeoutRests ==
    ASSUME IInv, RecoveryTimeout
    PROVE  SlotRests(net')
<1> DEFINE n == [Now EXCEPT !.recovery = FALSE]
           f == [n EXCEPT !.failoverFrom = "None"]
           s == IF n.active = "Tor" THEN "SwitchingTorToI2p" ELSE "SwitchingI2pToTor"
           b == Block(f, s)
<1>1. n \in Managers
  BY NowRests DEF Managers
<1>2. /\ n.policy = Now.policy /\ n.sessions = Now.sessions
      /\ ~n.recovery /\ ~n.requested /\ n.active = Now.active
      /\ n.allowed = Now.allowed /\ n.started = Now.started
      /\ n.stopping = Now.stopping /\ n.listening = Now.listening
      /\ n.state = Now.state /\ n.tor = Now.tor /\ n.i2p = Now.i2p
      /\ n.pending = Now.pending /\ n.preferred = Now.preferred
  BY NowRests DEF Managers
<1>3. net' = n \/ net' = Reevaluate(b)
  BY DEF RecoveryTimeout
<1> HIDE DEF n
<1>4. AtRest(n)
  BY <1>2, NowRests
     DEF AtRest, Steady, SessionsRouted, Closed, Probing, PolicyOf, Verified
<1>5. /\ f \in Managers /\ ~f.requested
      /\ f.started /\ ~f.stopping => f.listening
      /\ f.pending => f.tor.ready /\ ~f.tor.verified
  BY <1>1, <1>2, <1>4 DEF AtRest, Steady, Managers
<1> HIDE DEF f
<1>6. b \in Managers /\ MidSlot(b) /\ b.sessions = FreeAll
  BY <1>5, BlockRests, BlockType DEF RouteStates
<1> HIDE DEF b
<1> QED
  BY <1>1, <1>2, <1>3, <1>4, <1>6, NowRests, ReevaluateType, ReevaluateRests,
     ClosedFrees, SameFrees DEF SlotRests

LEMMA StopRests ==
    ASSUME IInv, Stop
    PROVE  SlotRests(net')
<1> DEFINE n == [Now EXCEPT !.stopping = TRUE]
           b == Block(n, "Stopping")
           u == UpdateI2pStatus(b, I2pDown)
<1>1. /\ n \in Managers /\ ~n.requested /\ n.stopping
      /\ n.pending => n.tor.ready /\ ~n.tor.verified
  BY NowRests DEF AtRest, Steady, Managers
<1> HIDE DEF n
<1>2. /\ b \in Managers
      /\ b.active = "None" /\ b.stopping /\ b.sessions = FreeAll
      /\ b.policy = BlockingPolicy /\ b.state = "Stopping"
      /\ MidSlot(b)
  <2>1. "Stopping" \in RouteStates \ {"VerifyingTor"}
    BY DEF RouteStates
  <2>2. b \in Managers /\ MidSlot(b) /\ b.active = "None" /\ b.sessions = FreeAll
    BY <1>1, <2>1, BlockRests, BlockType
  <2>3. b.stopping /\ b.policy = BlockingPolicy /\ b.state = "Stopping"
    BY <1>1 DEF Block, BlockAll, Managers
  <2> QED
    BY <2>2, <2>3
<1> HIDE DEF b
<1>3. u = [b EXCEPT !.i2p = I2pDown]
  BY <1>2 DEF UpdateI2pStatus, Reevaluate, I2pDown, Managers
<1>4. net' = [u EXCEPT !.sessions = FreeAll, !.listening = FALSE,
                       !.allowed = FALSE, !.active = "None"]
  BY DEF Stop, n, b
<1>5. net' = [b EXCEPT !.i2p = I2pDown, !.sessions = FreeAll, !.listening = FALSE,
                       !.allowed = FALSE, !.active = "None"]
  BY <1>2, <1>3, <1>4 DEF Managers
<1>6. net' \in Managers
  BY <1>2, <1>5, FreeType, ZenonT(60) DEF Managers, I2pDown, I2pStatuses
<1>7. /\ ~net'.allowed /\ net'.active = "None" /\ net'.stopping
      /\ net'.sessions = FreeAll /\ net'.policy = BlockingPolicy
      /\ net'.state = "Stopping" /\ net'.tor = b.tor /\ net'.pending = b.pending
      /\ net'.recovery = b.recovery /\ net'.requested = b.requested
      /\ net'.preferred = b.preferred
  BY <1>2, <1>5 DEF Managers
<1>8. AtRest(net')
  BY <1>2, <1>7, NothingRouted DEF AtRest, MidSlot, Steady, Closed
<1> QED
  BY <1>6, <1>7, <1>8, ClosedFrees DEF SlotRests

LEMMA OpenSessionRests ==
    ASSUME IInv, NEW c \in Conns, NEW h \in Hosts, OpenSession(c, h)
    PROVE  SlotRests(net')
<1> DEFINE s == [host |-> h, route |-> RouteFor(net.policy, h)]
           ss == [net.sessions EXCEPT ![c] = s]
<1>1. /\ s \in Sessions /\ s.route.network # "None"
      /\ RouteFor(net.policy, s.host) = s.route
  BY RouteForType DEF OpenSession, IInv, TypeOK, Managers, Sessions, RouteFor,
     NoRoute, TorRoute, I2pRoute
<1> HIDE DEF s
<1>2. /\ ss \in [Conns -> Sessions]
      /\ \A d \in Conns : ss[d] = s \/ ss[d] = net.sessions[d]
  BY <1>1 DEF IInv, TypeOK, Managers
<1>3. /\ net' \in Managers
      /\ SameButGateway(net', Now) /\ net'.policy = Now.policy /\ net'.sessions = ss
  BY <1>2, NowRests DEF OpenSession, Managers, SameButGateway, s
<1>4. Now.policy = net.policy
  BY DEF Now, IInv, TypeOK, Managers
<1> HIDE DEF ss
<1>5. SessionsRouted(net')
  BY <1>1, <1>2, <1>3, <1>4, NowRests DEF AtRest, Steady, SessionsRouted
<1>6. ~Closed(Now)
  BY <1>4 DEF OpenSession, Closed, BlockingPolicy, RouteFor, ClearnetOverTor,
     ClearnetOverI2p
<1>7. AtRest(net')
  BY <1>3, <1>5, <1>6, NowRests
     DEF AtRest, Steady, Closed, Probing, PolicyOf, Verified, SameButGateway
<1> QED
  BY <1>3, <1>7, NowRests DEF SlotRests, SameButGateway

LEMMA EstablishTunnelRests ==
    ASSUME IInv, NEW c \in Conns, EstablishTunnel(c)
    PROVE  SlotRests(net')
<1> DEFINE k == net.sessions[c].route.network
<1>1. k \in {"Tor", "I2p"}
  BY DEF EstablishTunnel, IInv, TypeOK, AtRest, Steady, SessionsRouted, Managers,
     Sessions, Routes
<1> HIDE DEF k
<1>2. net' = [Now EXCEPT !.failures[k] = 0]
  BY DEF EstablishTunnel, k
<1>3. [Now.failures EXCEPT ![k] = 0] \in [{"Tor", "I2p"} -> 0 .. FailureThreshold - 1]
  BY <1>1, NowRests, ThresholdPositive DEF Managers
<1>4. net' \in Managers
  BY <1>2, <1>3, NowRests DEF Managers
<1>5. /\ net'.tor = Now.tor /\ net'.i2p = Now.i2p /\ net'.active = Now.active
      /\ net'.allowed = Now.allowed /\ net'.started = Now.started
      /\ net'.stopping = Now.stopping /\ net'.listening = Now.listening
      /\ net'.recovery = Now.recovery /\ net'.preferred = Now.preferred
      /\ net'.state = Now.state /\ net'.policy = Now.policy
      /\ net'.sessions = Now.sessions /\ net'.requested = Now.requested
      /\ net'.pending = Now.pending
  BY <1>2, NowRests DEF Managers
<1>6. AtRest(net')
  BY <1>5, NowRests
     DEF AtRest, Steady, SessionsRouted, Closed, Probing, PolicyOf, Verified
<1> QED
  BY <1>4, <1>5, <1>6, NowRests, SameFrees DEF SlotRests

LEMMA FailSessionRests ==
    ASSUME IInv, NEW c \in Conns, FailSession(c)
    PROVE  SlotRests(net')
<1> DEFINE k == net.sessions[c].route.network
           u == HandleBackendFailure(Now, k)
<1>1. k \in {"Tor", "I2p"}
  BY DEF FailSession, IInv, TypeOK, AtRest, Steady, SessionsRouted, Managers,
     Sessions, Routes
<1>2. net' = [u EXCEPT !.sessions[c] = Free]
  BY DEF FailSession
<1> HIDE DEF k
<1>3. /\ u \in Managers /\ AtRest(u)
      /\ Now.active # "None" /\ u.active # Now.active => u.sessions = FreeAll
      /\ Frees(Now, u)
  BY <1>1, NowRests, BackendFailureRests
<1> HIDE DEF u
<1>4. /\ net' \in Managers /\ AtRest(net') /\ net'.active = u.active
      /\ u.sessions = FreeAll => net'.sessions = FreeAll
      /\ Frees(u, net')
  BY <1>2, <1>3, FreeOneRests
<1>5. Frees(net, net')
  BY <1>3, <1>4, NowRests DEF Frees
<1> QED
  BY <1>3, <1>4, <1>5, NowRests DEF SlotRests

\* Every slot ends at rest.
LEMMA NextRests ==
    ASSUME IInv, Next
    PROVE  SlotRests(net')
<1>1. CASE InitializeGateway
  BY <1>1, InitializeGatewayRests
<1>2. ASSUME NEW preferred \in {"Tor", "I2p"}, SetPreferredNetwork(preferred)
      PROVE  SlotRests(net')
  BY <1>2, SetPreferredRests
<1>3. ASSUME NEW preferred \in {"Tor", "I2p"}, NEW report \in {I2pDown, I2pFailed},
             Start(preferred, report)
      PROVE  SlotRests(net')
  BY <1>3, StartRests
<1>4. ASSUME NEW s \in TorStatuses, TorStatusChanged(s)
      PROVE  SlotRests(net')
  BY <1>4, NowRests, UpdateTorRests, SameFrees, FreesTransitive
     DEF TorStatusChanged, SlotRests
<1>5. ASSUME NEW s \in I2pStatuses, I2pStatusChanged(s)
      PROVE  SlotRests(net')
  BY <1>5, NowRests, UpdateI2pRests, SameFrees, FreesTransitive
     DEF I2pStatusChanged, SlotRests
<1>6. CASE RecoveryTimeout
  BY <1>6, RecoveryTimeoutRests
<1>7. CASE Stop
  BY <1>7, StopRests
<1>8. ASSUME NEW c \in Conns, NEW h \in Hosts, OpenSession(c, h)
      PROVE  SlotRests(net')
  BY <1>8, OpenSessionRests
<1>9. ASSUME NEW c \in Conns, EstablishTunnel(c)
      PROVE  SlotRests(net')
  BY <1>9, EstablishTunnelRests
<1>10. ASSUME NEW c \in Conns, CloseSession(c)
       PROVE  SlotRests(net')
  BY <1>10, NowRests, FreeOneRests, SameFrees, FreesTransitive
     DEF CloseSession, SlotRests
<1>11. ASSUME NEW c \in Conns, FailSession(c)
       PROVE  SlotRests(net')
  BY <1>11, FailSessionRests
<1> QED
  BY <1>1, <1>2, <1>3, <1>4, <1>5, <1>6, <1>7, <1>8, <1>9, <1>10, <1>11 DEF Next

-----------------------------------------------------------------------------
(* The cooldown *)

\* The calls inside a slot change neither the statuses nor the preference.
Given(a, n) ==
    /\ a \in Managers
    /\ a.tor = n.tor /\ a.i2p = n.i2p
    /\ a.preferred = n.preferred /\ a.stopping = n.stopping

LEMMA GivenTransitive ==
    ASSUME NEW n, NEW m, NEW r, Given(m, n), Given(r, m)
    PROVE  Given(r, n)
BY DEF Given

LEMMA BlockGiven ==
    ASSUME NEW n \in Managers, NEW s \in RouteStates
    PROVE  Given(Block(n, s), n)
<1>1. Block(n, s) \in Managers
  BY BlockType
<1>2. LET b == Block(n, s)
      IN  /\ b.tor = n.tor /\ b.i2p = n.i2p
          /\ b.preferred = n.preferred /\ b.stopping = n.stopping
  BY DEF Block, BlockAll, Managers
<1> QED
  BY <1>1, <1>2 DEF Given

LEMMA ApplyGiven ==
    ASSUME NEW n \in Managers
    PROVE  Given(ApplyGatewayPolicy(n), n)
<1>1. ApplyGatewayPolicy(n) \in Managers
  BY ApplyType
<1>2. SameButGateway(ApplyGatewayPolicy(n), n)
  BY DEF ApplyGatewayPolicy, SetPolicy, SameButGateway, Managers
<1> QED
  BY <1>1, <1>2 DEF Given, SameButGateway

LEMMA ActivateGiven ==
    ASSUME NEW n \in Managers, NEW k \in {"Tor", "I2p"}
    PROVE  Given(Activate(n, k), n)
<1> DEFINE m == [n EXCEPT !.recovery = FALSE,
                  !.active = k,
                  !.state = IF k = "Tor" THEN "TorConnected" ELSE "I2pConnected",
                  !.allowed = Verified(n, k)]
<1>1. m \in Managers
  BY ActivatedType
<1>2. /\ m.tor = n.tor /\ m.i2p = n.i2p
      /\ m.preferred = n.preferred /\ m.stopping = n.stopping
  BY DEF Managers
<1>3. Activate(n, k) = ApplyGatewayPolicy(m)
  BY DEF Activate
<1> HIDE DEF m
<1> QED
  BY <1>1, <1>2, <1>3, ApplyGiven DEF Given

LEMMA RequestGiven ==
    ASSUME NEW n \in Managers
    PROVE  Given(RequestTorVerification(n), n) /\ Given(SchedulePreferredRecovery(n), n)
<1>1. /\ RequestTorVerification(n) \in Managers
      /\ SchedulePreferredRecovery(n) \in Managers
  BY RequestType
<1>2. \A r \in {n, [n EXCEPT !.pending = TRUE, !.requested = TRUE],
                 [n EXCEPT !.recovery = TRUE]} :
        /\ r.tor = n.tor /\ r.i2p = n.i2p
        /\ r.preferred = n.preferred /\ r.stopping = n.stopping
  BY DEF Managers
<1> QED
  BY <1>1, <1>2 DEF RequestTorVerification, SchedulePreferredRecovery, Given

LEMMA VerifyTorGiven ==
    ASSUME NEW n \in Managers
    PROVE  Given(VerifyTor(n), n)
<1> DEFINE b == Block(n, "VerifyingTor")
           a == ApplyGatewayPolicy(b)
<1>1. Given(b, n)
  BY BlockGiven DEF RouteStates
<1>2. Given(a, b)
  BY <1>1, ApplyGiven DEF Given
<1>3. Given(RequestTorVerification(a), a)
  BY <1>2, RequestGiven DEF Given
<1>4. Given(n, n)
  BY DEF Given
<1> QED
  BY <1>1, <1>2, <1>3, <1>4, GivenTransitive DEF VerifyTor

LEMMA FailoverGiven ==
    ASSUME NEW n \in Managers, NEW w \in Networks
    PROVE  Given([n EXCEPT !.failoverFrom = w], n)
<1> DEFINE f == [n EXCEPT !.failoverFrom = w]
<1>1. f \in Managers
  BY FailoverType
<1>2. /\ f.tor = n.tor /\ f.i2p = n.i2p
      /\ f.preferred = n.preferred /\ f.stopping = n.stopping
  BY DEF Managers
<1> QED
  BY <1>1, <1>2 DEF Given

LEMMA ReevaluateGiven ==
    ASSUME NEW n \in Managers
    PROVE  Given(Reevaluate(n), n)
<1>1. /\ Given(n, n) /\ Given(VerifyTor(n), n)
      /\ \A s \in RouteStates : Given(Block(n, s), n)
      /\ \A k \in {"Tor", "I2p"} : Given(Activate(n, k), n)
  BY BlockGiven, ActivateGiven, VerifyTorGiven DEF Given
<1>2. Given(KeepActive(n), n)
  BY ApplyGiven, RequestGiven, GivenTransitive DEF KeepActive, Given
<1>3. Given(RequestTorVerification(Activate(n, "I2p")), n)
  BY <1>1, RequestGiven, GivenTransitive DEF Given
<1>4. \A k \in {"Tor", "I2p"}, w \in Networks :
        Given(Activate([n EXCEPT !.failoverFrom = w], k), n)
  BY FailoverGiven, FailoverType, ActivateGiven, GivenTransitive
<1>5. Given(AfterTorLoss(n), n) /\ Given(AfterI2pLoss(n), n)
  BY <1>1 DEF AfterTorLoss, AfterI2pLoss, RouteStates
<1>6. Given(PreferTor(n), n)
  BY <1>1, <1>4 DEF PreferTor, RouteStates
<1>7. Given(PreferI2p(n), n)
  BY <1>1, <1>3, <1>4 DEF PreferI2p, RouteStates
<1> QED
  BY <1>1, <1>2, <1>5, <1>6, <1>7 DEF Reevaluate

\* A report takes traffic off a network only by saying that it is lost.
LEMMA ReportsKeepVerified ==
    ASSUME NEW n \in Managers, MidSlot(n), n.active # "None"
    PROVE  /\ \A s \in TorStatuses : LET u == UpdateTorStatus(n, s) IN
                 u.active # n.active => ~Verified(u, n.active)
           /\ \A s \in I2pStatuses : LET u == UpdateI2pStatus(n, s) IN
                 u.active # n.active => ~Verified(u, n.active)
<1>1. ASSUME NEW s \in TorStatuses, UpdateTorStatus(n, s).active # n.active
      PROVE  ~Verified(UpdateTorStatus(n, s), n.active)
  <2> DEFINE settled == ~s.ready \/ s.failed \/ s.verified
             m == [n EXCEPT !.tor = s,
                            !.pending = n.pending /\ ~settled,
                            !.failures["Tor"] = IF s.verified THEN 0 ELSE @]
             lost == n.tor.verified /\ ~s.verified /\ n.active = "Tor"
             l == [m EXCEPT !.failoverFrom = "Tor"]
             b == Block(l, "SwitchingTorToI2p")
  <2>1. [n.failures EXCEPT !["Tor"] = IF s.verified THEN 0 ELSE @]
           \in [{"Tor", "I2p"} -> 0 .. FailureThreshold - 1]
    BY ThresholdPositive DEF Managers
  <2>2. m \in Managers
    BY <2>1 DEF Managers
  <2>3. /\ m.tor = s /\ m.i2p = n.i2p /\ m.active = n.active
        /\ m.allowed = n.allowed /\ m.started = n.started /\ m.stopping = n.stopping
        /\ m.listening = n.listening /\ m.recovery = n.recovery
        /\ m.preferred = n.preferred /\ m.state = n.state /\ m.policy = n.policy
        /\ m.sessions = n.sessions /\ m.requested = n.requested
        /\ m.pending => n.pending /\ s.ready /\ ~s.verified
    BY DEF Managers
  <2>4. UpdateTorStatus(n, s) = Reevaluate(IF lost THEN b ELSE m)
    BY DEF UpdateTorStatus
  <2> HIDE DEF m
  <2>5. lost
    <3> SUFFICES ASSUME ~lost PROVE FALSE
      OBVIOUS
    <3>1. Verified(m, m.active)
      BY <2>3 DEF Verified, MidSlot, Steady
    <3>2. MidSlot(m)
      BY <2>3, <3>1 DEF MidSlot, Steady, SessionsRouted, Closed, Probing
    <3> QED
      BY <1>1, <2>2, <2>3, <2>4, <3>2, ReevaluateRests
  <2>6. Given(l, m) /\ Given(b, l)
    BY <2>2, FailoverGiven, BlockGiven DEF Given, RouteStates
  <2> HIDE DEF l, b
  <2>7. Given(Reevaluate(b), b)
    BY <2>6, ReevaluateGiven DEF Given
  <2> QED
    BY <2>3, <2>4, <2>5, <2>6, <2>7 DEF Given, Verified
<1>2. ASSUME NEW s \in I2pStatuses, UpdateI2pStatus(n, s).active # n.active
      PROVE  ~Verified(UpdateI2pStatus(n, s), n.active)
  <2> DEFINE m == [n EXCEPT !.i2p = s,
                            !.failures["I2p"] = IF s.verified THEN 0 ELSE @]
             lost == n.i2p.verified /\ ~s.verified /\ n.active = "I2p"
             l == [m EXCEPT !.failoverFrom = "I2p"]
             b == Block(l, "SwitchingI2pToTor")
  <2>1. [n.failures EXCEPT !["I2p"] = IF s.verified THEN 0 ELSE @]
           \in [{"Tor", "I2p"} -> 0 .. FailureThreshold - 1]
    BY ThresholdPositive DEF Managers
  <2>2. m \in Managers
    BY <2>1 DEF Managers
  <2>3. /\ m.tor = n.tor /\ m.i2p = s /\ m.active = n.active
        /\ m.allowed = n.allowed /\ m.started = n.started /\ m.stopping = n.stopping
        /\ m.listening = n.listening /\ m.recovery = n.recovery
        /\ m.preferred = n.preferred /\ m.state = n.state /\ m.policy = n.policy
        /\ m.sessions = n.sessions /\ m.requested = n.requested
        /\ m.pending = n.pending
    BY DEF Managers
  <2>4. UpdateI2pStatus(n, s) = Reevaluate(IF lost THEN b ELSE m)
    BY DEF UpdateI2pStatus
  <2> HIDE DEF m
  <2>5. lost
    <3> SUFFICES ASSUME ~lost PROVE FALSE
      OBVIOUS
    <3>1. Verified(m, m.active)
      BY <2>3 DEF Verified, MidSlot, Steady
    <3>2. MidSlot(m)
      BY <2>3, <3>1 DEF MidSlot, Steady, SessionsRouted, Closed, Probing
    <3> QED
      BY <1>2, <2>2, <2>3, <2>4, <3>2, ReevaluateRests
  <2>6. Given(l, m) /\ Given(b, l)
    BY <2>2, FailoverGiven, BlockGiven DEF Given, RouteStates
  <2> HIDE DEF l, b
  <2>7. Given(Reevaluate(b), b)
    BY <2>6, ReevaluateGiven DEF Given
  <2> QED
    BY <2>3, <2>4, <2>5, <2>6, <2>7 DEF Given, Verified
<1> QED
  BY <1>1, <1>2

\* The same of the report a failing backend leads to.
LEMMA FailureKeepsVerified ==
    ASSUME NEW n \in Managers, MidSlot(n), n.active # "None", NEW k \in {"Tor", "I2p"},
           HandleBackendFailure(n, k).active # n.active
    PROVE  ~Verified(HandleBackendFailure(n, k), n.active)
<1> DEFINE m == CountBackendFailure(n, k)
<1>1. [n.failures EXCEPT ![k] = (@ + 1) % FailureThreshold]
         \in [{"Tor", "I2p"} -> 0 .. FailureThreshold - 1]
  <2>1. (n.failures[k] + 1) % FailureThreshold \in 0 .. FailureThreshold - 1
    BY ThresholdPositive DEF Managers
  <2> QED
    BY <2>1 DEF Managers
<1>2. m \in Managers
  BY <1>1 DEF CountBackendFailure, Managers
<1>3. /\ m.tor = n.tor /\ m.i2p = n.i2p /\ m.active = n.active
      /\ m.allowed = n.allowed /\ m.started = n.started /\ m.stopping = n.stopping
      /\ m.listening = n.listening /\ m.recovery = n.recovery
      /\ m.preferred = n.preferred /\ m.state = n.state /\ m.policy = n.policy
      /\ m.sessions = n.sessions /\ m.requested = n.requested
      /\ m.pending = n.pending
  BY DEF CountBackendFailure, Managers
<1>4. HandleBackendFailure(n, k) =
           IF ~RouteFailureDetected(n, k) THEN m
           ELSE IF k = "Tor" THEN UpdateTorStatus(m, TorRouteFailed(m))
           ELSE UpdateI2pStatus(m, I2pDown)
  BY DEF HandleBackendFailure
<1> HIDE DEF m
<1>5. MidSlot(m)
  BY <1>3 DEF MidSlot, Steady, SessionsRouted, Closed, Probing, Verified
<1>6. TorRouteFailed(m) \in TorStatuses /\ I2pDown \in I2pStatuses
  BY <1>2 DEF TorRouteFailed, I2pDown, TorStatuses, I2pStatuses, Managers
<1> QED
  BY <1>2, <1>3, <1>4, <1>5, <1>6, ReportsKeepVerified

\* A step that leaves a network still verified is the recovery timer, the
\* user's preference or the end.
LEMMA NextCooldown ==
    ASSUME IInv, Next, net.active # "None", net'.active # net.active,
           Verified(net', net.active), net'.preferred = net.preferred, ~net'.stopping
    PROVE  net.recovery
<1>0. /\ Now \in Managers /\ MidSlot(Now) /\ Now.active = net.active
      /\ net.started /\ ~net.stopping /\ net.listening
  BY NowRests DEF IInv, AtRest, Steady
<1>1. CASE InitializeGateway
  BY <1>0, <1>1 DEF InitializeGateway
<1>2. ASSUME NEW preferred \in {"Tor", "I2p"}, SetPreferredNetwork(preferred)
      PROVE  FALSE
  <2> DEFINE n == [Now EXCEPT !.preferred = preferred, !.recovery = FALSE,
                              !.failoverFrom = "None", !.pending = FALSE,
                              !.active = "None", !.allowed = FALSE]
             b == BlockAll(n)
  <2>1. n \in Managers /\ n.preferred = preferred
    BY <1>0, ZenonT(60) DEF Managers
  <2> HIDE DEF n
  <2>2. b \in Managers /\ b.preferred = preferred
    BY <2>1, FreeType DEF BlockAll, Managers
  <2>3. net' = Reevaluate(b)
    BY <1>2 DEF SetPreferredNetwork, n
  <2> HIDE DEF b
  <2> QED
    BY <1>0, <1>2, <2>2, <2>3, ReevaluateGiven DEF Given, SetPreferredNetwork
<1>3. ASSUME NEW preferred \in {"Tor", "I2p"}, NEW report \in {I2pDown, I2pFailed},
             Start(preferred, report)
      PROVE  FALSE
  BY <1>0, <1>3 DEF Start
<1>4. ASSUME NEW s \in TorStatuses, TorStatusChanged(s)
      PROVE  FALSE
  BY <1>0, <1>4, ReportsKeepVerified DEF TorStatusChanged
<1>5. ASSUME NEW s \in I2pStatuses, I2pStatusChanged(s)
      PROVE  FALSE
  BY <1>0, <1>5, ReportsKeepVerified DEF I2pStatusChanged
<1>6. CASE RecoveryTimeout
  BY <1>6 DEF RecoveryTimeout
<1>7. CASE Stop
  <2> DEFINE n == [Now EXCEPT !.stopping = TRUE]
             b == Block(n, "Stopping")
  <2>1. n \in Managers /\ n.stopping
    BY <1>0 DEF Managers
  <2> HIDE DEF n
  <2>2. b \in Managers /\ b.stopping
    BY <2>1, BlockGiven DEF Given, RouteStates
  <2>3. net' = [UpdateI2pStatus(b, I2pDown) EXCEPT !.sessions = FreeAll,
                   !.listening = FALSE, !.allowed = FALSE, !.active = "None"]
    BY <1>7 DEF Stop, n
  <2>4. b.active = "None"
    BY <2>1 DEF Block, BlockAll, Managers
  <2> HIDE DEF b
  <2>5. UpdateI2pStatus(b, I2pDown) = [b EXCEPT !.i2p = I2pDown]
    BY <2>2, <2>4 DEF UpdateI2pStatus, Reevaluate, I2pDown, Managers
  <2> QED
    BY <2>2, <2>3, <2>5 DEF Managers
<1>8. ASSUME NEW c \in Conns, NEW h \in Hosts, OpenSession(c, h)
      PROVE  FALSE
  BY <1>0, <1>8 DEF OpenSession, Managers
<1>9. ASSUME NEW c \in Conns, EstablishTunnel(c)
      PROVE  FALSE
  BY <1>0, <1>9 DEF EstablishTunnel, Managers
<1>10. ASSUME NEW c \in Conns, CloseSession(c)
       PROVE  FALSE
  BY <1>0, <1>10 DEF CloseSession, Managers
<1>11. ASSUME NEW c \in Conns, FailSession(c)
       PROVE  FALSE
  <2> DEFINE k == net.sessions[c].route.network
             u == HandleBackendFailure(Now, k)
  <2>1. k \in {"Tor", "I2p"}
    BY <1>11 DEF FailSession, IInv, TypeOK, AtRest, Steady, SessionsRouted, Managers,
       Sessions, Routes
  <2>2. net' = [u EXCEPT !.sessions[c] = Free]
    BY <1>11 DEF FailSession
  <2> HIDE DEF k
  <2>3. u \in Managers
    BY <2>1, NowRests, BackendFailureRests
  <2>4. u.active # net.active => ~Verified(u, net.active)
    BY <1>0, <2>1, FailureKeepsVerified
  <2> HIDE DEF u
  <2>5. net'.active = u.active /\ net'.tor = u.tor /\ net'.i2p = u.i2p
    BY <2>2, <2>3 DEF Managers
  <2> QED
    BY <2>4, <2>5 DEF Verified
<1> QED
  BY <1>1, <1>2, <1>3, <1>4, <1>5, <1>6, <1>7, <1>8, <1>9, <1>10, <1>11 DEF Next

-----------------------------------------------------------------------------
(* Theorems *)

\* Every slot of PrivacyNetworkManager takes the invariant to itself.
THEOREM Invariance == Spec => []IInv
<1>1. Init => IInv
  BY InitRests
<1>2. IInv /\ [Next]_net => IInv'
  <2>1. CASE Next
    BY <2>1, NextRests DEF IInv, TypeOK, SlotRests
  <2>2. CASE UNCHANGED net
    BY <2>2 DEF IInv, TypeOK, AtRest, Steady, SessionsRouted, Closed, Probing,
       PolicyOf, Verified
  <2> QED
    BY <2>1, <2>2
<1> QED
  BY <1>1, <1>2, PTL DEF Spec

\* The manager's fields keep the values the C++ types and their comments give
\* them; in particular a failure counter never reaches its threshold.
THEOREM TypeCorrect == Spec => []TypeOK
<1>1. IInv => TypeOK
  BY DEF IInv
<1> QED
  BY <1>1, Invariance, PTL

\* The gate that the browser reads (allowsNavigation) and the policy the
\* gateway routes by agree, and both follow the verification of the moment.
THEOREM GateCorrect == Spec => []GateFollowsVerification
<1>1. IInv => GateFollowsVerification
  BY DEF IInv, AtRest, Steady, Closed, Probing, PolicyOf, BlockingPolicy, Verified,
     GateFollowsVerification
<1> QED
  BY <1>1, Invariance, PTL

\* No live session is left on a route the gateway's policy has moved away from.
THEOREM SessionsCorrect == Spec => []SessionsFollowPolicy
<1>1. IInv => SessionsFollowPolicy
  BY DEF IInv, AtRest, Steady, SessionsRouted, SessionsFollowPolicy
<1> QED
  BY <1>1, Invariance, PTL

\* The destination rules hold of every live session.
THEOREM DestinationsCorrect == Spec => []DestinationRules
<1>1. IInv => DestinationRules
  <2> SUFFICES ASSUME IInv, NEW c \in Conns, net.sessions[c] # Free
               PROVE  LET s == net.sessions[c] IN
                      /\ s.host = "clearnet" => net.active = "Tor" /\ net.tor.verified
                      /\ s.host = "onion" => net.tor.verified
                      /\ s.host = "check" => net.tor.ready
                      /\ s.host = "i2p" <=> s.route.network = "I2p"
    BY DEF DestinationRules
  <2> DEFINE s == net.sessions[c]
  <2>1. /\ s.host \in Hosts /\ s.route.network # "None"
        /\ RouteFor(net.policy, s.host) = s.route
    BY DEF IInv, TypeOK, AtRest, Steady, SessionsRouted, Managers, Sessions
  <2>2. ~Closed(net)
    BY DEF Closed, FreeAll
  <2>3. CASE net.active # "None"
    <3>1. net.policy = PolicyOf(net)
      BY <2>3 DEF IInv, AtRest
    <3>2. net.tor.verified => net.tor.ready
      BY DEF IInv, TypeOK, Managers, TorStatuses
    <3> QED
      BY <2>1, <3>1, <3>2 DEF RouteFor, ClearnetOverTor, ClearnetOverI2p, TorRoute,
         I2pRoute, NoRoute, PolicyOf
  <2>4. CASE net.active = "None"
    <3>1. Probing(net) /\ net.pending
      BY <2>2, <2>4 DEF IInv, AtRest
    <3>2. net.tor.ready
      BY <3>1 DEF IInv, AtRest, Steady
    <3> QED
      BY <2>1, <3>1, <3>2 DEF Probing, RouteFor, ClearnetOverTor, ClearnetOverI2p,
         TorRoute, I2pRoute, NoRoute
  <2> QED
    BY <2>3, <2>4
<1> QED
  BY <1>1, Invariance, PTL

\* "VerifyingTor" is only shown while a check is requested, unanswered and let
\* through.
THEOREM VerificationCorrect == Spec => []VerifyingMeansProbing
<1>1. IInv => VerifyingMeansProbing
  BY DEF IInv, AtRest, Steady, Probing, RouteFor, ClearnetOverTor, TorRoute,
     VerifyingMeansProbing
<1> QED
  BY <1>1, Invariance, PTL

\* A closed gate with no verification under way carries nothing.
THEOREM ClosedGateCorrect == Spec => []ClosedGateIsSilent
<1>1. IInv => ClosedGateIsSilent
  BY DEF IInv, AtRest, Closed, FreeAll, ClosedGateIsSilent, Idle
<1> QED
  BY <1>1, Invariance, PTL

\* A step that leaves the active network closes every session.
THEOREM SwitchClosesSessions == Spec => NoSessionSurvivesASwitch
<1>1. IInv /\ [Next]_net =>
        [net.active # "None" /\ net'.active # net.active =>
           \A c \in Conns : net'.sessions[c] = Free]_net
  BY NextRests DEF SlotRests, FreeAll
<1> QED
  BY <1>1, Invariance, PTL DEF Spec, NoSessionSurvivesASwitch

\* Traffic leaves a network that is still verified only when the recovery timer
\* was running, on the user's preference, or at the end.
THEOREM CooldownKept == Spec => CooldownBeforeSwitchBack
<1>1. IInv /\ [Next]_net =>
        [/\ net.active # "None"
         /\ net'.active # net.active
         /\ Verified(net', net.active)
         /\ net'.preferred = net.preferred
         /\ ~net'.stopping
         => net.recovery]_net
  BY NextCooldown
<1> QED
  BY <1>1, Invariance, PTL DEF Spec, CooldownBeforeSwitchBack

\* The gate's policy operators are the module's own.
LEMMA GateOperators ==
    /\ Gate!Free = Free
    /\ Gate!NoRoute = NoRoute
    /\ Gate!BlockingPolicy = BlockingPolicy
    /\ Gate!Policies = Policies
    /\ Gate!Hosts = Hosts
    /\ Gate!Tunnels = Sessions
    /\ \A p, h : Gate!RouteFor(p, h) = RouteFor(p, h)
BY DEF Free, Gate!Free, NoRoute, Gate!NoRoute, BlockingPolicy, Gate!BlockingPolicy,
   Gate!Tunnels, Sessions, Gate!Routes, Routes, Policies, Gate!Policies, Gate!Hosts, Gate!Networks, RouteFor, Gate!RouteFor,
   TorRoute, Gate!TorRoute, I2pRoute, Gate!I2pRoute, ClearnetOverTor,
   Gate!ClearnetOverTor, ClearnetOverI2p, Gate!ClearnetOverI2p

\* The manager and its gateway implement RouteGate.
THEOREM Refinement == Spec => ImplementsRouteGate
<1>1. Init => Gate!Init
  BY GateOperators DEF Init, Gate!Init, FreeAll
<1>2. IInv /\ IInv' /\ [Next]_net => [Gate!Next]_<<net.policy, net.sessions>>
  <2>1. ASSUME IInv, NEW c \in Conns, NEW h \in Hosts, OpenSession(c, h)
        PROVE  Gate!Next
    <3> DEFINE t == [host |-> h, route |-> RouteFor(net.policy, h)]
    <3>1. Now.policy = net.policy /\ Now.sessions = net.sessions
      BY <2>1 DEF Now, IInv, TypeOK, Managers
    <3>2. /\ net'.policy = Now.policy
          /\ net'.sessions = [Now.sessions EXCEPT ![c] = t]
      BY <2>1, NowRests DEF OpenSession, Managers
    <3>3. Gate!Open(c, h)
      BY <2>1, <3>1, <3>2, GateOperators DEF OpenSession, Gate!Open
    <3> QED
      BY <2>1, <3>3, GateOperators DEF Gate!Next
  <2>2. ASSUME IInv, IInv', Frees(net, net')
        PROVE  Gate!Next
    <3>1. /\ net'.policy \in Policies
          /\ net'.sessions \in [Conns -> Sessions]
      BY <2>2 DEF IInv, TypeOK, Managers
    <3>2. SessionsRouted(net')
      BY <2>2 DEF IInv, AtRest, Steady
    <3>3. \A c \in Conns : net'.sessions[c] # Free =>
            /\ net'.sessions[c] = net.sessions[c]
            /\ Gate!Routed(net'.policy, net.sessions[c])
      BY <2>2, <3>2, GateOperators DEF Frees, SessionsRouted, Gate!Routed, NoRoute
    <3>4. Gate!Change
      BY <3>1, <3>3, GateOperators DEF Gate!Change
    <3> QED
      BY <3>4 DEF Gate!Next
  <2>3. CASE UNCHANGED net
    BY <2>3
  <2> QED
    BY <2>1, <2>2, <2>3, NextRests DEF SlotRests
<1> QED
  BY <1>1, <1>2, Invariance, PTL DEF Spec, ImplementsRouteGate, Gate!Spec
=============================================================================
