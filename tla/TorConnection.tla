---------------------------- MODULE TorConnection ----------------------------
(***************************************************************************)
(* The window's control of Tor (src/granger/ui/MainWindow.cpp) over the    *)
(* manager of module TorManager: the connection the user applies by hand,  *)
(* the automatic connection that tries one strategy after another until a  *)
(* browser route is verified, and the hidden pages that verify the route.  *)
(*                                                                         *)
(* Everything runs on one event loop.  A handler is one action, except     *)
(* tryNextAutomaticStrategy(), whose loop takes one step per strategy      *)
(* while "trying" keeps every other handler waiting.  A transition is the  *)
(* zero timer with which the window leaves a failed strategy: it sits in   *)
(* the event queue until it runs.                                          *)
(*                                                                         *)
(* The private-route manager (module PrivateRoute) is the environment: it  *)
(* asks for a verification while a transport is ready and unverified, and  *)
(* reports the endpoint of a verified route that fails repeatedly.         *)
(***************************************************************************)
EXTENDS TorManager, Naturals, Sequences, SequencesExt

CONSTANTS Strategies,   \* the automatic queue: "managed" or "external" each
          MaxPages,     \* bound on the verification pages open at a time
          MaxQueued,    \* bound on the transitions in the event queue
          MaxUser       \* bound on what the user does in a behaviour

ASSUME StrategiesAssumption == Strategies \in Seq(Endpoints) /\ Strategies # <<>>
ASSUME BoundsAssumption ==
    MaxPages \in Nat \ {0} /\ MaxQueued \in Nat \ {0} /\ MaxUser \in Nat

VARIABLES tor, window
vars == <<tor, window>>

WindowRecords ==
    [active    : BOOLEAN,                  \* m_automaticActive
     trying    : BOOLEAN,                  \* inside tryNextAutomaticStrategy()
     index     : 0 .. Len(Strategies),     \* m_automaticIndex
     timer     : BOOLEAN,                  \* m_automaticStrategyTimer
     pending   : BOOLEAN,                  \* m_automaticTransitionPending
     queued    : 0 .. MaxQueued,           \* transitions in the event queue
     pages     : BoundedSeq(Endpoints, MaxPages),
     held      : BOOLEAN,                  \* m_routeVerifierPage is the last page
     verifying : BOOLEAN,                  \* m_routeVerificationInProgress
     proxy     : Endpoints \cup {NoEndpoint},   \* m_routeVerifierProxy
     user      : 0 .. MaxUser]

TypeOK == tor \in TorRecords /\ window \in WindowRecords

Init ==
    /\ tor = IdleTor
    /\ window = [active |-> FALSE, trying |-> FALSE, index |-> 0, timer |-> FALSE,
                 pending |-> FALSE, queued |-> 0, pages |-> <<>>, held |-> FALSE,
                 verifying |-> FALSE, proxy |-> NoEndpoint, user |-> 0]

-----------------------------------------------------------------------------
(* What the window does when the manager reports                           *)

FinishAutomatic(w) == [w EXCEPT !.active = FALSE, !.timer = FALSE, !.pending = FALSE]

\* A bug that this module must notice: a failure is not heard.
HearVerifiedOnly(w, sent) ==
    IF w.active /\ "verified" \in sent THEN FinishAutomatic(w) ELSE w

\* The slot of statusChanged: one report that verifies, or any that fails.
Hear(w, sent) ==
    IF ~w.active THEN w
    ELSE IF "verified" \in sent THEN FinishAutomatic(w)
    ELSE IF "failed" \in sent /\ ~w.pending
         THEN [w EXCEPT !.pending = TRUE, !.queued = @ + 1]
         ELSE w

\* A handler that leaves the manager in t and the window in w.
Handled(t, w) ==
    /\ tor' = [t EXCEPT !.sent = {}]
    /\ window' = Hear(w, t.sent)

Ready == ~window.trying

UserActs ==
    /\ Ready
    /\ window.user < MaxUser

Acted == [window EXCEPT !.user = @ + 1]

-----------------------------------------------------------------------------
(* The automatic connection                                                *)

\* The pages but the i-th; the window forgets the last one when it goes.
WithoutPage(w, i) ==
    [w EXCEPT !.pages = RemoveAt(@, i), !.held = @ /\ i # Len(w.pages)]

\* The beginning of tryNextAutomaticStrategy(): the transport and the page that
\* the window holds are given up.
BeginTry(w) ==
    LET dropped == IF w.held THEN WithoutPage(w, Len(w.pages)) ELSE w
    IN  [dropped EXCEPT !.timer = FALSE, !.verifying = FALSE, !.proxy = NoEndpoint,
                        !.trying = TRUE]

StartAutomatic ==
    /\ UserActs
    /\ window.queued < MaxQueued
    /\ Handled(StopManagedTor(tor),
               BeginTry([Acted EXCEPT !.index = 0, !.pending = FALSE, !.active = TRUE]))

\* The queued transition.  An automatic connection that ended ignores it.
Transition ==
    /\ Ready
    /\ window.queued > 0
    /\ LET due == [window EXCEPT !.queued = @ - 1, !.pending = FALSE]
       IN  IF window.active THEN Handled(StopManagedTor(tor), BeginTry(due))
           ELSE Handled(tor, due)

\* startPreparedConnection() with a SOCKS server that others run.
UseExternal(t) == SetSocksRouteVerified(SetBridgeSaved(StopManagedTor(t)))

Started(w) == [w EXCEPT !.trying = FALSE, !.timer = TRUE]

\* One turn of the loop: a strategy that cannot be prepared, or whose endpoint
\* does not answer, is passed over; so is one that the manager fails to start.
TryStrategy ==
    /\ window.trying
    /\ window.index < Len(Strategies)
    /\ LET next == [window EXCEPT !.index = @ + 1]
           kind == Strategies[window.index + 1]
       IN  \/ Handled(tor, next)
           \/ /\ kind = "external"
              /\ Handled(UseExternal(tor), Started(next))
           \/ /\ kind = "managed"
              /\ \E outcome \in ApplyOutcomes :
                    Handled(ApplyBridgeConfig(tor, outcome),
                            IF outcome = "started" THEN Started(next) ELSE next)

\* No strategy is left: finishAutomaticConnection(false).
GiveUp ==
    /\ window.trying
    /\ window.index = Len(Strategies)
    /\ Handled(SetBridgeFailed(StopManagedTor(tor)),
               FinishAutomatic([window EXCEPT !.trying = FALSE]))

StrategyTimeout ==
    /\ Ready
    /\ window.timer
    /\ LET fired == [window EXCEPT !.timer = FALSE]
       IN  Handled(IF window.active THEN SetBridgeFailed(tor) ELSE tor, fired)

-----------------------------------------------------------------------------
(* The user's other commands                                               *)

\* A strategy applied by hand.  One that cannot be prepared, or is not started,
\* fails the status and leaves the former transport as it is.
ApplyStrategy(kind) ==
    /\ UserActs
    /\ LET manual == [Acted EXCEPT !.active = FALSE, !.timer = FALSE]
       IN  \/ Handled(SetBridgeFailed(tor), manual)
           \/ /\ kind = "external"
              /\ Handled(UseExternal(tor), manual)
           \/ /\ kind = "managed"
              /\ \E outcome \in ApplyOutcomes :
                    LET t == ApplyBridgeConfig(tor, outcome)
                    IN  Handled(IF outcome = "started" THEN t ELSE SetBridgeFailed(t),
                                manual)

\* A bridge line is saved, or refused: the status says so in either case.
SaveBridge ==
    /\ UserActs
    /\ \/ Handled(SetBridgeSaved(tor), Acted)
       \/ Handled(SetBridgeFailed(tor), Acted)

\* A Tor of the user's own, on a port where something answers.
UseLocalTor ==
    /\ UserActs
    /\ Handled(SetSocksRouteVerified(SetProxy(tor)), Acted)

-----------------------------------------------------------------------------
(* The route check in the browser                                          *)

\* verifyBrowserRoute(), asked for by the private-route manager.
VerifyRoute ==
    /\ Ready
    /\ tor.reported.ready
    /\ ~tor.reported.verified
    /\ ~(window.verifying /\ window.proxy = tor.reported.endpoint)
    /\ Len(window.pages) < MaxPages
    /\ window' = [window EXCEPT !.verifying = TRUE, !.proxy = tor.reported.endpoint,
                                !.pages = Append(@, tor.reported.endpoint),
                                !.held = TRUE]
    /\ UNCHANGED tor

\* A page is done, or timed out: whatever it was opened for, it speaks of now.
PageReports(i) ==
    /\ Ready
    /\ LET done == [WithoutPage(window, i) EXCEPT !.verifying = FALSE]
       IN  \E ok \in BOOLEAN :
              Handled(IF ok THEN SetBrowserRouteVerified(tor)
                      ELSE SetBrowserRouteFailed(tor), done)

\* The gateway's third failure in a row at the endpoint of a verified route.
EndpointFails ==
    /\ Ready
    /\ tor.reported.verified
    /\ Handled(SetBrowserRouteFailed(tor), window)

-----------------------------------------------------------------------------
(* Tor and the manager's timers                                            *)

SlowStart ==
    /\ Ready
    /\ tor.process = "starting"
    /\ \/ Handled([tor EXCEPT !.process = "running"], window)
       \/ Handled(SetBridgeFailed([tor EXCEPT !.process = "dead"]), window)

TorOutput ==
    /\ Ready
    /\ tor.process = "running"
    /\ \/ \E progress \in Progresses, ok \in ProbeResults :
             Handled(UpdateBootstrap(tor, progress, ok), window)
       \/ Handled(ErrorLine(tor), window)
       \/ Handled(WarnLine(tor), window)

TorExits ==
    /\ Ready
    /\ tor.process = "running"
    /\ \E clean \in BOOLEAN : Handled(TorFinished(tor, clean), window)

BootstrapTimeout ==
    /\ Ready
    /\ tor.bootstrapTimer
    /\ Handled(BootstrapTimedOut(tor), window)

RetrySocks ==
    /\ Ready
    /\ tor.retryTimer
    /\ \E ok \in ProbeResults :
          Handled(VerifySocks([tor EXCEPT !.retryTimer = FALSE], ok), window)

Next ==
    \/ StartAutomatic
    \/ Transition
    \/ TryStrategy
    \/ GiveUp
    \/ StrategyTimeout
    \/ \E kind \in Endpoints : ApplyStrategy(kind)
    \/ SaveBridge
    \/ UseLocalTor
    \/ VerifyRoute
    \/ \E i \in 1 .. Len(window.pages) : PageReports(i)
    \/ EndpointFails
    \/ SlowStart
    \/ TorOutput
    \/ TorExits
    \/ BootstrapTimeout
    \/ RetrySocks

Spec == Init /\ [][Next]_vars

\* A loop comes to its end, a posted event is delivered, and a timer fires.
Fairness ==
    /\ WF_vars(TryStrategy)
    /\ WF_vars(GiveUp)
    /\ WF_vars(Transition)
    /\ WF_vars(StrategyTimeout)
    /\ WF_vars(RetrySocks)

FairSpec == Spec /\ Fairness

-----------------------------------------------------------------------------
(* Properties                                                              *)

\* What the private-route manager takes for granted of the statuses it is sent:
\* a verified route has a verified transport and is not failed, and a verified
\* transport has an endpoint.  No order of page results, log lines, exits and
\* commands may break it.
StatusesConsistent ==
    /\ TypeOK
    /\ tor.reported.verified => tor.reported.ready /\ ~tor.reported.failed
    /\ tor.reported.ready => tor.reported.endpoint # NoEndpoint

\* A process that the manager gave up on (torProcessRunning is false) but left
\* running has logged the end of its bootstrap: updateBootstrapStatus() takes the
\* failure back, and verifySocksAfterBootstrap() returns before it reports.
LateBootstrap(t) ==
    /\ t.process = "running"
    /\ ~t.running
    /\ t.state = "Bootstrap 100%"

\* Between handlers the receivers of statusChanged know what the manager knows: no
\* path changes the transport, its verification, its endpoint or a failure without
\* saying so, although StopManagedTor may.  With one exception: after a late
\* bootstrap they may still believe in the failure that was reported.
ReportedIsCurrent ==
    Ready => /\ tor.reported.ready = tor.socks
             /\ tor.reported.verified = tor.verified
             /\ tor.reported.endpoint = tor.endpoint
             /\ \/ tor.reported.failed = (tor.state = "Failed")
                \/ tor.reported.failed /\ LateBootstrap(tor)

\* A timeout is that of the attempt in progress: with the bootstrap timer on, the
\* process it will stop is the one it was started with, and no route is verified.
TimeoutIsCurrent ==
    tor.bootstrapTimer => /\ tor.process = "running"
                          /\ tor.running
                          /\ ~tor.verified

\* The automatic connection comes to an end, with a verified route or without.
AutomaticSettles == window.active ~> ~window.active

=============================================================================
