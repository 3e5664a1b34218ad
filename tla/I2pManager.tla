----------------------------- MODULE I2pManager -----------------------------
(***************************************************************************)
(* I2pManager (granger/i2p/I2pManager.cpp): the supervisor of the bundled  *)
(* i2pd router.  It starts the process, probes the route through it over   *)
(* and over, decides when a route is verified and when it is lost, and     *)
(* replaces a router whose route does not come back.                       *)
(*                                                                         *)
(* It runs on the Qt main thread, but two things answer later: the probe,  *)
(* which runs on a pool thread, and the process, which ends some time      *)
(* after it is asked to.  Timers, probe results and process exits          *)
(* interleave freely here; durations are left out.                         *)
(***************************************************************************)
EXTENDS Naturals

CONSTANTS
    ConfirmedFailures,  \* kConfirmedRouteFailureCount (3)
    RestartFailures     \* kRecoveryRestartFailureCount (8)

ASSUME ManagerConstants ==
    /\ ConfirmedFailures \in Nat \ {0}
    /\ RestartFailures \in Nat
    /\ ConfirmedFailures < RestartFailures

VARIABLE i2p

-----------------------------------------------------------------------------
(* Types *)

\* "None": m_process is null.  "Dead": a process that never started.
\* "Starting": not started when start() gave up on it.  "Ending": running, and
\* asked to end.
RouterProcesses == {"None", "Dead", "Starting", "Running", "Ending"}

NotRunning == {"None", "Dead"}

States == {"Stopped", "Starting", "Bootstrapping", "Verifying", "Connected",
           "Recovering", "Failed"}

\* The probe under way.  "Stale": one of an earlier m_generation.
Probes == {"None", "Current", "Stale"}

\* How a start may turn out.  "config": something start() prepares is missing or
\* cannot be written; "failed": the process cannot be started; "slow":
\* waitForStarted() gives up before the process has started.
StartOutcomes == {"ok", "config", "failed", "slow"}

\* start: how the last start turned out.  failures: m_consecutiveProbeFailures,
\* which counts on beyond the last value anything depends on.
Managers ==
    [desired      : BOOLEAN,
     start        : StartOutcomes,
     process      : RouterProcesses,
     state        : States,
     proxy        : BOOLEAN,
     verified     : BOOLEAN,
     verifiedHere : BOOLEAN,      \* m_verifiedInCurrentProcess
     recovering   : BOOLEAN,      \* m_recoveryRestartPending
     failures     : 0 .. RestartFailures,
     probe        : Probes,
     probeTimer   : BOOLEAN,
     startupTimer : BOOLEAN,
     restartTimer : BOOLEAN]

I2pTypeOK == i2p \in Managers

\* What a probe finds: the route works; the proxy cannot be reached, or is lost
\* in the middle; or the proxy is there and the rest does not answer.
Results == {[ok |-> TRUE,  proxy |-> TRUE,  hard |-> FALSE],
            [ok |-> FALSE, proxy |-> FALSE, hard |-> TRUE],
            [ok |-> FALSE, proxy |-> TRUE,  hard |-> TRUE],
            [ok |-> FALSE, proxy |-> TRUE,  hard |-> FALSE]}

-----------------------------------------------------------------------------
(* The manager's private functions, from a state to the one they leave *)

SetFailure(m) == [m EXCEPT !.verified = FALSE, !.proxy = FALSE, !.state = "Failed"]

ScheduleProbe(m) == IF m.desired THEN [m EXCEPT !.probeTimer = TRUE] ELSE m

ScheduleRestart(m) == IF m.desired THEN [m EXCEPT !.restartTimer = TRUE] ELSE m

RequestProcessStop(m) ==
    IF m.process \in NotRunning THEN m ELSE [m EXCEPT !.process = "Ending"]

NewGeneration(m) == [m EXCEPT !.probe = IF @ = "Current" THEN "Stale" ELSE @]

\* A process of a new generation: nothing is known of its route.
Launch(m) == NewGeneration(
    [m EXCEPT !.state = "Starting", !.proxy = FALSE, !.verified = FALSE,
              !.verifiedHere = FALSE, !.recovering = FALSE, !.failures = 0])

StartProcess(m, outcome) ==
    IF m.process \notin NotRunning THEN [m EXCEPT !.desired = TRUE]
    ELSE LET n == [m EXCEPT !.desired = TRUE, !.restartTimer = FALSE,
                                !.start = outcome]
         IN  CASE outcome = "config" -> SetFailure(n)
               [] outcome = "failed" ->
                    ScheduleRestart(SetFailure([Launch(n) EXCEPT !.process = "Dead"]))
               [] outcome = "slow" ->
                    ScheduleRestart(SetFailure([Launch(n) EXCEPT !.process = "Starting"]))
               [] outcome = "ok" ->
                    [ScheduleProbe(Launch(n)) EXCEPT !.process = "Running",
                                                     !.state = "Bootstrapping",
                                                     !.startupTimer = TRUE]

StopProcess(m) ==
    [m EXCEPT !.desired = FALSE, !.process = "None", !.state = "Stopped",
              !.proxy = FALSE, !.verified = FALSE, !.probe = "None",
              !.probeTimer = FALSE, !.startupTimer = FALSE, !.restartTimer = FALSE]

\* The process is gone, and with it its probe, its timers and its route.
Forgotten(m) ==
    [m EXCEPT !.process = "None", !.probe = "None", !.proxy = FALSE,
              !.verified = FALSE, !.probeTimer = FALSE, !.startupTimer = FALSE]

Replace(m) ==
    IF m.recovering
    THEN ScheduleRestart([m EXCEPT !.recovering = FALSE, !.state = "Recovering"])
    ELSE ScheduleRestart(SetFailure(m))

\* Mutant: the probe of the process that ended is still listened to.
HandleProcessFinishedKeepsProbe(m) ==
    Replace([Forgotten(m) EXCEPT !.probe = m.probe])

HandleProcessFinished(m) == Replace(Forgotten(NewGeneration(m)))

RestartAfterConfirmedFailure(m) ==
    IF m.process = "None" \/ m.recovering THEN m
    ELSE RequestProcessStop([m EXCEPT !.recovering = TRUE, !.probeTimer = FALSE,
                                      !.verified = FALSE, !.state = "Recovering"])

ProbeSucceeds(m) ==
    ScheduleProbe([m EXCEPT !.failures = 0, !.verifiedHere = TRUE,
                            !.startupTimer = FALSE, !.verified = TRUE,
                            !.state = "Connected"])

\* Mutant: one failure less confirms the loss of the route.
RouteLostEarly(m) == ~m.verified \/ m.failures >= ConfirmedFailures - 1

\* A failure revokes a verified route only as the last of ConfirmedFailures.
RouteLost(m) == ~m.verified \/ m.failures >= ConfirmedFailures

\* Mutant: a router that lost its route is only replaced for its proxy.
NeedsRestartHardOnly(m, hard) ==
    m.verifiedHere /\ hard /\ m.failures >= ConfirmedFailures

NeedsRestart(m, hard) ==
    /\ m.verifiedHere
    /\ \/ hard /\ m.failures >= ConfirmedFailures
       \/ m.failures >= RestartFailures

Revoke(m) ==
    [m EXCEPT !.verified = FALSE,
              !.state = IF m.verifiedHere THEN "Recovering"
                        ELSE IF m.proxy THEN "Verifying" ELSE "Bootstrapping"]

ProbeFails(m, hard) ==
    LET n == [m EXCEPT !.failures = IF @ < RestartFailures THEN @ + 1 ELSE @]
    IN  IF ~RouteLost(n) THEN ScheduleProbe(n)
        ELSE IF NeedsRestart(n, hard) THEN RestartAfterConfirmedFailure(Revoke(n))
        ELSE ScheduleProbe(Revoke(n))

FinishProbe(m, result) ==
    LET n == [m EXCEPT !.proxy = result.proxy]
    IN  IF result.ok THEN ProbeSucceeds(n) ELSE ProbeFails(n, result.hard)

\* Mutant: the probe timer does nothing while the route is verified.
BeginProbeUnverifiedOnly(m) ==
    IF m.probe # "None" \/ m.process \in NotRunning \/ m.verified THEN m
    ELSE [m EXCEPT !.probe = "Current", !.state = "Verifying"]

BeginProbe(m) ==
    IF m.probe # "None" \/ m.process \in NotRunning THEN m
    ELSE [m EXCEPT !.probe = "Current",
                   !.state = IF m.verified THEN "Connected" ELSE "Verifying"]

-----------------------------------------------------------------------------
(* Initial state, calls and events *)

I2pInit ==
    i2p = [desired |-> FALSE, start |-> "ok", process |-> "None", state |-> "Stopped",
           proxy |-> FALSE, verified |-> FALSE, verifiedHere |-> FALSE,
           recovering |-> FALSE, failures |-> 0, probe |-> "None",
           probeTimer |-> FALSE, startupTimer |-> FALSE, restartTimer |-> FALSE]

\* PrivacyNetworkManager starts the router once, ...
Start(outcome) == ~i2p.desired /\ i2p' = StartProcess(i2p, outcome)

\* ... stops it at the end, ...
Stop == i2p.desired /\ i2p' = StopProcess(i2p)

\* ... and restarts it when sessions keep failing over a verified route.
Restart ==
    /\ i2p.verified
    /\ i2p' = [StopProcess(i2p) EXCEPT !.desired = TRUE, !.restartTimer = TRUE]

RestartTimeout(outcome) ==
    /\ i2p.restartTimer
    /\ LET m == [i2p EXCEPT !.restartTimer = FALSE]
       IN  i2p' = IF m.desired THEN StartProcess(m, outcome) ELSE m

ProbeTimeout ==
    /\ i2p.probeTimer
    /\ i2p' = BeginProbe([i2p EXCEPT !.probeTimer = FALSE])

\* The result of a probe reaches the main thread.
ProbeFinishes(result) ==
    /\ i2p.probe # "None"
    /\ LET m == [i2p EXCEPT !.probe = "None"]
       IN  i2p' = IF i2p.probe = "Stale" \/ ~m.desired THEN ScheduleProbe(m)
                  ELSE FinishProbe(m, result)

\* The 240 seconds a router has to verify its route are over.
StartupTimeout ==
    /\ i2p.startupTimer
    /\ LET m == SetFailure([i2p EXCEPT !.startupTimer = FALSE])
       IN  i2p' = IF m.process = "None" THEN m
                  ELSE RequestProcessStop([m EXCEPT !.recovering = TRUE])

\* The process ends: it was asked to, crashed, or was killed.
ProcessExits ==
    /\ i2p.process \in {"Running", "Ending"}
    /\ i2p' = HandleProcessFinished(i2p)

\* A process start() gave up on: QProcess reports that it failed, or it runs.
SlowProcessFails ==
    /\ i2p.process = "Starting"
    /\ i2p' = SetFailure([i2p EXCEPT !.process = "Dead"])

SlowProcessStarts ==
    /\ i2p.process = "Starting"
    /\ i2p' = [i2p EXCEPT !.process = "Running"]

I2pNext ==
    \/ \E outcome \in StartOutcomes : Start(outcome) \/ RestartTimeout(outcome)
    \/ Stop
    \/ Restart
    \/ ProbeTimeout
    \/ \E result \in Results : ProbeFinishes(result)
    \/ StartupTimeout
    \/ ProcessExits
    \/ SlowProcessFails
    \/ SlowProcessStarts

I2pSpec == I2pInit /\ [][I2pNext]_i2p

\* Timers fire, a probe has a deadline in every step it takes, and a process
\* that ignores the request to end is killed.
I2pFairness ==
    /\ WF_i2p(\E outcome \in StartOutcomes : RestartTimeout(outcome))
    /\ WF_i2p(ProbeTimeout)
    /\ WF_i2p(\E result \in Results : ProbeFinishes(result))
    /\ WF_i2p(StartupTimeout)
    /\ WF_i2p(i2p.process = "Ending" /\ ProcessExits)

I2pFairSpec == I2pSpec /\ I2pFairness

-----------------------------------------------------------------------------
(* Properties *)

\* "a late asynchronous result cannot overwrite the state of a restarted
\* backend": a verified route is that of the process that is there, verified by
\* a probe begun while it was there, and no startup timeout is left to end it.  A
\* failed router has neither a proxy nor a route, as PrivateRoute assumes of the
\* reports it gets.
RouteBelongsToProcess ==
    /\ I2pTypeOK
    /\ i2p.state = "Failed" => ~i2p.proxy /\ ~i2p.verified
    /\ i2p.probe # "None" => i2p.process \notin NotRunning
    /\ i2p.verified => /\ i2p.desired
                       /\ i2p.process \in {"Running", "Ending"}
                       /\ i2p.verifiedHere
                       /\ ~i2p.startupTimer

\* "A single transient response does not revoke the last verified route": as
\* long as the process lives, only ConfirmedFailures failures in a row do.
RevocationConfirmed ==
    [][i2p.verified /\ ~i2p'.verified /\ i2p'.process = "Running" =>
         /\ i2p.failures + 1 >= ConfirmedFailures
         /\ i2p'.failures >= ConfirmedFailures]_i2p

\* A router that is wanted is never left alone: a probe is under way or
\* scheduled, a restart is, or the process is ending and will be replaced.  Two
\* starts are excepted: start() gives up on a file it cannot prepare, and nothing
\* watches a process that starts after waitForStarted() gave up on it.
RouterWatched ==
    i2p.desired /\ i2p.start \in {"ok", "failed"} =>
        \/ i2p.probeTimer
        \/ i2p.probe = "Current"
        \/ i2p.restartTimer
        \/ i2p.process = "Ending"

\* A running router does not stay without a route for ever: the route is
\* verified, or the process is replaced.
UnverifiedRouterReplaced ==
    i2p.process = "Running" /\ i2p.start = "ok" /\ ~i2p.verified ~>
        i2p.verified \/ i2p.process # "Running"

=============================================================================
