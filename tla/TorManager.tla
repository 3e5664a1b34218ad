----------------------------- MODULE TorManager -----------------------------
(***************************************************************************)
(* TorManager of src/granger/tor/TorManager.cpp: it starts the managed Tor *)
(* process, follows its bootstrap, probes its SOCKS endpoint, and keeps    *)
(* the status that the window and the private-route manager act on.        *)
(*                                                                         *)
(* The manager lives on the event loop and its slots are called directly   *)
(* by others, several in one handler, so each member function is an        *)
(* operator from a manager record to a manager record, and TorConnection   *)
(* makes the actions out of them.  statusChanged is delivered at once; an  *)
(* operator leaves in "sent" what it reported since the handler began.     *)
(*                                                                         *)
(* Left out: paths, texts, error messages, and the control-port timer,     *)
(* whose poll delivers the same bootstrap progress as Tor's own log lines. *)
(* A progress is "none" (-1), "partial" (0 to 99) or "full" (100).         *)
(***************************************************************************)

NoEndpoint == "none"
Endpoints  == {"managed", "external"}

\* "dead" is a QProcess that never started, "starting" one that waitForStarted()
\* gave up on: both keep m_process set.
Processes == {"none", "dead", "starting", "running"}
Alive(t)  == t.process \in {"starting", "running"}

BridgeStates == {"Saved", "Applying", "Bootstrapping", "Bootstrap 100%",
                 "Connected", "Failed"}

\* What the receivers read of a TorStatus.
Status(t) == [endpoint |-> t.endpoint, ready |-> t.socks,
              verified |-> t.verified, failed |-> t.state = "Failed"]

Statuses == [endpoint : Endpoints \cup {NoEndpoint}, ready : BOOLEAN,
             verified : BOOLEAN, failed : BOOLEAN]

TorRecords == [process   : Processes,
               running   : BOOLEAN,      \* torProcessRunning
               state     : BridgeStates,
               enabled   : BOOLEAN,      \* bridgeEnabled
               socks     : BOOLEAN,      \* socksVerified
               verified  : BOOLEAN,      \* routeVerified
               progress  : {"none", "partial", "full"},
               endpoint  : Endpoints \cup {NoEndpoint},
               bootstrapTimer : BOOLEAN,
               retryTimer     : BOOLEAN,
               reported  : Statuses,     \* the last statusChanged
               sent      : SUBSET {"verified", "failed"}]

IdleTor == [process |-> "none", running |-> FALSE, state |-> "Saved",
            enabled |-> FALSE, socks |-> FALSE, verified |-> FALSE,
            progress |-> "none", endpoint |-> NoEndpoint,
            bootstrapTimer |-> FALSE, retryTimer |-> FALSE,
            reported |-> [endpoint |-> NoEndpoint, ready |-> FALSE,
                          verified |-> FALSE, failed |-> FALSE],
            sent |-> {}]

-----------------------------------------------------------------------------

\* emitStatus()
Report(t) ==
    [t EXCEPT !.reported = Status(t),
              !.sent = @ \cup {k \in {"verified", "failed"} : Status(t)[k]}]

SetBridgeSaved(t) ==
    Report([t EXCEPT !.state = "Saved", !.enabled = FALSE, !.progress = "none"])

\* A bug that TorConnection must notice: the report goes out before the status is
\* cleared.
SetBridgeFailedLate(t) ==
    [Report([t EXCEPT !.state = "Failed"])
     EXCEPT !.bootstrapTimer = FALSE, !.retryTimer = FALSE, !.enabled = FALSE,
            !.verified = FALSE, !.socks = FALSE]

\* Neither the process nor torProcessRunning is touched.
SetBridgeFailed(t) ==
    Report([t EXCEPT !.bootstrapTimer = FALSE, !.retryTimer = FALSE,
                     !.state = "Failed", !.enabled = FALSE,
                     !.verified = FALSE, !.socks = FALSE])

SetBrowserRouteVerified(t) ==
    Report([t EXCEPT !.bootstrapTimer = FALSE, !.retryTimer = FALSE,
                     !.state = "Connected", !.enabled = TRUE,
                     !.socks = TRUE, !.verified = TRUE])

SetBrowserRouteFailed(t) ==
    [Report([t EXCEPT !.verified = FALSE, !.socks = FALSE,
                      !.state = "Failed", !.enabled = FALSE])
     EXCEPT !.retryTimer = @ \/ (t.running /\ t.progress = "full")]

SetSocksRouteVerified(t) ==
    Report([t EXCEPT !.endpoint = "external", !.socks = TRUE, !.retryTimer = FALSE])

\* setProxy() only notes the proxy and reports.
SetProxy(t) == Report(t)

\* A bug that TorConnection must notice: the timers survive the process.
StopManagedTorKeepsTimers(t) ==
    Report([t EXCEPT !.process = "none", !.running = FALSE, !.verified = FALSE,
                     !.socks = FALSE, !.enabled = FALSE, !.progress = "none"])

StopManagedTor(t) ==
    LET changed == t.process # "none" \/ t.running \/ t.verified \/ t.enabled
        failed  == t.state = "Failed"
        stopped == [t EXCEPT !.bootstrapTimer = FALSE, !.retryTimer = FALSE,
                             !.process = "none", !.running = FALSE,
                             !.verified = FALSE, !.socks = FALSE, !.enabled = FALSE,
                             !.state = IF failed THEN "Failed" ELSE "Saved",
                             !.progress = IF failed THEN @ ELSE "none"]
    IN  IF changed THEN Report(stopped) ELSE stopped

-----------------------------------------------------------------------------
(* applyBridgeConfig()                                                     *)

\* What may come of it.  The first is a torrc that cannot be written, a Tor that
\* is not there or a configuration that it rejects or does not answer for; the
\* second a port in use; then a process that cannot be started, one that takes
\* more than three seconds to, and one that runs.
ApplyOutcomes == {"rejected", "busy", "refused", "slow", "started"}

Reset(t) ==
    Report([t EXCEPT !.state = "Applying", !.enabled = FALSE, !.verified = FALSE,
                     !.socks = FALSE, !.progress = "partial", !.endpoint = "managed"])

StartTor(t, process) ==
    Report([StopManagedTor(Reset(t))
            EXCEPT !.state = "Applying", !.progress = "partial", !.process = process])

\* A rejected configuration leaves the former process running.
ApplyBridgeConfig(t, outcome) ==
    CASE outcome = "rejected" -> SetBridgeFailed(Reset(t))
      [] outcome = "busy"     -> SetBridgeFailed(StopManagedTor(Reset(t)))
      [] outcome = "refused"  -> SetBridgeFailed(StartTor(t, "dead"))
      [] outcome = "slow"     -> SetBridgeFailed(StartTor(t, "starting"))
      [] outcome = "started"  ->
            Report([StartTor(t, "running")
                    EXCEPT !.state = "Bootstrapping", !.running = TRUE,
                           !.bootstrapTimer = TRUE])

-----------------------------------------------------------------------------
(* What the process and the timers do                                      *)

\* What a request through the SOCKS endpoint comes to: an answer, or a refusal, an
\* error or a timeout at any step of it.
ProbeResults == BOOLEAN

\* verifySocksAfterBootstrap(), with the result of the probe.
VerifySocks(t, ok) ==
    IF Alive(t) /\ t.running /\ t.progress = "full" /\ ~t.verified
    THEN LET probed == Report([t EXCEPT !.state = "Bootstrap 100%", !.enabled = TRUE,
                                        !.socks = ok])
         IN  [probed EXCEPT !.retryTimer = @ \/ ~ok]
    ELSE t

\* What the control port or a log line says of the bootstrap.
Progresses == {"partial", "full"}

\* updateBootstrapStatus(), from a log line or the control port.  A repetition of
\* the last line is ignored, which is a step that changes nothing.
UpdateBootstrap(t, progress, ok) ==
    IF progress = "full"
    THEN VerifySocks([t EXCEPT !.progress = "full", !.bootstrapTimer = FALSE,
                               !.state = "Bootstrap 100%", !.enabled = TRUE], ok)
    ELSE Report([t EXCEPT !.progress = progress, !.state = "Bootstrapping",
                          !.enabled = FALSE])

\* A bug that TorConnection must notice: the verified route is not spared.
ErrorLineAlways(t) == Report([t EXCEPT !.state = "Failed", !.enabled = FALSE])

\* An [err] line, or a pluggable transport that terminated.
ErrorLine(t) ==
    IF t.verified THEN t ELSE Report([t EXCEPT !.state = "Failed", !.enabled = FALSE])

\* A [warn] line only changes the messages.
WarnLine(t) ==
    IF t.verified \/ t.progress = "full" THEN t ELSE Report(t)

\* handleTorFinished(): "clean" is a normal exit with code 0.
TorFinished(t, clean) ==
    LET ended == [t EXCEPT !.retryTimer = FALSE, !.process = "none", !.running = FALSE]
    IN  IF clean /\ t.state \in {"Connected", "Bootstrap 100%"}
        THEN Report([ended EXCEPT !.state = "Saved", !.enabled = FALSE,
                                  !.verified = FALSE, !.socks = FALSE])
        ELSE SetBridgeFailed(ended)

BootstrapTimedOut(t) == StopManagedTor(SetBridgeFailed(t))
=============================================================================
