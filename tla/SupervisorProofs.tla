-------------------------- MODULE SupervisorProofs --------------------------
(***************************************************************************)
(* The safety properties of the two supervisors whose reports the private  *)
(* route manager acts on: TorConnection, for every automatic queue of      *)
(* strategies and every bound, and I2pManager, for every number of         *)
(* failures that confirms the loss of a route and every number that        *)
(* replaces the router.                                                    *)
(*                                                                         *)
(* None of those of TorConnection is inductive: StatusesConsistent speaks  *)
(* of the report sent last, and says nothing of the fields the next one is *)
(* made of.  Sound says what every call on the manager leaves true of      *)
(* them, also in the middle of a handler; Tidy does the same for the       *)
(* window.  Those of I2pManager need to be told what a probe, a start and  *)
(* a timer rest on.                                                        *)
(***************************************************************************)
EXTENDS TorConnection, I2pManager, TLAPS

-----------------------------------------------------------------------------
(* TorConnection *)

Consistent(s) ==
    /\ s.verified => s.ready /\ ~s.failed
    /\ s.ready => s.endpoint # NoEndpoint

\* What the next report would say is consistent; a process has an endpoint; and
\* the bootstrap timer belongs to a running process that has not yet come to the
\* end of its bootstrap.
Apt(t) ==
    /\ t \in TorRecords
    /\ t.verified => t.socks /\ t.state # "Failed"
    /\ t.socks => t.endpoint # NoEndpoint
    /\ t.process # "none" => t.endpoint # NoEndpoint
    /\ t.bootstrapTimer => /\ t.process = "running"
                           /\ t.running
                           /\ ~t.verified
                           /\ t.progress # "full"
                           /\ t.state \notin {"Connected", "Bootstrap 100%"}

\* So was the last one.
Sound(t) == Apt(t) /\ Consistent(t.reported)

\* The receivers of statusChanged know what the manager knows, but for the failure
\* that a late bootstrap takes back.
Told(t) == /\ t.reported.ready = t.socks
           /\ t.reported.verified = t.verified
           /\ t.reported.endpoint = t.endpoint
           /\ \/ t.reported.failed = (t.state = "Failed")
              \/ t.reported.failed /\ LateBootstrap(t)

\* A transition can be queued whenever a failure would queue one, and a page
\* that the window holds is open.
Tidy(w) ==
    /\ w \in WindowRecords
    /\ w.active /\ ~w.pending => w.queued < MaxQueued
    /\ w.held => w.pages # <<>>

\* A page was opened for an endpoint, and the manager never goes back to none.
Fits(t, w) ==
    /\ w.pages # <<>> => t.endpoint # NoEndpoint
    /\ ~w.trying => Told(t)

IInv == Sound(tor) /\ Tidy(window) /\ Fits(tor, window)

-----------------------------------------------------------------------------
(* The calls on the manager                                                *)

\* What a call promises: the manager stays sound and keeps having an endpoint.
Keeps(t, u) == Sound(u) /\ (t.endpoint # NoEndpoint => u.endpoint # NoEndpoint)

\* A report of a sound manager is sound, and leaves nothing untold.
LEMMA ReportLemma ==
    ASSUME NEW t, Apt(t)
    PROVE  /\ Sound(Report(t))
           /\ Told(Report(t))
           /\ Report(t).endpoint = t.endpoint
  <1> DEFINE sent == t.sent \cup {k \in {"verified", "failed"} : Status(t)[k]}
  <1>1. Status(t) \in Statuses /\ Consistent(Status(t))
    BY DEF Apt, Status, Statuses, Consistent, TorRecords
  <1>2. sent \in SUBSET {"verified", "failed"}
    BY DEF Apt, TorRecords
  <1> HIDE DEF sent
  <1> DEFINE u == [t EXCEPT !.reported = Status(t), !.sent = sent]
  <1>3. u \in TorRecords /\ u.reported = Status(t)
    BY <1>1, <1>2 DEF Apt, TorRecords
  <1>4. /\ u.process = t.process /\ u.running = t.running
        /\ u.state = t.state /\ u.socks = t.socks
        /\ u.verified = t.verified /\ u.progress = t.progress
        /\ u.endpoint = t.endpoint /\ u.bootstrapTimer = t.bootstrapTimer
    BY DEF Apt, TorRecords
  <1>5. Report(t) = u
    BY DEF Report, sent
  <1> HIDE DEF u
  <1>6. Sound(u)
    BY <1>1, <1>3, <1>4 DEF Apt, Sound
  <1>7. Told(u)
    BY <1>3, <1>4 DEF Told, Status
  <1> QED BY <1>4, <1>5, <1>6, <1>7

LEMMA SavedLemma ==
    ASSUME NEW t, Sound(t)
    PROVE  Keeps(t, SetBridgeSaved(t)) /\ Told(SetBridgeSaved(t))
  <1> DEFINE u == [t EXCEPT !.state = "Saved", !.enabled = FALSE, !.progress = "none"]
  <1>1. Apt(u) /\ u.endpoint = t.endpoint
    BY DEF Sound, Apt, TorRecords, BridgeStates
  <1> QED BY <1>1, ReportLemma DEF Keeps, SetBridgeSaved

LEMMA FailedLemma ==
    ASSUME NEW t, Sound(t)
    PROVE  Keeps(t, SetBridgeFailed(t)) /\ Told(SetBridgeFailed(t))
  <1> DEFINE u == [t EXCEPT !.bootstrapTimer = FALSE, !.retryTimer = FALSE,
                            !.state = "Failed", !.enabled = FALSE,
                            !.verified = FALSE, !.socks = FALSE]
  <1>1. Apt(u) /\ u.endpoint = t.endpoint
    BY DEF Sound, Apt, TorRecords, BridgeStates
  <1> QED BY <1>1, ReportLemma DEF Keeps, SetBridgeFailed

LEMMA RouteVerifiedLemma ==
    ASSUME NEW t, Sound(t), t.endpoint # NoEndpoint
    PROVE  Keeps(t, SetBrowserRouteVerified(t)) /\ Told(SetBrowserRouteVerified(t))
  <1> DEFINE u == [t EXCEPT !.bootstrapTimer = FALSE, !.retryTimer = FALSE,
                            !.state = "Connected", !.enabled = TRUE,
                            !.socks = TRUE, !.verified = TRUE]
  <1>1. Apt(u) /\ u.endpoint = t.endpoint
    BY DEF Sound, Apt, TorRecords, BridgeStates
  <1> QED BY <1>1, ReportLemma DEF Keeps, SetBrowserRouteVerified

\* Arming the retry timer after a report changes nothing that a report says.
LEMMA RetryLemma ==
    ASSUME NEW t, NEW b \in BOOLEAN
    PROVE  LET u == [t EXCEPT !.retryTimer = b]
           IN  /\ Sound(t) => Sound(u) /\ u.endpoint = t.endpoint
               /\ Sound(t) /\ Told(t) => Told(u)
  BY DEF Sound, Apt, Told, LateBootstrap, TorRecords

LEMMA RouteFailedLemma ==
    ASSUME NEW t, Sound(t)
    PROVE  Keeps(t, SetBrowserRouteFailed(t)) /\ Told(SetBrowserRouteFailed(t))
  <1> DEFINE u == [t EXCEPT !.verified = FALSE, !.socks = FALSE,
                            !.state = "Failed", !.enabled = FALSE]
             r == Report(u)
             b == r.retryTimer \/ (t.running /\ t.progress = "full")
  <1>1. Apt(u) /\ u.endpoint = t.endpoint
    BY DEF Sound, Apt, TorRecords, BridgeStates
  <1>2. Sound(r) /\ Told(r) /\ r.endpoint = t.endpoint
    BY <1>1, ReportLemma
  <1>3. b \in BOOLEAN
    OBVIOUS
  <1>4. SetBrowserRouteFailed(t) = [r EXCEPT !.retryTimer = b]
    BY DEF SetBrowserRouteFailed
  <1> HIDE DEF r, b
  <1> QED BY <1>2, <1>3, <1>4, RetryLemma DEF Keeps

LEMMA SocksVerifiedLemma ==
    ASSUME NEW t, Sound(t)
    PROVE  /\ Keeps(t, SetSocksRouteVerified(t)) /\ Told(SetSocksRouteVerified(t))
           /\ SetSocksRouteVerified(t).endpoint # NoEndpoint
  <1> DEFINE u == [t EXCEPT !.endpoint = "external", !.socks = TRUE, !.retryTimer = FALSE]
  <1>1. Apt(u) /\ u.endpoint # NoEndpoint
    BY DEF Sound, Apt, TorRecords, Endpoints, NoEndpoint
  <1> QED BY <1>1, ReportLemma DEF Keeps, SetSocksRouteVerified

LEMMA ProxyLemma ==
    ASSUME NEW t, Sound(t)
    PROVE  Keeps(t, SetProxy(t))
  BY ReportLemma DEF Keeps, SetProxy, Sound

\* The manager stopped: no process, no timer, and perhaps no report of it.
LEMMA StopLemma ==
    ASSUME NEW t, Sound(t)
    PROVE  /\ Keeps(t, StopManagedTor(t)) /\ ~StopManagedTor(t).bootstrapTimer
           /\ ~StopManagedTor(t).verified
           /\ Told(t) /\ ~t.verified /\ ~t.socks /\ t.state = "Failed"
                => Told(StopManagedTor(t))
  <1> DEFINE s == IF t.state = "Failed" THEN "Failed" ELSE "Saved"
             p == IF t.state = "Failed" THEN t.progress ELSE "none"
             u == [t EXCEPT !.bootstrapTimer = FALSE, !.retryTimer = FALSE,
                            !.process = "none", !.running = FALSE,
                            !.verified = FALSE, !.socks = FALSE, !.enabled = FALSE,
                            !.state = s, !.progress = p]
  <1>1. s \in BridgeStates /\ p \in {"none", "partial", "full"}
    BY DEF Sound, Apt, TorRecords, BridgeStates
  <1>2. StopManagedTor(t) = u \/ StopManagedTor(t) = Report(u)
    BY DEF StopManagedTor
  <1> HIDE DEF s, p
  <1>3. Sound(u) /\ u.endpoint = t.endpoint /\ ~u.bootstrapTimer /\ ~u.verified
    BY <1>1, ZenonT(60) DEF Sound, Apt, TorRecords, Processes
  <1>4. Told(t) /\ ~t.verified /\ ~t.socks /\ t.state = "Failed" => Told(u)
    BY DEF Told, LateBootstrap, Sound, Apt, TorRecords, s
  <1> HIDE DEF u
  <1>5. /\ Sound(Report(u)) /\ Report(u).endpoint = u.endpoint
        /\ ~Report(u).bootstrapTimer /\ ~Report(u).verified /\ Told(Report(u))
    BY <1>3, ReportLemma DEF Sound, Apt, Report, TorRecords
  <1> QED BY <1>2, <1>3, <1>4, <1>5 DEF Keeps

LEMMA ResetLemma ==
    ASSUME NEW t, Sound(t)
    PROVE  Sound(Reset(t)) /\ Reset(t).endpoint # NoEndpoint
  <1> DEFINE r == [t EXCEPT !.state = "Applying", !.enabled = FALSE, !.verified = FALSE,
                            !.socks = FALSE, !.progress = "partial", !.endpoint = "managed"]
  <1>1. Apt(r) /\ r.endpoint # NoEndpoint
    BY DEF Sound, Apt, TorRecords, BridgeStates, Endpoints, NoEndpoint
  <1> QED BY <1>1, ReportLemma DEF Reset

LEMMA StartLemma ==
    ASSUME NEW t, Sound(t), NEW p \in Processes
    PROVE  /\ Sound(StartTor(t, p)) /\ StartTor(t, p).endpoint # NoEndpoint
           /\ StartTor(t, p).process = p
           /\ ~StartTor(t, p).verified /\ StartTor(t, p).progress = "partial"
  <1> DEFINE s == StopManagedTor(Reset(t))
             u == [s EXCEPT !.state = "Applying", !.progress = "partial", !.process = p]
  <1>1. Sound(Reset(t)) /\ Reset(t).endpoint # NoEndpoint
    BY ResetLemma
  <1>2. Sound(s) /\ ~s.bootstrapTimer /\ s.endpoint # NoEndpoint /\ ~s.verified
    BY <1>1, StopLemma DEF Keeps
  <1> HIDE DEF s
  <1>3. /\ Apt(u) /\ u.endpoint # NoEndpoint
        /\ u.process = p /\ ~u.verified /\ u.progress = "partial"
    BY <1>2 DEF Sound, Apt, TorRecords, BridgeStates
  <1>4. StartTor(t, p) = Report(u)
    BY DEF StartTor, s
  <1> HIDE DEF u
  <1>5. /\ Report(u).process = u.process
        /\ Report(u).verified = u.verified
        /\ Report(u).progress = u.progress
    BY <1>3 DEF Report, Apt, TorRecords
  <1> QED BY <1>3, <1>4, <1>5, ReportLemma

LEMMA ApplyLemma ==
    ASSUME NEW t, Sound(t), NEW outcome \in ApplyOutcomes
    PROVE  /\ Sound(ApplyBridgeConfig(t, outcome))
           /\ Told(ApplyBridgeConfig(t, outcome))
           /\ ApplyBridgeConfig(t, outcome).endpoint # NoEndpoint
  <1>1. CASE outcome = "rejected"
    BY <1>1, ResetLemma, FailedLemma DEF ApplyBridgeConfig, Keeps
  <1>2. CASE outcome = "busy"
    BY <1>2, ResetLemma, StopLemma, FailedLemma DEF ApplyBridgeConfig, Keeps
  <1>3. CASE outcome = "refused"
    BY <1>3, StartLemma, FailedLemma DEF ApplyBridgeConfig, Keeps, Processes
  <1>4. CASE outcome = "slow"
    BY <1>4, StartLemma, FailedLemma DEF ApplyBridgeConfig, Keeps, Processes
  <1>5. CASE outcome = "started"
    <2> DEFINE s == StartTor(t, "running")
               u == [s EXCEPT !.state = "Bootstrapping", !.running = TRUE,
                              !.bootstrapTimer = TRUE]
    <2>1. /\ Sound(s) /\ s.endpoint # NoEndpoint
          /\ s.process = "running" /\ ~s.verified /\ s.progress = "partial"
      BY StartLemma DEF Processes
    <2> HIDE DEF s
    <2>2. Apt(u) /\ u.endpoint = s.endpoint
      BY <2>1 DEF Sound, Apt, TorRecords, BridgeStates
    <2>3. ApplyBridgeConfig(t, outcome) = Report(u)
      BY <1>5 DEF ApplyBridgeConfig, s
    <2> QED BY <2>1, <2>2, <2>3, ReportLemma
  <1> QED BY <1>1, <1>2, <1>3, <1>4, <1>5 DEF ApplyOutcomes

-----------------------------------------------------------------------------
(* What the process and the timers do                                      *)

LEMMA VerifyLemma ==
    ASSUME NEW t, Sound(t), NEW ok \in BOOLEAN
    PROVE  /\ Keeps(t, VerifySocks(t, ok))
           /\ Told(t) => Told(VerifySocks(t, ok))
  <1>1. CASE Alive(t) /\ t.running /\ t.progress = "full" /\ ~t.verified
    <2> DEFINE u == [t EXCEPT !.state = "Bootstrap 100%", !.enabled = TRUE, !.socks = ok]
               r == Report(u)
               b == r.retryTimer \/ ~ok
    <2>1. Apt(u) /\ u.endpoint = t.endpoint
      BY <1>1 DEF Sound, Apt, Alive, TorRecords, BridgeStates
    <2>2. Sound(r) /\ Told(r) /\ r.endpoint = t.endpoint
      BY <2>1, ReportLemma
    <2>3. VerifySocks(t, ok) = [r EXCEPT !.retryTimer = b]
      BY <1>1 DEF VerifySocks
    <2>4. b \in BOOLEAN
      OBVIOUS
    <2> HIDE DEF r, b
    <2> QED BY <2>2, <2>3, <2>4, RetryLemma DEF Keeps
  <1>2. CASE ~(Alive(t) /\ t.running /\ t.progress = "full" /\ ~t.verified)
    BY <1>2 DEF VerifySocks, Keeps
  <1> QED BY <1>1, <1>2

LEMMA BootstrapLemma ==
    ASSUME NEW t, Sound(t), t.process = "running", NEW progress \in Progresses,
           NEW ok \in BOOLEAN
    PROVE  /\ Keeps(t, UpdateBootstrap(t, progress, ok))
           /\ Told(t) => Told(UpdateBootstrap(t, progress, ok))
  <1>1. CASE progress = "full"
    <2> DEFINE u == [t EXCEPT !.progress = "full", !.bootstrapTimer = FALSE,
                              !.state = "Bootstrap 100%", !.enabled = TRUE]
    <2>1. Sound(u) /\ u.endpoint = t.endpoint
      BY DEF Sound, Apt, TorRecords, BridgeStates
    <2>2. UpdateBootstrap(t, progress, ok) = VerifySocks(u, ok)
      BY <1>1 DEF UpdateBootstrap
    <2>3. /\ Alive(u) /\ u.process = "running" /\ u.progress = "full"
          /\ u.state = "Bootstrap 100%"
          /\ u.running = t.running /\ u.verified = t.verified /\ u.socks = t.socks
          /\ u.reported = t.reported
      BY DEF Alive, Sound, Apt, TorRecords
    <2> HIDE DEF u
    <2>4. CASE u.running /\ ~u.verified
      <3>1. Apt([u EXCEPT !.state = "Bootstrap 100%", !.enabled = TRUE, !.socks = ok])
        BY <2>1, <2>3, <2>4 DEF Sound, Apt, TorRecords, BridgeStates
      <3> DEFINE r == Report([u EXCEPT !.state = "Bootstrap 100%", !.enabled = TRUE,
                                       !.socks = ok])
                 b == r.retryTimer \/ ~ok
      <3>2. Sound(r) /\ Told(r)
        BY <3>1, ReportLemma
      <3>3. VerifySocks(u, ok) = [r EXCEPT !.retryTimer = b] /\ b \in BOOLEAN
        BY <2>3, <2>4 DEF VerifySocks
      <3> HIDE DEF r, b
      <3>4. Told(VerifySocks(u, ok))
        BY <3>2, <3>3, RetryLemma
      <3> QED BY <2>1, <2>2, <3>4, VerifyLemma DEF Keeps
    <2>5. CASE u.verified
      \* No failure was reported of a verified route.
      <3>1. Told(t) => Told(u)
        BY <2>1, <2>3, <2>5 DEF Told, LateBootstrap, Sound, Consistent
      <3> QED BY <2>1, <2>2, <3>1, VerifyLemma DEF Keeps
    <2>6. CASE ~u.running
      <3>1. Told(t) => Told(u)
        BY <2>1, <2>3, <2>6 DEF Told, LateBootstrap, Sound, Apt, TorRecords, Statuses
      <3> QED BY <2>1, <2>2, <3>1, VerifyLemma DEF Keeps
    <2> QED BY <2>4, <2>5, <2>6
  <1>2. CASE progress = "partial"
    <2> DEFINE u == [t EXCEPT !.progress = progress, !.state = "Bootstrapping",
                              !.enabled = FALSE]
    <2>1. Apt(u) /\ u.endpoint = t.endpoint
      BY <1>2 DEF Sound, Apt, TorRecords, BridgeStates
    <2>2. UpdateBootstrap(t, progress, ok) = Report(u)
      BY <1>2 DEF UpdateBootstrap
    <2> QED BY <2>1, <2>2, ReportLemma DEF Keeps
  <1> QED BY <1>1, <1>2 DEF Progresses

\* A line of the log: an error takes a route that is not verified for failed.
LEMMA LogLemma ==
    ASSUME NEW t, Sound(t)
    PROVE  /\ Keeps(t, ErrorLine(t)) /\ (Told(t) => Told(ErrorLine(t)))
           /\ Keeps(t, WarnLine(t)) /\ (Told(t) => Told(WarnLine(t)))
  <1> DEFINE u == [t EXCEPT !.state = "Failed", !.enabled = FALSE]
  <1>1. ~t.verified => Apt(u) /\ u.endpoint = t.endpoint
    BY DEF Sound, Apt, TorRecords, BridgeStates
  <1>2. Keeps(t, ErrorLine(t)) /\ (Told(t) => Told(ErrorLine(t)))
    <2>1. CASE t.verified
      BY <2>1 DEF ErrorLine, Keeps
    <2>2. CASE ~t.verified
      <3>1. ErrorLine(t) = Report(u)
        BY <2>2 DEF ErrorLine
      <3> QED BY <1>1, <2>2, <3>1, ReportLemma DEF Keeps
    <2> QED BY <2>1, <2>2
  <1>3. Keeps(t, WarnLine(t)) /\ (Told(t) => Told(WarnLine(t)))
    BY ReportLemma DEF WarnLine, Keeps, Sound
  <1> QED BY <1>2, <1>3

\* No timer is left behind by a process that ends: one that ends cleanly in those
\* states has bootstrapped.
LEMMA FinishedLemma ==
    ASSUME NEW t, Sound(t), NEW clean \in BOOLEAN
    PROVE  Keeps(t, TorFinished(t, clean)) /\ Told(TorFinished(t, clean))
  <1> DEFINE ended == [t EXCEPT !.retryTimer = FALSE, !.process = "none", !.running = FALSE]
             u == [ended EXCEPT !.state = "Saved", !.enabled = FALSE,
                                !.verified = FALSE, !.socks = FALSE]
  <1>1. CASE clean /\ t.state \in {"Connected", "Bootstrap 100%"}
    <2>1. Apt(u) /\ u.endpoint = t.endpoint
      BY <1>1 DEF Sound, Apt, TorRecords, BridgeStates, Processes
    <2>2. TorFinished(t, clean) = Report(u)
      BY <1>1 DEF TorFinished, Sound, Apt, TorRecords
    <2> QED BY <2>1, <2>2, ReportLemma DEF Keeps
  <1>2. CASE ~(clean /\ t.state \in {"Connected", "Bootstrap 100%"})
    <2> DEFINE f == [ended EXCEPT !.bootstrapTimer = FALSE, !.retryTimer = FALSE,
                                  !.state = "Failed", !.enabled = FALSE,
                                  !.verified = FALSE, !.socks = FALSE]
    <2>1. Apt(f) /\ f.endpoint = t.endpoint
      BY ZenonT(60) DEF Sound, Apt, TorRecords, BridgeStates, Processes
    <2>2. TorFinished(t, clean) = Report(f)
      BY <1>2 DEF TorFinished, SetBridgeFailed, Sound, Apt, TorRecords
    <2> QED BY <2>1, <2>2, ReportLemma DEF Keeps
  <1> QED BY <1>1, <1>2

\* The bootstrap timeout: the status is failed, and then the process is stopped,
\* which reports once more.
LEMMA TimedOutLemma ==
    ASSUME NEW t, Sound(t)
    PROVE  Keeps(t, BootstrapTimedOut(t)) /\ Told(BootstrapTimedOut(t))
  <1> DEFINE f == SetBridgeFailed(t)
  <1>1. ~f.verified /\ ~f.socks /\ f.state = "Failed"
    BY DEF SetBridgeFailed, Report, Sound, Apt, TorRecords
  <1>2. Keeps(t, f) /\ Told(f)
    BY FailedLemma
  <1> HIDE DEF f
  <1> QED BY <1>1, <1>2, StopLemma DEF BootstrapTimedOut, Keeps, f

-----------------------------------------------------------------------------
(* The window                                                              *)

LEMMA PagesLemma ==
    ASSUME NEW S, NEW n \in Nat, NEW s \in BoundedSeq(S, n)
    PROVE  /\ s \in Seq(S) /\ Len(s) \in 0 .. n
           /\ \A i \in 1 .. Len(s) : /\ RemoveAt(s, i) \in BoundedSeq(S, n)
                                     /\ Len(RemoveAt(s, i)) = Len(s) - 1
           /\ \A x \in S : Len(s) < n => Append(s, x) \in BoundedSeq(S, n)
  <1>1. \A q : q \in BoundedSeq(S, n) <=> \E m \in 0 .. n : q \in [1 .. m -> S]
    BY DEF BoundedSeq, SeqOf
  <1>2. \A m \in 0 .. n : \A q \in [1 .. m -> S] : q \in Seq(S) /\ Len(q) = m
    OBVIOUS
  <1>3. \A q \in Seq(S) : Len(q) \in 0 .. n => q \in BoundedSeq(S, n)
    BY <1>1
  <1>4. s \in Seq(S) /\ Len(s) \in 0 .. n
    BY <1>1, <1>2
  <1>5. ASSUME NEW i \in 1 .. Len(s)
        PROVE  /\ RemoveAt(s, i) \in BoundedSeq(S, n)
               /\ Len(RemoveAt(s, i)) = Len(s) - 1
    <2> DEFINE before == SubSeq(s, 1, i - 1)
               after  == SubSeq(s, i + 1, Len(s))
    <2>1. before \in Seq(S) /\ Len(before) = i - 1
      BY <1>4
    <2>2. after \in Seq(S) /\ Len(after) = Len(s) - i
      BY <1>4
    <2> HIDE DEF before, after
    <2>3. before \o after \in Seq(S) /\ Len(before \o after) = Len(s) - 1
      BY <1>4, <2>1, <2>2, SMTT(30)
    <2>4. RemoveAt(s, i) = before \o after
      BY DEF RemoveAt, before, after
    <2>5. Len(s) - 1 \in 0 .. n
      BY <1>4
    <2> QED BY <1>3, <2>3, <2>4, <2>5
  <1>6. ASSUME NEW x \in S, Len(s) < n
        PROVE  Append(s, x) \in BoundedSeq(S, n)
    <2>1. Append(s, x) \in Seq(S) /\ Len(Append(s, x)) = Len(s) + 1
      BY <1>4
    <2>2. Len(s) + 1 \in 0 .. n
      BY <1>4, <1>6
    <2> QED BY <1>3, <2>1, <2>2
  <1> QED BY <1>4, <1>5, <1>6

\* A page closed: the window holds the last one, or none.
LEMMA WithoutLemma ==
    ASSUME NEW w, Tidy(w), NEW i \in 1 .. Len(w.pages)
    PROVE  LET v == WithoutPage(w, i)
           IN  /\ Tidy(v) /\ v.trying = w.trying
               /\ w.pages # <<>>
  <1> DEFINE p == RemoveAt(w.pages, i)
             h == w.held /\ i # Len(w.pages)
             v == [w EXCEPT !.pages = p, !.held = h]
  <1>1. w \in WindowRecords /\ w.pages \in BoundedSeq(Endpoints, MaxPages)
    BY DEF Tidy, WindowRecords
  <1>2. /\ p \in BoundedSeq(Endpoints, MaxPages) /\ Len(p) = Len(w.pages) - 1
        /\ Len(w.pages) \in Nat
    BY <1>1, PagesLemma, BoundsAssumption
  <1>3. w.pages # <<>> /\ (h => p # <<>>) /\ h \in BOOLEAN
    BY <1>2
  <1>4. WithoutPage(w, i) = v
    BY DEF WithoutPage
  <1> HIDE DEF p, h
  <1>5. Tidy(v) /\ v.trying = w.trying
    BY <1>1, <1>2, <1>3 DEF Tidy, WindowRecords
  <1> QED BY <1>3, <1>4, <1>5

\* A failure that is heard queues a transition, for which there is room.
LEMMA HearLemma ==
    ASSUME NEW w, Tidy(w), NEW sent
    PROVE  LET v == Hear(w, sent)
           IN  Tidy(v) /\ v.trying = w.trying /\ v.pages = w.pages
  <1>1. CASE Hear(w, sent) = w
    BY <1>1
  <1>2. CASE Hear(w, sent) = FinishAutomatic(w)
    BY <1>2 DEF FinishAutomatic, Tidy, WindowRecords
  <1>3. CASE /\ w.active /\ ~w.pending
             /\ Hear(w, sent) = [w EXCEPT !.pending = TRUE, !.queued = @ + 1]
    <2>1. w.queued + 1 \in 0 .. MaxQueued
      BY <1>3, BoundsAssumption DEF Tidy, WindowRecords
    <2> QED BY <1>3, <2>1 DEF Tidy, WindowRecords
  <1> QED BY <1>1, <1>2, <1>3 DEF Hear

\* The end of a handler.
LEMMA HandledLemma ==
    ASSUME NEW t, NEW w, Sound(t), Tidy(w), Fits(t, w), Handled(t, w)
    PROVE  IInv'
  <1>1. Sound(tor') /\ (Told(t) => Told(tor')) /\ tor'.endpoint = t.endpoint
    BY DEF Handled, Sound, Apt, Told, LateBootstrap, TorRecords
  <1>2. Tidy(window') /\ window'.trying = w.trying /\ window'.pages = w.pages
    BY HearLemma DEF Handled
  <1> QED BY <1>1, <1>2 DEF IInv, Fits

\* A call on the manager, and a window that opens no page and is in the loop only
\* if it was before: whatever is left to show is that the receivers were told.
LEMMA CallLemma ==
    ASSUME NEW t, NEW w, IInv, Keeps(tor, t), Tidy(w),
           w.pages # <<>> => window.pages # <<>>,
           ~w.trying => Told(t), Handled(t, w)
    PROVE  IInv'
  BY HandledLemma DEF IInv, Fits, Keeps

\* The beginning of a round of the automatic connection.
LEMMA BeginLemma ==
    ASSUME NEW w, Tidy(w)
    PROVE  /\ Tidy(BeginTry(w)) /\ BeginTry(w).trying
           /\ BeginTry(w).pages # <<>> => w.pages # <<>>
  <1> DEFINE d == IF w.held THEN WithoutPage(w, Len(w.pages)) ELSE w
             v == [d EXCEPT !.timer = FALSE, !.verifying = FALSE, !.proxy = NoEndpoint,
                            !.trying = TRUE]
  <1>1. Tidy(d) /\ (d.pages # <<>> => w.pages # <<>>)
    <2>1. CASE w.held
      <3>1. Len(w.pages) \in 1 .. Len(w.pages)
        <4>1. w.pages \in Seq(Endpoints) /\ w.pages # <<>>
          BY <2>1, PagesLemma, BoundsAssumption DEF Tidy, WindowRecords
        <4> QED BY <4>1
      <3> QED BY <2>1, <3>1, WithoutLemma
    <2>2. CASE ~w.held
      BY <2>2
    <2> QED BY <2>1, <2>2
  <1>2. BeginTry(w) = v
    BY DEF BeginTry
  <1> HIDE DEF d
  <1>3. Tidy(v) /\ v.trying /\ v.pages = d.pages
    BY <1>1 DEF Tidy, WindowRecords
  <1> QED BY <1>1, <1>2, <1>3

-----------------------------------------------------------------------------
(* The actions                                                             *)

LEMMA ActedLemma ==
    ASSUME Tidy(window), UserActs
    PROVE  Tidy(Acted) /\ Acted.pages = window.pages /\ Acted.trying = FALSE
  <1>1. window.user + 1 \in 0 .. MaxUser
    BY BoundsAssumption DEF UserActs, Tidy, WindowRecords
  <1> QED BY <1>1 DEF Acted, UserActs, Ready, Tidy, WindowRecords

LEMMA ExternalLemma ==
    ASSUME NEW t, Sound(t)
    PROVE  Keeps(t, UseExternal(t)) /\ Told(UseExternal(t))
  BY StopLemma, SavedLemma, SocksVerifiedLemma DEF UseExternal, Keeps

LEMMA StartAutomaticStep == IInv /\ StartAutomatic => IInv'
  <1> SUFFICES ASSUME IInv, StartAutomatic PROVE IInv'
    OBVIOUS
  <1> DEFINE w == [Acted EXCEPT !.index = 0, !.pending = FALSE, !.active = TRUE]
  <1>1. Tidy(Acted) /\ Acted.pages = window.pages /\ Acted.queued = window.queued
    BY ActedLemma DEF IInv, StartAutomatic, Acted, Tidy, WindowRecords
  <1>2. 0 \in 0 .. Len(Strategies)
    BY StrategiesAssumption
  <1>3. Tidy(w) /\ w.pages = window.pages
    BY <1>1, <1>2 DEF StartAutomatic, Tidy, WindowRecords
  <1>4. Handled(StopManagedTor(tor), BeginTry(w))
    BY DEF StartAutomatic
  <1> HIDE DEF w
  <1>5. Keeps(tor, StopManagedTor(tor))
    BY StopLemma DEF IInv
  <1> QED BY <1>3, <1>4, <1>5, BeginLemma, CallLemma

LEMMA TransitionStep == IInv /\ Transition => IInv'
  <1> SUFFICES ASSUME IInv, Transition PROVE IInv'
    OBVIOUS
  <1> DEFINE due == [window EXCEPT !.queued = @ - 1, !.pending = FALSE]
  <1>1. window.queued - 1 \in 0 .. MaxQueued /\ window.queued - 1 < MaxQueued
    BY BoundsAssumption DEF IInv, Transition, Tidy, WindowRecords
  <1>2. Tidy(due) /\ due.pages = window.pages /\ due.trying = window.trying
    BY <1>1 DEF IInv, Tidy, WindowRecords
  <1>3. \/ Handled(StopManagedTor(tor), BeginTry(due))
        \/ Handled(tor, due)
    BY DEF Transition
  <1> HIDE DEF due
  <1>4. CASE Handled(StopManagedTor(tor), BeginTry(due))
    BY <1>2, <1>4, StopLemma, BeginLemma, CallLemma DEF IInv
  <1>5. CASE Handled(tor, due)
    BY <1>2, <1>5, CallLemma DEF IInv, Fits, Keeps
  <1> QED BY <1>3, <1>4, <1>5

LEMMA TryStrategyStep == IInv /\ TryStrategy => IInv'
  <1> SUFFICES ASSUME IInv, TryStrategy PROVE IInv'
    OBVIOUS
  <1> DEFINE next == [window EXCEPT !.index = @ + 1]
  <1>1. window.index + 1 \in 0 .. Len(Strategies)
    BY StrategiesAssumption DEF IInv, TryStrategy, Tidy, WindowRecords
  <1>2. Tidy(next) /\ next.pages = window.pages /\ next.trying
    BY <1>1 DEF IInv, TryStrategy, Tidy, WindowRecords
  <1>3. \/ Handled(tor, next)
        \/ Handled(UseExternal(tor), Started(next))
        \/ \E outcome \in ApplyOutcomes :
              Handled(ApplyBridgeConfig(tor, outcome),
                      IF outcome = "started" THEN Started(next) ELSE next)
    BY DEF TryStrategy
  <1> HIDE DEF next
  <1>4. Tidy(Started(next)) /\ Started(next).pages = window.pages
    BY <1>2 DEF Started, Tidy, WindowRecords
  <1>5. CASE Handled(tor, next)
    BY <1>2, <1>5, CallLemma DEF IInv, Keeps
  <1>6. CASE Handled(UseExternal(tor), Started(next))
    BY <1>4, <1>6, ExternalLemma, CallLemma DEF IInv
  <1>7. ASSUME NEW outcome \in ApplyOutcomes,
               Handled(ApplyBridgeConfig(tor, outcome),
                       IF outcome = "started" THEN Started(next) ELSE next)
        PROVE  IInv'
    <2> DEFINE w == IF outcome = "started" THEN Started(next) ELSE next
    <2>1. Tidy(w) /\ w.pages = window.pages
      BY <1>2, <1>4
    <2> HIDE DEF w
    <2>2. Handled(ApplyBridgeConfig(tor, outcome), w)
      BY <1>7 DEF w
    <2>3. /\ Keeps(tor, ApplyBridgeConfig(tor, outcome))
          /\ Told(ApplyBridgeConfig(tor, outcome))
      BY ApplyLemma DEF IInv, Keeps
    <2> QED BY <2>1, <2>2, <2>3, CallLemma
  <1> QED BY <1>3, <1>5, <1>6, <1>7

LEMMA GiveUpStep == IInv /\ GiveUp => IInv'
  <1> SUFFICES ASSUME IInv, GiveUp PROVE IInv'
    OBVIOUS
  <1> DEFINE w == FinishAutomatic([window EXCEPT !.trying = FALSE])
  <1>1. Tidy(w) /\ w.pages = window.pages
    BY DEF IInv, FinishAutomatic, Tidy, WindowRecords
  <1>2. Handled(SetBridgeFailed(StopManagedTor(tor)), w)
    BY DEF GiveUp
  <1> HIDE DEF w
  <1>3. /\ Keeps(tor, SetBridgeFailed(StopManagedTor(tor)))
        /\ Told(SetBridgeFailed(StopManagedTor(tor)))
    BY StopLemma, FailedLemma DEF IInv, Keeps
  <1> QED BY <1>1, <1>2, <1>3, CallLemma

LEMMA StrategyTimeoutStep == IInv /\ StrategyTimeout => IInv'
  <1> SUFFICES ASSUME IInv, StrategyTimeout PROVE IInv'
    OBVIOUS
  <1> DEFINE w == [window EXCEPT !.timer = FALSE]
  <1>1. Tidy(w) /\ w.pages = window.pages /\ w.trying = window.trying
    BY DEF IInv, Tidy, WindowRecords
  <1>2. Handled(SetBridgeFailed(tor), w) \/ Handled(tor, w)
    BY DEF StrategyTimeout
  <1> HIDE DEF w
  <1> QED BY <1>1, <1>2, FailedLemma, CallLemma DEF IInv, Fits, Keeps

LEMMA ApplyStrategyStep ==
    ASSUME NEW kind \in Endpoints
    PROVE  IInv /\ ApplyStrategy(kind) => IInv'
  <1> SUFFICES ASSUME IInv, ApplyStrategy(kind) PROVE IInv'
    OBVIOUS
  <1> DEFINE manual == [Acted EXCEPT !.active = FALSE, !.timer = FALSE]
  <1>1. Tidy(Acted) /\ Acted.pages = window.pages
    BY ActedLemma DEF IInv, ApplyStrategy
  <1>2. Tidy(manual) /\ manual.pages = window.pages
    BY <1>1 DEF Tidy, WindowRecords
  <1>3. \/ Handled(SetBridgeFailed(tor), manual)
        \/ Handled(UseExternal(tor), manual)
        \/ \E outcome \in ApplyOutcomes :
              \/ Handled(ApplyBridgeConfig(tor, outcome), manual)
              \/ Handled(SetBridgeFailed(ApplyBridgeConfig(tor, outcome)), manual)
    BY DEF ApplyStrategy
  <1> HIDE DEF manual
  <1>4. CASE Handled(SetBridgeFailed(tor), manual)
    BY <1>2, <1>4, FailedLemma, CallLemma DEF IInv
  <1>5. CASE Handled(UseExternal(tor), manual)
    BY <1>2, <1>5, ExternalLemma, CallLemma DEF IInv
  <1>6. ASSUME NEW outcome \in ApplyOutcomes
        PROVE  /\ Keeps(tor, ApplyBridgeConfig(tor, outcome))
               /\ Told(ApplyBridgeConfig(tor, outcome))
               /\ Keeps(tor, SetBridgeFailed(ApplyBridgeConfig(tor, outcome)))
               /\ Told(SetBridgeFailed(ApplyBridgeConfig(tor, outcome)))
    BY ApplyLemma, FailedLemma DEF IInv, Keeps
  <1> QED BY <1>2, <1>3, <1>4, <1>5, <1>6, CallLemma

LEMMA BridgeAndProxyStep == IInv /\ (SaveBridge \/ UseLocalTor) => IInv'
  <1> SUFFICES ASSUME IInv, SaveBridge \/ UseLocalTor PROVE IInv'
    OBVIOUS
  <1>1. Tidy(Acted) /\ Acted.pages = window.pages
    BY ActedLemma DEF IInv, SaveBridge, UseLocalTor
  <1>2. CASE SaveBridge
    BY <1>1, <1>2, SavedLemma, FailedLemma, CallLemma DEF IInv, SaveBridge
  <1>3. CASE UseLocalTor
    <2>1. /\ Keeps(tor, SetSocksRouteVerified(SetProxy(tor)))
          /\ Told(SetSocksRouteVerified(SetProxy(tor)))
      BY ProxyLemma, SocksVerifiedLemma DEF IInv, Keeps
    <2> QED BY <1>1, <1>3, <2>1, CallLemma DEF UseLocalTor
  <1> QED BY <1>2, <1>3

\* A page is opened for an endpoint: that of the last report, which is the one of
\* the manager.
LEMMA VerifyRouteStep == IInv /\ VerifyRoute => IInv'
  <1> SUFFICES ASSUME IInv, VerifyRoute PROVE IInv'
    OBVIOUS
  <1> DEFINE e == tor.reported.endpoint
             p == Append(window.pages, e)
             w == [window EXCEPT !.verifying = TRUE, !.proxy = e,
                                 !.pages = p, !.held = TRUE]
  <1>1. e \in Endpoints /\ tor.endpoint # NoEndpoint
    BY DEF IInv, Sound, Apt, Consistent, VerifyRoute, Fits, Told, Ready, TorRecords, Statuses
  <1>2. window.pages \in BoundedSeq(Endpoints, MaxPages) /\ window.pages \in Seq(Endpoints)
    BY PagesLemma, BoundsAssumption DEF IInv, Tidy, WindowRecords
  <1> HIDE DEF e
  <1>3. p \in BoundedSeq(Endpoints, MaxPages)
    BY <1>1, <1>2, PagesLemma, BoundsAssumption DEF VerifyRoute
  <1>4. p # <<>>
    BY <1>1, <1>2
  <1>5. tor' = tor /\ window' = w
    BY DEF VerifyRoute, e
  <1> HIDE DEF p
  <1>6. Tidy(w) /\ w.trying = window.trying
    BY <1>1, <1>3, <1>4 DEF IInv, Tidy, WindowRecords
  <1> QED BY <1>1, <1>5, <1>6 DEF IInv, Fits

LEMMA PageReportsStep ==
    ASSUME NEW i \in 1 .. Len(window.pages)
    PROVE  IInv /\ PageReports(i) => IInv'
  <1> SUFFICES ASSUME IInv, PageReports(i) PROVE IInv'
    OBVIOUS
  <1> DEFINE v == WithoutPage(window, i)
             w == [v EXCEPT !.verifying = FALSE]
  <1>1. Tidy(v) /\ window.pages # <<>>
    BY WithoutLemma DEF IInv
  <1>2. \/ Handled(SetBrowserRouteVerified(tor), w)
        \/ Handled(SetBrowserRouteFailed(tor), w)
    BY DEF PageReports
  <1> HIDE DEF v
  <1>3. Tidy(w)
    BY <1>1 DEF Tidy, WindowRecords
  <1>4. tor.endpoint # NoEndpoint
    BY <1>1 DEF IInv, Fits
  <1> HIDE DEF w
  <1> QED BY <1>1, <1>2, <1>3, <1>4, RouteVerifiedLemma, RouteFailedLemma, CallLemma DEF IInv

\* What happens to the process or the manager's timers, with the window as it is.
LEMMA EventLemma ==
    ASSUME NEW t, IInv, Ready, Keeps(tor, t), Told(t), Handled(t, window)
    PROVE  IInv'
  BY CallLemma DEF IInv

LEMMA EndpointFailsStep == IInv /\ EndpointFails => IInv'
  BY RouteFailedLemma, EventLemma DEF IInv, EndpointFails

LEMMA SlowStartStep == IInv /\ SlowStart => IInv'
  <1> SUFFICES ASSUME IInv, SlowStart PROVE IInv'
    OBVIOUS
  <1>1. ASSUME NEW p \in {"running", "dead"}
        PROVE  LET u == [tor EXCEPT !.process = p]
               IN  Keeps(tor, u) /\ Told(u)
    BY DEF IInv, SlowStart, Ready, Fits, Keeps, Sound, Apt, Told, LateBootstrap, TorRecords, Processes
  <1>2. \/ Handled([tor EXCEPT !.process = "running"], window)
        \/ Handled(SetBridgeFailed([tor EXCEPT !.process = "dead"]), window)
    BY DEF SlowStart
  <1>3. /\ Keeps(tor, SetBridgeFailed([tor EXCEPT !.process = "dead"]))
        /\ Told(SetBridgeFailed([tor EXCEPT !.process = "dead"]))
    BY <1>1, FailedLemma DEF Keeps
  <1> QED BY <1>1, <1>2, <1>3, EventLemma DEF SlowStart

LEMMA TorOutputStep == IInv /\ TorOutput => IInv'
  <1> SUFFICES ASSUME IInv, TorOutput PROVE IInv'
    OBVIOUS
  <1>1. Sound(tor) /\ Told(tor) /\ Ready /\ tor.process = "running"
    BY DEF IInv, TorOutput, Fits, Ready
  <1>2. \/ \E progress \in Progresses, ok \in BOOLEAN :
              Handled(UpdateBootstrap(tor, progress, ok), window)
        \/ Handled(ErrorLine(tor), window)
        \/ Handled(WarnLine(tor), window)
    BY DEF TorOutput, ProbeResults
  <1> QED BY <1>1, <1>2, BootstrapLemma, LogLemma, EventLemma

LEMMA TorExitsStep == IInv /\ TorExits => IInv'
  BY FinishedLemma, EventLemma DEF IInv, TorExits

LEMMA BootstrapTimeoutStep == IInv /\ BootstrapTimeout => IInv'
  BY TimedOutLemma, EventLemma DEF IInv, BootstrapTimeout

LEMMA RetrySocksStep == IInv /\ RetrySocks => IInv'
  <1> SUFFICES ASSUME IInv, RetrySocks PROVE IInv'
    OBVIOUS
  <1> DEFINE u == [tor EXCEPT !.retryTimer = FALSE]
  <1>1. Sound(u) /\ u.endpoint = tor.endpoint /\ Told(u) /\ Ready
    BY RetryLemma DEF IInv, RetrySocks, Fits, Ready
  <1>2. PICK ok \in BOOLEAN : Handled(VerifySocks(u, ok), window)
    BY DEF RetrySocks, ProbeResults
  <1> HIDE DEF u
  <1> QED BY <1>1, <1>2, VerifyLemma, EventLemma DEF Keeps

-----------------------------------------------------------------------------
(* The theorems                                                            *)

THEOREM InitIInv == Init => IInv
  <1> SUFFICES ASSUME Init PROVE IInv
    OBVIOUS
  <1>1. Sound(tor) /\ Told(tor)
    BY DEF Init, IdleTor, Sound, Apt, Told, Consistent, TorRecords, Statuses,
           Processes, BridgeStates, NoEndpoint
  <1>2. <<>> \in BoundedSeq(Endpoints, MaxPages)
    BY BoundsAssumption DEF BoundedSeq, SeqOf
  <1>3. 0 \in 0 .. Len(Strategies) /\ 0 \in 0 .. MaxQueued /\ 0 \in 0 .. MaxUser
    BY StrategiesAssumption, BoundsAssumption
  <1>4. Tidy(window) /\ window.pages = <<>>
    BY <1>2, <1>3 DEF Init, Tidy, WindowRecords
  <1> QED BY <1>1, <1>4 DEF IInv, Fits

THEOREM NextIInv == IInv /\ [Next]_vars => IInv'
  <1> SUFFICES ASSUME IInv, [Next]_vars PROVE IInv'
    OBVIOUS
  <1>1. CASE UNCHANGED vars
    BY <1>1 DEF IInv, vars
  <1>2. CASE Next
    BY <1>2, StartAutomaticStep, TransitionStep, TryStrategyStep, GiveUpStep,
       StrategyTimeoutStep, ApplyStrategyStep, BridgeAndProxyStep, VerifyRouteStep,
       PageReportsStep, EndpointFailsStep, SlowStartStep, TorOutputStep, TorExitsStep,
       BootstrapTimeoutStep, RetrySocksStep DEF Next
  <1> QED BY <1>1, <1>2

\* The inductive invariant of the connection: between handlers and within the loop
\* of tryNextAutomaticStrategy() the manager is sound and the window tidy.
THEOREM AlwaysIInv == Spec => []IInv
  BY InitIInv, NextIInv, PTL DEF Spec

\* No report that PrivacyNetworkManager receives says of a route that it is verified
\* without a transport, or of a transport that it is ready without an endpoint.
THEOREM AlwaysStatusesConsistent == Spec => []StatusesConsistent
  <1>1. IInv => StatusesConsistent
    BY DEF IInv, Sound, Apt, Consistent, Tidy, StatusesConsistent, TypeOK
  <1> QED BY <1>1, AlwaysIInv, PTL

\* Whatever a handler of the window or the manager does to the transport, its
\* verification, its endpoint or a failure, it has reported it when it returns: but
\* for a failure that the late bootstrap of a process already given up on takes back.
THEOREM AlwaysReportedIsCurrent == Spec => []ReportedIsCurrent
  <1>1. IInv => ReportedIsCurrent
    BY DEF IInv, Fits, Told, ReportedIsCurrent, Ready
  <1> QED BY <1>1, AlwaysIInv, PTL

\* The bootstrap timeout stops only the process it was started with.
THEOREM AlwaysTimeoutIsCurrent == Spec => []TimeoutIsCurrent
  <1>1. IInv => TimeoutIsCurrent
    BY DEF IInv, Sound, Apt, TimeoutIsCurrent
  <1> QED BY <1>1, AlwaysIInv, PTL

-----------------------------------------------------------------------------
(* I2pManager *)

\* No probe outlives its process, and none is begun before the process runs.
ProbeOfProcess ==
    /\ i2p.probe # "Stale"
    /\ i2p.process \in {"None", "Dead", "Starting"} => i2p.probe = "None" /\ ~i2p.probeTimer

\* What the last start left, and until when: a process that runs or ends after a
\* good start has no restart ahead, and one that recovers is ending or gone.
StartOfProcess ==
    /\ ~i2p.desired => i2p.process = "None"
    /\ i2p.start = "ok" =>
        /\ i2p.process \notin {"Dead", "Starting"}
        /\ i2p.process # "None" => ~i2p.restartTimer
    /\ i2p.start = "failed" => i2p.process \in {"None", "Dead"}
    /\ i2p.recovering => i2p.process \notin {"Running", "Starting"}

\* The inductive invariant.
I2pIInv == RouteBelongsToProcess /\ RouterWatched /\ ProbeOfProcess /\ StartOfProcess

-----------------------------------------------------------------------------
\* What the private functions return is a state of the manager.
LEMMA HelpersType ==
    ASSUME NEW m \in Managers
    PROVE  /\ SetFailure(m) \in Managers /\ ScheduleProbe(m) \in Managers
           /\ ScheduleRestart(m) \in Managers /\ RequestProcessStop(m) \in Managers
           /\ NewGeneration(m) \in Managers /\ Forgotten(m) \in Managers
           /\ Revoke(m) \in Managers /\ BeginProbe(m) \in Managers
<1>1. SetFailure(m) \in Managers
  BY DEF SetFailure, Managers, States
<1>2. ScheduleProbe(m) \in Managers
  BY DEF ScheduleProbe, Managers
<1>3. ScheduleRestart(m) \in Managers
  BY DEF ScheduleRestart, Managers
<1>4. RequestProcessStop(m) \in Managers
  BY DEF RequestProcessStop, Managers, RouterProcesses
<1>5. NewGeneration(m) \in Managers
  BY DEF NewGeneration, Managers, Probes
<1>6. Forgotten(m) \in Managers
  BY DEF Forgotten, Managers, RouterProcesses, Probes
<1>7. Revoke(m) \in Managers
  <2>1. \A v \in States : [m EXCEPT !.verified = FALSE, !.state = v] \in Managers
    BY DEF Managers
  <2> QED
    BY <2>1 DEF Revoke, States
<1>8. BeginProbe(m) \in Managers
  <2>1. \A v \in States : [m EXCEPT !.probe = "Current", !.state = v] \in Managers
    BY DEF Managers, Probes
  <2> QED
    BY <2>1 DEF BeginProbe, States
<1> QED
  BY <1>1, <1>2, <1>3, <1>4, <1>5, <1>6, <1>7, <1>8

\* So is what a stop leaves, and it has no process, no probe and no route.
LEMMA StopProcessType ==
    ASSUME NEW m \in Managers
    PROVE  /\ StopProcess(m) \in Managers
           /\ StopProcess(m).process = "None" /\ StopProcess(m).probe = "None"
           /\ StopProcess(m).state = "Stopped" /\ StopProcess(m).verified = FALSE
<1>1. StopProcess(m) \in Managers
  BY ZenonT(30) DEF StopProcess, Managers, RouterProcesses, States, Probes
<1>2. /\ StopProcess(m).process = "None" /\ StopProcess(m).probe = "None"
      /\ StopProcess(m).state = "Stopped" /\ StopProcess(m).verified = FALSE
  BY SMTT(20) DEF StopProcess, Managers
<1> QED
  BY <1>1, <1>2

\* So is a process of a new generation.
LEMMA LaunchType == ASSUME NEW m \in Managers PROVE Launch(m) \in Managers
<1> 0 \in 0 .. RestartFailures
  BY ManagerConstants
<1>1. [m EXCEPT !.state = "Starting", !.proxy = FALSE, !.verified = FALSE, !.verifiedHere = FALSE,
                !.recovering = FALSE, !.failures = 0] \in Managers
  BY DEF Managers, States
<1> QED
  BY <1>1, HelpersType DEF Launch

\* So is what a start leaves, whatever its outcome.
LEMMA StartProcessType ==
    ASSUME NEW m \in Managers, NEW outcome \in StartOutcomes
    PROVE  StartProcess(m, outcome) \in Managers
<1> DEFINE n == [m EXCEPT !.desired = TRUE, !.restartTimer = FALSE, !.start = outcome]
<1>1. n \in Managers /\ [m EXCEPT !.desired = TRUE] \in Managers
  BY DEF Managers
<1>2. CASE m.process \notin NotRunning
  BY <1>1, <1>2 DEF StartProcess
<1>3. CASE m.process \in NotRunning /\ outcome = "config"
  BY <1>1, <1>3, HelpersType DEF StartProcess
<1>4. ASSUME m.process \in NotRunning, NEW p \in {"Dead", "Starting"}
      PROVE  ScheduleRestart(SetFailure([Launch(n) EXCEPT !.process = p])) \in Managers
  <2>1. [Launch(n) EXCEPT !.process = p] \in Managers
    BY <1>1, LaunchType, ZenonT(30) DEF Managers, RouterProcesses
  <2> QED
    BY <2>1, HelpersType
<1>5. CASE m.process \in NotRunning /\ outcome = "ok"
  <2>1. ScheduleProbe(Launch(n)) \in Managers
    BY <1>1, LaunchType, HelpersType
  <2>2. [ScheduleProbe(Launch(n)) EXCEPT !.process = "Running", !.state = "Bootstrapping",
                                         !.startupTimer = TRUE] \in Managers
    BY <2>1 DEF Managers, RouterProcesses, States
  <2> QED
    BY <1>5, <2>2 DEF StartProcess
<1> QED
  BY <1>2, <1>3, <1>4, <1>5 DEF StartProcess, StartOutcomes

\* So is what a probe leaves, whatever its result.
LEMMA FinishProbeType ==
    ASSUME NEW m \in Managers, NEW result \in Results
    PROVE  FinishProbe(m, result) \in Managers
<1>1. ASSUME NEW n \in Managers PROVE ProbeSucceeds(n) \in Managers
  <2> 0 \in 0 .. RestartFailures
    BY ManagerConstants
  <2>1. [n EXCEPT !.failures = 0, !.verifiedHere = TRUE, !.startupTimer = FALSE,
                  !.verified = TRUE, !.state = "Connected"] \in Managers
    BY DEF Managers, States
  <2> QED
    BY <2>1, HelpersType DEF ProbeSucceeds
<1>2. ASSUME NEW n \in Managers PROVE RestartAfterConfirmedFailure(n) \in Managers
  <2>1. [n EXCEPT !.recovering = TRUE, !.probeTimer = FALSE, !.verified = FALSE,
                  !.state = "Recovering"] \in Managers
    BY DEF Managers, States
  <2> QED
    BY <2>1, HelpersType DEF RestartAfterConfirmedFailure
<1>3. ASSUME NEW n \in Managers, NEW hard \in BOOLEAN PROVE ProbeFails(n, hard) \in Managers
  <2>1. [n EXCEPT !.failures = IF @ < RestartFailures THEN @ + 1 ELSE @] \in Managers
    BY ManagerConstants DEF Managers
  <2> QED
    BY <2>1, <1>2, HelpersType DEF ProbeFails
<1>4. result.proxy \in BOOLEAN /\ result.hard \in BOOLEAN
  <2>1. Results \subseteq [ok : BOOLEAN, proxy : BOOLEAN, hard : BOOLEAN]
    BY DEF Results
  <2> QED
    BY <2>1
<1>5. [m EXCEPT !.proxy = result.proxy] \in Managers
  BY <1>4 DEF Managers
<1> QED
  BY <1>1, <1>3, <1>4, <1>5 DEF FinishProbe

\* A start that is the first launches, and nothing of an earlier process is left.
LEMMA StartStep ==
    ASSUME I2pIInv, NEW outcome \in StartOutcomes, Start(outcome)
    PROVE  I2pIInv'
<1> USE ManagerConstants DEF Start, StartOutcomes, StartProcess, Launch, NewGeneration,
       SetFailure, ScheduleProbe, ScheduleRestart, NotRunning
<1>1. I2pTypeOK
  BY DEF I2pIInv, RouteBelongsToProcess
<1>2. I2pTypeOK'
  <2> HIDE DEF StartProcess
  <2> QED
    BY <1>1, StartProcessType DEF I2pTypeOK
<1>3. RouteBelongsToProcess'
  <2>1. i2p'.state = "Failed" => ~i2p'.proxy /\ ~i2p'.verified
    BY <1>1 DEF I2pTypeOK, Managers, I2pIInv, RouteBelongsToProcess, ProbeOfProcess
  <2>2. i2p'.probe # "None" => i2p'.process \notin NotRunning
    BY <1>1 DEF I2pTypeOK, Managers, I2pIInv, RouteBelongsToProcess, ProbeOfProcess
  <2>3. i2p'.verified => /\ i2p'.desired
                        /\ i2p'.process \in {"Running", "Ending"}
                        /\ i2p'.verifiedHere
                        /\ ~i2p'.startupTimer
    BY <1>1 DEF I2pTypeOK, Managers, I2pIInv, RouteBelongsToProcess, ProbeOfProcess
  <2> QED
    BY ONLY <1>2, <2>1, <2>2, <2>3 DEF RouteBelongsToProcess
<1>4. ProbeOfProcess'
  BY <1>1 DEF I2pTypeOK, Managers, I2pIInv, RouteBelongsToProcess, ProbeOfProcess
<1>5. StartOfProcess'
  BY <1>1 DEF I2pTypeOK, Managers, I2pIInv, RouteBelongsToProcess, ProbeOfProcess, StartOfProcess
<1>6. RouterWatched'
  BY <1>1 DEF I2pTypeOK, Managers, RouterProcesses, Probes, I2pIInv, RouteBelongsToProcess, RouterWatched,
     ProbeOfProcess, StartOfProcess
<1> QED
  BY <1>3, <1>4, <1>5, <1>6 DEF I2pIInv

\* A restart launches unless a process is there.
LEMMA RestartTimeoutStep ==
    ASSUME I2pIInv, NEW outcome \in StartOutcomes, RestartTimeout(outcome)
    PROVE  I2pIInv'
<1> USE ManagerConstants DEF RestartTimeout, StartOutcomes, StartProcess, Launch,
       NewGeneration, SetFailure, ScheduleProbe, ScheduleRestart, NotRunning
<1>1. I2pTypeOK
  BY DEF I2pIInv, RouteBelongsToProcess
<1>2. I2pTypeOK'
  <2>1. [i2p EXCEPT !.restartTimer = FALSE] \in Managers
    BY <1>1 DEF I2pTypeOK, Managers
  <2> HIDE DEF StartProcess
  <2> QED
    BY <2>1, StartProcessType DEF I2pTypeOK
<1>3. RouteBelongsToProcess'
  <2>1. i2p'.state = "Failed" => ~i2p'.proxy /\ ~i2p'.verified
    BY <1>1 DEF I2pTypeOK, Managers, I2pIInv, RouteBelongsToProcess, ProbeOfProcess
  <2>2. i2p'.probe # "None" => i2p'.process \notin NotRunning
    BY <1>1 DEF I2pTypeOK, Managers, I2pIInv, RouteBelongsToProcess, ProbeOfProcess
  <2>3. i2p'.verified => /\ i2p'.desired
                        /\ i2p'.process \in {"Running", "Ending"}
                        /\ i2p'.verifiedHere
                        /\ ~i2p'.startupTimer
    BY <1>1 DEF I2pTypeOK, Managers, I2pIInv, RouteBelongsToProcess, ProbeOfProcess
  <2> QED
    BY ONLY <1>2, <2>1, <2>2, <2>3 DEF RouteBelongsToProcess
<1>4. ProbeOfProcess'
  BY <1>1 DEF I2pTypeOK, Managers, I2pIInv, RouteBelongsToProcess, ProbeOfProcess
<1>5. StartOfProcess'
  BY <1>1 DEF I2pTypeOK, Managers, I2pIInv, RouteBelongsToProcess, ProbeOfProcess, StartOfProcess
<1>6. RouterWatched'
  BY <1>1 DEF I2pTypeOK, Managers, RouterProcesses, Probes, I2pIInv, RouteBelongsToProcess, RouterWatched,
     ProbeOfProcess, StartOfProcess
<1> QED
  BY <1>3, <1>4, <1>5, <1>6 DEF I2pIInv

\* A stop takes the process, its probe and its timers.
LEMMA StopStep ==
    ASSUME I2pIInv, Stop
    PROVE  I2pIInv'
<1> USE ManagerConstants DEF Stop, StopProcess, NotRunning
<1>1. I2pTypeOK
  BY DEF I2pIInv, RouteBelongsToProcess
<1>2. I2pTypeOK'
  BY <1>1, StopProcessType DEF I2pTypeOK, Managers
<1>3. RouteBelongsToProcess'
  BY <1>1, <1>2 DEF I2pTypeOK, Managers, I2pIInv, RouteBelongsToProcess, ProbeOfProcess
<1>4. ProbeOfProcess'
  BY <1>1 DEF I2pTypeOK, Managers, I2pIInv, RouteBelongsToProcess, ProbeOfProcess
<1>5. StartOfProcess'
  BY <1>1 DEF I2pTypeOK, Managers, I2pIInv, RouteBelongsToProcess, ProbeOfProcess, StartOfProcess
<1>6. RouterWatched'
  BY <1>1 DEF I2pTypeOK, Managers, RouterProcesses, Probes, I2pIInv, RouteBelongsToProcess, RouterWatched,
     ProbeOfProcess, StartOfProcess
<1> QED
  BY <1>3, <1>4, <1>5, <1>6 DEF I2pIInv

\* A restart is a stop that leaves its timer.
LEMMA RestartStep ==
    ASSUME I2pIInv, Restart
    PROVE  I2pIInv'
<1> USE ManagerConstants DEF Restart, StopProcess, NotRunning
<1>1. I2pTypeOK
  BY DEF I2pIInv, RouteBelongsToProcess
<1>2. I2pTypeOK'
  <2> HIDE DEF StopProcess
  <2>1. StopProcess(i2p) \in Managers
    BY <1>1, StopProcessType DEF I2pTypeOK
  <2> QED
    BY <2>1 DEF I2pTypeOK, Managers
<1>3. RouteBelongsToProcess'
  <2> HIDE DEF StopProcess
  <2>1. /\ i2p'.process = "None" /\ i2p'.probe = "None"
        /\ i2p'.state = "Stopped" /\ i2p'.verified = FALSE
    BY <1>1, StopProcessType DEF I2pTypeOK, Managers
  <2> QED
    BY <1>2, <2>1 DEF RouteBelongsToProcess
<1>4. ProbeOfProcess'
  BY <1>1 DEF I2pTypeOK, Managers, I2pIInv, RouteBelongsToProcess, ProbeOfProcess
<1>5. StartOfProcess'
  BY <1>1 DEF I2pTypeOK, Managers, I2pIInv, RouteBelongsToProcess, ProbeOfProcess, StartOfProcess
<1>6. RouterWatched'
  BY <1>1 DEF I2pTypeOK, Managers, RouterProcesses, Probes, I2pIInv, RouteBelongsToProcess, RouterWatched,
     ProbeOfProcess, StartOfProcess
<1> QED
  BY <1>3, <1>4, <1>5, <1>6 DEF I2pIInv

\* The timer begins a probe of the process that is there.
LEMMA ProbeTimeoutStep ==
    ASSUME I2pIInv, ProbeTimeout
    PROVE  I2pIInv'
<1> USE ManagerConstants DEF ProbeTimeout, BeginProbe, NotRunning
<1>1. I2pTypeOK
  BY DEF I2pIInv, RouteBelongsToProcess
<1>2. I2pTypeOK'
  <2>1. [i2p EXCEPT !.probeTimer = FALSE] \in Managers
    BY <1>1 DEF I2pTypeOK, Managers
  <2>2. i2p' = BeginProbe([i2p EXCEPT !.probeTimer = FALSE])
    BY DEF ProbeTimeout
  <2> QED
    BY <2>1, <2>2, HelpersType DEF I2pTypeOK
<1>3. RouteBelongsToProcess'
  BY <1>1, <1>2 DEF I2pTypeOK, Managers, I2pIInv, RouteBelongsToProcess, ProbeOfProcess
<1>4. ProbeOfProcess'
  BY <1>1 DEF I2pTypeOK, Managers, I2pIInv, RouteBelongsToProcess, ProbeOfProcess
<1>5. StartOfProcess'
  BY <1>1 DEF I2pTypeOK, Managers, I2pIInv, RouteBelongsToProcess, ProbeOfProcess, StartOfProcess
<1>6. RouterWatched'
  BY <1>1 DEF I2pTypeOK, Managers, RouterProcesses, Probes, I2pIInv, RouteBelongsToProcess, RouterWatched,
     ProbeOfProcess, StartOfProcess
<1> QED
  BY <1>3, <1>4, <1>5, <1>6 DEF I2pIInv

\* The result of a probe is that of the process that is there.
LEMMA ProbeFinishesStep ==
    ASSUME I2pIInv, NEW result \in Results, ProbeFinishes(result)
    PROVE  I2pIInv'
<1> USE ManagerConstants DEF ProbeFinishes, Results, FinishProbe, ProbeSucceeds, ProbeFails,
       RouteLost, NeedsRestart, Revoke, RestartAfterConfirmedFailure, RequestProcessStop,
       ScheduleProbe, NotRunning
<1>1. I2pTypeOK
  BY DEF I2pIInv, RouteBelongsToProcess
<1>2. I2pTypeOK'
  <2>1. [i2p EXCEPT !.probe = "None"] \in Managers
    BY <1>1 DEF I2pTypeOK, Managers, Probes
  <2> HIDE DEF FinishProbe, ScheduleProbe
  <2> QED
    BY <2>1, FinishProbeType, HelpersType DEF I2pTypeOK
<1>3. RouteBelongsToProcess'
  <2>1. i2p'.state = "Failed" => ~i2p'.proxy /\ ~i2p'.verified
    BY <1>1 DEF I2pTypeOK, Managers, I2pIInv, RouteBelongsToProcess, ProbeOfProcess
  <2>2. i2p'.probe # "None" => i2p'.process \notin NotRunning
    BY <1>1 DEF I2pTypeOK, Managers, I2pIInv, RouteBelongsToProcess, ProbeOfProcess
  <2>3. i2p'.verified => /\ i2p'.desired
                        /\ i2p'.process \in {"Running", "Ending"}
                        /\ i2p'.verifiedHere
                        /\ ~i2p'.startupTimer
    <3> DEFINE m == [i2p EXCEPT !.probe = "None"]
               n == [m EXCEPT !.proxy = result.proxy]
               f == [n EXCEPT !.failures = IF @ < RestartFailures THEN @ + 1 ELSE @]
    <3>1. (i2p.desired /\ i2p.process \in {"Running", "Ending"}) \/ ~i2p.desired
      BY <1>1 DEF I2pTypeOK, Managers, RouterProcesses, I2pIInv, RouteBelongsToProcess, ProbeOfProcess
    <3>2. CASE i2p.probe = "Stale" \/ ~m.desired
      <4>1. i2p' = ScheduleProbe(m)
        BY <3>2
      <4>2. /\ i2p'.verified = i2p.verified /\ i2p'.desired = i2p.desired
            /\ i2p'.process = i2p.process /\ i2p'.verifiedHere = i2p.verifiedHere
            /\ i2p'.startupTimer = i2p.startupTimer
        BY ONLY <1>1, <4>1 DEF I2pTypeOK, Managers, ScheduleProbe
      <4> QED
        BY <4>2 DEF I2pIInv, RouteBelongsToProcess
    <3>3. CASE ~(i2p.probe = "Stale" \/ ~m.desired) /\ result.ok
      <4>1. i2p' = ProbeSucceeds(n)
        BY <3>3
      <4> QED
        BY <1>1, <3>1, <3>3, <4>1 DEF I2pTypeOK, Managers
    <3>4. /\ f \in Managers
          /\ f.verified = i2p.verified /\ f.desired = i2p.desired
          /\ f.process = i2p.process /\ f.verifiedHere = i2p.verifiedHere
          /\ f.startupTimer = i2p.startupTimer
      <4>1. n \in Managers
        <5>1. Results \subseteq [ok : BOOLEAN, proxy : BOOLEAN, hard : BOOLEAN]
          OBVIOUS
        <5>2. m \in Managers
          BY ONLY <1>1 DEF I2pTypeOK, Managers, Probes
        <5> QED
          BY ONLY <5>1, <5>2, result \in Results DEF Managers
      <4>2. /\ n.verified = i2p.verified /\ n.desired = i2p.desired
            /\ n.process = i2p.process /\ n.verifiedHere = i2p.verifiedHere
            /\ n.startupTimer = i2p.startupTimer
        BY <1>1 DEF I2pTypeOK, Managers
      <4> HIDE DEF n
      <4> QED
        BY <4>1, <4>2 DEF Managers
    <3>5. CASE ~(i2p.probe = "Stale" \/ ~m.desired) /\ ~result.ok /\ ~RouteLost(f)
      <4>1. i2p' = ScheduleProbe(f)
        BY <3>5
      <4> HIDE DEF f
      <4>2. /\ i2p'.verified = f.verified /\ i2p'.desired = f.desired
            /\ i2p'.process = f.process /\ i2p'.verifiedHere = f.verifiedHere
            /\ i2p'.startupTimer = f.startupTimer
        BY ONLY <3>4, <4>1 DEF Managers, ScheduleProbe
      <4> QED
        BY <3>4, <4>2 DEF I2pIInv, RouteBelongsToProcess
    <3>6. CASE ~(i2p.probe = "Stale" \/ ~m.desired) /\ ~result.ok /\ RouteLost(f)
      <4>1. \/ i2p' = RestartAfterConfirmedFailure(Revoke(f))
            \/ i2p' = ScheduleProbe(Revoke(f))
        BY <3>6
      <4> HIDE DEF f
      <4>2. Revoke(f) \in Managers /\ Revoke(f).verified = FALSE
        <5>1. Revoke(f) \in Managers
          BY ONLY <3>4, HelpersType
        <5>2. Revoke(f).verified = FALSE
          BY ONLY <3>4 DEF Managers, Revoke
        <5> QED
          BY ONLY <5>1, <5>2
      <4>3. ASSUME NEW q \in Managers, ~q.verified
            PROVE  ~RestartAfterConfirmedFailure(q).verified /\ ~ScheduleProbe(q).verified
        BY ONLY <4>3 DEF Managers, RestartAfterConfirmedFailure, RequestProcessStop, ScheduleProbe,
           NotRunning
      <4>4. ~i2p'.verified
        BY ONLY <4>1, <4>2, <4>3
      <4> QED
        BY <4>4
    <3> QED
      BY <3>2, <3>3, <3>5, <3>6
  <2> QED
    BY ONLY <1>2, <2>1, <2>2, <2>3 DEF RouteBelongsToProcess
<1>4. ProbeOfProcess'
  BY <1>1 DEF I2pTypeOK, Managers, I2pIInv, RouteBelongsToProcess, ProbeOfProcess
<1>5. StartOfProcess'
  BY <1>1 DEF I2pTypeOK, Managers, I2pIInv, RouteBelongsToProcess, ProbeOfProcess, StartOfProcess
<1>6. RouterWatched'
  BY <1>1 DEF I2pTypeOK, Managers, RouterProcesses, Probes, I2pIInv, RouteBelongsToProcess, RouterWatched,
     ProbeOfProcess, StartOfProcess
<1> QED
  BY <1>3, <1>4, <1>5, <1>6 DEF I2pIInv

\* The timeout ends a process that was never verified.
LEMMA StartupTimeoutStep ==
    ASSUME I2pIInv, StartupTimeout
    PROVE  I2pIInv'
<1> USE ManagerConstants DEF StartupTimeout, SetFailure, RequestProcessStop, NotRunning
<1>1. I2pTypeOK
  BY DEF I2pIInv, RouteBelongsToProcess
<1>2. I2pTypeOK'
  <2>1. [i2p EXCEPT !.startupTimer = FALSE] \in Managers
    BY <1>1 DEF I2pTypeOK, Managers
  <2>2. \A m \in Managers : [m EXCEPT !.recovering = TRUE] \in Managers
    BY DEF Managers
  <2> HIDE DEF SetFailure, RequestProcessStop
  <2> QED
    BY <2>1, <2>2, HelpersType DEF I2pTypeOK
<1>3. RouteBelongsToProcess'
  BY <1>1, <1>2 DEF I2pTypeOK, Managers, I2pIInv, RouteBelongsToProcess, ProbeOfProcess
<1>4. ProbeOfProcess'
  BY <1>1 DEF I2pTypeOK, Managers, I2pIInv, RouteBelongsToProcess, ProbeOfProcess
<1>5. StartOfProcess'
  BY <1>1 DEF I2pTypeOK, Managers, I2pIInv, RouteBelongsToProcess, ProbeOfProcess, StartOfProcess
<1>6. RouterWatched'
  BY <1>1 DEF I2pTypeOK, Managers, RouterProcesses, Probes, I2pIInv, RouteBelongsToProcess, RouterWatched,
     ProbeOfProcess, StartOfProcess
<1> QED
  BY <1>3, <1>4, <1>5, <1>6 DEF I2pIInv

\* With the process go its probe and its route, and a restart is scheduled.
LEMMA ProcessExitsStep ==
    ASSUME I2pIInv, ProcessExits
    PROVE  I2pIInv'
<1> USE ManagerConstants DEF ProcessExits, HandleProcessFinished, NewGeneration, Forgotten,
       Replace, SetFailure, ScheduleRestart, NotRunning
<1>1. I2pTypeOK
  BY DEF I2pIInv, RouteBelongsToProcess
<1>2. I2pTypeOK'
  <2>1. Forgotten(NewGeneration(i2p)) \in Managers
    BY <1>1, HelpersType DEF I2pTypeOK
  <2>2. \A m \in Managers : [m EXCEPT !.recovering = FALSE, !.state = "Recovering"] \in Managers
    BY DEF Managers, States
  <2> HIDE DEF SetFailure, ScheduleRestart, Forgotten, NewGeneration
  <2> QED
    BY <2>1, <2>2, HelpersType DEF I2pTypeOK
<1>3. RouteBelongsToProcess'
  <2> DEFINE m == Forgotten(NewGeneration(i2p))
  <2>1. /\ m \in Managers /\ m.proxy = FALSE /\ m.verified = FALSE /\ m.probe = "None"
    <3>1. NewGeneration(i2p) \in Managers
      BY ONLY <1>1, HelpersType DEF I2pTypeOK
    <3> HIDE DEF NewGeneration
    <3>2. m \in Managers
      BY ONLY <3>1, HelpersType
    <3>3. m.proxy = FALSE /\ m.verified = FALSE /\ m.probe = "None"
      BY ONLY <3>1 DEF Forgotten, Managers
    <3> QED
      BY <3>2, <3>3
  <2>2. i2p' = Replace(m)
    OBVIOUS
  <2>3. i2p'.proxy = FALSE /\ i2p'.verified = FALSE /\ i2p'.probe = "None"
    <3> HIDE DEF m
    <3> QED
      BY <2>1, <2>2 DEF Managers
  <2> QED
    BY <1>2, <2>3 DEF RouteBelongsToProcess
<1>4. ProbeOfProcess'
  BY <1>1 DEF I2pTypeOK, Managers, I2pIInv, RouteBelongsToProcess, ProbeOfProcess
<1>5. StartOfProcess'
  BY <1>1 DEF I2pTypeOK, Managers, I2pIInv, RouteBelongsToProcess, ProbeOfProcess, StartOfProcess
<1>6. RouterWatched'
  BY <1>1 DEF I2pTypeOK, Managers, RouterProcesses, Probes, I2pIInv, RouteBelongsToProcess, RouterWatched,
     ProbeOfProcess, StartOfProcess
<1> QED
  BY <1>3, <1>4, <1>5, <1>6 DEF I2pIInv

\* A process that never started has no probe.
LEMMA SlowProcessFailsStep ==
    ASSUME I2pIInv, SlowProcessFails
    PROVE  I2pIInv'
<1> USE ManagerConstants DEF SlowProcessFails, SetFailure, NotRunning
<1>1. I2pTypeOK
  BY DEF I2pIInv, RouteBelongsToProcess
<1>2. I2pTypeOK'
  <2>1. [i2p EXCEPT !.process = "Dead"] \in Managers
    BY <1>1 DEF I2pTypeOK, Managers, RouterProcesses
  <2> HIDE DEF SetFailure
  <2> QED
    BY <2>1, HelpersType DEF I2pTypeOK
<1>3. RouteBelongsToProcess'
  BY <1>1, <1>2 DEF I2pTypeOK, Managers, I2pIInv, RouteBelongsToProcess, ProbeOfProcess
<1>4. ProbeOfProcess'
  BY <1>1 DEF I2pTypeOK, Managers, I2pIInv, RouteBelongsToProcess, ProbeOfProcess
<1>5. StartOfProcess'
  BY <1>1 DEF I2pTypeOK, Managers, I2pIInv, RouteBelongsToProcess, ProbeOfProcess, StartOfProcess
<1>6. RouterWatched'
  BY <1>1 DEF I2pTypeOK, Managers, RouterProcesses, Probes, I2pIInv, RouteBelongsToProcess, RouterWatched,
     ProbeOfProcess, StartOfProcess
<1> QED
  BY <1>3, <1>4, <1>5, <1>6 DEF I2pIInv

\* One that started late has none either.
LEMMA SlowProcessStartsStep ==
    ASSUME I2pIInv, SlowProcessStarts
    PROVE  I2pIInv'
<1> USE ManagerConstants DEF SlowProcessStarts, NotRunning
<1>1. I2pTypeOK
  BY DEF I2pIInv, RouteBelongsToProcess
<1>2. I2pTypeOK'
  BY <1>1 DEF I2pTypeOK, Managers, RouterProcesses
<1>3. RouteBelongsToProcess'
  BY <1>1, <1>2 DEF I2pTypeOK, Managers, I2pIInv, RouteBelongsToProcess, ProbeOfProcess
<1>4. ProbeOfProcess'
  BY <1>1 DEF I2pTypeOK, Managers, I2pIInv, RouteBelongsToProcess, ProbeOfProcess
<1>5. StartOfProcess'
  BY <1>1 DEF I2pTypeOK, Managers, I2pIInv, RouteBelongsToProcess, ProbeOfProcess, StartOfProcess
<1>6. RouterWatched'
  BY <1>1 DEF I2pTypeOK, Managers, RouterProcesses, Probes, I2pIInv, RouteBelongsToProcess, RouterWatched,
     ProbeOfProcess, StartOfProcess
<1> QED
  BY <1>3, <1>4, <1>5, <1>6 DEF I2pIInv

-----------------------------------------------------------------------------
\* No process, no probe and no route at first.
THEOREM I2pInitIInv == I2pInit => I2pIInv
<1> SUFFICES ASSUME I2pInit PROVE I2pIInv
  OBVIOUS
<1>1. I2pTypeOK
  BY ManagerConstants DEF I2pInit, I2pTypeOK, Managers, States, RouterProcesses, Probes, StartOutcomes
<1> QED
  BY <1>1 DEF I2pInit, I2pIInv, RouteBelongsToProcess, RouterWatched, ProbeOfProcess, StartOfProcess,
     NotRunning

\* Every step preserves the inductive invariant.
THEOREM I2pNextIInv == I2pIInv /\ [I2pNext]_i2p => I2pIInv'
<1> SUFFICES ASSUME I2pIInv, [I2pNext]_i2p PROVE I2pIInv'
  OBVIOUS
<1>1. CASE UNCHANGED i2p
  BY <1>1 DEF I2pIInv, RouteBelongsToProcess, I2pTypeOK, RouterWatched, ProbeOfProcess, StartOfProcess
<1>2. CASE I2pNext
  BY <1>2, StartStep, RestartTimeoutStep, StopStep, RestartStep, ProbeTimeoutStep,
     ProbeFinishesStep, StartupTimeoutStep, ProcessExitsStep, SlowProcessFailsStep,
     SlowProcessStartsStep DEF I2pNext
<1> QED
  BY <1>1, <1>2

\* The inductive invariant holds in every reachable state.
THEOREM I2pAlwaysIInv == I2pSpec => []I2pIInv
BY I2pInitIInv, I2pNextIInv, PTL DEF I2pSpec

\* A verified route is that of the process that is there.
THEOREM AlwaysRouteBelongsToProcess == I2pSpec => []RouteBelongsToProcess
BY I2pAlwaysIInv, PTL DEF I2pIInv

\* A router that is wanted has a probe, a restart or an exit ahead of it.
THEOREM AlwaysRouterWatched == I2pSpec => []RouterWatched
BY I2pAlwaysIInv, PTL DEF I2pIInv

\* As long as the process lives, only failures in a row revoke its route.
THEOREM AlwaysRevocationConfirmed == I2pSpec => RevocationConfirmed
<1> DEFINE Confirmed == /\ i2p.failures + 1 >= ConfirmedFailures
                        /\ i2p'.failures >= ConfirmedFailures
           A == i2p.verified /\ ~i2p'.verified /\ i2p'.process = "Running" => Confirmed
<1>1. I2pIInv /\ [I2pNext]_i2p => [A]_i2p
  <2> SUFFICES ASSUME I2pIInv, I2pNext, i2p.verified, ~i2p'.verified, i2p'.process = "Running"
               PROVE  Confirmed
    OBVIOUS
  <2>1. /\ I2pTypeOK /\ i2p.desired /\ i2p.process \in {"Running", "Ending"} /\ ~i2p.startupTimer
    BY DEF I2pIInv, RouteBelongsToProcess
  <2>2. ASSUME NEW outcome \in StartOutcomes, Start(outcome) \/ RestartTimeout(outcome)
        PROVE  i2p'.verified
    BY <2>1, <2>2 DEF Start, RestartTimeout, StartProcess, NotRunning, I2pTypeOK, Managers
  <2>3. CASE Stop \/ Restart
    BY <2>1, <2>3, StopProcessType DEF Stop, Restart, I2pTypeOK, Managers
  <2>4. CASE ProbeTimeout
    BY <2>1, <2>4 DEF ProbeTimeout, BeginProbe, NotRunning, I2pTypeOK, Managers
  <2>5. ASSUME NEW result \in Results, ProbeFinishes(result)
        PROVE  Confirmed
    <3> DEFINE m == [i2p EXCEPT !.probe = "None"]
               n == [m EXCEPT !.proxy = result.proxy]
               f == [n EXCEPT !.failures = IF @ < RestartFailures THEN @ + 1 ELSE @]
    <3>1. ~(i2p.probe = "Stale" \/ ~m.desired) /\ ~result.ok
      BY <2>1, <2>5 DEF ProbeFinishes, ScheduleProbe, FinishProbe, ProbeSucceeds, I2pTypeOK, Managers
    <3>2. f.verified /\ RouteLost(f)
      BY <2>1, <2>5, <3>1 DEF ProbeFinishes, FinishProbe, ProbeFails, ScheduleProbe, I2pTypeOK,
         Managers
    <3>3. i2p'.failures = f.failures
      BY <2>1, <2>5, <3>1, <3>2 DEF ProbeFinishes, FinishProbe, ProbeFails, Revoke, ScheduleProbe,
         RestartAfterConfirmedFailure, RequestProcessStop, I2pTypeOK, Managers
    <3>4. i2p.failures \in Nat /\ f.failures <= i2p.failures + 1
      BY <2>1, ManagerConstants DEF I2pTypeOK, Managers
    <3>5. f.failures \in Nat
      BY <2>1, ManagerConstants DEF I2pTypeOK, Managers
    <3> HIDE DEF f
    <3> QED
      BY <3>2, <3>3, <3>4, <3>5, ManagerConstants DEF RouteLost
  <2>6. CASE StartupTimeout
    BY <2>1, <2>6 DEF StartupTimeout
  <2>7. CASE ProcessExits
    BY <2>1, <2>7 DEF ProcessExits, HandleProcessFinished, Replace, Forgotten, NewGeneration,
       ScheduleRestart, SetFailure, I2pTypeOK, Managers
  <2>8. CASE SlowProcessFails \/ SlowProcessStarts
    BY <2>1, <2>8 DEF SlowProcessFails, SlowProcessStarts
  <2> QED
    BY <2>2, <2>3, <2>4, <2>5, <2>6, <2>7, <2>8 DEF I2pNext
<1> QED
  BY <1>1, I2pAlwaysIInv, PTL DEF I2pSpec, RevocationConfirmed

-----------------------------------------------------------------------------
(* What PrivateRoute takes for granted *)

\* The private-route manager, of which only the statuses it can be sent count here.
Manager == INSTANCE PrivateRoute WITH TorEndpoints <- Endpoints, I2pEndpoint <- "i2pd",
                                      Conns <- {}, FailureThreshold <- 1, net <- tor

\* What updateTorStatus() was sent last is one of the statuses PrivateRoute lets
\* Tor's supervisor report, so that its theorems are about this supervisor.
THEOREM TorReportsExpected == Spec => [](tor.reported \in Manager!TorStatuses)
  <1>1. IInv => tor.reported \in Manager!TorStatuses
    BY DEF IInv, Sound, Apt, Consistent, TorRecords, Statuses, Manager!TorStatuses
  <1> QED BY <1>1, AlwaysIInv, PTL

\* What updateI2pStatus() reads of an I2pStatus.
ReportedByI2p == [proxy |-> i2p.proxy, verified |-> i2p.verified, failed |-> i2p.state = "Failed"]

\* And so is the status of the I2P supervisor whenever a handler of it returns.
THEOREM I2pReportsExpected == I2pSpec => [](ReportedByI2p \in Manager!I2pStatuses)
  <1>1. I2pIInv => ReportedByI2p \in Manager!I2pStatuses
    BY DEF I2pIInv, RouteBelongsToProcess, I2pTypeOK, Managers, ReportedByI2p,
           Manager!I2pStatuses
  <1> QED BY <1>1, I2pAlwaysIInv, PTL

=============================================================================
