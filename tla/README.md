# A verification project for Granger Browser

TLA+ modules that model the parts of Granger Browser in which order, timing and
failure decide whether it is correct; TLC configurations that check them on
small instances; and theorems, checked by TLAPS, that hold for every instance.

- To check a run: `tlc -config <file>.cfg <module>.tla` (section 3 names both).
- To check the proofs: `tlapm <module>.tla` for the eight modules whose name ends in
  `Proofs` (section 5).
- `PROJECT.json` lists the components, the runs, the definitions with the source
  lines they translate, the hazards, the theorems, and for every checked property
  a mutant: a plausible bug that makes that property fail.

## 1. The system

Granger Browser is a Qt browser (`src/granger`, C++) whose traffic leaves only
through a private network. It supervises Tor and a bundled I2P router, and sends
everything through a SOCKS gateway of its own on loopback. Beside it lives the
Granger Network (`src/GrangerNetwork`, Python): an experimental overlay with
circuits over relays, rendezvous, signed bootstrap data and services.

### 1.1 Components of the browser

| Component | State | Operations | What makes it correct | Module |
|---|---|---|---|---|
| Private-route manager (`network/PrivacyNetworkManager.cpp`) | preferred and active network, route state, last status of Tor and of I2P, the network lost last, a pending Tor verification, the recovery timer, a failure count per network | `initializeGateway`, `start`, `stop`, `setPreferredNetwork`, `updateTorStatus`, `updateI2pStatus`, `handleBackendFailure`, the recovery timeout; all of them end in `reevaluate` | the gate is open only for a network verified now; nothing outlives the route it was opened for; a network is not left without a reason; traffic comes back | PrivateRoute |
| Loopback SOCKS gateway (`network/PrivateRouteGateway.cpp`) | the policy, the sessions: stage of the handshake, two sockets, timeout | `setPolicy`, `blockAll`, `closeActiveConnections`, `acceptConnections`, socket and timer events | the routing rules; every stage of a handshake follows a change of policy; failures are counted once and only for the backend; sessions end | GatewayPolicy, GatewaySession |
| I2P router supervisor (`i2p/I2pManager.cpp`) | process, generation, state, probe under way, three timers, consecutive failures | `start`, `stop`, `restart`, probe begin and finish, process exit, timeouts | a verified route is that of the living process; a transient failure does not revoke it; the router is never left alone | I2pManager |
| Tor supervisor (`tor/TorManager.cpp`) | process, SOCKS endpoint, bootstrap progress, bridge state, bootstrap and retry timers, the two verifications, the status reported last | `applyBridgeConfig`, `stopManagedTor`, `setBridgeSaved`, `setSocksRouteVerified`, `setBrowserRouteVerified/Failed`, log lines, exits, timeouts | what was reported last is true; a status is consistent; a timeout belongs to its attempt | TorManager, TorConnection |
| Automatic Tor connection and route verification (`ui/MainWindow.cpp`) | the queue of strategies and its index, the strategy timer, transitions in the event queue, hidden verification pages | start, next strategy, timeout, apply by hand, verify, results of pages | the automatic connection ends; a result belongs to the transport it was asked for (it does not always: finding 2) | TorConnection |
| Spaces (`containers/ContainerManager.cpp`) | the store of Spaces, the cleanup journal and its lock file, the directories; in memory the Spaces, those that close, the jobs | create, delete, clear, sweep at start-up and after a deletion | store, journal and data agree across crashes; what was deleted goes, what was not stays | SpaceCleanup |
| Brand migration (`core/BrandMigration.cpp`) | legacy and current profile, staging copy, markers | `migrateData`, `migrateNativeSettings` at start-up | imported at most once and whole, also across crashes and wipes | ProfileLifecycle |
| Emergency wipe (`core/EmergencyWipeManager.cpp`) | a manifest of what is to be deleted | create, carry out at start-up | whatever was listed is gone in the end; nothing goes without a wipe | ProfileLifecycle |
| Environment probe (`tor/ConnectionStrategy.cpp`), bridge profiles (`bridges/`) | ranking and history; stored bridge lines | rank, record; parse, import, QR decode | deterministic; parsing | - |
| Updates, event log, settings | files | download with hash; rotation; typed keys | sequential | - |
| Tabs, pages, dialogs, search | tab order, groups | presentation | no lost tab | - |
| Privacy and permissions, content blocker, HTTPS-first | rules and per-site decisions | decide | pure decisions | - |

### 1.2 Components of the Granger Network

| Component | State | Operations | What makes it correct | Module |
|---|---|---|---|---|
| Relay cells and multiplexed streams (`cells.py`) | per multiplexer: failed, closed, streams; per stream: credit, buffer, closed both ways, error; a shared receive budget | `open_stream`, `accept_stream`, `sendall`, `recv`, `close`, `reset`, the reader, `close` of the multiplexer | credit and budget conserved; no legal use faults the peer; no lost wakeup; EOF only after the data | CellStream |
| Service host (`wan_service.py`, `WanServiceHost`) | circuits, the cookie on offer, handshakes, sessions, two events | the main thread, a thread per introduction point, a worker per handshake, `stop` | grants are given once and live; the limit is shared; nothing is left open | ServiceHost |
| Introduction point (`node.py`, `introduction.py`) | the registry with its replay cache, the session of each service, deliveries and their queue | register, introduce, deliver, expire, stop | a nonce is introduced once; clients find the session in force; every client is answered | IntroductionPoint |
| Rendezvous point (`node.py`, `rendezvous.py`) | waiting sides | join, pair, expire | sides are paired exclusively | - |
| Secure channel (`protocol.py`, `crypto.py`) | keys, counters | handshake, seal, open | cryptographic | - |
| Circuits (`circuit.py`, `multihop.py`) | hops, keys per hop | extend, teardown | partial failure leaves no hop behind | - |
| Peer RPC and discovery (`peer.py`, `peer_rpc.py`, `wan_discovery.py`) | peer tables, lookups | find, publish | lookups end | - |
| Bootstrap, reseed, WAN configuration (`bootstrap.py`, `reseed.py`, `wan_config*.py`) | signed generations on disk | fetch, verify, install, recover | a generation never goes back, also across crashes | - |

### 1.3 How they interact

- `MainWindow` forwards every `TorStatus` and the result of its route check; the
  I2P supervisor's `statusChanged` is a direct connection. All of it runs on the Qt
  main thread, so a slot of the manager runs to its end, with everything it calls,
  before another begins.
- The manager calls the gateway (`setPolicy`, `blockAll`) synchronously, and the
  gateway calls the manager back from inside a socket event
  (`backendRequestFailed` and `backendRequestSucceeded`): a failure may install a
  new policy and close the session whose event is still being handled.
- The manager asks the window for a verification and the window opens a hidden page;
  the page answers whenever it likes, and the Tor manager takes its word.
- The I2P probe runs on a pool thread and its result is queued to the main thread;
  `QProcess` reports the exit of i2pd and of Tor whenever it happens.
- `main()` runs the migration, a pending wipe and the sweep of the cleanup journal
  before there is a window, and a kill may fall between any two of their steps.
- In the Granger Network every multiplexer has a reader thread, and any number of
  application threads use its streams; locks are per multiplexer, per stream and
  for sending. A service host and an introduction point talk to each other over
  such circuits, each with one lock and several threads of its own.

### 1.4 What is hard

Callbacks into the object that is calling; statuses that arrive late or while a
verification is pending; timers and posted events that outlive the situation they
were armed in; results of a process or a page that was replaced; sockets of a
session closed under a handshake; a thread that goes to sleep on one lock while a
failure is announced under another; flow-control credit lost on a path nobody
tests; a thread that cannot be started; a queue that is full when the one who reads
it dies; crashes between two file operations, and the next start that finds the
half of them. `PROJECT.json` lists each at its line, with the properties that cover
it or the reason why none does.

## 2. The modules

```
GatewayPolicy          routing rules (operators)
  |-- RouteGate            abstract gate: what the gateway promises
  |-- PrivateRoute         manager + policy + sessions     => implements RouteGate
  |     |-- PrivateRouteInv        the inductive invariant
  |     |     `-- PrivateRouteProofs
  |     `-- PrivateRouteClaims     a statement the code does not keep
  `-- GatewaySession       the SOCKS handshakes            => implements RouteGate
        |-- MCGatewaySession       symmetry for the runs
        `-- GatewaySessionProofs
I2pManager             supervisor of i2pd
  `-- SupervisorProofs     (of both supervisors)
TorManager             supervisor of Tor (operators on its record)
  `-- TorConnection        the window, the event queue, the pages
        |-- MCTorConnection        the queue of strategies for the runs
        |     `-- TorClaims            a statement the code does not keep
        `-- SupervisorProofs
SpaceCleanup           Spaces, their journal, crashes
  `-- SpaceCleanupProofs
ProfileLifecycle       import and wipe at start-up, crashes
  `-- ProfileLifecycleProofs
CellStream             multiplexed streams of the Granger Network
  `-- CellStreamProofs
ServiceHost            the threads of a service host
  `-- ServiceHostProofs
IntroductionPoint      the threads of an introduction point
  |-- MCIntroductionPoint    symmetry for the run
  `-- IntroductionPointProofs
```

Three modules fit together by what each assumes of the others. PrivateRoute takes
any status of the sets `TorStatuses` and `I2pStatuses`, in any order. That Tor's
supervisor and the window never report another is `StatusesConsistent` of
TorConnection; that the I2P supervisor does not is part of `RouteBelongsToProcess` of
I2pManager; both are proved, and `TorReportsExpected` and `I2pReportsExpected` of
SupervisorProofs say it with PrivateRoute's own sets. In the other direction TorConnection takes from
PrivateRoute that a verification is asked for while a transport is ready and
unverified, and that a verified route may be reported failed. GatewaySession takes
from the manager any policy it can install, at any time and from within a failure
report, and both sides implement the same RouteGate.

A definition called a mutant, or a bug that the module must notice, is no part of
the specification: `PROJECT.json` puts it in the place of the definition it varies, to
show that a property would fail.

### 2.1 GatewayPolicy

`RouteFor` is `PrivateRouteGateway::routeFor()`. A host is one of the four
classes it tells apart: `.onion`, `.i2p`, the host of the Tor route check, and any
other. `Policies` is the record `PrivateRoutePolicy`.

### 2.2 RouteGate

The abstract specification: a policy and the tunnels. A tunnel is opened only where
the policy of the moment routes it, and a change of policy keeps only tunnels the
new policy would open the same way. The manager's module implements it with slots
that change the policy several times; the session module implements it with a
handshake of six stages.

### 2.3 PrivateRoute

The only variable is the record `net`: the manager's members, the policy its
gateway holds and the routed sessions. A slot is one action. The private functions
it calls (`block`, `activate`, `reevaluate`, `applyGatewayPolicy`,
`requestTorVerification`, `schedulePreferredRecovery`) are operators from a manager
state to a manager state, applied in the order of the calls, so that the
intermediate policies of a slot and the sessions each of them closes are all there.

| Action | Code |
|---|---|
| `InitializeGateway`, `Start`, `Stop` | `initializeGateway`, `start`, `stop` |
| `SetPreferredNetwork` | `setPreferredNetwork` |
| `TorStatusChanged`, `I2pStatusChanged` | `updateTorStatus`, `updateI2pStatus`: any status the supervisors can report, in any order |
| `RecoveryTimeout` | the single-shot timer of the constructor |
| `OpenSession`, `EstablishTunnel`, `CloseSession`, `FailSession` | what the gateway's sessions do to the manager |

`requested` records that the slot emitted `torVerificationRequested`. Durations are
left out: a timer that runs may fire at any time. `TorStatuses` and `I2pStatuses`
are the combinations the supervisors can report; that
they report no other is proved in TorConnection (`StatusesConsistent`) and in
I2pManager (`RouteBelongsToProcess`).

### 2.4 GatewaySession

The sessions of the gateway, with every stage of the handshake with client and
backend. A session has two sockets, a timeout, a place in `m_sessions`, and may be
"doomed" (`deleteLater`). A failure report runs the manager's answer inside the
event: `Answers` allows no new policy or, at the threshold, one of the policies the
manager can install, which may close the reporting session first. The manager decides by
its own statuses, which may be out of step with the policy, so both may come then. At
the cap of active connections a new client is refused. `RemoteEndpoints` are Tor
endpoints beyond loopback, which `beginUpstream` refuses.

### 2.5 I2pManager

The supervisor's process, its three timers, its probe and its counters. A probe is
"Current" or "Stale" (of an earlier generation). A start may succeed, fail while it
prepares its files, fail to launch, or be given up on by `waitForStarted` although
the process starts later. Its specification is called `I2pSpec`, and so on, so that one
module can hold the proofs of both supervisors.

### 2.6 TorManager and TorConnection

The manager of Tor is a record, and each of its member functions an operator on it,
because the window calls several in one handler and each may report. `sent`
collects what was reported in the handler, since the window's own slot listens and
posts the transition to the next strategy from within.

| Action | Code |
|---|---|
| `StartAutomatic`, `Transition` | the beginning of `tryNextAutomaticStrategy()`, at once or from the event queue |
| `TryStrategy`, `GiveUp` | one turn of its loop, and its end |
| `StrategyTimeout` | `m_automaticStrategyTimer` |
| `ApplyStrategy`, `SaveBridge`, `UseLocalTor` | what the user does by hand |
| `VerifyRoute`, `PageReports` | a hidden page is opened, and answers or times out, in any order with the others |
| `EndpointFails` | the gateway's third failure |
| `SlowStart`, `TorOutput`, `TorExits`, `BootstrapTimeout`, `RetrySocks` | the process, its log, and the manager's timers |

Writing and checking torrc, and starting the process, is one of five outcomes
(`ApplyOutcomes`). A page is known by the endpoint it was opened for, and its
answer is that of the transport of the moment, as in the code.

### 2.7 SpaceCleanup

Store, journal and directories survive a crash; everything else is the memory of an
instance. `Begin` journals, `CommitDeletion` writes the store, `ReleaseProfile` lets
the lease go, `CleanupTimer` begins a sweep, which is one step per entry under the
lock file of the journal. `Start` sweeps too, before the manager is loaded. `Stop` is
an end or a kill and may come between any two steps. Every write, read and removal
may fail (`Faults`). A store that cannot be read is taken for an empty one, and nobody
looks at whether the save of that one failed (`ContainerManager.cpp:539`): then memory is
empty while the store is not, and the instance is `stale` until its next `Save`. The
Spaces that a save drops in this way are `lost`. The module is written for several instances on the same data;
the properties are of one: two browsers overwrite each other's store, because a save
writes all that is in memory.

### 2.8 ProfileLifecycle

The start of the browser from `main()`: import of the profile of its former name
(copy file by file beside the data root, rename, marks), then a pending wipe
(downloads, cache, data, settings, manifest), then the layout, the session, in which
the user may download and ask for a wipe, and the end. `Fault` is a kill, or an
operation that fails so that `main()` gives up.

### 2.9 CellStream

Two multiplexers and the streams between them. What a method does under one lock is
one action, and a cell is sent in an action of its own, since the code lets go of the
stream's lock before it takes the send lock. A waiting thread is `Asleep` until its
stream is notified: a wakeup can be lost in this model. The sockets hold `Capacity`
cells and sending blocks when they are full. `_fail()` takes a list of streams and
fails them one by one (`toFail`, `FailStream`), with anything in between. Data is
counted in cells. `OnTheWay` adds up what the cells of one kind in a queue carry
(`Total` of `Carried`): the credit and the data that are neither at one end nor at the
other. `recv()` takes bytes from the buffer (`Take`), gives them back to the budget
(`ReleaseTaken`) and sends the credit (`SendWindowUpdate`) before it returns them. Only what
it returns is `received`; when the send raises, what it had taken is `dropped`. It returns
`b""` also on a stream that this end has closed; `eof` records the `b""` that means the end
of the peer's data.

### 2.10 ServiceHost

A step is what a thread does under `_grant_condition`, or one call that blocks. The
main thread builds the circuits, registers a cookie at the rendezvous node and offers
it in `slot`; a thread per introduction point takes the slot and sends it as a grant; a
worker per cookie waits for the client that holds it; `stop` is the caller's thread. A
thread sets an event before it takes the lock, as in the code; it closes circuits after
it let go of it, which the model lets it do before, since whatever comes in between
looks at the event first. With `ThreadsFail` a thread may be impossible to start: an
introduction's (`IntroductionThreadFails`), a worker of the executor that builds the first
circuits (`BuildThreadFails`), a reader of a circuit or a multiplexer
(`OfferThreadFails`), all of which end the main thread (`crashed`), and the worker of a
handshake, which the code catches (`CommitFails`).

### 2.11 IntroductionPoint

One service. A thread per circuit of the host (`handler`) and one per request of a
client (`request`); a step is what it does under `_introduction_lock`, or up to the next
queue, event or network call. Registration with the same or a later descriptor, the
replay cache with its limit, the bounded queue and its `None` sentinel, the delivery with
its failure before, in and after sending, draining, expiry, and `stop()` in its two
halves. It assumes that descriptors expire in the order of their sequence numbers,
since hosts give all of them the same lifetime (`hosting.py:1395`).

## 3. The runs

| Run | Module, cfg | Checked | What it shows |
|---|---|---|---|
| route | PrivateRouteInv, MCPrivateRoute.cfg | `GateFollowsVerification`, `NoSessionSurvivesASwitch`, `CooldownBeforeSwitchBack`, `ImplementsRouteGate`, `PreferredRestored` | whatever statuses, timers, failures and preferences follow one another, the gate is open for a network that is verified now and the sessions follow; a preferred network that stays verified gets the traffic back |
| gateway_sessions | MCGatewaySession, MCGatewaySession.cfg | `OnlyWaitingSessionsFail`, `ImplementsRouteGate` | a session reports its backend at most once, and only while it waits for a backend it is still connected or connecting to; no stage of a handshake escapes a change of policy |
| gateway_liveness | MCGatewaySession, MCGatewayLive.cfg | `NoOrphans`, `HandshakesEnd` | at the cap, no session with an open socket escapes the list; every handshake ends, whatever the two peers do |
| i2p | I2pManager, MCI2pManager.cfg | `RouteBelongsToProcess`, `RouterWatched`, `RevocationConfirmed`, `UnverifiedRouterReplaced` | late probes and exits do no harm; one failure does not revoke a route; a wanted router always has something ahead of it, and one without a route is verified or replaced |
| tor_connection | MCTorConnection, MCTorConnection.cfg | `StatusesConsistent`, `ReportedIsCurrent`, `TimeoutIsCurrent`, `AutomaticSettles` | no order of pages, log lines, exits, timers and commands makes a status inconsistent or leaves one unreported, with one exception (§4); no timeout outlives its attempt; the automatic connection ends |
| spaces | SpaceCleanup, MCSpaceCleanup.cfg | `Consistent`, `DeletionRemembered`, `CleanedIsGone`, `UncommittedKeepsData`, `DeletionCompletes` | with a kill between any two steps and any read or write failing, a deletion not committed takes nothing, one committed is remembered and done |
| profile | ProfileLifecycle, MCProfileLifecycle.cfg | `ImportedOnce`, `GoneExactlyWithAWipe`, `WipeCompletes` | one import, whole, over crashes and wipes; data goes with a wipe and only so; the wipe ends |
| cells_flow | CellStream, MCCellStream.cfg | `CreditConserved`, `NothingLost`, `PeerNeverFaulted`, `BudgetReturned`, `NoLostWakeup`, `CreditReturns` | credit is accounted for to the cell; what was sent goes through `recv()` once and in whole, before the end of the stream, or the stream fails for it; `recv()` raises with bytes only on a channel that is of no use any more (§4); late cells never fault the peer; failures give the budget back and leave nobody asleep; a sender without credit is woken, with one exception (§4) |
| service_host | ServiceHost, MCServiceHost.cfg | `Accounted`, `GrantsAreLive`, `ReadyMeansOffered`, `StopCloses`, `RecoveryEnds`, `OfferedAgain` | a cookie in the slot is live, and each is given once; the host is ready only with an offer or an error, with one exception (§4); a stop or a recovery at any moment leaves nothing open behind it; an abandoned grant does not hold up the next |
| introduction | MCIntroductionPoint, MCIntroductionPoint.cfg | `SingleUse`, `SessionInForce`, `NobodyForgotten` | a nonce is introduced once; clients find the session of the descriptor in force; what a client waits for is in one place or answered |
| claim_i2p_verified | PrivateRouteClaims, MCI2pSessionsVerified.cfg | `I2pSessionsVerified` | violated: finding 1 |
| claim_connected_bootstrap | TorClaims, MCConnectedAfterBootstrap.cfg | `ConnectedAfterBootstrap` | violated: finding 2 |

`TypeOK` is a conjunct of an invariant of each module that has one in its run, so that
it is checked without a run of its own.

### 3.1 Bounds, and why they are enough

- **PrivateRoute.** Two connections and two Tor endpoints (managed and external), the
  threshold of the code (3). The manager knows only which network a session is on, and
  sessions are independent of one another, so two show every interaction: one fails and
  takes the route down under another. The safety properties are proved for any number.
- **GatewaySession.** Two interchangeable connections. gateway_sessions has room for
  both and two Tor endpoints, one beyond loopback; gateway_liveness has a cap of one, so
  that the second client is refused, and only the endpoint beyond loopback, so that Tor
  requests are refused and I2P is connected to. The threshold is two: a first report has
  no effect and the second changes the policy from within an event. `counted` is capped
  at 2, one more than the property allows.
- **I2pManager.** The thresholds of the code (3 and 8); the failure counter stops at the
  second, since nothing depends on it beyond. Two outcomes of a start are excepted from
  `RouterWatched` and `UnverifiedRouterReplaced` by name: the code gives up on "config"
  by intent, and "slow" leaves a running router unwatched (see the hazards). They happen
  in the run all the same.
- **TorConnection.** Three strategies, an external and two managed, so that there is a
  first, a middle and a last one and both kinds follow each other; two pages at a time,
  since a late answer needs one that was replaced; two transitions in the event queue
  (`MaxQueued`; a start while one is queued makes a second); three commands of the user
  in a behaviour (`MaxUser`), enough to start, interrupt and start again. Everything the
  environment does is unbounded.
- **SpaceCleanup.** Two Spaces, so that the sweep of one meets the deletion of the other;
  one instance; all five faults. An identifier is used once, as a UUID is.
- **ProfileLifecycle.** Two files and two downloads, so that a copy and a wipe may stop
  half-way and a wipe may list one download and not the other. `imports` is capped at 2,
  one more than the property allows.
- **CellStream.** One stream, a window of two cells, a receive budget of one and sockets
  of two. A sender within its window may find the budget used up, a chunk is one cell or
  two, and sending blocks. Three cells to send (`MaxUnits`) make a sender wait for
  credit and the receiver grant it. The initiator sends data (`Talkers`): the two
  directions of a stream share only its closing and its error, and both ends close, reset
  and time out. The acceptor's owner may close the multiplexer and its side of the channel
  may break (`Closers`, `Faults`); the initiator's fails when it notices. With faults
  at both ends and the initiator's owner closing, the safety properties hold too, in four
  times as many states, too many for liveness; the proofs cover every choice. Only
  the initiator opens streams, as in `circuit.py` and `node.py`. `StreamWindow` stands for
  both `stream_window` and `MAX_STREAM_WINDOW`: the tightest limit a peer may enforce.
- **ServiceHost.** Two introduction points that compete for the slot, the least limit
  on sessions under which a handshake and a session share it (2), three cookies, so that
  one may be in hand while the limit is used up, and two failed routes in a row that ask
  for a recovery (the code has 3: what matters is that one alone does not).
- **IntroductionPoint.** Two circuits of the host, two descriptors, two requests and two
  nonces, interchangeable but for the descriptors; a queue of one, so that the second
  delivery and the sentinel meet a full one; a replay cache of two, which is at its limit
  when both nonces are in use.

Deadlock is checked for PrivateRoute, GatewaySession, I2pManager, SpaceCleanup and
ProfileLifecycle. The other four systems really stop, and their configurations say so:
CellStream when both multiplexers are closed, ServiceHost after a stop, IntroductionPoint
when every circuit and request has ended, TorConnection when nothing runs and the user
has done all that the bound allows.

### 3.2 Fairness, and why the code justifies it

- `PrivateRoute`: weak fairness of the recovery timer (a running `QTimer` fires) and of
  the I2P health report (the supervisor's probe runs at least every 20 seconds while a
  router lives, and reports the status again even when it is unchanged). None of Tor,
  of the user or of clients.
- `GatewaySession`: the handshake timer, the linger timer and the deferred delete. None
  of client or backend, which is the point of `HandshakesEnd`.
- `I2pManager`: the timers, the end of a probe (each of its steps has a deadline) and the
  end of a process asked to end (it is killed). None of the success of a probe, nor of a
  crash.
- `TorConnection`: a loop comes to its end, a posted event is delivered, and the two
  timers of the window and of the SOCKS retry fire. None of Tor, of pages, nor of the
  bootstrap timer: the strategy timer alone ends an attempt.
- `SpaceCleanup`: the browser is started and closed again and again, which is weak
  fairness of `Start`, `Load`, `Stop` and the sweep; it is not for ever closed before the
  sweep has got to an entry, and a look at the journal and a removal that are tried for
  ever succeed in the end, which is strong fairness of `SweepBegins`, `SweepEntry` and
  `RemoveTree`. The property is of a deletion across sessions and can rest on no less: a
  user who never starts the browser again keeps the data.
- `ProfileLifecycle`: the browser is started again, a step of the import or the wipe is
  taken, a session that is ending ends, and failures stop in the end (`<>[][~Fault]`),
  because a disk that fails for ever is never wiped. A session need not end, and the
  wipe is done at the next start.
- `CellStream`: threads that can run do; sockets drain; a closed socket is seen by the
  peer's reader; the application at the other end goes on receiving and accepts its
  streams. No fairness of timeouts, of closing, or of sending more.
- `ServiceHost`: calls of the main thread and answers to introductions have a timeout; a
  thread whose circuit is closed notices; strong fairness of `Commit`, since a thread that
  is wanted for ever can be started in the end. No client need come or leave.
- `IntroductionPoint`: none; its properties are safety properties.

## 4. Findings

Each is a statement of the repository that a run shows not to hold.

1. **`.i2p` over an unverified router** (`claim_i2p_verified`). While a Tor verification
   is pending `reevaluate()` returns without refreshing the policy, which goes on
   saying that I2P is verified (`docs/PRIVATE_NETWORK_ROUTING.md:120`).
2. **Connected before bootstrap** (`claim_connected_bootstrap`). A verification page that
   was opened for the former transport is not closed when a strategy is applied by hand.
   Its answer makes the new transport Connected while it bootstraps, or when it was
   never started (`BUILDING.md:266`).

What else the modelling brought to light, at the lines that the hazards or the items name,
and that no property speaks against:

- After a failover `reevaluate()` looks only at the other network: if that one has
  failed, the gate stays closed although the lost network is verified again. (The
  liveness property therefore asks that traffic is flowing.)
- The recovery timer is not stopped when the preferred network is lost, so a network
  verified for an instant may be switched back to.
- A transition that is still queued when the automatic connection is started again
  stops the strategy that is being tried.
- `waitForStarted()` may give up on an i2pd that then starts; nothing watches it until
  it ends.
- The sweep of one Space drops the entry of another whose deletion has begun and is
  not committed; that deletion then goes through without an entry, and its data stays
  although the user is told that it is cleaned. The properties except it by name
  (`dropped`).
- An import killed while it copies leaves the copy beside the data root, where no
  later start looks.
- A thread that cannot be started makes `_run()` of the service host die of a
  `RuntimeError` it does not catch: an introduction's (`wan_service.py:633`), a worker's of
  the executor that builds the first circuits (574), a reader's of a circuit or a
  multiplexer of an offer (731, 750; `cells.py:516`, `530`). The host is then "ready" without
  an offer or an error, or makes no further offer and asks for no recovery. The callers
  notice by `wait()`, which sees that the thread has ended (`hosting.py:1567`,
  `wan_host.py:265`). `submit()` queues a build before it starts the worker, so an earlier
  worker may do one whose future is not in the list to be closed; that circuit is lost,
  although the comment at `wan_service.py:586` says that none escapes.
  `ReadyMeansOffered` and `OfferedAgain` except the thread by name (`crashed`), `Accounted`
  and `StopCloses` the circuit (`"lost"`).
- A thread of a node that dies while it answers the registration leaves a session open
  that no thread reads (`deaf`).
- `recv()` deletes bytes from the buffer before it sends WINDOW_UPDATE (`cells.py:396-407`).
  When the send raises, so does `recv()`, and the bytes are gone; if the CLOSE of the peer
  is handled after that, the next `recv()` returns `b""` as at a clean end. `NothingLost` and
  `EofComplete` count such bytes apart (`dropped`), and the first says that this happens only
  on a channel that can send nothing any more. So the error of `recv()` is all that tells
  the application of the gap.
- `ContainerManager` ignores whether the empty store it saves after a failed load was
  saved (`ContainerManager.cpp:539`). If it was not, the Spaces seem gone and their store is
  still there, until an edit or a creation replaces it. No data is taken meanwhile;
  `Consistent` names such a browser (`stale`).
- A Tor process that the manager gave up on, but left running, may log 100%:
  `updateBootstrapStatus()` takes the reported failure back and
  `verifySocksAfterBootstrap()` returns before it reports (`TorManager.cpp:720-737`), so the
  window and the private-route manager go on believing in the failure. `ReportedIsCurrent`
  excepts it by name (`LateBootstrap`).
- A `None` sentinel is dropped when the queue is full, and a delivery put into a queue
  that was drained waits for its own timeout.
- A multiplexer never forgets a stream, so `max_streams` bounds all the streams of its
  life (`cells.py:688`), which is what `MaxStreams` means in CellStream.
- Data that finds the receive budget used up fails the stream at its own end only
  (`_feed()`, `cells.py:314`). The peer is not told: when its credit is used up it sleeps
  until its own timeout, or until the application that sees the error closes the stream.
  `CreditReturns` excepts this case by name. The budget is that of all streams
  (`cells.py:477`; the node shares one among its circuits, `node.py:316`), so the peer may
  have kept the protocol.

## 5. The proofs

Each `*Proofs` module proves its theorems for every value of the constants that the
assumptions named in the component's module allow. Every one of them has the same
shape: an inductive invariant `IInv` that holds initially, that every action keeps (a
lemma per action, or per call where an action is a chain of them), and that implies
the properties. TLC found out first whether it holds.

| Module | Assumptions | `IInv` | Properties proved |
|---|---|---|---|
| PrivateRouteProofs | `EndpointsDistinct`, `ThresholdPositive` | `TypeOK`, `AtRest` | `GateFollowsVerification`, `NoSessionSurvivesASwitch`, `CooldownBeforeSwitchBack`, `ImplementsRouteGate`; also `TypeOK`, `SessionsFollowPolicy`, `DestinationRules`, `VerifyingMeansProbing`, `ClosedGateIsSilent`, which no run checks by itself |
| GatewaySessionProofs | `EndpointsDistinct`, `SessionBounds` | `Sound` | `NoOrphans`, `OnlyWaitingSessionsFail`, `ImplementsRouteGate` |
| SupervisorProofs, of I2pManager | `ManagerConstants` | `RouteBelongsToProcess`, `RouterWatched`, `ProbeOfProcess`, `StartOfProcess` | `RouteBelongsToProcess`, `RouterWatched`, `RevocationConfirmed` |
| SupervisorProofs, of TorConnection | `StrategiesAssumption`, `BoundsAssumption` | `Sound`, `Tidy`, `Fits` | `StatusesConsistent`, `ReportedIsCurrent`, `TimeoutIsCurrent` |
| SpaceCleanupProofs | `NobodyAssumption`, `FaultsAssumption`, and `OneBrowser` as a hypothesis of each theorem | `Consistent`, `DeletionRemembered`, `CleanedIsGone`, `Between` | the first three and `UncommittedKeepsData` |
| ProfileLifecycleProofs | `ProfileAssumption` | `ImportedOnce`, `Marked`, `Staged`, `Swept` | `ImportedOnce`, `GoneExactlyWithAWipe` |
| CellStreamProofs | `StreamConstants` | `Typed`, `Sane`, `Wakeful`, `Opened`, `Acknowledged`, `Accounts`, `Delivered`, `Ended`, `Budgeted`, `Failing` | `CreditConserved`, `PeerNeverFaulted` (with `TypeOK`), `BudgetReturned`, `NoLostWakeup`, `EofComplete`, `NothingLost` |
| ServiceHostProofs | `HostAssumption` | `Accounted`, `GrantsAreLive`, `ReadyMeansOffered`, `CookieOfMain`, `Counted`, `Fresh`, `Told` | the first three |
| IntroductionPointProofs | `IntroductionAssumption` | `TypeOK`, `Remembered`, `Unique`, `Tabled`, `Placed`, `NobodyForgotten` | `SingleUse`, `SessionInForce`, `NobodyForgotten` |

**PrivateRoute.** The safety invariants are not inductive. `GateFollowsVerification`
says nothing of a gate that is closed, and a report that Tor is verified would open the
gate from there with whatever sessions were left. `IInv` adds what the code relies on:
a closed gate holds the blocking policy and no session (`Closed`); a gate that is being
verified lets through only the route check (`Probing`); an open gate holds precisely
the policy the statuses call for; every session was routed by the policy held now.

A slot is a chain of calls, and inside it the invariant does not hold: after the
assignment of a status the policy is still the one of the old statuses. `MidSlot`
states what does hold there, `AtRest` what holds between slots. The lemmas show that
each entry of a slot establishes `MidSlot`, that `block`, `activate` and
`applyGatewayPolicy` take `MidSlot` to what they promise, and that every branch of
`reevaluate` ends `AtRest`. There is one step per action. The properties then follow
from `IInv`, the action properties from a lemma on each call (an active network is left
only through `Block`, which closes everything; no call changes the statuses, so a report
that takes traffic off a network says that it is lost), and the refinement from the
fact that each session kept by a step is routed by the policy the step ends with.

**GatewaySession.** `Staged` ties the stage of a handshake to its route, its sockets,
its timer and the failures it has reported, and `Routable` says that every backend socket
is one the present policy routes. An event is a chain of calls here too, the manager's
answer among them, and an action is shown to be a `Step` by what each call leaves true.
The refinement needs `Routable` of the sessions whose handshake is not over: a session
that connects under a policy and relays under the next must have been routed by both.

**I2pManager.** What makes a late result harmless is that none is stale: `ProbeOfProcess`
says that a probe is never of an earlier process, because every way to lose a process
invalidates it; `StartOfProcess` says which starts leave a restart ahead.

**TorConnection.** `StatusesConsistent` speaks of the report sent last and nothing of the
fields the next one is made of. `ReportedIsCurrent` compares the two between handlers.
`Sound` holds of these after each call, in the middle of a
handler too. `Tidy` says of the window that a failure it hears finds room in the bounded
event queue, so that the bound cuts nothing off; `Fits` that a page was opened for an
endpoint, which the manager keeps, and that between handlers nothing is left unreported.

**SpaceCleanup.** `DeletionRemembered` rests on what a sweep has already dealt with: each
queued entry is still to do, left, being removed, or gone, and the lock keeps the journal
as it was read. A `stale` browser begins no deletion and so no sweep of its own. Without it a sweep that ends might forget what it did not remove. With a
second browser the store is overwritten and the invariants fail, hence `OneBrowser`.

**ProfileLifecycle.** The import marks the legacy profile before anything else goes on
(`Marked`), so a wipe leaves nothing that a later start would replay; what is activated
is a whole copy (`Staged`); as long as nothing failed, what is there of what a wipe covers
is still to be removed (`Swept`).

**CellStream.** Every property speaks of both ends and of the cells between them, and
none is inductive. The argument, for any number of streams, window, budget and capacity:

- *Sums.* What a queue carries for a stream, what it carries ahead of a CLOSE, and what
  the streams of an end hold of its budget are all `Total`, a recursive function. That two
  such sums agree, and what a sum loses or gains when a queue is shortened or lengthened
  or one term changes, is proved by induction over a set of numbers: it is the
  well-foundedness of < on the naturals applied to the least number missing
  (`SetInduction`), which needs no operator as a parameter.
- *Opening.* `Opened` says that OPEN is the first cell of a stream and sent once, and that
  until the acceptor has seen it nothing comes of the stream. So a cell of another type
  finds its stream at both ends (`HeadKnown`), which is why no cell is for an unknown one.
  `Acknowledged` says that there is one ACK, and none for an open stream.
- *Credit.* `Accounts` bounds the window, `Accounted` by another name, by `StreamWindow`
  whatever has closed or failed, and has it equal as long as `CreditConserved` asks. The
  bound is what keeps a grant from overflowing the credit and data from overflowing the
  buffer (`DispatchHeard`): the faults a peer could be accused of.
- *Data and the end of a stream.* `Delivered` adds up what was received, what `recv()` holds
  or has dropped, what is unread and what is on the way; `Ended` says that the only CLOSE of a stream has ahead of it
  exactly what is missing from `final`, wherever it stands in the queue, and that when it
  has arrived nothing is missing but what is in the buffer. `NothingLost`, and the
  `EofComplete` in it, follow from the two. That a dropped byte means a channel that can send
  nothing, for good, is an invariant of its own (`DroppedWhenUseless`).
- *Budget and failure.* `Budgeted` has the budget equal to what the streams hold.
  `Failing` says which streams a failed multiplexer may have that nobody will fail: they
  failed before, or were registered by a reader that is about to end. They hold nothing
  and nobody sleeps on them.
- *Steps.* Most actions move no cell, and a stream may lose but not gain by them
  (`Quiet`, `LocalStep`); the five that send lengthen one queue (`SentMeasures`), or
  raise when the channel cannot be used, which is a lemma of its own; the two of the reader
  shorten one (`Handled`). What each cell does to a record is `Heard`, one
  lemma per type of cell, and what that does to each part of the invariant is a lemma of
  its own.

**ServiceHost.** `CookieOfMain` says which cookie the main thread has in each of its
places and `Fresh` that nobody else has it; `Counted` that there is room for the offer
under way, because nobody else adds to what is counted; `Told` that the main thread leaves
its loop only for a reason that `wait_ready()` is told of, or because it died of a thread
that could not be started.

**IntroductionPoint.** `SingleUse` holds although nonces are forgotten, because one is
forgotten only when its token has expired or a later descriptor is registered
(`Remembered`), and each request has its own (`Unique`). `Tabled` says which thread the
session of the table belongs to, `Placed` where each delivery is.

**Only model-checked.** Liveness (`PreferredRestored`, `HandshakesEnd`,
`UnverifiedRouterReplaced`, `AutomaticSettles`, `DeletionCompletes`, `WipeCompletes`,
`StopCloses`, `RecoveryEnds`, `OfferedAgain`, `CreditReturns`): properties under fairness
are out of the prover's reach. Every safety invariant and every action property of the
passing runs is proved, and so are the two refinements of RouteGate.

## 6. What is not modelled

- The bytes: SOCKS framing, relayed data (two hazards of it are listed), the encoding
  and encryption of cells, HTTP, QR codes, page contents.
- Time: durations and intervals. A timer that runs may fire; two timers may fire in
  either order.
- The files that are written: torrc, i2pd's configuration, the format of store, journal and
  manifest. Whether an operation on them succeeds is modelled.
- In CellStream: cover cells, whose pace is statistical (that their failure fails the
  multiplexer is modelled), streams opened by both ends, and the order of the accept
  queue, which threads share.
- In SpaceCleanup: names, looks and site rules of Spaces, the quarantine of a corrupted
  journal. In ProfileLifecycle: unsafe links and paths, the verification of a single copied
  file, what the user deletes. In ServiceHost: the application protocol and statistics. In
  IntroductionPoint: signatures, roles, other services, heartbeats that are answered.
- The rendezvous point: its waiting slots, their pairing and expiry (`node.py:1007-1205`).
- Circuits, peers and discovery, signed bootstrap generations, the secure channel and
  the runtime that starts the Python node: no module yet, or cryptography.
- Presentation and data: pages, dialogs, themes, search, tabs, the content blocker's
  matching, the tables of the privacy policy, bridge-line parsing, packaging.

The map covers a small share of the repository's lines, and most of the rest is of the
last kind: the smoke tests, the window's widgets and menus, generated page scripts,
parsers, filters, formatting and cryptography make up most of the code and
have no state that several actors share. What does have it is in the modules above or in
the plan below. `PROJECT.json` gives the reason for each component.

## 7. Plan

Done: GatewayPolicy, RouteGate, PrivateRoute, GatewaySession, I2pManager, TorManager
with TorConnection, SpaceCleanup, ProfileLifecycle, ServiceHost, IntroductionPoint and CellStream,
each with proofs.

Next, in this order:

1. **Rendezvous point** (`node.py`, `rendezvous.py`): pairing of the two sides, a side that
   leaves while it is paired, expiry against a late join; and its composition with
   ServiceHost, whose cookies it holds, and IntroductionPoint, which carries the grant.
2. **Circuits** (`circuit.py`, `multihop.py`): extension hop by hop with partial failure.
3. **BootstrapState** (`reseed.py`, `wan_config_recovery.py`): generations on disk,
   recovery and concurrent readers, crashes.
4. Pure decisions checked against a reference over bounded inputs: HTTPS-first, the
   ranking of connection profiles.
