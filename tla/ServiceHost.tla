---------------------------- MODULE ServiceHost ----------------------------
(***************************************************************************)
(* The host of a Granger Network service                                   *)
(* (src/GrangerNetwork/src/granger_network/wan_service.py, WanServiceHost).*)
(* Its threads share the state below under one lock (_grant_condition):    *)
(*   - the main thread (_run) builds the circuits and, over and over,      *)
(*     registers a cookie at the rendezvous node and offers it in the slot;*)
(*   - a thread for each introduction point takes the slot and sends it as *)
(*     a grant to the client that asked (_answer_introductions);           *)
(*   - a worker for each cookie waits for the client that holds its grant  *)
(*     and hands the circuit over to an application session;               *)
(*   - whoever calls stop().                                               *)
(* A step is what a thread does under the lock, or one call that blocks.   *)
(* A thread may set the stop or the recovery event before it takes the     *)
(* lock.  It closes circuits after it let go of the lock, which the model  *)
(* has it do before: whatever could come in between looks at the event.    *)
(*                                                                         *)
(* A circuit to the rendezvous node has the name of its cookie.  A cookie  *)
(* that nothing refers to any more stands for a new one.  A network error, *)
(* a timeout and a client that never comes may strike at any time; pings,  *)
(* clocks, statistics and the content of messages are left out.            *)
(***************************************************************************)
EXTENDS Naturals, FiniteSets

CONSTANTS Cookies, Introductions, MaxSessions, None,
          RouteFailureLimit,  \* _RENDEZVOUS_ROUTE_FAILURE_LIMIT
          ThreadsFail         \* whether a thread may be impossible to start

ASSUME HostAssumption ==
    /\ None \notin Cookies /\ Cookies \cap Introductions = {}
    /\ MaxSessions \in Nat \ {0} /\ RouteFailureLimit \in Nat \ {0}
    /\ ThreadsFail \in BOOLEAN

VARIABLES
    circuit,    \* of each cookie and introduction point: none, open or closed, or
                \* lost: it is open and nobody holds it
    main,       \* where the main thread is, with what it is about to offer
    listed,     \* whether _intro_circuits holds the introduction circuits
    published,  \* _rendezvous_circuit
    slot,       \* _grant_slot
    pending,    \* _pending_rendezvous
    sessions,   \* _sessions
    worker,     \* the worker of each cookie
    intro,      \* the thread of each introduction point, with the grant it took
    granted,    \* the cookies that clients hold
    stop,       \* how far stop() is
    flags       \* events and outcomes: see Flags

vars == <<circuit, main, listed, published, slot, pending, sessions, worker, intro,
          granted, stop, flags>>

Circuits == Cookies \cup Introductions

\* The events _ready and _recovery, whether "errors" has an entry, whether a cookie
\* was offered, and whether the main thread died of an exception it does not catch.
Flags == [ready : BOOLEAN, recovery : BOOLEAN, errors : BOOLEAN,
          offered : BOOLEAN, crashed : BOOLEAN]

Places == {"start", "built", "register", "loop", "open", "request", "route failed", "failed",
           "recover", "leave", "ended"}

Mains == [at : Places, cookie : Cookies \cup {None}, initial : BOOLEAN,
          failures : 0 .. RouteFailureLimit]

Threads == [at : {"none", "receive", "wait", "send", "recover", "done"},
            grant : Cookies \cup {None}]

TypeOK ==
    /\ circuit \in [Circuits -> {"none", "open", "closed", "lost"}]
    /\ main \in Mains
    /\ listed \in BOOLEAN
    /\ published \in Cookies \cup {None} /\ slot \in Cookies \cup {None}
    /\ pending \subseteq Cookies /\ sessions \subseteq Cookies
    /\ worker \in [Cookies -> {"none", "handshake", "failing"}]
    /\ intro \in [Introductions -> Threads]
    /\ granted \subseteq Cookies
    /\ stop \in {"no", "asked", "locked"}
    /\ flags \in Flags

Init ==
    /\ circuit = [x \in Circuits |-> "none"]
    /\ main = [at |-> "start", cookie |-> None, initial |-> FALSE, failures |-> 0]
    /\ listed = FALSE /\ published = None /\ slot = None
    /\ pending = {} /\ sessions = {}
    /\ worker = [c \in Cookies |-> "none"]
    /\ intro = [i \in Introductions |-> [at |-> "none", grant |-> None]]
    /\ granted = {} /\ stop = "no"
    /\ flags = [ready |-> FALSE, recovery |-> FALSE, errors |-> FALSE,
                offered |-> FALSE, crashed |-> FALSE]

Stopping == stop # "no"
Leaving == Stopping \/ flags.recovery
Full == Cardinality(sessions) + Cardinality(pending) >= MaxSessions

Free(c) ==
    /\ circuit[c] # "open" /\ worker[c] = "none"
    /\ c \notin pending \cup sessions
    /\ c \notin {main.cookie, published, slot}
    /\ \A i \in Introductions : intro[i].grant # c

Close(xs) == [x \in Circuits |-> IF x \in xs THEN "closed" ELSE circuit[x]]
SlotWithout(c) == IF slot = c THEN None ELSE slot
Some(c) == {c} \ {None}

-----------------------------------------------------------------------------
(* The main thread: startup                                                *)

Build ==
    /\ main.at = "start" /\ ~Stopping
    /\ \E c \in Cookies :
        /\ Free(c)
        /\ circuit' = [x \in Circuits |-> IF x \in Introductions \cup {c} THEN "open" ELSE circuit[x]]
        /\ main' = [main EXCEPT !.at = "built", !.cookie = c, !.initial = TRUE]
    /\ UNCHANGED <<listed, published, slot, pending, sessions, worker, intro, granted, stop, flags>>

\* A bug that this module must notice: the error is lost.
BuildFailsSilently ==
    /\ main.at = "start"
    /\ main' = [main EXCEPT !.at = "leave"]
    /\ UNCHANGED <<circuit, listed, published, slot, pending, sessions, worker, intro, granted, stop, flags>>

\* The executor joins every build and closes those that succeeded.
BuildFails ==
    /\ main.at = "start"
    /\ main' = [main EXCEPT !.at = "leave"]
    /\ flags' = [flags EXCEPT !.errors = ~Stopping]
    /\ UNCHANGED <<circuit, listed, published, slot, pending, sessions, worker, intro, granted, stop>>

\* A worker of the executor, or a thread of the circuit that it builds, cannot be
\* started: RuntimeError, which _run() does not catch.  submit() queues a build
\* before it starts the worker, so an earlier worker may do the build whose
\* submit() raised: its future is the one that is not in the list to be closed.
BuildThreadFails ==
    /\ ThreadsFail /\ main.at = "start"
    /\ \E lost \in {x \in Circuits : circuit[x] = "none"} \cup {None} :
        circuit' = [x \in Circuits |-> IF x = lost THEN "lost" ELSE circuit[x]]
    /\ main' = [main EXCEPT !.at = "leave"]
    /\ flags' = [flags EXCEPT !.crashed = TRUE]
    /\ UNCHANGED <<listed, published, slot, pending, sessions, worker, intro, granted, stop>>

PublishInitial ==
    /\ main.at = "built"
    /\ IF Stopping
         THEN /\ circuit' = Close(Introductions \cup {main.cookie})
              /\ main' = [main EXCEPT !.at = "leave"]
              /\ UNCHANGED <<listed, published>>
         ELSE /\ listed' = TRUE /\ published' = main.cookie
              /\ main' = [main EXCEPT !.at = "register"]
              /\ UNCHANGED circuit
    /\ UNCHANGED <<slot, pending, sessions, worker, intro, granted, stop, flags>>

RegisterIntroductions ==
    /\ main.at = "register" /\ \A i \in Introductions : circuit[i] = "open"
    /\ intro' = [i \in Introductions |-> [intro[i] EXCEPT !.at = "receive"]]
    /\ main' = [main EXCEPT !.at = "loop"]
    /\ UNCHANGED <<circuit, listed, published, slot, pending, sessions, worker, granted, stop, flags>>

RegistrationFails(i) ==
    /\ main.at = "register"
    /\ circuit' = Close({i})
    /\ main' = [main EXCEPT !.at = "leave"]
    /\ flags' = [flags EXCEPT !.errors = ~Stopping]
    /\ UNCHANGED <<listed, published, slot, pending, sessions, worker, intro, granted, stop>>

\* Thread.start() raises RuntimeError, which _run() does not catch.
IntroductionThreadFails ==
    /\ ThreadsFail /\ main.at = "register"
    /\ \E started \in SUBSET Introductions :
        /\ started # Introductions
        /\ intro' = [i \in Introductions |->
                        IF i \in started THEN [intro[i] EXCEPT !.at = "receive"] ELSE intro[i]]
    /\ main' = [main EXCEPT !.at = "leave"]
    /\ flags' = [flags EXCEPT !.crashed = TRUE]
    /\ UNCHANGED <<circuit, listed, published, slot, pending, sessions, worker, granted, stop>>

-----------------------------------------------------------------------------
(* The main thread: one cookie after another                               *)

\* A bug that this module must notice: handshakes are not counted.
BeginOfferUncounted ==
    /\ main.at = "loop" /\ ~Leaving
    /\ slot = None /\ Cardinality(sessions) < MaxSessions
    /\ \/ main.initial /\ main' = [main EXCEPT !.at = "open", !.initial = FALSE]
       \/ ~main.initial /\ \E c \in Cookies :
            Free(c) /\ main' = [main EXCEPT !.at = "open", !.cookie = c]
    /\ UNCHANGED <<circuit, listed, published, slot, pending, sessions, worker, intro, granted, stop, flags>>

\* A bug that this module must notice: one handshake at a time.
BeginOfferAlone ==
    /\ main.at = "loop" /\ ~Leaving
    /\ slot = None /\ ~Full /\ pending = {}
    /\ \/ main.initial /\ main' = [main EXCEPT !.at = "open", !.initial = FALSE]
       \/ ~main.initial /\ \E c \in Cookies :
            Free(c) /\ main' = [main EXCEPT !.at = "open", !.cookie = c]
    /\ UNCHANGED <<circuit, listed, published, slot, pending, sessions, worker, intro, granted, stop, flags>>

BeginOffer ==
    /\ main.at = "loop" /\ ~Leaving
    /\ slot = None /\ ~Full
    /\ \/ main.initial /\ main' = [main EXCEPT !.at = "open", !.initial = FALSE]
       \/ ~main.initial /\ \E c \in Cookies :
            Free(c) /\ main' = [main EXCEPT !.at = "open", !.cookie = c]
    /\ UNCHANGED <<circuit, listed, published, slot, pending, sessions, worker, intro, granted, stop, flags>>

LeaveLoop ==
    /\ main.at = "loop" /\ Leaving
    /\ main' = [main EXCEPT !.at = "leave"]
    /\ UNCHANGED <<circuit, listed, published, slot, pending, sessions, worker, intro, granted, stop, flags>>

\* The descriptor has expired.  The other threads that notice it wait for nothing
\* any more, which they may do at any time.
LoopExpires ==
    /\ main.at = "loop" /\ ~Leaving
    /\ main' = [main EXCEPT !.at = "leave"]
    /\ flags' = [flags EXCEPT !.errors = TRUE]
    /\ UNCHANGED <<circuit, listed, published, slot, pending, sessions, worker, intro, granted, stop>>

\* The circuit is built, unless it is the initial one, and published: from here on
\* whoever stops the host or asks for a recovery closes it.
OpenRendezvous ==
    /\ main.at = "open" /\ ~Leaving
    /\ circuit' = [circuit EXCEPT ![main.cookie] = "open"]
    /\ published' = main.cookie
    /\ main' = [main EXCEPT !.at = "request"]
    /\ UNCHANGED <<listed, slot, pending, sessions, worker, intro, granted, stop, flags>>

RouteFails ==
    /\ main.at \in {"open", "request"}
    /\ main' = [main EXCEPT !.at = IF Leaving THEN "failed" ELSE "route failed"]
    /\ UNCHANGED <<circuit, listed, published, slot, pending, sessions, worker, intro, granted, stop, flags>>

Offer ==
    /\ pending' = pending \cup {main.cookie} /\ slot' = main.cookie
    /\ worker' = [worker EXCEPT ![main.cookie] = "handshake"]
    /\ published' = None
    /\ main' = [main EXCEPT !.at = "loop", !.cookie = None, !.failures = 0]
    /\ flags' = [flags EXCEPT !.ready = TRUE, !.offered = TRUE]

\* A bug that this module must notice: a recovery that came meanwhile is missed.
CommitUnchecked ==
    /\ main.at = "request" /\ Offer
    /\ UNCHANGED <<circuit, listed, sessions, intro, granted, stop>>

\* The cookie is registered, and no event has come meanwhile.
Commit ==
    /\ main.at = "request" /\ ~Leaving /\ circuit[main.cookie] = "open"
    /\ Offer
    /\ UNCHANGED <<circuit, listed, sessions, intro, granted, stop>>

\* A thread of the circuit or of its multiplexer cannot be started: the circuit is
\* closed and the main thread dies of RuntimeError, whatever was offered before.
OfferThreadFails ==
    /\ ThreadsFail
    /\ main.at = "request" \/ (main.at = "open" /\ circuit[main.cookie] # "open")
    /\ circuit' = Close({main.cookie})
    /\ published' = IF published = main.cookie THEN None ELSE published
    /\ main' = [main EXCEPT !.at = "leave", !.cookie = None]
    /\ flags' = [flags EXCEPT !.crashed = TRUE]
    /\ UNCHANGED <<listed, slot, pending, sessions, worker, intro, granted, stop>>

\* An event has come meanwhile, or the worker cannot be started, which is caught.
CommitFails ==
    /\ main.at = "request" /\ (Leaving \/ ThreadsFail)
    /\ main' = [main EXCEPT !.at = "failed"]
    /\ UNCHANGED <<circuit, listed, published, slot, pending, sessions, worker, intro, granted, stop, flags>>

Recovery == main.at = "route failed" /\ main.failures + 1 = RouteFailureLimit

\* The circuit is closed and the failure judged: without a first offer the host
\* never gets ready, and the last of several failed routes asks for a recovery.
CleanUp ==
    /\ main.at \in {"route failed", "failed"}
    /\ circuit' = Close({main.cookie})
    /\ published' = IF published = main.cookie THEN None ELSE published
    /\ main' = [main EXCEPT
         !.at = IF Leaving \/ ~flags.ready THEN "leave" ELSE IF Recovery THEN "recover" ELSE "loop",
         !.cookie = None,
         !.failures = IF main.at = "failed" THEN 0 ELSE @ + 1]
    /\ flags' = [flags EXCEPT !.errors = @ \/ (~Leaving /\ ~flags.ready),
                              !.recovery = @ \/ (~Leaving /\ flags.ready /\ Recovery)]
    /\ UNCHANGED <<listed, slot, pending, sessions, worker, intro, granted, stop>>

\* A bug that this module must notice: an initial circuit is left open.
FinishUnclosed ==
    /\ main.at = "leave"
    /\ published' = IF main.initial /\ published = main.cookie THEN None ELSE published
    /\ main' = [main EXCEPT !.at = "ended", !.cookie = None, !.initial = FALSE]
    /\ flags' = [flags EXCEPT !.ready = TRUE]
    /\ UNCHANGED <<circuit, listed, slot, pending, sessions, worker, intro, granted, stop>>

Finish ==
    /\ main.at = "leave"
    /\ circuit' = IF main.initial THEN Close({main.cookie}) ELSE circuit
    /\ published' = IF main.initial /\ published = main.cookie THEN None ELSE published
    /\ main' = [main EXCEPT !.at = "ended", !.cookie = None, !.initial = FALSE]
    /\ flags' = [flags EXCEPT !.ready = TRUE]
    /\ UNCHANGED <<listed, slot, pending, sessions, worker, intro, granted, stop>>

-----------------------------------------------------------------------------
(* Introductions                                                           *)

Deliver(i) ==
    /\ intro[i].at = "receive"
    /\ intro' = [intro EXCEPT ![i].at = "wait"]
    /\ UNCHANGED <<circuit, main, listed, published, slot, pending, sessions, worker, granted, stop, flags>>

TakeSlot(i) ==
    /\ intro[i].at = "wait" /\ slot # None
    /\ intro' = [intro EXCEPT ![i] = [at |-> "send", grant |-> slot]]
    /\ slot' = None
    /\ UNCHANGED <<circuit, main, listed, published, pending, sessions, worker, granted, stop, flags>>

\* The host is full, or the deadline has passed: RENDEZVOUS_BUSY.
Busy(i) ==
    /\ intro[i].at = "wait" /\ slot = None /\ ~Stopping
    /\ intro' = [intro EXCEPT ![i].at = "receive"]
    /\ UNCHANGED <<circuit, main, listed, published, slot, pending, sessions, worker, granted, stop, flags>>

SendGrant(i) ==
    /\ intro[i].at = "send" /\ circuit[i] = "open"
    /\ granted' = granted \cup ({intro[i].grant} \cap pending)
    /\ intro' = [intro EXCEPT ![i] = [at |-> "receive", grant |-> None]]
    /\ UNCHANGED <<circuit, main, listed, published, slot, pending, sessions, worker, stop, flags>>

\* A call fails after the host was told to stop.
IntroductionEnds(i) ==
    /\ Stopping
    /\ intro[i].at \in {"receive", "send"} \/ (intro[i].at = "wait" /\ slot = None)
    /\ intro' = [intro EXCEPT ![i] = [at |-> "done", grant |-> None]]
    /\ UNCHANGED <<circuit, main, listed, published, slot, pending, sessions, worker, granted, stop, flags>>

IntroductionFails(i) ==
    /\ intro[i].at \in {"receive", "send"} /\ ~Stopping
    /\ intro' = [intro EXCEPT ![i] = [at |-> "recover", grant |-> None]]
    /\ flags' = [flags EXCEPT !.recovery = TRUE]
    /\ UNCHANGED <<circuit, main, listed, published, slot, pending, sessions, worker, granted, stop>>

\* A bug that this module must notice: handshakes go on through a recovery.
RequestRecoveryRouteOnly ==
    /\ slot' = None
    /\ circuit' = Close(Some(published))
    /\ \/ main.at = "recover" /\ main' = [main EXCEPT !.at = "leave"] /\ UNCHANGED intro
       \/ \E i \in Introductions :
            intro[i].at = "recover" /\ intro' = [intro EXCEPT ![i].at = "done"] /\ UNCHANGED main
    /\ UNCHANGED <<listed, published, pending, sessions, worker, granted, stop, flags>>

\* The locked half of _request_recovery(), in the thread that set the event.
RequestRecovery ==
    /\ slot' = None
    /\ circuit' = Close(Some(published) \cup pending)
    /\ \/ main.at = "recover" /\ main' = [main EXCEPT !.at = "leave"] /\ UNCHANGED intro
       \/ \E i \in Introductions :
            intro[i].at = "recover" /\ intro' = [intro EXCEPT ![i].at = "done"] /\ UNCHANGED main
    /\ UNCHANGED <<listed, published, pending, sessions, worker, granted, stop, flags>>

-----------------------------------------------------------------------------
(* Handshakes, sessions, stop()                                            *)

\* Only a client with the grant has the cookie.  The circuit goes over to a session.
HandshakeDone(c) ==
    /\ worker[c] = "handshake" /\ circuit[c] = "open" /\ c \in granted /\ ~Leaving
    /\ slot' = SlotWithout(c)
    /\ sessions' = sessions \cup {c} /\ pending' = pending \ {c}
    /\ worker' = [worker EXCEPT ![c] = "none"]
    /\ UNCHANGED <<circuit, main, listed, published, intro, granted, stop, flags>>

\* Nobody came in time, the circuit broke, or a thread could not be started.
HandshakeFails(c) ==
    /\ worker[c] = "handshake"
    /\ worker' = [worker EXCEPT ![c] = "failing"]
    /\ slot' = SlotWithout(c)
    /\ UNCHANGED <<circuit, main, listed, published, pending, sessions, intro, granted, stop, flags>>

WorkerEnds(c) ==
    /\ worker[c] = "failing"
    /\ circuit' = Close({c})
    /\ pending' = pending \ {c} /\ granted' = granted \ {c}
    /\ worker' = [worker EXCEPT ![c] = "none"]
    /\ UNCHANGED <<main, listed, published, slot, sessions, intro, stop, flags>>

SessionEnds(c) ==
    /\ c \in sessions
    /\ circuit' = Close({c})
    /\ sessions' = sessions \ {c} /\ granted' = granted \ {c}
    /\ UNCHANGED <<main, listed, published, slot, pending, worker, intro, stop, flags>>

AskToStop ==
    /\ stop = "no"
    /\ stop' = "asked"
    /\ UNCHANGED <<circuit, main, listed, published, slot, pending, sessions, worker, intro, granted, flags>>

\* The locked half of stop(); its joins give up after some seconds.
Stop ==
    /\ stop = "asked"
    /\ stop' = "locked"
    /\ slot' = None
    /\ circuit' = Close(Some(published) \cup pending \cup sessions
                           \cup (IF listed THEN Introductions ELSE {}))
    /\ UNCHANGED <<main, listed, published, pending, sessions, worker, intro, granted, flags>>

MainStep ==
    \/ Build \/ BuildFails \/ PublishInitial \/ RegisterIntroductions
    \/ \E i \in Introductions : RegistrationFails(i)
    \/ BuildThreadFails \/ IntroductionThreadFails \/ OfferThreadFails
    \/ BeginOffer \/ LeaveLoop \/ OpenRendezvous
    \/ RouteFails \/ Commit \/ CommitFails \/ CleanUp \/ Finish

IntroductionStep(i) ==
    \/ TakeSlot(i) \/ Busy(i) \/ SendGrant(i) \/ IntroductionEnds(i) \/ IntroductionFails(i)

WorkerStep(c) == HandshakeDone(c) \/ HandshakeFails(c) \/ WorkerEnds(c)

Next ==
    \/ MainStep \/ LoopExpires \/ RequestRecovery
    \/ \E i \in Introductions : Deliver(i) \/ IntroductionStep(i)
    \/ \E c \in Cookies : WorkerStep(c) \/ SessionEnds(c)
    \/ AskToStop \/ Stop

Spec == Init /\ [][Next]_vars

\* A call of the main thread and an answer to an introduction have a timeout, a
\* thread whose circuit is closed notices, and one that is wanted for ever can be
\* started in the end.  No client need ever come or leave: the minutes after which a
\* handshake gives up by itself are not counted on.
Fairness ==
    /\ WF_vars(MainStep) /\ SF_vars(Commit)
    /\ WF_vars(RequestRecovery) /\ WF_vars(Stop)
    /\ \A i \in Introductions : WF_vars(intro[i].at # "receive" /\ IntroductionStep(i))
    /\ \A c \in Cookies :
        /\ WF_vars(circuit[c] = "closed" /\ HandshakeFails(c))
        /\ WF_vars(WorkerEnds(c))
        /\ WF_vars(circuit[c] = "closed" /\ SessionEnds(c))

FairSpec == Spec /\ Fairness

-----------------------------------------------------------------------------
(* Properties                                                              *)

Owned ==
    /\ pending \cap sessions = {}
    /\ pending = {c \in Cookies : worker[c] # "none"}
    /\ \A c \in Cookies : circuit[c] = "open" => c \in pending \cup sessions \cup {main.cookie}
    /\ \A i \in Introductions : circuit[i] = "open" => listed \/ main.at = "built"

\* Handshakes and sessions share the limit, and every open circuit has a thread or
\* a list that answers for it: nothing is left open once all of them have ended.
\* The one exception is a circuit that is lost when a worker could not be started.
Accounted == TypeOK /\ Owned /\ Cardinality(pending \cup sessions) <= MaxSessions

\* A cookie in the slot, or in the hands of an introduction thread, is good for a
\* client: in the slot its worker listens on an open circuit, and no two clients are
\* given the same one.
GrantsAreLive ==
    /\ slot # None =>
        /\ worker[slot] = "handshake" /\ circuit[slot] = "open"
        /\ slot \notin granted
        /\ \A i \in Introductions : intro[i].grant # slot
    /\ \A i \in Introductions : intro[i].grant # None =>
        /\ intro[i].grant \notin granted
        /\ \A j \in Introductions \ {i} : intro[j].grant # intro[i].grant

\* wait_ready() returns without an error only when a cookie was offered, unless the
\* host was stopped.  The one exception is a main thread that died because a thread
\* could not be started: it has ended then, which wait() tells and wait_ready() not.
ReadyMeansOffered ==
    flags.ready /\ ~flags.errors /\ ~Leaving =>
        flags.offered \/ (flags.crashed /\ main.at = "ended")

\* stop() closes every circuit for good, wherever the threads are when it comes, but
\* for one that was lost.
StopCloses == stop = "locked" ~> [](\A x \in Circuits : circuit[x] # "open")

\* A recovery that was asked for ends the main thread and every handshake, and only
\* the sessions go on.
RecoveryEnds ==
    flags.recovery ~> [](main.at = "ended" /\ pending = {} /\ slot = None /\ published = None)

\* While there is room another cookie is offered: a client that took a grant and
\* never comes does not hold up the next one.  There is none once the main thread
\* was told to leave, the descriptor has expired, or the main thread died because a
\* thread of the next circuit could not be started.
OfferedAgain ==
    flags.ready /\ main.at = "loop" /\ slot = None /\ ~Full
        ~> slot # None \/ Leaving \/ flags.errors \/ flags.crashed
=============================================================================
