------------------------- MODULE IntroductionPoint -------------------------
(***************************************************************************)
(* An introduction point of the Granger Network                            *)
(* (src/GrangerNetwork/src/granger_network/node.py, WanNodeServer, and     *)
(* introduction.py, IntroductionRegistry), for one service.  The host of   *)
(* the service registers over a circuit, whose thread then delivers to the *)
(* host what the clients ask; a host registers again, over another circuit,*)
(* with the same descriptor or a later one.  Each client has a thread too. *)
(*                                                                         *)
(* A step is what a thread does under _introduction_lock, or up to the     *)
(* next queue, event or call of the network it waits for.  A descriptor is *)
(* known by its sequence number, and so are the tokens of its points: they *)
(* are drawn anew for each.  The hosts give all of them the same lifetime, *)
(* so they expire in the order of their numbers.                           *)
(*                                                                         *)
(* Left out: the checks of signatures and roles, the service's name among  *)
(* those of others (max_records), the heartbeats that are answered, and    *)
(* the reply to the client once its outcome is known.                      *)
(***************************************************************************)
EXTENDS Naturals, Sequences, FiniteSets

CONSTANTS Registrations,    \* the circuits over which the host registers
          Requests,         \* the INTRO_REQUESTs of clients
          Nonces, None,
          MaxSequence,      \* the last descriptor the host publishes
          QueueSize,        \* _IntroductionSession.deliveries (128)
          MaxReplayEntries  \* IntroductionRegistry.max_replay_entries

ASSUME IntroductionAssumption ==
    /\ None \notin Registrations \cup Requests
    /\ MaxSequence \in Nat /\ QueueSize \in Nat \ {0} /\ MaxReplayEntries \in Nat

VARIABLES
    expired,    \* the descriptors up to this one have expired
    record,     \* the descriptor of the service in _records, or 0
    used,       \* _used_requests: the nonces, and the descriptor each was used under
    table,      \* _introduction_sessions: the session of the service
    handler,    \* the thread of each registration and its session
    request,    \* the thread of each request and its delivery
    stop,       \* how far stop() is
    introduced  \* the requests whose delivery was sent to the host

vars == <<expired, record, used, table, handler, request, stop, introduced>>

Sequence == 1 .. MaxSequence

\* "deaf": the thread died of an error between the registration and the loop.
Handlers == [at       : {"idle", "reply", "loop", "send", "await", "drain", "done", "deaf"},
             sequence : 0 .. MaxSequence,
             queue    : Seq(Requests \cup {None}),   \* None wakes the thread
             current  : Requests \cup {None},
             closed   : BOOLEAN,
             channel  : {"up", "failed", "closed"}]

Outcomes == {"refused", "offline", "busy", "timeout", "failed", "granted"}

Clients == [at       : {"idle", "check", "put", "wait"} \cup Outcomes,
            nonce    : Nonces \cup {None},
            sequence : 0 .. MaxSequence,
            session  : Registrations \cup {None},
            delivery : {"none", "result", "error"}]

TypeOK ==
    /\ expired \in 0 .. MaxSequence
    /\ record \in 0 .. MaxSequence
    /\ used \subseteq Nonces \X Sequence
    /\ table \in Registrations \cup {None}
    /\ handler \in [Registrations -> Handlers]
    /\ request \in [Requests -> Clients]
    /\ stop \in {"no", "asked", "told"}
    /\ introduced \subseteq Requests

Init ==
    /\ expired = 0 /\ record = 0 /\ used = {} /\ table = None
    /\ handler = [r \in Registrations |->
                    [at |-> "idle", sequence |-> 0, queue |-> <<>>, current |-> None,
                     closed |-> FALSE, channel |-> "up"]]
    /\ request = [q \in Requests |->
                    [at |-> "idle", nonce |-> None, sequence |-> 0, session |-> None,
                     delivery |-> "none"]]
    /\ stop = "no" /\ introduced = {}

-----------------------------------------------------------------------------
(* The registry: every reader first drops what has expired                 *)

LiveRecord == IF record > expired THEN record ELSE 0
LiveUsed == {u \in used : u[2] > expired /\ record > expired}

\* A session told to end, and woken if there is room for that.
Told(h) == [h EXCEPT !.closed = TRUE,
                     !.queue = IF Len(@) < QueueSize THEN Append(@, None) ELSE @]

\* Registration r with descriptor n takes the place of the session in the table.
Superseded(r, n) ==
    [x \in Registrations |->
        IF x = r THEN [handler[r] EXCEPT !.at = "reply", !.sequence = n]
        ELSE IF x = table /\ ~handler[x].closed THEN Told(handler[x])
        ELSE handler[x]]

\* The thread returns, or dies, and its connection is closed.
Gone(r, place) == [handler[r] EXCEPT !.at = place, !.channel = "closed"]

\* Mutant: the same descriptor, registered again, forgets what was used.
RegisterForgets(r, n) ==
    /\ handler[r].at = "idle"
    /\ n > expired /\ n >= LiveRecord
    /\ record' = n /\ used' = {} /\ table' = r
    /\ handler' = Superseded(r, n)
    /\ UNCHANGED <<expired, request, stop, introduced>>

Register(r, n) ==
    /\ handler[r].at = "idle"
    /\ n > expired /\ n >= LiveRecord
    /\ record' = n
    /\ used' = IF n = LiveRecord THEN LiveUsed ELSE {}
    /\ table' = r
    /\ handler' = Superseded(r, n)
    /\ UNCHANGED <<expired, request, stop, introduced>>

\* An expired descriptor, or an older one than the service has registered.
RefuseRegistration(r, n) ==
    /\ handler[r].at = "idle"
    /\ n <= expired \/ n < LiveRecord
    /\ handler' = [handler EXCEPT ![r] = Gone(r, "done")]
    /\ UNCHANGED <<expired, record, used, table, request, stop, introduced>>

Admissible(n, nonce) ==
    /\ n = LiveRecord
    /\ \A u \in LiveUsed : u[1] # nonce
    /\ Cardinality(LiveUsed) < MaxReplayEntries

\* A request with the token of descriptor n, and the session it finds.
Authorize(q, n, nonce) ==
    /\ request[q].at = "idle"
    /\ Admissible(n, nonce)
    /\ used' = LiveUsed \cup {<<nonce, n>>}
    /\ request' = [request EXCEPT ![q].at = "check", ![q].nonce = nonce,
                                  ![q].sequence = n, ![q].session = table]
    /\ UNCHANGED <<expired, record, table, handler, stop, introduced>>

RefuseRequest(q, n, nonce) ==
    /\ request[q].at = "idle"
    /\ ~Admissible(n, nonce)
    /\ request' = [request EXCEPT ![q].at = "refused"]
    /\ UNCHANGED <<expired, record, used, table, handler, stop, introduced>>

-----------------------------------------------------------------------------
(* The thread of a client                                                  *)

\* The thread forgets its session and its delivery when it has an outcome.
MoveTo(q, place) ==
    /\ request' = [request EXCEPT ![q].at = place,
                                  ![q].session = IF place \in Outcomes THEN None ELSE @,
                                  ![q].delivery = "none"]
    /\ UNCHANGED <<expired, record, used, table, handler, stop, introduced>>

\* The session is looked at outside the lock, so it may have ended meanwhile.
Check(q) ==
    /\ request[q].at = "check"
    /\ LET r == request[q].session
       IN  MoveTo(q, IF r = None \/ handler[r].closed THEN "offline" ELSE "put")

Put(q) ==
    LET r == request[q].session
    IN  /\ request[q].at = "put"
        /\ Len(handler[r].queue) < QueueSize
        /\ handler' = [handler EXCEPT ![r].queue = Append(@, q)]
        /\ request' = [request EXCEPT ![q].at = "wait"]
        /\ UNCHANGED <<expired, record, used, table, stop, introduced>>

PutTimesOut(q) ==
    /\ request[q].at = "put"
    /\ Len(handler[request[q].session].queue) >= QueueSize
    /\ MoveTo(q, "busy")

Answered(q) ==
    /\ request[q].at = "wait" /\ request[q].delivery # "none"
    /\ MoveTo(q, IF request[q].delivery = "result" THEN "granted" ELSE "failed")

DeliveryTimesOut(q) ==
    /\ request[q].at = "wait" /\ request[q].delivery = "none"
    /\ MoveTo(q, "timeout")

-----------------------------------------------------------------------------
(* The thread of a registration                                            *)

Step(r, h) ==
    /\ handler' = [handler EXCEPT ![r] = h]
    /\ UNCHANGED <<expired, record, used, table, stop>>

\* finally: the session is closed, whatever the thread leaves for.
Leaving(r) == [handler[r] EXCEPT !.at = "drain", !.closed = TRUE]

\* The answer to the registration is sent before the try: if that fails the thread
\* is gone and its session stays.
Reply(r) ==
    /\ handler[r].at = "reply"
    /\ Step(r, IF handler[r].channel = "up" THEN [handler[r] EXCEPT !.at = "loop"]
               ELSE Gone(r, "deaf"))
    /\ UNCHANGED <<request, introduced>>

LoopEnds(r) ==
    /\ handler[r].at = "loop"
    /\ stop # "no" \/ handler[r].sequence <= expired \/ handler[r].channel = "closed"
    /\ Step(r, Leaving(r))
    /\ UNCHANGED <<request, introduced>>

Take(r) ==
    LET h == [handler[r] EXCEPT !.queue = Tail(@)]
    IN  /\ handler[r].at = "loop" /\ handler[r].queue # <<>>
        /\ Step(r, IF Head(handler[r].queue) = None
                   THEN [h EXCEPT !.at = "drain", !.closed = TRUE]
                   ELSE [h EXCEPT !.at = "send", !.current = Head(handler[r].queue)])
        /\ UNCHANGED <<request, introduced>>

\* Nobody asked for a while, and the host does not answer the ping: the error ends the
\* thread, although clients may have asked meanwhile.
HeartbeatFails(r) ==
    /\ handler[r].at = "loop"
    /\ Step(r, [Leaving(r) EXCEPT !.channel = IF @ = "up" THEN "failed" ELSE @])
    /\ UNCHANGED <<request, introduced>>

\* What is set in a delivery reaches the client if it still waits for it.
Tell(q, outcome) ==
    request' = [x \in Requests |->
                  IF x = q /\ request[x].at = "wait"
                  THEN [request[x] EXCEPT !.delivery = outcome] ELSE request[x]]

\* A delivery ends, and the client that waits for it is told; the loop goes on.
Delivered(r, outcome, channel) ==
    /\ Step(r, [handler[r] EXCEPT !.at = "loop", !.current = None, !.channel = channel])
    /\ Tell(handler[r].current, outcome)
    /\ UNCHANGED introduced

Send(r) ==
    /\ handler[r].at = "send"
    /\ handler[r].channel = "up"
    /\ Step(r, [handler[r] EXCEPT !.at = "await"])
    /\ introduced' = introduced \cup {handler[r].current}
    /\ UNCHANGED request

\* Mutant: the client is not told that its delivery could not be sent.
SendFailsSilently(r) ==
    /\ handler[r].at = "send"
    /\ handler[r].channel # "up"
    /\ Step(r, [handler[r] EXCEPT !.at = "loop", !.current = None])
    /\ UNCHANGED <<request, introduced>>

SendFails(r) ==
    /\ handler[r].at = "send"
    /\ handler[r].channel # "up"
    /\ Delivered(r, "error", handler[r].channel)

\* A grant, a refusal, or nothing in time: then the channel cannot be used again,
\* although its connection still counts as open.
Receive(r) ==
    /\ handler[r].at = "await"
    /\ \/ handler[r].channel = "up" /\ \E outcome \in {"result", "error"} :
                                          Delivered(r, outcome, "up")
       \/ Delivered(r, "error", IF handler[r].channel = "up" THEN "failed"
                                ELSE handler[r].channel)

\* What is still in the queue has failed.
Drain(r) ==
    /\ handler[r].at = "drain" /\ handler[r].queue # <<>>
    /\ Step(r, [handler[r] EXCEPT !.queue = Tail(@)])
    /\ Tell(Head(handler[r].queue), "error")
    /\ UNCHANGED introduced

\* Mutant: whatever session has the place of this one is forgotten.
ForgetAny(r) ==
    /\ handler[r].at = "drain" /\ handler[r].queue = <<>>
    /\ handler' = [handler EXCEPT ![r] = Gone(r, "done")]
    /\ table' = None
    /\ UNCHANGED <<expired, record, used, request, stop, introduced>>

Forget(r) ==
    /\ handler[r].at = "drain" /\ handler[r].queue = <<>>
    /\ handler' = [handler EXCEPT ![r] = Gone(r, "done")]
    /\ table' = IF table = r THEN None ELSE table
    /\ UNCHANGED <<expired, record, used, request, stop, introduced>>

-----------------------------------------------------------------------------
(* The node and what is around it                                          *)

\* stop() sets the event before it looks at the sessions, and closes all connections.
AskToStop ==
    /\ stop = "no"
    /\ stop' = "asked"
    /\ UNCHANGED <<expired, record, used, table, handler, request, introduced>>

TellToStop ==
    /\ stop = "asked"
    /\ stop' = "told"
    /\ handler' = [r \in Registrations |->
                     [IF r = table THEN Told(handler[r]) ELSE handler[r]
                        EXCEPT !.channel = "closed"]]
    /\ UNCHANGED <<expired, record, used, table, request, introduced>>

Expire ==
    /\ expired < MaxSequence
    /\ expired' = expired + 1
    /\ UNCHANGED <<record, used, table, handler, request, stop, introduced>>

\* The host's circuit breaks.
Break(r) ==
    /\ handler[r].channel # "closed" /\ handler[r].at # "idle"
    /\ Step(r, [handler[r] EXCEPT !.channel = "closed"])
    /\ UNCHANGED <<request, introduced>>

-----------------------------------------------------------------------------

Next ==
    \/ \E r \in Registrations :
          \/ \E n \in Sequence : Register(r, n) \/ RefuseRegistration(r, n)
          \/ Reply(r) \/ LoopEnds(r) \/ Take(r) \/ HeartbeatFails(r)
          \/ Send(r) \/ SendFails(r) \/ Receive(r) \/ Drain(r) \/ Forget(r)
          \/ Break(r)
    \/ \E q \in Requests :
          \/ \E n \in Sequence, nonce \in Nonces :
                Authorize(q, n, nonce) \/ RefuseRequest(q, n, nonce)
          \/ Check(q) \/ Put(q) \/ PutTimesOut(q) \/ Answered(q) \/ DeliveryTimesOut(q)
    \/ AskToStop \/ TellToStop \/ Expire

Spec == Init /\ [][Next]_vars

-----------------------------------------------------------------------------
(* Properties                                                              *)

InQueue(q, r) == \E i \in 1 .. Len(handler[r].queue) : handler[r].queue[i] = q

\* A nonce is used once: of the requests with one nonce and one token a single one
\* comes to the host, through registrations of the same and of later descriptors,
\* expiry and refusals (the registry forgets nonces, but never while their token
\* is good for anything).
SingleUse ==
    \A p, q \in introduced :
        /\ request[p].nonce = request[q].nonce
        /\ request[p].sequence = request[q].sequence
        => p = q

Serving == {r \in Registrations : handler[r].at \in {"reply", "loop", "send", "await"}}

\* The session in the table is that of the descriptor in force, unless the thread
\* died before its loop it is there to serve or to clean up, and no session that
\* was not told to end is served out of the table, where no client finds it.
SessionInForce ==
    /\ TypeOK
    /\ table # None /\ LiveRecord # 0 => handler[table].sequence = LiveRecord
    /\ table # None => handler[table].at \notin {"idle", "done"}
    /\ \A r \in Serving : ~handler[r].closed => table = r

\* A client that waits is never forgotten: what it asked is still in the queue of
\* the session it found, or is being delivered, or has been answered, and is not in
\* two places.  (It may wait in the queue of a session that ended, until it gives up.)
NobodyForgotten ==
    /\ \A q \in Requests : request[q].at = "wait" /\ request[q].delivery = "none" =>
          \/ InQueue(q, request[q].session)
          \/ handler[request[q].session].current = q
    /\ \A r \in Registrations : \A i, j \in 1 .. Len(handler[r].queue) :
          /\ handler[r].queue[i] # None
          /\ handler[r].queue[i] = handler[r].queue[j]
          => i = j
    /\ \A q \in introduced, r \in Registrations : ~InQueue(q, r)

=============================================================================
