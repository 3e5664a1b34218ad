---------------------- MODULE IntroductionPointProofs ----------------------
(***************************************************************************)
(* Theorems about IntroductionPoint, for all sets of circuits, requests    *)
(* and nonces, every number of descriptors and every size of the queue and *)
(* of the replay cache.  A lemma for each action says that it keeps the    *)
(* inductive invariant; those of actions alike rest on one about what they *)
(* have in common: QuietStep, ClientStep, SessionStep.                     *)
(***************************************************************************)
EXTENDS IntroductionPoint, TLAPS

Admitted(q) == request[q].at \notin {"idle", "refused"}
Handed(q) == request[q].at \in {"wait", "timeout", "failed", "granted"}

\* What was used is remembered for as long as its token is good for anything.
Remembered ==
    /\ \A u \in used : u[2] <= record
    /\ \A q \in Requests : Admitted(q) =>
          \/ <<request[q].nonce, request[q].sequence>> \in used
          \/ request[q].sequence < record
          \/ request[q].sequence <= expired

\* No two requests were admitted with the same nonce and the same token.
Unique ==
    \A p, q \in Requests :
        /\ Admitted(p) /\ Admitted(q)
        /\ request[p].nonce = request[q].nonce
        /\ request[p].sequence = request[q].sequence
        => p = q

\* The session in the table, whether or not its descriptor has expired.
Tabled ==
    /\ table # None => /\ handler[table].sequence = record
                       /\ handler[table].at \notin {"idle", "done"}
    /\ \A r \in Serving : ~handler[r].closed => table = r

\* Deliveries: only of requests that were put, and each in one place.
Placed ==
    /\ \A r \in Registrations :
          handler[r].current # None <=> handler[r].at \in {"send", "await"}
    /\ \A q \in Requests :
          /\ q \in introduced => Handed(q)
          /\ \A r \in Registrations : InQueue(q, r) \/ handler[r].current = q => Handed(q)
          /\ request[q].at \in {"put", "wait"} => request[q].session # None
    /\ \A q \in Requests, r, s \in Registrations :
          /\ InQueue(q, r) /\ InQueue(q, s) => r = s
          /\ ~(InQueue(q, r) /\ handler[s].current = q)
          /\ handler[r].current = q /\ handler[s].current = q => r = s

IInv == TypeOK /\ Remembered /\ Unique /\ Tabled /\ Placed /\ NobodyForgotten

-----------------------------------------------------------------------------
(* Queues                                                                  *)

In(x, s) == \E i \in 1 .. Len(s) : s[i] = x

Distinct(s) == \A i, j \in 1 .. Len(s) : s[i] # None /\ s[i] = s[j] => i = j

\* Append adds its element, which may be there twice only if it is None.
LEMMA AppendLemma ==
    ASSUME NEW S, NEW s \in Seq(S), NEW x \in S
    PROVE  /\ Append(s, x) \in Seq(S)
           /\ \A y : In(y, Append(s, x)) <=> In(y, s) \/ y = x
           /\ Distinct(s) /\ (x = None \/ ~In(x, s)) => Distinct(Append(s, x))
<1> DEFINE t == Append(s, x)
<1>1. t \in Seq(S) /\ Len(t) = Len(s) + 1 /\ Len(s) \in Nat
  OBVIOUS
<1>2. \A i \in 1 .. Len(s) : t[i] = s[i]
  OBVIOUS
<1>3. t[Len(s) + 1] = x
  OBVIOUS
<1> HIDE DEF t
<1>4. \A y : In(y, t) <=> In(y, s) \/ y = x
  <2>1. ASSUME NEW y, In(y, t)
        PROVE  In(y, s) \/ y = x
    <3>1. PICK i \in 1 .. Len(t) : t[i] = y
      BY <2>1 DEF In
    <3>2. CASE i \in 1 .. Len(s)
      BY <3>1, <3>2, <1>2 DEF In
    <3>3. CASE i = Len(s) + 1
      BY <3>1, <3>3, <1>3
    <3> QED
      BY <3>2, <3>3, <1>1
  <2>2. ASSUME NEW y, In(y, s)
        PROVE  In(y, t)
    <3>1. PICK i \in 1 .. Len(s) : s[i] = y
      BY <2>2 DEF In
    <3>2. i \in 1 .. Len(t) /\ t[i] = y
      BY <3>1, <1>1, <1>2
    <3> QED
      BY <3>2 DEF In
  <2>3. In(x, t)
    <3>1. Len(s) + 1 \in 1 .. Len(t)
      BY <1>1
    <3> QED
      BY <3>1, <1>3 DEF In
  <2> QED
    BY <2>1, <2>2, <2>3
<1>5. ASSUME Distinct(s), x = None \/ ~In(x, s)
      PROVE  Distinct(t)
  <2>1. SUFFICES ASSUME NEW i \in 1 .. Len(t), NEW j \in 1 .. Len(t), t[i] # None, t[i] = t[j]
                 PROVE  i = j
    BY DEF Distinct
  <2>2. CASE i \in 1 .. Len(s) /\ j \in 1 .. Len(s)
    BY <1>5, <2>1, <2>2, <1>2 DEF Distinct
  <2>3. CASE i = Len(s) + 1 /\ j = Len(s) + 1
    BY <2>3
  <2>4. CASE i = Len(s) + 1 /\ j \in 1 .. Len(s)
    BY <1>5, <2>1, <2>4, <1>2, <1>3 DEF In
  <2>5. CASE i \in 1 .. Len(s) /\ j = Len(s) + 1
    BY <1>5, <2>1, <2>5, <1>2, <1>3 DEF In
  <2> QED
    BY <1>1, <2>1, <2>2, <2>3, <2>4, <2>5
<1> QED
  BY <1>1, <1>4, <1>5 DEF t

\* Tail removes its head, for good if it was there once.
LEMMA TailLemma ==
    ASSUME NEW S, NEW s \in Seq(S), s # <<>>
    PROVE  /\ Head(s) \in S /\ Tail(s) \in Seq(S) /\ In(Head(s), s)
           /\ \A y : In(y, s) <=> In(y, Tail(s)) \/ y = Head(s)
           /\ Distinct(s) => Distinct(Tail(s)) /\ (Head(s) = None \/ ~In(Head(s), Tail(s)))
<1> DEFINE t == Tail(s)
           h == Head(s)
<1>1. t \in Seq(S) /\ Len(t) = Len(s) - 1 /\ Len(s) \in Nat \ {0}
  OBVIOUS
<1>2. \A i \in 1 .. Len(t) : t[i] = s[i + 1]
  OBVIOUS
<1>3. s[1] = h /\ h \in S
  OBVIOUS
<1> HIDE DEF t, h
<1>4. In(h, s)
  <2>1. 1 \in 1 .. Len(s)
    BY <1>1
  <2> QED
    BY <2>1, <1>3 DEF In
<1>5. \A y : In(y, s) <=> In(y, t) \/ y = h
  <2>1. ASSUME NEW y, In(y, s)
        PROVE  In(y, t) \/ y = h
    <3>1. PICK i \in 1 .. Len(s) : s[i] = y
      BY <2>1 DEF In
    <3>2. CASE i = 1
      BY <3>1, <3>2, <1>3
    <3>3. CASE i # 1
      <4>1. i - 1 \in 1 .. Len(t) /\ (i - 1) + 1 = i
        BY <3>3, <1>1
      <4>2. t[i - 1] = y
        BY <4>1, <3>1, <1>2
      <4> QED
        BY <4>1, <4>2 DEF In
    <3> QED
      BY <3>2, <3>3
  <2>2. ASSUME NEW y, In(y, t)
        PROVE  In(y, s)
    <3>1. PICK i \in 1 .. Len(t) : t[i] = y
      BY <2>2 DEF In
    <3>2. i + 1 \in 1 .. Len(s) /\ s[i + 1] = y
      BY <3>1, <1>1, <1>2
    <3> QED
      BY <3>2 DEF In
  <2> QED
    BY <2>1, <2>2, <1>4
<1>6. ASSUME Distinct(s)
      PROVE  Distinct(t) /\ (h = None \/ ~In(h, t))
  <2>1. ASSUME NEW i \in 1 .. Len(t), NEW j \in 1 .. Len(t), t[i] # None, t[i] = t[j]
        PROVE  i = j
    <3>1. i + 1 \in 1 .. Len(s) /\ j + 1 \in 1 .. Len(s) /\ s[i + 1] = s[j + 1] /\ s[i + 1] # None
      BY <2>1, <1>1, <1>2
    <3>2. i + 1 = j + 1
      BY <3>1, <1>6 DEF Distinct
    <3> QED
      BY <3>2, <1>1
  <2>2. ASSUME NEW i \in 1 .. Len(t), t[i] = h, h # None
        PROVE  FALSE
    <3>1. i + 1 \in 1 .. Len(s) /\ 1 \in 1 .. Len(s) /\ s[i + 1] = s[1] /\ s[1] # None
      BY <2>2, <1>1, <1>2, <1>3
    <3>2. i + 1 = 1
      BY <3>1, <1>6 DEF Distinct
    <3> QED
      BY <3>2, <1>1
  <2> QED
    BY <2>1, <2>2 DEF Distinct, In
<1> QED
  BY <1>1, <1>3, <1>4, <1>5, <1>6 DEF t, h

-----------------------------------------------------------------------------
(* What a step that leaves a part of the state alone keeps                 *)

\* The registry: nobody is admitted, and time goes on.
LEMMA RegistryFrame ==
    ASSUME TypeOK, Remembered, Unique, UNCHANGED <<record, used>>, expired' \in Nat,
           expired <= expired',
           \A q \in Requests : Admitted(q)' => /\ Admitted(q)
                                               /\ request'[q].nonce = request[q].nonce
                                               /\ request'[q].sequence = request[q].sequence
    PROVE  Remembered' /\ Unique'
<1>1. Unique'
  BY DEF Unique
<1>2. ASSUME NEW q \in Requests, Admitted(q)'
      PROVE  \/ <<request'[q].nonce, request'[q].sequence>> \in used'
             \/ request'[q].sequence < record'
             \/ request'[q].sequence <= expired'
  <2>1. request[q].sequence \in Nat /\ expired \in Nat
    BY DEF TypeOK, Clients
  <2> QED
    BY <1>2, <2>1 DEF Remembered
<1> QED
  BY <1>1, <1>2 DEF Remembered

Served == {"reply", "loop", "send", "await"}

\* The table: no session is opened again, and none of the table's is done.
LEMMA TableFrame ==
    ASSUME TypeOK, Tabled, UNCHANGED <<table, record>>,
           \A r \in Registrations :
               /\ handler'[r].sequence = handler[r].sequence
               /\ handler'[r].at \in Served => handler[r].at \in Served
               /\ handler'[r].at \in {"idle", "done"} =>
                    r # table \/ handler[r].at \in {"idle", "done"}
               /\ handler[r].closed => handler'[r].closed
    PROVE  Tabled'
<1>1. ASSUME table' # None
      PROVE  /\ handler'[table'].sequence = record'
             /\ handler'[table'].at \notin {"idle", "done"}
  <2>1. table \in Registrations
    BY <1>1 DEF TypeOK
  <2> QED
    BY <1>1, <2>1 DEF Tabled
<1>2. ASSUME NEW r \in Registrations, handler'[r].at \in Served, ~handler'[r].closed
      PROVE  table' = r
  <2>1. r \in Serving /\ ~handler[r].closed
    BY <1>2 DEF Serving, Served
  <2> QED
    BY <2>1 DEF Tabled
<1>3. \A r \in Serving' : ~handler'[r].closed => table' = r
  BY <1>2 DEF Serving, Served
<1> QED
  BY <1>1, <1>3 DEF Tabled

\* The places: a queue gets at most a None, nobody takes or puts or ends a delivery.
LEMMA PlacesFrame ==
    ASSUME Placed, NobodyForgotten, UNCHANGED <<request, introduced>>,
           \A r \in Registrations :
               /\ \A q \in Requests : In(q, handler'[r].queue) <=> In(q, handler[r].queue)
               /\ Distinct(handler'[r].queue)
               /\ handler'[r].current = handler[r].current
               /\ handler'[r].at \in {"send", "await"} <=> handler[r].at \in {"send", "await"},
           TypeOK
    PROVE  Placed' /\ NobodyForgotten'
<1>1. \A q \in Requests, r \in Registrations : InQueue(q, r)' <=> InQueue(q, r)
  BY DEF InQueue, In
<1>2. Placed'
  BY <1>1 DEF Placed, Handed
<1>3. introduced' \subseteq Requests
  BY DEF TypeOK
<1>4. \A q \in Requests : request[q].at \in {"put", "wait"} => request[q].session \in Registrations
  BY DEF Placed, TypeOK, Clients
<1>5. NobodyForgotten'
  BY <1>1, <1>3, <1>4 DEF NobodyForgotten, Distinct, TypeOK
<1> QED
  BY <1>2, <1>5

\* The places, when one client goes on to where it does not wait.
LEMMA ClientFrame ==
    ASSUME TypeOK, Placed, NobodyForgotten, UNCHANGED <<handler, introduced>>, NEW q \in Requests,
           \A p \in Requests \ {q} : request'[p] = request[p],
           request'[q].at # "wait", Handed(q) => Handed(q)',
           request'[q].at = "put" => request'[q].session # None
    PROVE  Placed' /\ NobodyForgotten'
<1>1. \A p \in Requests, r \in Registrations : InQueue(p, r)' <=> InQueue(p, r)
  BY DEF InQueue
<1>2. \A p \in Requests : Handed(p) => Handed(p)'
  BY DEF Handed
<1>3. Placed'
  BY <1>1, <1>2 DEF Placed
<1>4. introduced' \subseteq Requests
  BY DEF TypeOK
<1>5. \A p \in Requests : request[p].at = "wait" => request[p].session \in Registrations
  BY DEF Placed, TypeOK, Clients
<1>6. NobodyForgotten'
  BY <1>1, <1>4, <1>5 DEF NobodyForgotten, InQueue
<1> QED
  BY <1>3, <1>6

-----------------------------------------------------------------------------
(* The registry and the clients                                            *)

LEMMA HandlerType ==
    ASSUME TypeOK, NEW r \in Registrations
    PROVE  /\ handler[r] \in Handlers
           /\ handler[r].queue \in Seq(Requests \cup {None})
           /\ handler[r].sequence \in Nat /\ expired \in Nat /\ record \in Nat
  BY IntroductionAssumption DEF TypeOK, Handlers

\* A session told to end keeps its place, and what its queue holds for requests.
LEMMA ToldLemma ==
    ASSUME TypeOK, NobodyForgotten, NEW r \in Registrations
    PROVE  /\ Told(handler[r]) \in Handlers
           /\ Told(handler[r]).at = handler[r].at
           /\ Told(handler[r]).sequence = handler[r].sequence
           /\ Told(handler[r]).current = handler[r].current
           /\ Told(handler[r]).closed
           /\ Distinct(Told(handler[r]).queue)
           /\ \A q \in Requests : In(q, Told(handler[r]).queue) <=> In(q, handler[r].queue)
<1> DEFINE h == handler[r]
           s == Append(h.queue, None)
<1>1. h \in Handlers /\ h.queue \in Seq(Requests \cup {None})
  BY HandlerType
<1>2. Distinct(h.queue)
  BY DEF NobodyForgotten, Distinct
<1>3. s \in Seq(Requests \cup {None}) /\ Distinct(s) /\ \A y : In(y, s) <=> In(y, h.queue) \/ y = None
  BY <1>1, <1>2, AppendLemma
<1>4. None \notin Requests
  BY IntroductionAssumption
<1>5. Told(h) = [h EXCEPT !.closed = TRUE, !.queue = IF Len(h.queue) < QueueSize THEN s ELSE h.queue]
  BY <1>1 DEF Told, Handlers
<1> HIDE DEF h, s
<1>6. Told(h).queue \in {s, h.queue} /\ Told(h).at = h.at /\ Told(h).sequence = h.sequence
      /\ Told(h).current = h.current /\ Told(h).closed /\ Told(h) \in Handlers
  BY <1>1, <1>3, <1>5 DEF Handlers
<1> QED
  BY <1>2, <1>3, <1>4, <1>6 DEF h

\* An admitted request's token is not of a descriptor to come.
LEMMA AdmittedLemma ==
    ASSUME TypeOK, Remembered, NEW q \in Requests, Admitted(q)
    PROVE  /\ request[q].sequence \in Nat
           /\ request[q].sequence <= record \/ request[q].sequence <= expired
           /\ request[q].sequence > expired /\ request[q].sequence = record =>
                <<request[q].nonce, request[q].sequence>> \in used
<1> DEFINE u == <<request[q].nonce, request[q].sequence>>
<1>1. request[q].sequence \in Nat /\ expired \in Nat /\ record \in Nat
  BY DEF TypeOK, Clients
<1>2. u[2] = request[q].sequence
  OBVIOUS
<1>3. u \in used => u[2] <= record
  BY DEF Remembered
<1>4. u \in used \/ request[q].sequence < record \/ request[q].sequence <= expired
  BY DEF Remembered
<1> HIDE DEF u
<1>5. request[q].sequence > expired /\ request[q].sequence = record => u \in used
  BY <1>1, <1>4
<1>6. request[q].sequence <= record \/ request[q].sequence <= expired
  BY <1>1, <1>2, <1>3, <1>4
<1> QED
  BY <1>1, <1>5, <1>6 DEF u

\* install() and the change of the table: what is forgotten was used under a
\* descriptor that the new one replaces.
LEMMA RegisterStep ==
    ASSUME IInv, NEW r \in Registrations, NEW n \in Sequence, Register(r, n)
    PROVE  IInv'
<1>1. TypeOK /\ Remembered /\ Unique /\ Tabled /\ Placed /\ NobodyForgotten
  BY DEF IInv
<1>2. /\ handler[r].at = "idle" /\ n > expired /\ n >= LiveRecord
      /\ record' = n /\ used' = (IF n = LiveRecord THEN LiveUsed ELSE {}) /\ table' = r
      /\ handler' = Superseded(r, n)
      /\ UNCHANGED <<expired, request, stop, introduced>>
  BY DEF Register
<1>3. n \in Nat /\ n \in 0 .. MaxSequence /\ expired \in Nat /\ record \in Nat
  BY <1>1, IntroductionAssumption DEF Sequence, TypeOK
<1>4. \A x \in Registrations : handler[x] \in Handlers
  BY <1>1, HandlerType
<1>5. \A x \in Registrations :
        \/ /\ x = r
           /\ handler'[x] = [handler[r] EXCEPT !.at = "reply", !.sequence = n]
        \/ x # r /\ x = table /\ handler'[x] = Told(handler[x])
        \/ x # r /\ (x # table \/ handler[x].closed) /\ handler'[x] = handler[x]
  BY <1>2 DEF Superseded
<1>6. /\ handler'[r] \in Handlers /\ handler'[r].at = "reply" /\ handler'[r].sequence = n
      /\ handler'[r].queue = handler[r].queue /\ handler'[r].current = handler[r].current
      /\ handler'[r].closed = handler[r].closed
  <2> DEFINE h == handler[r]
             f == [h EXCEPT !.at = "reply"]
  <2>1. h \in Handlers
    BY <1>4
  <2>2. /\ f \in Handlers /\ f.at = "reply" /\ f.queue = h.queue
        /\ f.current = h.current /\ f.closed = h.closed
    BY <2>1 DEF Handlers
  <2>3. handler'[r] = [f EXCEPT !.sequence = n]
    BY <1>5, Zenon
  <2> HIDE DEF h, f
  <2>4. /\ handler'[r] \in Handlers /\ handler'[r].at = "reply" /\ handler'[r].sequence = n
        /\ handler'[r].queue = h.queue /\ handler'[r].current = h.current
        /\ handler'[r].closed = h.closed
    BY <1>3, <2>2, <2>3 DEF Handlers
  <2> QED
    BY <2>4 DEF h
<1>7. TypeOK'
  <2>1. \A x \in Registrations : handler'[x] \in Handlers
    BY <1>1, <1>4, <1>5, <1>6, ToldLemma
  <2>2. handler' \in [Registrations -> Handlers]
    BY <1>2, <2>1 DEF Superseded
  <2>3. used' \subseteq Nonces \X Sequence
    BY <1>1, <1>2 DEF TypeOK, LiveUsed
  <2> QED
    BY <1>1, <1>2, <1>3, <2>2, <2>3 DEF TypeOK
<1>8. Remembered' /\ Unique'
  <2>1. Unique'
    BY <1>1, <1>2 DEF Unique, Admitted
  <2>2. \A u \in used : u[2] \in Nat
    BY <1>1 DEF TypeOK, Sequence
  <2>3. \A q \in Requests : request[q].sequence \in Nat
    BY <1>1 DEF TypeOK, Clients
  <2>4. \A u \in used' : u \in used /\ u[2] <= record'
    <3>1. CASE n = LiveRecord
      BY <1>1, <1>2, <1>3, <2>2, <3>1 DEF LiveRecord, LiveUsed, Remembered
    <3>2. CASE n # LiveRecord
      BY <1>2, <3>2
    <3> QED
      BY <3>1, <3>2
  <2>5. ASSUME NEW q \in Requests, Admitted(q)
        PROVE  \/ <<request[q].nonce, request[q].sequence>> \in used'
               \/ request[q].sequence < record' \/ request[q].sequence <= expired
    <3> DEFINE u == <<request[q].nonce, request[q].sequence>>
    <3>1. u[2] = request[q].sequence
      OBVIOUS
    <3>2. /\ request[q].sequence \in Nat
          /\ request[q].sequence <= record \/ request[q].sequence <= expired
          /\ request[q].sequence > expired /\ request[q].sequence = record => u \in used
      BY <1>1, <2>5, AdmittedLemma
    <3> HIDE DEF u
    <3>3. SUFFICES ASSUME request[q].sequence > expired, request[q].sequence >= n
                   PROVE  u \in used'
      BY <1>2, <1>3, <3>2 DEF u
    <3>4. record >= n /\ record > expired
      BY <1>2, <1>3, <3>2, <3>3
    <3>5. n = LiveRecord /\ request[q].sequence = record
      BY <1>2, <1>3, <3>2, <3>3, <3>4 DEF LiveRecord
    <3> QED
      BY <1>2, <1>3, <3>1, <3>2, <3>3, <3>4, <3>5 DEF LiveUsed
  <2>6. \A q \in Requests : Admitted(q)' => Admitted(q)
    BY <1>2 DEF Admitted
  <2> QED
    BY <1>2, <2>1, <2>4, <2>5, <2>6 DEF Remembered
<1>9. Tabled'
  <2>1. ASSUME NEW x \in Registrations, handler'[x].at \in Served, ~handler'[x].closed
        PROVE  x = r
    <3>1. SUFFICES ASSUME x # r
                   PROVE  FALSE
      OBVIOUS
    <3>2. x # table
      <4>1. SUFFICES ASSUME x = table
                     PROVE  FALSE
        OBVIOUS
      <4>2. CASE handler'[x] = Told(handler[x])
        BY <1>1, <2>1, <4>2, ToldLemma
      <4>3. CASE handler[x].closed /\ handler'[x] = handler[x]
        BY <2>1, <4>3
      <4> QED
        BY <1>5, <3>1, <4>1, <4>2, <4>3
    <3>3. handler'[x] = handler[x]
      BY <1>5, <3>1, <3>2
    <3> QED
      BY <1>1, <2>1, <3>2, <3>3 DEF Tabled, Serving, Served
  <2>2. \A x \in Serving' : ~handler'[x].closed => table' = x
    BY <1>2, <2>1 DEF Serving, Served
  <2> QED
    BY <1>2, <1>6, <2>2 DEF Tabled
<1>10. Placed' /\ NobodyForgotten'
  <2>1. ASSUME NEW x \in Registrations
        PROVE  /\ \A q \in Requests : In(q, handler'[x].queue) <=> In(q, handler[x].queue)
               /\ Distinct(handler'[x].queue)
               /\ handler'[x].current = handler[x].current
               /\ handler'[x].at \in {"send", "await"} <=> handler[x].at \in {"send", "await"}
    <3>1. Distinct(handler[x].queue)
      BY <1>1 DEF NobodyForgotten, Distinct
    <3>2. CASE x = r
      BY <1>2, <1>6, <3>1, <3>2
    <3>3. CASE x # r /\ handler'[x] = Told(handler[x])
      BY <1>1, <3>3, ToldLemma
    <3>4. CASE x # r /\ handler'[x] = handler[x]
      BY <3>1, <3>4
    <3> QED
      BY <1>5, <3>2, <3>3, <3>4
  <2> QED
    BY <1>1, <1>2, <2>1, PlacesFrame
<1> QED
  BY <1>7, <1>8, <1>9, <1>10 DEF IInv

-----------------------------------------------------------------------------
(* Steps of a session that move nothing that clients ask                   *)

LEMMA QuietStep ==
    ASSUME IInv, NEW r \in Registrations, NEW h \in Handlers,
           handler' = [handler EXCEPT ![r] = h],
           UNCHANGED <<expired, record, used, table, request, stop, introduced>>,
           h.queue = handler[r].queue, h.current = handler[r].current,
           h.sequence = handler[r].sequence, handler[r].closed => h.closed,
           h.at \in {"send", "await"} <=> handler[r].at \in {"send", "await"},
           h.at \in Served => handler[r].at \in Served,
           h.at \in {"idle", "done"} => handler[r].at \in {"idle", "done"}
    PROVE  IInv'
<1>1. TypeOK /\ Remembered /\ Unique /\ Tabled /\ Placed /\ NobodyForgotten
  BY DEF IInv
<1>2. handler'[r] = h /\ \A x \in Registrations \ {r} : handler'[x] = handler[x]
  BY <1>1 DEF TypeOK
<1>3. TypeOK'
  BY <1>1 DEF TypeOK
<1>4. expired' = expired /\ expired \in Nat /\ expired <= expired'
  BY <1>1, IntroductionAssumption DEF TypeOK
<1>5. Remembered' /\ Unique'
  BY <1>1, <1>4, RegistryFrame DEF Admitted
<1>6. Tabled'
  <2>1. ASSUME NEW x \in Registrations
        PROVE  /\ handler'[x].sequence = handler[x].sequence
               /\ handler'[x].at \in Served => handler[x].at \in Served
               /\ handler'[x].at \in {"idle", "done"} =>
                    x # table \/ handler[x].at \in {"idle", "done"}
               /\ handler[x].closed => handler'[x].closed
    BY <1>2
  <2> QED
    BY <1>1, <2>1, TableFrame
<1>7. Placed' /\ NobodyForgotten'
  <2>1. ASSUME NEW x \in Registrations
        PROVE  /\ \A q \in Requests : In(q, handler'[x].queue) <=> In(q, handler[x].queue)
               /\ Distinct(handler'[x].queue)
               /\ handler'[x].current = handler[x].current
               /\ handler'[x].at \in {"send", "await"} <=> handler[x].at \in {"send", "await"}
    <3>1. Distinct(handler[x].queue)
      BY <1>1 DEF NobodyForgotten, Distinct
    <3> QED
      BY <1>2, <3>1
  <2> QED
    BY <1>1, <2>1, PlacesFrame
<1> QED
  BY <1>3, <1>5, <1>6, <1>7 DEF IInv

LEMMA RefuseRegistrationStep ==
    ASSUME IInv, NEW r \in Registrations, NEW n \in Sequence, RefuseRegistration(r, n)
    PROVE  IInv'
<1> DEFINE h == Gone(r, "done")
<1>1. handler[r] \in Handlers
  BY HandlerType DEF IInv
<1>2. /\ h \in Handlers /\ h.queue = handler[r].queue /\ h.current = handler[r].current
      /\ h.sequence = handler[r].sequence /\ h.closed = handler[r].closed /\ h.at = "done"
  BY <1>1 DEF Gone, Handlers
<1>3. /\ handler[r].at = "idle" /\ handler' = [handler EXCEPT ![r] = h]
      /\ UNCHANGED <<expired, record, used, table, request, stop, introduced>>
  BY DEF RefuseRegistration
<1> HIDE DEF h
<1> QED
  BY <1>2, <1>3, QuietStep DEF Served

LEMMA ReplyStep ==
    ASSUME IInv, NEW r \in Registrations, Reply(r)
    PROVE  IInv'
<1> DEFINE h == IF handler[r].channel = "up" THEN [handler[r] EXCEPT !.at = "loop"]
                ELSE Gone(r, "deaf")
<1>1. handler[r] \in Handlers
  BY HandlerType DEF IInv
<1>2. /\ h \in Handlers /\ h.queue = handler[r].queue /\ h.current = handler[r].current
      /\ h.sequence = handler[r].sequence /\ h.closed = handler[r].closed
      /\ h.at \in {"loop", "deaf"}
  BY <1>1 DEF Gone, Handlers
<1>3. /\ handler[r].at = "reply" /\ handler' = [handler EXCEPT ![r] = h]
      /\ UNCHANGED <<expired, record, used, table, request, stop, introduced>>
  BY DEF Reply, Step
<1> HIDE DEF h
<1> QED
  BY <1>2, <1>3, QuietStep DEF Served

\* The finally of a loop that ends, whatever becomes of the channel.
LEMMA LeavingType ==
    ASSUME NEW r \in Registrations, handler[r] \in Handlers
    PROVE  /\ Leaving(r) \in Handlers /\ Leaving(r).queue = handler[r].queue
           /\ Leaving(r).current = handler[r].current /\ Leaving(r).at = "drain"
           /\ Leaving(r).sequence = handler[r].sequence /\ Leaving(r).closed
<1> DEFINE f == [handler[r] EXCEPT !.at = "drain"]
<1>1. /\ f \in Handlers /\ f.queue = handler[r].queue /\ f.current = handler[r].current
      /\ f.sequence = handler[r].sequence /\ f.at = "drain"
  BY DEF Handlers
<1>2. Leaving(r) = [f EXCEPT !.closed = TRUE]
  BY Zenon DEF Leaving
<1> HIDE DEF f
<1> QED
  BY <1>1, <1>2 DEF Handlers

LEMMA LoopEndsStep ==
    ASSUME IInv, NEW r \in Registrations, LoopEnds(r)
    PROVE  IInv'
<1> DEFINE h == Leaving(r)
<1>1. handler[r] \in Handlers
  BY HandlerType DEF IInv
<1>2. /\ h \in Handlers /\ h.queue = handler[r].queue /\ h.current = handler[r].current
      /\ h.sequence = handler[r].sequence /\ h.closed /\ h.at = "drain"
  BY <1>1, LeavingType
<1>3. /\ handler[r].at = "loop" /\ handler' = [handler EXCEPT ![r] = h]
      /\ UNCHANGED <<expired, record, used, table, request, stop, introduced>>
  BY DEF LoopEnds, Step
<1> HIDE DEF h
<1> QED
  BY <1>2, <1>3, QuietStep DEF Served

LEMMA HeartbeatFailsStep ==
    ASSUME IInv, NEW r \in Registrations, HeartbeatFails(r)
    PROVE  IInv'
<1> DEFINE l == Leaving(r)
           h == [l EXCEPT !.channel = IF @ = "up" THEN "failed" ELSE @]
<1>1. handler[r] \in Handlers
  BY HandlerType DEF IInv
<1>2. /\ l \in Handlers /\ l.queue = handler[r].queue /\ l.current = handler[r].current
      /\ l.sequence = handler[r].sequence /\ l.closed /\ l.at = "drain"
  BY <1>1, LeavingType
<1>3. /\ handler[r].at = "loop" /\ handler' = [handler EXCEPT ![r] = h]
      /\ UNCHANGED <<expired, record, used, table, request, stop, introduced>>
  BY DEF HeartbeatFails, Step
<1> HIDE DEF l
<1>4. /\ h \in Handlers /\ h.queue = l.queue /\ h.current = l.current
      /\ h.sequence = l.sequence /\ h.closed = l.closed /\ h.at = l.at
  BY <1>2 DEF Handlers
<1> HIDE DEF h
<1> QED
  BY <1>2, <1>3, <1>4, QuietStep DEF Served

LEMMA BreakStep ==
    ASSUME IInv, NEW r \in Registrations, Break(r)
    PROVE  IInv'
<1> DEFINE h == [handler[r] EXCEPT !.channel = "closed"]
<1>1. handler[r] \in Handlers
  BY HandlerType DEF IInv
<1>2. /\ h \in Handlers /\ h.queue = handler[r].queue /\ h.current = handler[r].current
      /\ h.sequence = handler[r].sequence /\ h.closed = handler[r].closed
      /\ h.at = handler[r].at
  BY <1>1 DEF Handlers
<1>3. /\ handler' = [handler EXCEPT ![r] = h]
      /\ UNCHANGED <<expired, record, used, table, request, stop, introduced>>
  <2>1. handler' = [handler EXCEPT ![r] = [handler[r] EXCEPT !.channel = "closed"]]
    BY DEF Break, Step
  <2> QED
    BY <2>1 DEF Break, Step
<1> HIDE DEF h
<1> QED
  BY <1>2, <1>3, QuietStep DEF Served

\* A session leaves the table only if it is the one there.
LEMMA ForgetStep ==
    ASSUME IInv, NEW r \in Registrations, Forget(r)
    PROVE  IInv'
<1> DEFINE h == Gone(r, "done")
<1>1. TypeOK /\ Remembered /\ Unique /\ Tabled /\ Placed /\ NobodyForgotten
  BY DEF IInv
<1>2. handler[r] \in Handlers
  BY <1>1, HandlerType
<1>3. /\ h \in Handlers /\ h.queue = handler[r].queue /\ h.current = handler[r].current
      /\ h.sequence = handler[r].sequence /\ h.closed = handler[r].closed /\ h.at = "done"
  BY <1>2 DEF Gone, Handlers
<1>4. /\ handler[r].at = "drain" /\ handler' = [handler EXCEPT ![r] = h]
      /\ table' = IF table = r THEN None ELSE table
      /\ UNCHANGED <<expired, record, used, request, stop, introduced>>
  BY DEF Forget
<1> HIDE DEF h
<1>5. handler'[r] = h /\ \A x \in Registrations \ {r} : handler'[x] = handler[x]
  BY <1>1, <1>4 DEF TypeOK
<1>6. TypeOK'
  BY <1>1, <1>3, <1>4 DEF TypeOK
<1>7. Remembered' /\ Unique'
  BY <1>1, <1>4 DEF Remembered, Unique, Admitted
<1>8. Tabled'
  <2>1. ASSUME NEW x \in Registrations, handler'[x].at \in Served, ~handler'[x].closed
        PROVE  table' = x
    <3>1. x # r
      BY <1>3, <1>5, <2>1 DEF Served
    <3>2. x \in Serving /\ ~handler[x].closed
      BY <1>5, <2>1, <3>1 DEF Serving, Served
    <3> QED
      BY <1>1, <1>4, <3>1, <3>2 DEF Tabled
  <2>2. \A x \in Serving' : ~handler'[x].closed => table' = x
    BY <2>1 DEF Serving, Served
  <2>3. table' # None => table' = table /\ table # r /\ table \in Registrations
    BY <1>1, <1>4 DEF TypeOK
  <2>4. table' # None => /\ handler'[table'].sequence = record'
                         /\ handler'[table'].at \notin {"idle", "done"}
    BY <1>1, <1>4, <1>5, <2>3 DEF Tabled
  <2> QED
    BY <2>2, <2>4 DEF Tabled
<1>9. Placed' /\ NobodyForgotten'
  <2>1. ASSUME NEW x \in Registrations
        PROVE  /\ \A q \in Requests : In(q, handler'[x].queue) <=> In(q, handler[x].queue)
               /\ Distinct(handler'[x].queue)
               /\ handler'[x].current = handler[x].current
               /\ handler'[x].at \in {"send", "await"} <=> handler[x].at \in {"send", "await"}
    <3>1. Distinct(handler[x].queue)
      BY <1>1 DEF NobodyForgotten, Distinct
    <3> QED
      BY <1>3, <1>4, <1>5, <3>1
  <2> QED
    BY <1>1, <1>4, <2>1, PlacesFrame
<1> QED
  BY <1>6, <1>7, <1>8, <1>9 DEF IInv

\* stop() tells the session of the table, and the connections are closed.
LEMMA TellToStopStep ==
    ASSUME IInv, TellToStop
    PROVE  IInv'
<1>1. TypeOK /\ Remembered /\ Unique /\ Tabled /\ Placed /\ NobodyForgotten
  BY DEF IInv
<1>2. /\ stop' = "told"
      /\ UNCHANGED <<expired, record, used, table, request, introduced>>
      /\ handler' = [r \in Registrations |->
                       [IF r = table THEN Told(handler[r]) ELSE handler[r]
                          EXCEPT !.channel = "closed"]]
  BY DEF TellToStop
<1>3. ASSUME NEW x \in Registrations
      PROVE  /\ handler'[x] \in Handlers /\ handler'[x].sequence = handler[x].sequence
             /\ handler'[x].at = handler[x].at /\ handler'[x].current = handler[x].current
             /\ handler[x].closed => handler'[x].closed
             /\ Distinct(handler'[x].queue)
             /\ \A q \in Requests : In(q, handler'[x].queue) <=> In(q, handler[x].queue)
  <2> DEFINE h == IF x = table THEN Told(handler[x]) ELSE handler[x]
  <2>1. handler[x] \in Handlers
    BY <1>1, HandlerType
  <2>2. Distinct(handler[x].queue)
    BY <1>1 DEF NobodyForgotten, Distinct
  <2>3. /\ h \in Handlers /\ h.sequence = handler[x].sequence
        /\ h.at = handler[x].at /\ h.current = handler[x].current
        /\ handler[x].closed => h.closed
        /\ Distinct(h.queue) /\ \A q \in Requests : In(q, h.queue) <=> In(q, handler[x].queue)
    BY <1>1, <2>1, <2>2, ToldLemma
  <2>4. handler'[x] = [h EXCEPT !.channel = "closed"]
    BY <1>2
  <2> HIDE DEF h
  <2>5. /\ handler'[x] \in Handlers /\ handler'[x].sequence = h.sequence
        /\ handler'[x].at = h.at /\ handler'[x].current = h.current
        /\ handler'[x].closed = h.closed /\ handler'[x].queue = h.queue
    BY <2>3, <2>4 DEF Handlers
  <2> QED
    BY <2>3, <2>5
<1>4. TypeOK'
  <2>1. handler' \in [Registrations -> Handlers]
    BY <1>2, <1>3
  <2> QED
    BY <1>1, <1>2, <2>1 DEF TypeOK
<1>5. expired' = expired /\ expired \in Nat /\ expired <= expired'
  BY <1>1, <1>2, IntroductionAssumption DEF TypeOK
<1>6. Remembered' /\ Unique'
  BY <1>1, <1>2, <1>5, RegistryFrame DEF Admitted
<1>7. Tabled'
  BY <1>1, <1>2, <1>3, <1>5, TableFrame
<1>8. Placed' /\ NobodyForgotten'
  BY <1>1, <1>2, <1>3, PlacesFrame
<1> QED
  BY <1>4, <1>6, <1>7, <1>8 DEF IInv

LEMMA AskToStopStep ==
    ASSUME IInv, AskToStop
    PROVE  IInv'
  BY DEF IInv, AskToStop, TypeOK, Remembered, Unique, Tabled, Placed, NobodyForgotten,
         Admitted, Handed, Serving, InQueue

LEMMA ExpireStep ==
    ASSUME IInv, Expire
    PROVE  IInv'
<1>1. TypeOK /\ Remembered /\ Unique /\ Tabled /\ Placed /\ NobodyForgotten
  BY DEF IInv
<1>2. /\ expired < MaxSequence /\ expired' = expired + 1
      /\ UNCHANGED <<record, used, table, handler, request, stop, introduced>>
  BY DEF Expire
<1>3. expired \in Nat /\ expired' \in Nat /\ expired <= expired' /\ expired' \in 0 .. MaxSequence
  BY <1>1, <1>2, IntroductionAssumption DEF TypeOK
<1>4. TypeOK'
  BY <1>1, <1>2, <1>3 DEF TypeOK
<1>5. Remembered' /\ Unique'
  BY <1>1, <1>2, <1>3, RegistryFrame DEF Admitted
<1>6. Tabled'
  BY <1>1, <1>2, <1>3, TableFrame
<1>7. Placed' /\ NobodyForgotten'
  BY <1>1, <1>2 DEF Placed, NobodyForgotten, InQueue, Handed
<1> QED
  BY <1>4, <1>5, <1>6, <1>7 DEF IInv

-----------------------------------------------------------------------------
(* Steps of a client                                                       *)

LEMMA ClientStep ==
    ASSUME IInv, NEW q \in Requests, NEW c \in Clients,
           request' = [request EXCEPT ![q] = c],
           UNCHANGED <<expired, record, used, table, handler, stop, introduced>>,
           c.at # "wait", Handed(q) => c.at \in {"wait", "timeout", "failed", "granted"},
           c.at = "put" => c.session # None,
           c.at \notin {"idle", "refused"} =>
               Admitted(q) /\ c.nonce = request[q].nonce /\ c.sequence = request[q].sequence
    PROVE  IInv'
<1>1. TypeOK /\ Remembered /\ Unique /\ Tabled /\ Placed /\ NobodyForgotten
  BY DEF IInv
<1>2. request'[q] = c /\ \A p \in Requests \ {q} : request'[p] = request[p]
  BY <1>1 DEF TypeOK
<1>3. TypeOK'
  BY <1>1 DEF TypeOK
<1>4. expired' = expired /\ expired \in Nat /\ expired <= expired'
  BY <1>1, IntroductionAssumption DEF TypeOK
<1>5. Remembered' /\ Unique'
  <2>1. ASSUME NEW p \in Requests, Admitted(p)'
        PROVE  /\ Admitted(p) /\ request'[p].nonce = request[p].nonce
               /\ request'[p].sequence = request[p].sequence
    BY <1>2, <2>1 DEF Admitted
  <2> QED
    BY <1>1, <1>4, <2>1, RegistryFrame
<1>6. Tabled'
  BY <1>1 DEF Tabled, Serving
<1>7. Placed' /\ NobodyForgotten'
  <2>1. Handed(q) => Handed(q)'
    BY <1>2 DEF Handed
  <2> QED
    BY <1>1, <1>2, <2>1, ClientFrame
<1> QED
  BY <1>3, <1>5, <1>6, <1>7 DEF IInv

\* What MoveTo makes of a request that was admitted.
LEMMA MoveToStep ==
    ASSUME IInv, NEW q \in Requests, NEW place \in {"put"} \cup Outcomes, MoveTo(q, place),
           Admitted(q), place # "refused",
           Handed(q) => place \in {"timeout", "failed", "granted"},
           place = "put" => request[q].session # None
    PROVE  IInv'
<1> DEFINE f == [request[q] EXCEPT !.at = place]
           g == [f EXCEPT !.session = IF place \in Outcomes THEN None ELSE @]
           c == [g EXCEPT !.delivery = "none"]
<1>1. request[q] \in Clients /\ request \in [Requests -> Clients]
  BY DEF IInv, TypeOK
<1>2. /\ f \in Clients /\ f.at = place /\ f.session = request[q].session
      /\ f.nonce = request[q].nonce /\ f.sequence = request[q].sequence
  BY <1>1 DEF Clients, Outcomes
<1>3. /\ request' = [request EXCEPT ![q] = c]
      /\ UNCHANGED <<expired, record, used, table, handler, stop, introduced>>
  BY <1>1, Zenon DEF MoveTo
<1> HIDE DEF f
<1>4. /\ g \in Clients /\ g.at = place /\ (place = "put" => g.session = request[q].session)
      /\ g.nonce = request[q].nonce /\ g.sequence = request[q].sequence
  BY <1>2 DEF Clients, Outcomes
<1> HIDE DEF g
<1>5. /\ c \in Clients /\ c.at = place /\ (place = "put" => c.session = request[q].session)
      /\ c.nonce = request[q].nonce /\ c.sequence = request[q].sequence
  BY <1>4 DEF Clients
<1> HIDE DEF c
<1>6. place # "wait"
  BY DEF Outcomes
<1>7. Handed(q) => c.at \in {"wait", "timeout", "failed", "granted"}
  BY <1>5
<1>8. c.at = "put" => c.session # None
  BY <1>5
<1> QED
  BY <1>3, <1>5, <1>6, <1>7, <1>8, ClientStep

LEMMA CheckStep ==
    ASSUME IInv, NEW q \in Requests, Check(q)
    PROVE  IInv'
<1> DEFINE place == IF request[q].session = None \/ handler[request[q].session].closed
                    THEN "offline" ELSE "put"
<1>1. request[q].at = "check" /\ MoveTo(q, place)
  BY DEF Check
<1>2. place \in {"put"} \cup Outcomes /\ place # "refused" /\ (place = "put" => request[q].session # None)
  BY DEF Outcomes
<1>3. Admitted(q) /\ ~Handed(q)
  BY <1>1 DEF Admitted, Handed
<1> HIDE DEF place
<1> QED
  BY <1>1, <1>2, <1>3, MoveToStep

LEMMA PutTimesOutStep ==
    ASSUME IInv, NEW q \in Requests, PutTimesOut(q)
    PROVE  IInv'
<1>1. request[q].at = "put" /\ MoveTo(q, "busy")
  BY DEF PutTimesOut
<1>2. Admitted(q) /\ ~Handed(q) /\ "busy" \in {"put"} \cup Outcomes
  BY <1>1 DEF Admitted, Handed, Outcomes
<1> QED
  BY <1>1, <1>2, MoveToStep

LEMMA AnsweredStep ==
    ASSUME IInv, NEW q \in Requests, Answered(q)
    PROVE  IInv'
<1> DEFINE place == IF request[q].delivery = "result" THEN "granted" ELSE "failed"
<1>1. request[q].at = "wait" /\ MoveTo(q, place)
  BY DEF Answered
<1>2. Admitted(q) /\ place \in {"failed", "granted"} /\ place \in {"put"} \cup Outcomes
  BY <1>1 DEF Admitted, Outcomes
<1> HIDE DEF place
<1> QED
  BY <1>1, <1>2, MoveToStep

LEMMA DeliveryTimesOutStep ==
    ASSUME IInv, NEW q \in Requests, DeliveryTimesOut(q)
    PROVE  IInv'
<1>1. request[q].at = "wait" /\ MoveTo(q, "timeout")
  BY DEF DeliveryTimesOut
<1>2. Admitted(q) /\ "timeout" \in {"put"} \cup Outcomes
  BY <1>1 DEF Admitted, Outcomes
<1> QED
  BY <1>1, <1>2, MoveToStep

LEMMA RefuseRequestStep ==
    ASSUME IInv, NEW q \in Requests, NEW n \in Sequence, NEW nonce \in Nonces,
           RefuseRequest(q, n, nonce)
    PROVE  IInv'
<1> DEFINE c == [request[q] EXCEPT !.at = "refused"]
<1>1. request[q] \in Clients /\ request \in [Requests -> Clients]
  BY DEF IInv, TypeOK
<1>2. c \in Clients /\ c.at = "refused"
  BY <1>1 DEF Clients, Outcomes
<1>3. /\ request[q].at = "idle" /\ request' = [request EXCEPT ![q] = c]
      /\ UNCHANGED <<expired, record, used, table, handler, stop, introduced>>
  BY <1>1 DEF RefuseRequest
<1>4. ~Handed(q)
  BY <1>3 DEF Handed
<1> HIDE DEF c
<1> QED
  BY <1>2, <1>3, <1>4, ClientStep

\* authorize() remembers the nonce; a request admitted before with the same one had
\* another token, for what was used under this one is still remembered.
LEMMA AuthorizeStep ==
    ASSUME IInv, NEW q \in Requests, NEW n \in Sequence, NEW nonce \in Nonces,
           Authorize(q, n, nonce)
    PROVE  IInv'
<1>1. TypeOK /\ Remembered /\ Unique /\ Tabled /\ Placed /\ NobodyForgotten
  BY DEF IInv
<1>2. /\ request[q].at = "idle" /\ Admissible(n, nonce)
      /\ used' = LiveUsed \cup {<<nonce, n>>}
      /\ request' = [request EXCEPT ![q].at = "check", ![q].nonce = nonce,
                                    ![q].sequence = n, ![q].session = table]
      /\ UNCHANGED <<expired, record, table, handler, stop, introduced>>
  BY DEF Authorize
<1>3. /\ n \in Nat /\ n >= 1 /\ n \in 0 .. MaxSequence
      /\ expired \in Nat /\ record \in Nat
  BY <1>1, IntroductionAssumption DEF Sequence, TypeOK
<1>4. n = record /\ record > expired
  BY <1>2, <1>3 DEF Admissible, LiveRecord
<1>5. /\ request'[q] \in Clients /\ request'[q].at = "check" /\ request'[q].nonce = nonce
      /\ request'[q].sequence = n
      /\ \A p \in Requests \ {q} : request'[p] = request[p]
      /\ request' \in [Requests -> Clients]
  <2> DEFINE c == request[q]
             f == [c EXCEPT !.at = "check"]
             g == [f EXCEPT !.nonce = nonce]
             h == [g EXCEPT !.sequence = n]
             i == [h EXCEPT !.session = table]
  <2>1. c \in Clients /\ request \in [Requests -> Clients] /\ table \in Registrations \cup {None}
    BY <1>1 DEF TypeOK
  <2>2. request' = [request EXCEPT ![q] = i]
    BY <1>2, <2>1, Zenon
  <2>3. f \in Clients /\ f.at = "check"
    BY <2>1 DEF Clients
  <2> HIDE DEF f
  <2>4. g \in Clients /\ g.at = "check" /\ g.nonce = nonce
    BY <2>3 DEF Clients
  <2> HIDE DEF g
  <2>5. h \in Clients /\ h.at = "check" /\ h.nonce = nonce /\ h.sequence = n
    BY <1>3, <2>4 DEF Clients
  <2> HIDE DEF h
  <2>6. i \in Clients /\ i.at = "check" /\ i.nonce = nonce /\ i.sequence = n
    BY <2>1, <2>5 DEF Clients
  <2> HIDE DEF i, c
  <2> QED
    BY <2>1, <2>2, <2>6
<1>6. TypeOK'
  <2>1. used' \subseteq Nonces \X Sequence
    BY <1>1, <1>2 DEF TypeOK, LiveUsed
  <2> QED
    BY <1>1, <1>2, <1>5, <2>1 DEF TypeOK
<1>7. \A p \in Requests \ {q} : Admitted(p)' = Admitted(p)
  BY <1>5 DEF Admitted
<1>8. \A p \in Requests : Admitted(p) =>
         /\ request[p].sequence \in Nat
         /\ request[p].sequence <= record \/ request[p].sequence <= expired
         /\ request[p].sequence > expired /\ request[p].sequence = record =>
              <<request[p].nonce, request[p].sequence>> \in LiveUsed
  <2>1. SUFFICES ASSUME NEW p \in Requests, Admitted(p)
                 PROVE  /\ request[p].sequence \in Nat
                        /\ request[p].sequence <= record \/ request[p].sequence <= expired
                        /\ request[p].sequence > expired /\ request[p].sequence = record =>
                             <<request[p].nonce, request[p].sequence>> \in LiveUsed
    OBVIOUS
  <2> DEFINE u == <<request[p].nonce, request[p].sequence>>
  <2>2. u[2] = request[p].sequence
    OBVIOUS
  <2>3. /\ request[p].sequence \in Nat
        /\ request[p].sequence <= record \/ request[p].sequence <= expired
        /\ request[p].sequence > expired /\ request[p].sequence = record => u \in used
    BY <1>1, <2>1, AdmittedLemma
  <2> HIDE DEF u
  <2>4. request[p].sequence > expired /\ request[p].sequence = record => u \in LiveUsed
    BY <1>4, <2>2, <2>3 DEF LiveUsed
  <2> QED
    BY <2>3, <2>4 DEF u
<1>9. Remembered'
  <2>1. \A u \in used' : u[2] <= record'
    <3>1. <<nonce, n>>[2] <= record'
      BY <1>2, <1>3, <1>4
    <3>2. \A u \in LiveUsed : u[2] <= record'
      BY <1>1, <1>2 DEF LiveUsed, Remembered
    <3> QED
      BY <1>2, <3>1, <3>2
  <2>2. ASSUME NEW p \in Requests, Admitted(p)'
        PROVE  \/ <<request'[p].nonce, request'[p].sequence>> \in used'
               \/ request'[p].sequence < record'
               \/ request'[p].sequence <= expired'
    <3>1. CASE p = q
      BY <1>2, <1>5, <3>1
    <3>2. CASE p # q
      <4>1. Admitted(p) /\ request'[p] = request[p]
        BY <1>5, <1>7, <2>2, <3>2
      <4>2. /\ request[p].sequence \in Nat
            /\ request[p].sequence <= record \/ request[p].sequence <= expired
            /\ request[p].sequence > expired /\ request[p].sequence = record =>
                 <<request[p].nonce, request[p].sequence>> \in LiveUsed
        BY <1>8, <4>1
      <4>3. CASE request[p].sequence > expired /\ request[p].sequence = record
        <5>1. used' = LiveUsed \cup {<<nonce, n>>}
          BY <1>2
        <5>2. <<request[p].nonce, request[p].sequence>> \in LiveUsed
          BY <4>2, <4>3
        <5> QED
          BY <4>1, <5>1, <5>2
      <4>4. CASE request[p].sequence < record \/ request[p].sequence <= expired
        BY <1>2, <4>1, <4>4
      <4> QED
        BY <1>3, <4>2, <4>3, <4>4
    <3> QED
      BY <3>1, <3>2
  <2> QED
    BY <2>1, <2>2 DEF Remembered
<1>10. Unique'
  <2>1. ASSUME NEW p \in Requests \ {q}, Admitted(p), request[p].nonce = nonce, request[p].sequence = n
        PROVE  FALSE
    <3>1. <<nonce, n>> \in LiveUsed
      BY <1>3, <1>4, <1>8, <2>1
    <3>2. <<nonce, n>>[1] # nonce
      BY <1>2, <3>1 DEF Admissible
    <3> QED
      BY <3>2
  <2>2. SUFFICES ASSUME NEW x \in Requests, NEW y \in Requests, Admitted(x)', Admitted(y)',
                        request'[x].nonce = request'[y].nonce,
                        request'[x].sequence = request'[y].sequence
                 PROVE  x = y
    BY DEF Unique
  <2>3. CASE x # q /\ y # q
    BY <1>1, <1>5, <1>7, <2>2, <2>3 DEF Unique
  <2>4. CASE x = q /\ y # q
    BY <1>5, <1>7, <2>1, <2>2, <2>4
  <2>5. CASE x # q /\ y = q
    BY <1>5, <1>7, <2>1, <2>2, <2>5
  <2> QED
    BY <2>3, <2>4, <2>5
<1>11. Tabled'
  BY <1>1, <1>2 DEF Tabled, Serving
<1>12. Placed' /\ NobodyForgotten'
  <2>1. ~Handed(q) /\ request'[q].at # "wait" /\ request'[q].at # "put"
    BY <1>2, <1>5 DEF Handed
  <2>2. UNCHANGED <<handler, introduced>> /\ \A p \in Requests \ {q} : request'[p] = request[p]
    BY <1>2, <1>5
  <2> QED
    BY <1>1, <2>1, <2>2, ClientFrame
<1> QED
  BY <1>6, <1>9, <1>10, <1>11, <1>12 DEF IInv

-----------------------------------------------------------------------------
(* Steps that move what clients ask                                        *)

\* One session's places change, and the others' are left.
LEMMA PlacesStep ==
    ASSUME IInv, NEW r \in Registrations, NEW h \in Handlers,
           handler' = [handler EXCEPT ![r] = h],
           request' \in [Requests -> Clients],
           UNCHANGED <<expired, record, used, table, stop>>,
           introduced' \subseteq Requests,
           h.sequence = handler[r].sequence, handler[r].closed => h.closed,
           h.at \in Served => handler[r].at \in Served,
           h.at \in {"idle", "done"} => handler[r].at \in {"idle", "done"},
           \A q \in Requests : /\ Admitted(q)' <=> Admitted(q)
                               /\ request'[q].nonce = request[q].nonce
                               /\ request'[q].sequence = request[q].sequence,
           Placed' /\ NobodyForgotten'
    PROVE  IInv'
<1>1. TypeOK /\ Remembered /\ Unique /\ Tabled /\ Placed /\ NobodyForgotten
  BY DEF IInv
<1>2. handler'[r] = h /\ \A x \in Registrations \ {r} : handler'[x] = handler[x]
  BY <1>1 DEF TypeOK
<1>3. TypeOK'
  BY <1>1 DEF TypeOK
<1>4. expired' = expired /\ expired \in Nat /\ expired <= expired'
  BY <1>1, IntroductionAssumption DEF TypeOK
<1>5. Remembered' /\ Unique'
  BY <1>1, <1>4, RegistryFrame
<1>6. Tabled'
  <2>1. ASSUME NEW x \in Registrations
        PROVE  /\ handler'[x].sequence = handler[x].sequence
               /\ handler'[x].at \in Served => handler[x].at \in Served
               /\ handler'[x].at \in {"idle", "done"} =>
                    x # table \/ handler[x].at \in {"idle", "done"}
               /\ handler[x].closed => handler'[x].closed
    BY <1>2
  <2> QED
    BY <1>1, <2>1, TableFrame
<1> QED
  BY <1>3, <1>5, <1>6 DEF IInv

\* What a client asks enters the queue of the session it found.
LEMMA PutStep ==
    ASSUME IInv, NEW q \in Requests, Put(q)
    PROVE  IInv'
<1>1. TypeOK /\ Remembered /\ Unique /\ Tabled /\ Placed /\ NobodyForgotten
  BY DEF IInv
<1>2. PICK r \in Registrations : r = request[q].session
  BY <1>1 DEF Put, Placed, TypeOK, Clients
<1> DEFINE s == Append(handler[r].queue, q)
           h == [handler[r] EXCEPT !.queue = s]
           c == [request[q] EXCEPT !.at = "wait"]
<1>3. /\ request[q].at = "put" /\ request[q] \in Clients /\ request \in [Requests -> Clients]
      /\ handler' = [handler EXCEPT ![r] = [handler[r] EXCEPT !.queue = s]]
      /\ request' = [request EXCEPT ![q] = [request[q] EXCEPT !.at = "wait"]]
      /\ UNCHANGED <<expired, record, used, table, stop, introduced>>
  BY <1>1, <1>2 DEF Put, TypeOK
<1>4. handler[r] \in Handlers /\ handler[r].queue \in Seq(Requests \cup {None})
  BY <1>1, HandlerType
<1>5. ~Handed(q) /\ Admitted(q) /\ q # None
  BY <1>3, IntroductionAssumption DEF Handed, Admitted
<1>6. \A x \in Registrations : ~In(q, handler[x].queue) /\ handler[x].current # q
  BY <1>1, <1>5 DEF Placed, InQueue, In
<1>7. \A x \in Registrations : Distinct(handler[x].queue)
  BY <1>1 DEF NobodyForgotten, Distinct
<1>8. s \in Seq(Requests \cup {None}) /\ Distinct(s) /\ \A y : In(y, s) <=> In(y, handler[r].queue) \/ y = q
  BY <1>4, <1>6, <1>7, AppendLemma
<1>9. /\ h \in Handlers /\ h.queue = s /\ h.current = handler[r].current /\ h.at = handler[r].at
      /\ h.sequence = handler[r].sequence /\ h.closed = handler[r].closed
  <2> HIDE DEF s
  <2> QED
    BY <1>4, <1>8 DEF Handlers
<1>10. /\ c \in Clients /\ c.at = "wait" /\ c.session = r
       /\ c.nonce = request[q].nonce /\ c.sequence = request[q].sequence
  BY <1>2, <1>3 DEF Clients
<1> HIDE DEF h, s, c
<1>11. handler' = [handler EXCEPT ![r] = h] /\ request' = [request EXCEPT ![q] = c]
  BY <1>3 DEF h, c
<1>12. /\ handler'[r] = h /\ \A x \in Registrations \ {r} : handler'[x] = handler[x]
       /\ request'[q] = c /\ \A p \in Requests \ {q} : request'[p] = request[p]
       /\ request' \in [Requests -> Clients]
  BY <1>1, <1>3, <1>10, <1>11 DEF TypeOK
<1>13. \A x \in Registrations :
          /\ \A p \in Requests : In(p, handler'[x].queue) <=> In(p, handler[x].queue) \/ (p = q /\ x = r)
          /\ handler'[x].current = handler[x].current /\ handler'[x].at = handler[x].at
          /\ Distinct(handler'[x].queue)
  <2>1. SUFFICES ASSUME NEW x \in Registrations
                 PROVE  /\ \A p \in Requests :
                             In(p, handler'[x].queue) <=> In(p, handler[x].queue) \/ (p = q /\ x = r)
                        /\ handler'[x].current = handler[x].current /\ handler'[x].at = handler[x].at
                        /\ Distinct(handler'[x].queue)
    BY Zenon
  <2>2. CASE x = r
    BY <1>8, <1>9, <1>12, <2>2
  <2>3. CASE x # r
    BY <1>7, <1>12, <2>3
  <2> QED
    BY <2>2, <2>3
<1>14. Handed(q)' /\ Admitted(q)'
  BY <1>10, <1>12 DEF Handed, Admitted
<1>15. \A p \in Requests : Handed(p) => Handed(p)'
  BY <1>5, <1>12 DEF Handed
<1>16. Placed'
  <2>1. ASSUME NEW p \in Requests
        PROVE  /\ p \in introduced' => Handed(p)'
               /\ \A x \in Registrations :
                    In(p, handler'[x].queue) \/ handler'[x].current = p => Handed(p)'
               /\ request'[p].at \in {"put", "wait"} => request'[p].session # None
    <3>1. CASE p = q
      BY <1>2, <1>10, <1>12, <1>14, <3>1, IntroductionAssumption
    <3>2. CASE p # q
      BY <1>1, <1>3, <1>12, <1>13, <1>15, <3>2 DEF Placed, InQueue, In
    <3> QED
      BY <3>1, <3>2
  <2>2. ASSUME NEW p \in Requests, NEW x \in Registrations, NEW y \in Registrations
        PROVE  /\ In(p, handler'[x].queue) /\ In(p, handler'[y].queue) => x = y
               /\ ~(In(p, handler'[x].queue) /\ handler'[y].current = p)
               /\ handler'[x].current = p /\ handler'[y].current = p => x = y
    <3>1. CASE p = q
      BY <1>6, <1>13, <3>1
    <3>2. CASE p # q
      <4>1. /\ In(p, handler[x].queue) /\ In(p, handler[y].queue) => x = y
            /\ ~(In(p, handler[x].queue) /\ handler[y].current = p)
            /\ handler[x].current = p /\ handler[y].current = p => x = y
        BY <1>1 DEF Placed, InQueue, In
      <4> QED
        BY <1>13, <3>2, <4>1
    <3> QED
      BY <3>1, <3>2
  <2>3. \A x \in Registrations : handler'[x].current # None <=> handler'[x].at \in {"send", "await"}
    BY <1>1, <1>13 DEF Placed
  <2> QED
    BY <2>1, <2>2, <2>3 DEF Placed, InQueue, In
<1>17. NobodyForgotten'
  <2>1. ASSUME NEW p \in Requests, request'[p].at = "wait", request'[p].delivery = "none"
        PROVE  \/ In(p, handler'[request'[p].session].queue)
               \/ handler'[request'[p].session].current = p
    <3>1. CASE p = q
      BY <1>10, <1>12, <1>13, <3>1
    <3>2. CASE p # q
      <4>1. request'[p] = request[p]
        BY <1>12, <3>2
      <4>2. PICK x \in Registrations : x = request[p].session
        BY <1>1, <2>1, <4>1 DEF Placed, TypeOK, Clients
      <4>3. In(p, handler[x].queue) \/ handler[x].current = p
        BY <1>1, <2>1, <4>1, <4>2 DEF NobodyForgotten, InQueue, In
      <4>4. In(p, handler'[x].queue) \/ handler'[x].current = p
        BY <1>13, <4>3
      <4> QED
        BY <4>1, <4>2, <4>4
    <3> QED
      BY <3>1, <3>2
  <2>2. \A p \in introduced', x \in Registrations : ~In(p, handler'[x].queue)
    <3>1. q \notin introduced /\ introduced \subseteq Requests
      BY <1>1, <1>5 DEF Placed, TypeOK
    <3>2. \A p \in introduced, x \in Registrations : ~In(p, handler[x].queue)
      BY <1>1 DEF NobodyForgotten, InQueue, In
    <3> QED
      BY <1>3, <1>13, <3>1, <3>2
  <2> QED
    BY <1>13, <2>1, <2>2 DEF NobodyForgotten, Distinct, InQueue, In
<1>18. ASSUME NEW p \in Requests
       PROVE  /\ Admitted(p)' <=> Admitted(p)
              /\ request'[p].nonce = request[p].nonce
              /\ request'[p].sequence = request[p].sequence
  BY <1>5, <1>10, <1>12, <1>14 DEF Admitted
<1>19. introduced' \subseteq Requests /\ UNCHANGED <<expired, record, used, table, stop>>
  BY <1>1, <1>3 DEF TypeOK
<1> QED
  BY <1>9, <1>11, <1>12, <1>16, <1>17, <1>18, <1>19, PlacesStep

\* A request in a step of session r, which makes it h.
MovedOn(p, r, h) ==
    /\ request'[p].at = request[p].at /\ request'[p].session = request[p].session
    /\ request'[p].nonce = request[p].nonce
    /\ request'[p].sequence = request[p].sequence
    /\ In(p, h.queue) => In(p, handler[r].queue)
    /\ h.current = p => In(p, handler[r].queue) \/ handler[r].current = p
    /\ ~(In(p, h.queue) /\ h.current = p)
    /\ request'[p].at = "wait" /\ request'[p].delivery = "none" =>
         /\ request[p].delivery = "none"
         /\ In(p, handler[r].queue) \/ handler[r].current = p =>
              In(p, h.queue) \/ h.current = p

\* Nothing enters the queue of a session, and what leaves its places is answered,
\* was not waited for, or is on its way to the host.
LEMMA SessionStep ==
    ASSUME IInv, NEW r \in Registrations, NEW h \in Handlers,
           handler' = [handler EXCEPT ![r] = h],
           request' \in [Requests -> Clients],
           UNCHANGED <<expired, record, used, table, stop>>,
           h.sequence = handler[r].sequence, handler[r].closed => h.closed,
           h.at \in Served => handler[r].at \in Served,
           h.at \notin {"idle", "done"},
           h.current # None <=> h.at \in {"send", "await"},
           Distinct(h.queue),
           \A p \in Requests : MovedOn(p, r, h),
           introduced' \subseteq Requests,
           \A p \in introduced' : p \in introduced \/ p = handler[r].current
    PROVE  IInv'
<1> USE DEF MovedOn
<1>1. TypeOK /\ Remembered /\ Unique /\ Tabled /\ Placed /\ NobodyForgotten
  BY DEF IInv
<1>2. handler'[r] = h /\ \A x \in Registrations \ {r} : handler'[x] = handler[x]
  BY <1>1 DEF TypeOK
<1>3. \A p \in Requests : (Handed(p)' <=> Handed(p)) /\ (Admitted(p)' <=> Admitted(p))
  BY DEF Handed, Admitted
\* Placed and NobodyForgotten, in terms of In.
<1>4. /\ \A p \in Requests, x \in Registrations :
            In(p, handler[x].queue) \/ handler[x].current = p => Handed(p)
      /\ \A p \in Requests, x, y \in Registrations :
            /\ In(p, handler[x].queue) /\ In(p, handler[y].queue) => x = y
            /\ ~(In(p, handler[x].queue) /\ handler[y].current = p)
            /\ handler[x].current = p /\ handler[y].current = p => x = y
      /\ \A p \in introduced : Handed(p)
      /\ \A p \in introduced, x \in Registrations : ~In(p, handler[x].queue)
      /\ \A x \in Registrations : Distinct(handler[x].queue)
  BY <1>1 DEF Placed, NobodyForgotten, InQueue, In, Distinct, TypeOK
<1>5. \A p \in Requests, x \in Registrations :
         /\ In(p, handler'[x].queue) => In(p, handler[x].queue)
         /\ handler'[x].current = p => handler[x].current = p \/ (x = r /\ In(p, handler[x].queue))
  <2>1. SUFFICES ASSUME NEW p \in Requests, NEW x \in Registrations
                 PROVE  /\ In(p, handler'[x].queue) => In(p, handler[x].queue)
                        /\ handler'[x].current = p =>
                             handler[x].current = p \/ (x = r /\ In(p, handler[x].queue))
    BY Zenon
  <2>2. CASE x = r
    BY <1>2, <2>2
  <2>3. CASE x # r
    BY <1>2, <2>3
  <2> QED
    BY <2>2, <2>3
<1>6. Placed'
  <2>1. ASSUME NEW p \in Requests
        PROVE  /\ p \in introduced' => Handed(p)'
               /\ \A x \in Registrations :
                    In(p, handler'[x].queue) \/ handler'[x].current = p => Handed(p)'
               /\ request'[p].at \in {"put", "wait"} => request'[p].session # None
    <3>1. p \in introduced' => Handed(p)'
      BY <1>3, <1>4
    <3>2. \A x \in Registrations :
            In(p, handler'[x].queue) \/ handler'[x].current = p => Handed(p)'
      BY <1>3, <1>4, <1>5
    <3>3. request'[p].at \in {"put", "wait"} => request'[p].session # None
      BY <1>1 DEF Placed
    <3> QED
      BY <3>1, <3>2, <3>3
  <2>2. ASSUME NEW p \in Requests, NEW x \in Registrations, NEW y \in Registrations
        PROVE  /\ In(p, handler'[x].queue) /\ In(p, handler'[y].queue) => x = y
               /\ ~(In(p, handler'[x].queue) /\ handler'[y].current = p)
               /\ handler'[x].current = p /\ handler'[y].current = p => x = y
    <3>1. In(p, handler'[x].queue) /\ In(p, handler'[y].queue) => x = y
      BY <1>4, <1>5
    <3>2. ASSUME In(p, handler'[x].queue), handler'[y].current = p
          PROVE  FALSE
      <4>1. In(p, handler[x].queue)
        BY <1>5, <3>2
      <4>2. y = r /\ In(p, handler[y].queue)
        BY <1>4, <1>5, <3>2, <4>1
      <4>3. x = r
        BY <1>4, <4>1, <4>2
      <4> QED
        BY <1>2, <3>2, <4>2, <4>3
    <3>3. handler'[x].current = p /\ handler'[y].current = p => x = y
      BY <1>4, <1>5
    <3> QED
      BY <3>1, <3>2, <3>3
  <2>3. \A x \in Registrations : handler'[x].current # None <=> handler'[x].at \in {"send", "await"}
    BY <1>1, <1>2 DEF Placed
  <2> QED
    BY <2>1, <2>2, <2>3 DEF Placed, InQueue, In
<1>7. NobodyForgotten'
  <2>1. ASSUME NEW p \in Requests, request'[p].at = "wait", request'[p].delivery = "none"
        PROVE  \/ In(p, handler'[request'[p].session].queue)
               \/ handler'[request'[p].session].current = p
    <3>1. request[p].at = "wait" /\ request[p].delivery = "none"
          /\ request'[p].session = request[p].session
      BY <2>1
    <3>2. PICK x \in Registrations : x = request[p].session
      BY <1>1, <3>1 DEF Placed, TypeOK, Clients
    <3>3. In(p, handler[x].queue) \/ handler[x].current = p
      BY <1>1, <3>1, <3>2 DEF NobodyForgotten, InQueue, In
    <3>4. In(p, handler'[x].queue) \/ handler'[x].current = p
      <4>1. CASE x = r
        BY <1>2, <2>1, <3>3, <4>1
      <4>2. CASE x # r
        BY <1>2, <3>3, <4>2
      <4> QED
        BY <4>1, <4>2
    <3> QED
      BY <3>1, <3>2, <3>4
  <2>2. ASSUME NEW p \in introduced', NEW x \in Registrations, In(p, handler'[x].queue)
        PROVE  FALSE
    <3>1. p \in Requests /\ In(p, handler[x].queue)
      BY <1>5, <2>2
    <3> QED
      BY <1>4, <2>2, <3>1
  <2>3. \A x \in Registrations : Distinct(handler'[x].queue)
    BY <1>2, <1>4
  <2> QED
    BY <2>1, <2>2, <2>3 DEF NobodyForgotten, Distinct, InQueue, In
<1> QED
  BY <1>3, <1>6, <1>7, PlacesStep

\* What the places of a session are before a step.
LEMMA PlacesOf ==
    ASSUME IInv, NEW r \in Registrations
    PROVE  /\ handler[r] \in Handlers /\ handler[r].queue \in Seq(Requests \cup {None})
           /\ Distinct(handler[r].queue) /\ None \notin Requests
           /\ request \in [Requests -> Clients] /\ introduced \subseteq Requests
           /\ handler[r].current # None <=> handler[r].at \in {"send", "await"}
           /\ handler[r].current \in Requests \cup {None}
           /\ \A p \in Requests : ~(In(p, handler[r].queue) /\ handler[r].current = p)
<1>1. TypeOK /\ Placed /\ NobodyForgotten
  BY DEF IInv
<1>2. handler[r] \in Handlers /\ handler[r].queue \in Seq(Requests \cup {None})
  BY <1>1, HandlerType
<1>3. Distinct(handler[r].queue)
  BY <1>1 DEF NobodyForgotten, Distinct
<1>4. handler[r].current # None <=> handler[r].at \in {"send", "await"}
  BY <1>1 DEF Placed
<1>5. \A p \in Requests : ~(In(p, handler[r].queue) /\ handler[r].current = p)
  BY <1>1 DEF Placed, InQueue, In
<1>6. handler[r].current \in Requests \cup {None}
  BY <1>2 DEF Handlers
<1> QED
  BY <1>1, <1>2, <1>3, <1>4, <1>5, <1>6, IntroductionAssumption DEF TypeOK

\* The next delivery becomes the current one, or the thread is woken to end.
LEMMA TakeStep ==
    ASSUME IInv, NEW r \in Registrations, Take(r)
    PROVE  IInv'
<1> DEFINE d == Head(handler[r].queue)
           t == Tail(handler[r].queue)
           f == [handler[r] EXCEPT !.queue = t]
           e == [f EXCEPT !.at = "drain"]
           n == [f EXCEPT !.at = "send"]
           h == IF d = None THEN [e EXCEPT !.closed = TRUE] ELSE [n EXCEPT !.current = d]
<1>1. /\ handler[r] \in Handlers /\ handler[r].queue \in Seq(Requests \cup {None})
      /\ Distinct(handler[r].queue) /\ None \notin Requests
      /\ request \in [Requests -> Clients] /\ introduced \subseteq Requests
      /\ handler[r].current # None <=> handler[r].at \in {"send", "await"}
  BY PlacesOf
<1>2. /\ handler[r].at = "loop" /\ handler[r].queue # <<>>
      /\ UNCHANGED <<expired, record, used, table, stop, request, introduced>>
  BY DEF Take, Step
<1>3. handler' = [handler EXCEPT ![r] = h]
  BY Zenon DEF Take, Step
<1>4. /\ d \in Requests \cup {None} /\ t \in Seq(Requests \cup {None}) /\ Distinct(t)
      /\ \A y : In(y, handler[r].queue) <=> In(y, t) \/ y = d
      /\ d = None \/ ~In(d, t)
  BY <1>1, <1>2, TailLemma
<1> HIDE DEF d, t
<1>5. /\ f \in Handlers /\ f.queue = t /\ f.current = None /\ f.at = "loop"
      /\ f.sequence = handler[r].sequence /\ f.closed = handler[r].closed
  BY <1>1, <1>2, <1>4 DEF Handlers
<1> HIDE DEF f
<1>6. /\ e \in Handlers /\ e.queue = t /\ e.current = None /\ e.at = "drain"
      /\ e.sequence = handler[r].sequence
      /\ n \in Handlers /\ n.queue = t /\ n.at = "send"
      /\ n.sequence = handler[r].sequence /\ n.closed = handler[r].closed
  BY <1>5 DEF Handlers
<1> HIDE DEF e, n
<1>7. CASE d = None
  <2>1. /\ h \in Handlers /\ h.queue = t /\ h.current = None /\ h.at = "drain"
        /\ h.sequence = handler[r].sequence /\ h.closed
    BY <1>6, <1>7 DEF Handlers
  <2> HIDE DEF h
  <2>2. \A p \in Requests : MovedOn(p, r, h)
    BY <1>1, <1>2, <1>4, <1>7, <2>1 DEF MovedOn
  <2> QED
    BY <1>1, <1>2, <1>3, <1>4, <2>1, <2>2, SessionStep DEF Served
<1>8. CASE d # None
  <2>1. /\ h \in Handlers /\ h.queue = t /\ h.current = d /\ h.at = "send"
        /\ h.sequence = handler[r].sequence /\ h.closed = handler[r].closed
    BY <1>4, <1>6, <1>8 DEF Handlers
  <2> HIDE DEF h
  <2>2. \A p \in Requests : MovedOn(p, r, h)
    BY <1>1, <1>2, <1>4, <1>8, <2>1 DEF MovedOn
  <2> QED
    BY <1>1, <1>2, <1>3, <1>4, <1>8, <2>1, <2>2, SessionStep DEF Served
<1> QED
  BY <1>7, <1>8

LEMMA SendStep ==
    ASSUME IInv, NEW r \in Registrations, Send(r)
    PROVE  IInv'
<1> DEFINE h == [handler[r] EXCEPT !.at = "await"]
<1>1. /\ handler[r] \in Handlers /\ Distinct(handler[r].queue) /\ None \notin Requests
      /\ request \in [Requests -> Clients] /\ introduced \subseteq Requests
      /\ handler[r].current # None <=> handler[r].at \in {"send", "await"}
      /\ handler[r].current \in Requests \cup {None}
      /\ \A p \in Requests : ~(In(p, handler[r].queue) /\ handler[r].current = p)
  BY PlacesOf
<1>2. /\ handler[r].at = "send" /\ introduced' = introduced \cup {handler[r].current}
      /\ UNCHANGED <<expired, record, used, table, stop, request>>
      /\ handler' = [handler EXCEPT ![r] = h]
  BY DEF Send, Step
<1>3. /\ h \in Handlers /\ h.queue = handler[r].queue /\ h.current = handler[r].current
      /\ h.at = "await" /\ h.sequence = handler[r].sequence /\ h.closed = handler[r].closed
  BY <1>1 DEF Handlers
<1> HIDE DEF h
<1>4. \A p \in Requests : MovedOn(p, r, h)
  BY <1>1, <1>2, <1>3 DEF MovedOn
<1>5. introduced' \subseteq Requests
  BY <1>1, <1>2
<1> QED
  BY <1>1, <1>2, <1>3, <1>4, <1>5, SessionStep DEF Served

\* What Tell leaves alone.
LEMMA TellLemma ==
    ASSUME request \in [Requests -> Clients], NEW d, NEW outcome \in {"result", "error"},
           Tell(d, outcome)
    PROVE  /\ request' \in [Requests -> Clients]
           /\ \A p \in Requests :
                 /\ request'[p].at = request[p].at /\ request'[p].session = request[p].session
                 /\ request'[p].nonce = request[p].nonce
                 /\ request'[p].sequence = request[p].sequence
                 /\ request'[p].at = "wait" /\ request'[p].delivery = "none" =>
                      p # d /\ request[p].delivery = "none"
<1>1. request' = [x \in Requests |->
                    IF x = d /\ request[x].at = "wait"
                    THEN [request[x] EXCEPT !.delivery = outcome] ELSE request[x]]
  BY DEF Tell
<1>2. ASSUME NEW p \in Requests
      PROVE  /\ request'[p] \in Clients
             /\ request'[p].at = request[p].at /\ request'[p].session = request[p].session
             /\ request'[p].nonce = request[p].nonce
             /\ request'[p].sequence = request[p].sequence
             /\ request'[p].at = "wait" /\ request'[p].delivery = "none" =>
                  p # d /\ request[p].delivery = "none"
  <2>1. request[p] \in Clients
    OBVIOUS
  <2>2. CASE p = d /\ request[p].at = "wait"
    <3>1. request'[p] = [request[p] EXCEPT !.delivery = outcome]
      BY <1>1, <2>2
    <3> QED
      BY <2>1, <3>1 DEF Clients
  <2>3. CASE ~(p = d /\ request[p].at = "wait")
    <3>1. request'[p] = request[p]
      BY <1>1, <2>3
    <3> QED
      BY <2>1, <2>3, <3>1
  <2> QED
    BY <2>2, <2>3
<1> QED
  BY <1>1, <1>2

LEMMA DeliveredStep ==
    ASSUME IInv, NEW r \in Registrations, handler[r].at \in {"send", "await"},
           NEW outcome \in {"result", "error"}, NEW channel \in {"up", "failed", "closed"},
           Delivered(r, outcome, channel)
    PROVE  IInv'
<1> DEFINE d == handler[r].current
           f == [handler[r] EXCEPT !.at = "loop"]
           g == [f EXCEPT !.current = None]
           h == [g EXCEPT !.channel = channel]
<1>1. /\ handler[r] \in Handlers /\ Distinct(handler[r].queue) /\ None \notin Requests
      /\ request \in [Requests -> Clients] /\ introduced \subseteq Requests
      /\ d \in Requests \cup {None} /\ d # None
      /\ \A p \in Requests : ~(In(p, handler[r].queue) /\ d = p)
  BY PlacesOf
<1>2. /\ Tell(d, outcome)
      /\ UNCHANGED <<expired, record, used, table, stop, introduced>>
  BY DEF Delivered, Step
<1>3. handler' = [handler EXCEPT ![r] = h]
  BY Zenon DEF Delivered, Step
<1>4. /\ f \in Handlers /\ f.queue = handler[r].queue /\ f.at = "loop"
      /\ f.sequence = handler[r].sequence /\ f.closed = handler[r].closed
  BY <1>1 DEF Handlers
<1> HIDE DEF f
<1>5. /\ g \in Handlers /\ g.queue = handler[r].queue /\ g.at = "loop" /\ g.current = None
      /\ g.sequence = handler[r].sequence /\ g.closed = handler[r].closed
  BY <1>4 DEF Handlers
<1> HIDE DEF g
<1>6. /\ h \in Handlers /\ h.queue = handler[r].queue /\ h.at = "loop" /\ h.current = None
      /\ h.sequence = handler[r].sequence /\ h.closed = handler[r].closed
  BY <1>5 DEF Handlers
<1> HIDE DEF h
<1>7. /\ request' \in [Requests -> Clients]
      /\ \A p \in Requests :
            /\ request'[p].at = request[p].at /\ request'[p].session = request[p].session
            /\ request'[p].nonce = request[p].nonce
            /\ request'[p].sequence = request[p].sequence
            /\ request'[p].at = "wait" /\ request'[p].delivery = "none" =>
                 p # d /\ request[p].delivery = "none"
  BY <1>1, <1>2, TellLemma
<1>8. \A p \in Requests : MovedOn(p, r, h)
  BY <1>1, <1>6, <1>7 DEF MovedOn
<1> QED
  BY <1>1, <1>2, <1>3, <1>6, <1>7, <1>8, SessionStep DEF Served

LEMMA SendFailsStep ==
    ASSUME IInv, NEW r \in Registrations, SendFails(r)
    PROVE  IInv'
<1>1. handler[r].at = "send" /\ Delivered(r, "error", handler[r].channel)
  BY DEF SendFails
<1>2. handler[r].channel \in {"up", "failed", "closed"}
  BY PlacesOf DEF Handlers
<1> QED
  BY <1>1, <1>2, DeliveredStep

LEMMA ReceiveStep ==
    ASSUME IInv, NEW r \in Registrations, Receive(r)
    PROVE  IInv'
<1>1. handler[r].at = "await"
  BY DEF Receive
<1>2. handler[r].channel \in {"up", "failed", "closed"}
  BY PlacesOf DEF Handlers
<1>3. CASE \E outcome \in {"result", "error"} : Delivered(r, outcome, "up")
  BY <1>1, <1>3, DeliveredStep
<1>4. CASE Delivered(r, "error", IF handler[r].channel = "up" THEN "failed" ELSE handler[r].channel)
  <2> DEFINE channel == IF handler[r].channel = "up" THEN "failed" ELSE handler[r].channel
  <2>1. channel \in {"up", "failed", "closed"}
    BY <1>2
  <2>2. Delivered(r, "error", channel)
    BY <1>4
  <2> HIDE DEF channel
  <2> QED
    BY <1>1, <2>1, <2>2, DeliveredStep
<1> QED
  BY <1>3, <1>4 DEF Receive

\* Whoever is found in the queue of a session that ended is told.
LEMMA DrainStep ==
    ASSUME IInv, NEW r \in Registrations, Drain(r)
    PROVE  IInv'
<1> DEFINE d == Head(handler[r].queue)
           t == Tail(handler[r].queue)
           h == [handler[r] EXCEPT !.queue = t]
<1>1. /\ handler[r] \in Handlers /\ handler[r].queue \in Seq(Requests \cup {None})
      /\ Distinct(handler[r].queue) /\ None \notin Requests
      /\ request \in [Requests -> Clients] /\ introduced \subseteq Requests
      /\ handler[r].current # None <=> handler[r].at \in {"send", "await"}
  BY PlacesOf
<1>2. /\ handler[r].at = "drain" /\ handler[r].queue # <<>> /\ Tell(d, "error")
      /\ UNCHANGED <<expired, record, used, table, stop, introduced>>
      /\ handler' = [handler EXCEPT ![r] = h]
  BY DEF Drain, Step
<1>3. /\ t \in Seq(Requests \cup {None}) /\ Distinct(t)
      /\ \A y : In(y, handler[r].queue) <=> In(y, t) \/ y = d
  BY <1>1, <1>2, TailLemma
<1> HIDE DEF d, t
<1>4. /\ h \in Handlers /\ h.queue = t /\ h.current = None /\ h.at = "drain"
      /\ h.sequence = handler[r].sequence /\ h.closed = handler[r].closed
  BY <1>1, <1>2, <1>3 DEF Handlers
<1> HIDE DEF h
<1>5. /\ request' \in [Requests -> Clients]
      /\ \A p \in Requests :
            /\ request'[p].at = request[p].at /\ request'[p].session = request[p].session
            /\ request'[p].nonce = request[p].nonce
            /\ request'[p].sequence = request[p].sequence
            /\ request'[p].at = "wait" /\ request'[p].delivery = "none" =>
                 p # d /\ request[p].delivery = "none"
  BY <1>1, <1>2, TellLemma
<1>6. handler[r].current = None
  BY <1>1, <1>2
<1>7. \A p \in Requests : MovedOn(p, r, h)
  BY <1>1, <1>3, <1>4, <1>5, <1>6 DEF MovedOn
<1> QED
  BY <1>1, <1>2, <1>3, <1>4, <1>5, <1>7, SessionStep DEF Served

-----------------------------------------------------------------------------
(* The theorems                                                            *)

THEOREM InitIInv == Init => IInv
<1> SUFFICES ASSUME Init
             PROVE  IInv
  OBVIOUS
<1> USE IntroductionAssumption DEF Init
<1>1. TypeOK
  <2>1. \A r \in Registrations : handler[r] \in Handlers
    <3>1. <<>> \in Seq(Requests \cup {None}) /\ 0 \in 0 .. MaxSequence
      OBVIOUS
    <3> QED
      BY <3>1 DEF Handlers
  <2>2. \A q \in Requests : request[q] \in Clients
    BY DEF Clients
  <2>3. handler \in [Registrations -> Handlers] /\ request \in [Requests -> Clients]
    BY <2>1, <2>2
  <2>4. expired = 0 /\ record = 0 /\ used = {} /\ table = None /\ stop = "no" /\ introduced = {}
    OBVIOUS
  <2> HIDE DEF Init
  <2> QED
    BY <2>3, <2>4 DEF TypeOK
<1>2. Remembered /\ Unique
  BY DEF Remembered, Unique, Admitted
<1>3. Tabled
  BY DEF Tabled, Serving
<1>4. \A r \in Registrations : handler[r].queue = <<>> /\ handler[r].current = None
                               /\ handler[r].at = "idle"
  OBVIOUS
<1>5. \A q \in Requests, r \in Registrations : ~InQueue(q, r)
  BY <1>4 DEF InQueue
<1>6. Placed
  BY <1>4, <1>5 DEF Placed, Handed
<1>7. NobodyForgotten
  BY <1>4, <1>5 DEF NobodyForgotten
<1> QED
  BY <1>1, <1>2, <1>3, <1>6, <1>7 DEF IInv

\* Every step of a thread, of the node or of time keeps the invariant.
THEOREM NextIInv == IInv /\ [Next]_vars => IInv'
<1> SUFFICES ASSUME IInv, [Next]_vars
             PROVE  IInv'
  OBVIOUS
<1>1. ASSUME NEW r \in Registrations, NEW n \in Sequence,
             Register(r, n) \/ RefuseRegistration(r, n)
      PROVE  IInv'
  BY <1>1, RegisterStep, RefuseRegistrationStep
<1>2. ASSUME NEW r \in Registrations,
             \/ Reply(r) \/ LoopEnds(r) \/ HeartbeatFails(r) \/ Break(r) \/ Forget(r)
      PROVE  IInv'
  BY <1>2, ReplyStep, LoopEndsStep, HeartbeatFailsStep, BreakStep, ForgetStep
<1>3. ASSUME NEW r \in Registrations,
             \/ Take(r) \/ Send(r) \/ SendFails(r) \/ Receive(r) \/ Drain(r)
      PROVE  IInv'
  BY <1>3, TakeStep, SendStep, SendFailsStep, ReceiveStep, DrainStep
<1>4. ASSUME NEW q \in Requests, NEW n \in Sequence, NEW nonce \in Nonces,
             Authorize(q, n, nonce) \/ RefuseRequest(q, n, nonce)
      PROVE  IInv'
  BY <1>4, AuthorizeStep, RefuseRequestStep
<1>5. ASSUME NEW q \in Requests,
             \/ Check(q) \/ Put(q) \/ PutTimesOut(q) \/ Answered(q) \/ DeliveryTimesOut(q)
      PROVE  IInv'
  BY <1>5, CheckStep, PutStep, PutTimesOutStep, AnsweredStep, DeliveryTimesOutStep
<1>6. CASE AskToStop \/ TellToStop \/ Expire
  BY <1>6, AskToStopStep, TellToStopStep, ExpireStep
<1>7. CASE UNCHANGED vars
  BY <1>7 DEF IInv, vars, TypeOK, Remembered, Unique, Tabled, Placed, NobodyForgotten,
              Admitted, Handed, Serving, InQueue
<1> QED
  BY <1>1, <1>2, <1>3, <1>4, <1>5, <1>6, <1>7 DEF Next

\* The inductive invariant holds of every behaviour of an introduction point.
THEOREM AlwaysIInv == Spec => []IInv
  BY InitIInv, NextIInv, PTL DEF Spec

\* SingleUse: what was introduced was admitted, and no two requests were admitted
\* with the same nonce under the same token.
THEOREM AlwaysSingleUse == Spec => []SingleUse
<1>1. IInv => SingleUse
  BY DEF IInv, Unique, Placed, SingleUse, Handed, Admitted, TypeOK
<1> QED
  BY <1>1, AlwaysIInv, PTL

\* SessionInForce: the table, when the descriptor of the record has not expired.
THEOREM AlwaysSessionInForce == Spec => []SessionInForce
<1>1. IInv => SessionInForce
  <2>1. SUFFICES ASSUME IInv
                 PROVE  SessionInForce
    OBVIOUS
  <2>2. TypeOK /\ Tabled
    BY <2>1 DEF IInv
  <2>3. ASSUME table # None, LiveRecord # 0
        PROVE  handler[table].sequence = LiveRecord
    <3>1. LiveRecord = record
      BY <2>3 DEF LiveRecord
    <3> QED
      BY <2>2, <2>3, <3>1 DEF Tabled
  <2> QED
    BY <2>2, <2>3 DEF SessionInForce, Tabled
<1> QED
  BY <1>1, AlwaysIInv, PTL

\* NobodyForgotten is a part of the inductive invariant.
THEOREM AlwaysNobodyForgotten == Spec => []NobodyForgotten
<1>1. IInv => NobodyForgotten
  BY DEF IInv
<1> QED
  BY <1>1, AlwaysIInv, PTL

=============================================================================
