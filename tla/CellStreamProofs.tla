--------------------------- MODULE CellStreamProofs ---------------------------
(***************************************************************************)
(* The safety properties of CellStream, for every number of streams, every *)
(* window and budget, and every capacity of the channel.                   *)
(*                                                                         *)
(* Three sums run through the proof: what the cells on the way from an end *)
(* carry for a stream, what they carry ahead of the CLOSE among them, and  *)
(* what the streams of an end hold of its receive budget.  The first part  *)
(* proves what such sums do when a queue or a stream changes.              *)
(***************************************************************************)
EXTENDS CellStream, FiniteSetTheorems, WellFoundedInduction, TLAPS

\* The places in the queue of end e that hold a cell of stream s and of the types.
At(e, s, types) ==
    {i \in 1 .. Len(cells[e]) : cells[e][i].id = s /\ cells[e][i].type \in types}

Opens(e, s)  == At(e, s, {"OPEN"})
Acks(e, s)   == At(e, s, {"ACK"})
Closes(e, s) == At(e, s, {"CLOSE"})
Byes(e, s)   == At(e, s, {"CLOSE", "RESET"})
All(e, s)    == {i \in 1 .. Len(cells[e]) : cells[e][i].id = s}

\* What they carry: data, data in the first n cells, and credit.
Data(e, s)     == OnTheWay(e, s, {"DATA"})
Ahead(e, s, n) == Total(Carried(cells[e], s, {"DATA"}), n)
Granted(e, s)  == OnTheWay(e, s, {"OPEN", "ACK", "WINDOW_UPDATE"})

\* Accounted, in these terms.
Window(e, s) ==
    LET r == streams[e][s]
        p == streams[Peer(e)][s]
    IN  r.credit + r.chunk + Data(e, s) + p.buffer + p.taken + Granted(Peer(e), s)
          + IF mux[Peer(e)].acking = s THEN StreamWindow ELSE 0

\* What a stream holds of the budget: unread, or read and not yet given back.
Held(r) == r.buffer + IF r.receiver = "Taken" THEN r.taken ELSE 0

\* What recv() has taken from the buffer: returned, dropped, or still in its hands.
Recvd(r) == r.received + r.dropped + r.taken

HeldBy(e) == [s \in Ids |-> Held(streams[e][s])]

-----------------------------------------------------------------------------
(* The inductive invariant *)

\* A record of end e, by itself.
Sane(e, r) ==
    /\ r \in StreamRecords
    /\ ~r.registered => r = Unregistered
    /\ r.sender # "Sending" => r.chunk = 0
    /\ r.receiver \notin {"Taken", "Released"} => r.taken = 0
    /\ r.localClosed \/ r.error # "None" => r.buffer = 0
    /\ r.farewell # "None" => r.localClosed
    /\ r.sender \in {"Opening", "AwaitingOpen", "OpenAsleep"} =>
          ~r.localClosed /\ e = "Initiator"
    /\ r.sender \in {"None", "Opening", "AwaitingOpen", "OpenAsleep"} => r.receiver = "None"
    /\ r.registered /\ e = "Acceptor" => r.open
    /\ r.sent + r.chunk <= MaxUnits
    /\ r.eof => r.remoteClosed /\ r.buffer = 0 /\ r.taken = 0
    /\ r.error \notin {"OpenAck", "Window", "Credit"}

\* A record whose threads sleep only as long as they must.
Wakeful(r) ==
    /\ r.sender = "Asleep" => r.credit = 0 /\ ~r.localClosed /\ ~r.remoteClosed
    /\ r.receiver = "Asleep" => r.buffer = 0 /\ ~r.localClosed /\ ~r.remoteClosed
    /\ r.sender = "OpenAsleep" => ~r.open
    /\ r.receiver = "Asleep" \/ r.sender \in {"Asleep", "OpenAsleep"} => r.error = "None"

\* A record that takes what its peer sends.
Hears(r) == r.error = "None" /\ ~r.localClosed

Typed ==
    /\ mux \in [Ends -> MuxRecords]
    /\ streams \in [Ends -> [Ids -> StreamRecords]]
    /\ cells \in [Ends -> Seq(Cells)]
    /\ \A e \in Ends :
        /\ Len(cells[e]) <= Capacity
        /\ mux[e].cause # "Protocol"
        /\ \A i \in 1 .. Len(cells[e]) :
            /\ cells[e][i].type \in {"OPEN", "ACK"} => cells[e][i].count = StreamWindow
            /\ cells[e][i].type = "DATA" => cells[e][i].count = 1

\* OPEN is the first cell of a stream, it is sent once and only by the initiator;
\* the acceptor knows the stream or OPEN is on its way; and until the acceptor
\* knows it nothing comes of it.
Opened(s) ==
    LET i == streams["Initiator"][s]
        a == streams["Acceptor"][s]
    IN  /\ a.registered => Opens("Initiator", s) = {}
        /\ a.registered \/ All("Initiator", s) # {} =>
              i.registered /\ i.sender # "Opening"
        /\ \/ i.registered /\ i.sender # "Opening" /\ ~CannotSend("Initiator")
           \/ All("Initiator", s) # {}
           => a.registered \/ Opens("Initiator", s) # {}
        /\ \A j \in Opens("Initiator", s), k \in All("Initiator", s) : j <= k
        /\ ~a.registered =>
              /\ ~i.open /\ i.credit = 0 /\ i.chunk = 0 /\ i.buffer = 0 /\ i.taken = 0
              /\ Data("Initiator", s) = 0 /\ Data("Acceptor", s) = 0
              /\ Granted("Acceptor", s) = 0 /\ All("Acceptor", s) = {}
        /\ ~i.registered \/ i.sender = "Opening" => Granted("Initiator", s) = 0

\* A stream is acknowledged once, and is not open before.
Acknowledged(s) ==
    /\ Acks("Initiator", s) = {} /\ Opens("Acceptor", s) = {}
    /\ mux["Initiator"].acking = 0
    /\ mux["Acceptor"].acking = s =>
          streams["Acceptor"][s].registered /\ Acks("Acceptor", s) = {}
    /\ mux["Acceptor"].acking = s \/ Acks("Acceptor", s) # {} =>
          ~streams["Initiator"][s].open
    /\ \A j, k \in Acks("Acceptor", s) : j = k

\* No window is exceeded, and none that still counts is lost in part.
Accounts(e, s) ==
    LET p == streams[Peer(e)][s]
    IN  /\ Window(e, s) <= StreamWindow
        /\ p.registered /\ p.sender # "Opening" /\ Hears(p) /\ ~p.remoteClosed
              /\ ~CannotSend("Initiator") /\ ~CannotSend("Acceptor")
              => Window(e, s) >= StreamWindow

\* What was sent has been through recv(), is unread or is on the way, or the receiver does
\* not want it.
Delivered(e, s) ==
    LET p   == streams[Peer(e)][s]
        got == Recvd(p) + p.buffer + Data(e, s)
    IN  /\ got <= streams[e][s].sent
        /\ Hears(p) /\ ~p.remoteClosed => got = streams[e][s].sent

\* One farewell is sent, after which "final" stays, and it comes behind all that
\* "final" counts.
Ended(e, s) ==
    LET r == streams[e][s]
        p == streams[Peer(e)][s]
    IN  /\ Byes(e, s) # {} \/ p.remoteClosed => r.localClosed /\ r.farewell = "None"
        /\ p.remoteClosed => Byes(e, s) = {}
        /\ \A j, k \in Byes(e, s) : j = k
        /\ Hears(p) =>
              /\ \A j \in Closes(e, s) :
                    Recvd(p) + p.buffer + Ahead(e, s, j) = r.final
              /\ p.remoteClosed => Recvd(p) + p.buffer = r.final
        /\ p.eof => Recvd(p) = r.final

\* The budget is what the streams hold.
Budgeted(e) == mux[e].used = Total(HeldBy(e), MaxStreams)

\* A stream of a multiplexer that failed is still to be failed, or was, or its
\* reader is about to end.  Nobody sleeps on it but in the first case.
Failing(e, s) ==
    LET r == streams[e][s]
    IN  /\ s \in mux[e].toFail => r.registered
        /\ Failed(e) /\ r.registered /\ s \notin mux[e].toFail =>
              /\ r.buffer = 0
              /\ r.error # "None" \/ mux[e].acking = s \/ ~mux[e].reading
              /\ r.receiver # "Asleep" /\ r.sender \notin {"Asleep", "OpenAsleep"}

IInv ==
    /\ Typed
    /\ \A s \in Ids : Opened(s) /\ Acknowledged(s)
    /\ \A e \in Ends : Budgeted(e)
    /\ \A e \in Ends, s \in Ids :
        /\ Sane(e, streams[e][s]) /\ Wakeful(streams[e][s])
        /\ Accounts(e, s) /\ Delivered(e, s) /\ Ended(e, s) /\ Failing(e, s)

-----------------------------------------------------------------------------
(* Sums *)

\* Induction over the natural numbers, stated for a set: it has no least number
\* that is missing.
LEMMA SetInduction ==
  ASSUME NEW S, 0 \in S, \A n \in Nat : n \in S => n + 1 \in S
  PROVE  \A n \in Nat : n \in S
<1> DEFINE T == Nat \ S
<1>0. SUFFICES ASSUME T # {} PROVE FALSE
  OBVIOUS
<1>1. IsWellFoundedOn(OpToRel(<, Nat), Nat)
  BY NatLessThanWellFounded, Zenon
<1>2. PICK x \in T : \A y \in T : ~(<<y, x>> \in OpToRel(<, Nat))
  BY <1>0, <1>1, WFMin, Zenon
<1>3. \A y \in T : ~(y < x)
  BY <1>2 DEF OpToRel
<1>4. x - 1 \in Nat /\ x - 1 \notin T
  BY <1>3
<1>5. QED
  BY <1>4

\* sum is a function as the definition of Total chooses one.
IsSum(sum, w, n) == sum = [i \in 0 .. n |-> IF i = 0 THEN 0 ELSE sum[i - 1] + w[i]]

\* There is such a function ...
LEMMA SumExists ==
  ASSUME NEW w, NEW n \in Nat, \A i \in 1 .. n : w[i] \in Nat
  PROVE  \E sum \in [0 .. n -> Nat] : IsSum(sum, w, n)
<1> DEFINE S == {k \in Nat : k <= n => \E sum \in [0 .. k -> Nat] : IsSum(sum, w, k)}
<1>1. 0 \in S
  <2> DEFINE z == [i \in 0 .. 0 |-> 0]
  <2>1. z \in [0 .. 0 -> Nat]
    OBVIOUS
  <2>2. IsSum(z, w, 0)
    BY DEF IsSum
  <2> QED
    BY <2>1, <2>2
<1>2. ASSUME NEW k \in Nat, k \in S PROVE k + 1 \in S
  <2>1. SUFFICES ASSUME k + 1 <= n
                 PROVE \E sum \in [0 .. k + 1 -> Nat] : IsSum(sum, w, k + 1)
    OBVIOUS
  <2>2. PICK f \in [0 .. k -> Nat] : IsSum(f, w, k)
    BY <1>2, <2>1
  <2> DEFINE g == [i \in 0 .. k + 1 |-> IF i = k + 1 THEN f[k] + w[k + 1] ELSE f[i]]
  <2>3. w[k + 1] \in Nat
    BY <2>1
  <2>4. g \in [0 .. k + 1 -> Nat]
    BY <2>3
  <2>5. \A i \in 0 .. k : f[i] = IF i = 0 THEN 0 ELSE f[i - 1] + w[i]
    BY <2>2 DEF IsSum
  <2>6. \A i \in 0 .. k + 1 : g[i] = IF i = 0 THEN 0 ELSE g[i - 1] + w[i]
    BY <2>5
  <2>7. IsSum(g, w, k + 1)
    BY <2>6 DEF IsSum
  <2> QED
    BY <2>4, <2>7
<1> HIDE DEF S
<1>3. n \in S
  BY <1>1, <1>2, SetInduction
<1> QED
  BY <1>3 DEF S

\* ... and only one.
LEMMA SumUnique ==
  ASSUME NEW w, NEW m \in Nat, NEW n \in Nat, m <= n, NEW f, NEW g,
         IsSum(f, w, m), IsSum(g, w, n)
  PROVE  \A k \in 0 .. m : f[k] = g[k]
<1> DEFINE S == {k \in Nat : k <= m => f[k] = g[k]}
<1>a. \A i \in 0 .. m : f[i] = IF i = 0 THEN 0 ELSE f[i - 1] + w[i]
  BY DEF IsSum
<1>b. \A i \in 0 .. n : g[i] = IF i = 0 THEN 0 ELSE g[i - 1] + w[i]
  BY DEF IsSum
<1>1. 0 \in S
  BY <1>a, <1>b
<1>2. ASSUME NEW k \in Nat, k \in S PROVE k + 1 \in S
  BY <1>2, <1>a, <1>b
<1> HIDE DEF S
<1>3. \A k \in Nat : k \in S
  BY <1>1, <1>2, SetInduction
<1> QED
  BY <1>3 DEF S

\* What a sum is: the equations the recursion is meant to have.
LEMMA TotalIs ==
  ASSUME NEW w, NEW n \in Nat, \A i \in 1 .. n : w[i] \in Nat
  PROVE  /\ Total(w, n) \in Nat
         /\ Total(w, 0) = 0
         /\ \A k \in 1 .. n : Total(w, k) = Total(w, k - 1) + w[k]
<1>1. ASSUME NEW k \in 0 .. n
      PROVE \E sum \in [0 .. k -> Nat] : IsSum(sum, w, k) /\ Total(w, k) = sum[k]
  <2>0. k \in Nat /\ \A i \in 1 .. k : w[i] \in Nat
    OBVIOUS
  <2>1. PICK f \in [0 .. k -> Nat] : IsSum(f, w, k)
    BY <2>0, SumExists
  <2> DEFINE c == CHOOSE sum : sum = [i \in 0 .. k |-> IF i = 0 THEN 0 ELSE sum[i - 1] + w[i]]
  <2>2. IsSum(c, w, k)
    BY <2>1, Zenon DEF IsSum
  <2>3. Total(w, k) = c[k]
    BY Zenon DEF Total
  <2> HIDE DEF c
  <2>4. c[k] = f[k]
    BY <2>0, <2>1, <2>2, SumUnique
  <2> QED
    BY <2>1, <2>3, <2>4
<1>2. Total(w, n) \in Nat
  BY <1>1
<1>3. Total(w, 0) = 0
  <2>1. PICK f : IsSum(f, w, 0) /\ Total(w, 0) = f[0]
    BY <1>1
  <2> QED
    BY <2>1 DEF IsSum
<1>4. ASSUME NEW k \in 1 .. n PROVE Total(w, k) = Total(w, k - 1) + w[k]
  <2>1. PICK f : IsSum(f, w, k) /\ Total(w, k) = f[k]
    BY <1>1
  <2>2. PICK g : IsSum(g, w, k - 1) /\ Total(w, k - 1) = g[k - 1]
    <3>1. k - 1 \in 0 .. n
      OBVIOUS
    <3> QED
      BY <3>1, <1>1
  <2>3. g[k - 1] = f[k - 1]
    BY <2>1, <2>2, SumUnique
  <2>4. f[k] = f[k - 1] + w[k]
    BY <2>1 DEF IsSum
  <2> QED
    BY <2>1, <2>2, <2>3, <2>4
<1> QED
  BY <1>2, <1>3, <1>4

\* Weights that agree have the same sums.
LEMMA TotalAgree ==
  ASSUME NEW w, NEW v, NEW n \in Nat,
         \A i \in 1 .. n : w[i] \in Nat /\ v[i] = w[i]
  PROVE  Total(v, n) = Total(w, n)
<1> DEFINE S == {k \in Nat : k <= n => Total(v, k) = Total(w, k)}
<1>1. 0 \in S
  BY TotalIs
<1>2. ASSUME NEW k \in Nat, k \in S PROVE k + 1 \in S
  <2>1. SUFFICES ASSUME k + 1 <= n PROVE Total(v, k + 1) = Total(w, k + 1)
    OBVIOUS
  <2>2. Total(v, k) = Total(w, k)
    BY <1>2, <2>1
  <2>3. /\ Total(w, k + 1) = Total(w, (k + 1) - 1) + w[k + 1]
        /\ Total(v, k + 1) = Total(v, (k + 1) - 1) + v[k + 1]
    BY <2>1, TotalIs
  <2>4. (k + 1) - 1 = k /\ v[k + 1] = w[k + 1]
    BY <2>1
  <2> QED
    BY <2>2, <2>3, <2>4
<1> HIDE DEF S
<1>3. n \in S
  BY <1>1, <1>2, SetInduction
<1> QED
  BY <1>3 DEF S

\* What one weight gains, the sum gains.
LEMMA TotalPick ==
  ASSUME NEW w, NEW v, NEW n \in Nat, NEW x \in 1 .. n,
         \A i \in 1 .. n : w[i] \in Nat /\ v[i] \in Nat,
         \A i \in 1 .. n : i # x => v[i] = w[i]
  PROVE  Total(v, n) + w[x] = Total(w, n) + v[x]
<1> DEFINE S == {k \in Nat : k <= n =>
                    IF k < x THEN Total(v, k) = Total(w, k)
                    ELSE Total(v, k) + w[x] = Total(w, k) + v[x]}
<1>1. 0 \in S
  BY TotalIs
<1>2. ASSUME NEW k \in Nat, k \in S PROVE k + 1 \in S
  <2>1. SUFFICES ASSUME k + 1 <= n
                 PROVE IF k + 1 < x THEN Total(v, k + 1) = Total(w, k + 1)
                       ELSE Total(v, k + 1) + w[x] = Total(w, k + 1) + v[x]
    OBVIOUS
  <2>2. IF k < x THEN Total(v, k) = Total(w, k)
        ELSE Total(v, k) + w[x] = Total(w, k) + v[x]
    BY <1>2, <2>1
  <2>3. /\ Total(w, k + 1) = Total(w, k) + w[k + 1]
        /\ Total(v, k + 1) = Total(v, k) + v[k + 1]
    <3>1. (k + 1) - 1 = k /\ k + 1 \in 1 .. n
      BY <2>1
    <3> QED
      BY <3>1, TotalIs
  <2>4. Total(w, k) \in Nat /\ Total(v, k) \in Nat
    <3>1. \A i \in 1 .. k : w[i] \in Nat /\ v[i] \in Nat
      BY <2>1
    <3> QED
      BY <3>1, TotalIs
  <2>5. w[k + 1] \in Nat /\ v[k + 1] \in Nat /\ (k + 1 # x => v[k + 1] = w[k + 1])
    BY <2>1
  <2>6. w[x] \in Nat /\ v[x] \in Nat
    OBVIOUS
  <2>7. CASE k + 1 < x
    BY <2>2, <2>3, <2>4, <2>5, <2>7
  <2>8. CASE k + 1 = x
    BY <2>2, <2>3, <2>4, <2>5, <2>8
  <2>9. CASE k + 1 > x
    BY <2>2, <2>3, <2>4, <2>5, <2>6, <2>9
  <2> QED
    BY <2>7, <2>8, <2>9
<1> HIDE DEF S
<1>3. n \in S
  BY <1>1, <1>2, SetInduction
<1> QED
  BY <1>3 DEF S

\* The sum without its first weight.
LEMMA TotalTail ==
  ASSUME NEW w, NEW v, NEW n \in Nat,
         \A i \in 1 .. n + 1 : w[i] \in Nat,
         \A i \in 1 .. n : v[i] = w[i + 1]
  PROVE  Total(w, n + 1) = w[1] + Total(v, n)
<1> DEFINE S == {k \in Nat : k <= n => Total(w, k + 1) = w[1] + Total(v, k)}
<1>0. \A i \in 1 .. n : v[i] \in Nat
  OBVIOUS
<1>1. 0 \in S
  <2>1. Total(w, 1) = Total(w, 1 - 1) + w[1] /\ Total(w, 0) = 0
    BY TotalIs
  <2>2. Total(v, 0) = 0
    BY <1>0, TotalIs
  <2> QED
    BY <2>1, <2>2
<1>2. ASSUME NEW k \in Nat, k \in S PROVE k + 1 \in S
  <2>1. SUFFICES ASSUME k + 1 <= n
                 PROVE Total(w, (k + 1) + 1) = w[1] + Total(v, k + 1)
    OBVIOUS
  <2>2. Total(w, k + 1) = w[1] + Total(v, k)
    BY <1>2, <2>1
  <2>3. Total(v, k + 1) = Total(v, k) + v[k + 1]
    <3>1. (k + 1) - 1 = k /\ k + 1 \in 1 .. n
      BY <2>1
    <3> QED
      BY <1>0, <3>1, TotalIs
  <2>4. Total(w, (k + 1) + 1) = Total(w, k + 1) + w[(k + 1) + 1]
    <3>1. ((k + 1) + 1) - 1 = k + 1 /\ (k + 1) + 1 \in 1 .. n + 1
      BY <2>1
    <3> QED
      BY <3>1, TotalIs
  <2>5. v[k + 1] = w[(k + 1) + 1]
    BY <2>1
  <2>6. Total(v, k) \in Nat
    <3>1. \A i \in 1 .. k : v[i] \in Nat
      BY <1>0, <2>1
    <3> QED
      BY <3>1, TotalIs
  <2>7. w[1] \in Nat /\ w[(k + 1) + 1] \in Nat
    BY <2>1
  <2> QED
    BY <2>2, <2>3, <2>4, <2>5, <2>6, <2>7
<1> HIDE DEF S
<1>3. n \in S
  BY <1>1, <1>2, SetInduction
<1> QED
  BY <1>3 DEF S

\* What k weights of 1 add to a sum, and what k weights of 0 do.
LEMMA TotalMore ==
  ASSUME NEW w, NEW m \in Nat, NEW n \in Nat, NEW unit \in {0, 1},
         \A i \in 1 .. m + n : w[i] \in Nat,
         \A i \in m + 1 .. m + n : w[i] = unit
  PROVE  Total(w, m + n) = Total(w, m) + IF unit = 1 THEN n ELSE 0
<1> DEFINE S == {k \in Nat : k <= n =>
                    Total(w, m + k) = Total(w, m) + IF unit = 1 THEN k ELSE 0}
<1>0. Total(w, m) \in Nat
  <2>1. \A i \in 1 .. m : w[i] \in Nat
    OBVIOUS
  <2> QED
    BY <2>1, TotalIs
<1>1. 0 \in S
  BY <1>0
<1>2. ASSUME NEW k \in Nat, k \in S PROVE k + 1 \in S
  <2>1. SUFFICES ASSUME k + 1 <= n
                 PROVE Total(w, m + (k + 1)) = Total(w, m) + IF unit = 1 THEN k + 1 ELSE 0
    OBVIOUS
  <2>2. Total(w, m + k) = Total(w, m) + IF unit = 1 THEN k ELSE 0
    BY <1>2, <2>1
  <2>3. Total(w, m + (k + 1)) = Total(w, m + k) + w[m + (k + 1)]
    <3>1. (m + (k + 1)) - 1 = m + k /\ m + (k + 1) \in 1 .. m + n /\ m + n \in Nat
      BY <2>1
    <3> QED
      BY <3>1, TotalIs
  <2>4. w[m + (k + 1)] = unit
    BY <2>1
  <2> QED
    BY <1>0, <2>2, <2>3, <2>4
<1> HIDE DEF S
<1>3. n \in S
  BY <1>1, <1>2, SetInduction
<1> QED
  BY <1>3 DEF S

-----------------------------------------------------------------------------
(* Queues *)

\* What a cell carries for a stream.
Weight(c, s, types) == IF c.id = s /\ c.type \in types THEN c.count ELSE 0

LEMMA CarriedIs ==
  ASSUME NEW q \in Seq(Cells), NEW s, NEW types
  PROVE  \A i \in 1 .. Len(q) :
            Carried(q, s, types)[i] = Weight(q[i], s, types) /\ Carried(q, s, types)[i] \in Nat
<1> SUFFICES ASSUME NEW i \in 1 .. Len(q)
             PROVE Carried(q, s, types)[i] = Weight(q[i], s, types) /\ Carried(q, s, types)[i] \in Nat
  OBVIOUS
<1>1. q[i] \in Cells
  OBVIOUS
<1>2. q[i].count \in Nat
  BY <1>1, StreamConstants DEF Cells
<1> QED
  BY <1>2 DEF Carried, Weight

\* A cell at the end of a queue adds its weight.
LEMMA CarriedAppend ==
  ASSUME NEW q \in Seq(Cells), NEW c \in Cells, NEW s, NEW types
  PROVE  /\ Total(Carried(q \o <<c>>, s, types), Len(q) + 1)
              = Total(Carried(q, s, types), Len(q)) + Weight(c, s, types)
         /\ \A n \in 0 .. Len(q) :
              Total(Carried(q \o <<c>>, s, types), n) = Total(Carried(q, s, types), n)
<1> DEFINE p == q \o <<c>>
           v == Carried(p, s, types)
           w == Carried(q, s, types)
<1>1. /\ p \in Seq(Cells) /\ Len(p) = Len(q) + 1 /\ Len(q) \in Nat
      /\ p[Len(q) + 1] = c /\ \A i \in 1 .. Len(q) : p[i] = q[i]
  OBVIOUS
<1>2. \A i \in 1 .. Len(q) : w[i] = Weight(q[i], s, types) /\ w[i] \in Nat
  BY CarriedIs
<1> HIDE DEF p
<1>3. \A i \in 1 .. Len(q) + 1 : v[i] = Weight(p[i], s, types) /\ v[i] \in Nat
  BY <1>1, CarriedIs
<1> HIDE DEF v, w
<1>4. \A i \in 1 .. Len(q) : v[i] = w[i]
  BY <1>1, <1>2, <1>3
<1>5. ASSUME NEW n \in 0 .. Len(q) PROVE Total(v, n) = Total(w, n)
  <2>1. n \in Nat /\ \A i \in 1 .. n : w[i] \in Nat /\ v[i] = w[i]
    BY <1>1, <1>2, <1>4
  <2> QED
    BY <2>1, TotalAgree
<1>6. Total(v, Len(q) + 1) = Total(v, Len(q)) + v[Len(q) + 1]
  <2>1. Len(q) + 1 \in Nat /\ Len(q) + 1 \in 1 .. Len(q) + 1 /\ (Len(q) + 1) - 1 = Len(q)
    BY <1>1
  <2> QED
    BY <1>3, <2>1, TotalIs
<1>7. v[Len(q) + 1] = Weight(c, s, types)
  BY <1>1, <1>3
<1>8. Total(v, Len(q)) = Total(w, Len(q))
  BY <1>1, <1>5
<1> QED
  BY <1>5, <1>6, <1>7, <1>8 DEF p, v, w

\* The batch of data that sendall() sends.
Batch(n, x) == [i \in 1 .. n |-> Cell("DATA", x, 1)]

\* p is q and n times the cell d of data.
Lengthened(p, q, n, d) ==
  /\ p \in Seq(Cells) /\ q \in Seq(Cells) /\ n \in Nat
  /\ d \in Cells /\ d.type = "DATA" /\ d.count = 1
  /\ Len(p) = Len(q) + n
  /\ \A i \in 1 .. Len(q) : p[i] = q[i]
  /\ \A i \in Len(q) + 1 .. Len(q) + n : p[i] = d

LEMMA BatchIs ==
  ASSUME NEW q \in Seq(Cells), NEW n \in Nat, NEW x \in Ids
  PROVE  Lengthened(q \o Batch(n, x), q, n, Cell("DATA", x, 1))
<1> DEFINE d == Cell("DATA", x, 1)
           b == Batch(n, x)
<1>1. d \in Cells /\ d.type = "DATA" /\ d.count = 1
  BY StreamConstants DEF Cell, Cells
<1>2. b = [i \in 1 .. n |-> d]
  BY DEF Batch
<1> HIDE DEF d, b
<1>3. b \in Seq(Cells) /\ Len(b) = n /\ \A i \in 1 .. n : b[i] = d
  BY <1>1, <1>2
<1>4. /\ q \o b \in Seq(Cells) /\ Len(q \o b) = Len(q) + n
      /\ \A i \in 1 .. Len(q) : (q \o b)[i] = q[i]
      /\ \A i \in Len(q) + 1 .. Len(q) + n : (q \o b)[i] = d
  BY <1>3
<1> QED
  BY <1>1, <1>4 DEF b, d, Lengthened

\* Each cell of a batch of data adds its weight.
LEMMA CarriedBatch ==
  ASSUME NEW p, NEW q, NEW n, NEW d, Lengthened(p, q, n, d), NEW s, NEW types
  PROVE  /\ Total(Carried(p, s, types), Len(q) + n)
              = Total(Carried(q, s, types), Len(q))
                  + IF d.id = s /\ "DATA" \in types THEN n ELSE 0
         /\ \A k \in 0 .. Len(q) :
              Total(Carried(p, s, types), k) = Total(Carried(q, s, types), k)
<1> DEFINE v == Carried(p, s, types)
           w == Carried(q, s, types)
           unit == IF d.id = s /\ "DATA" \in types THEN 1 ELSE 0
<1>1. /\ p \in Seq(Cells) /\ q \in Seq(Cells) /\ n \in Nat
      /\ d \in Cells /\ d.type = "DATA" /\ d.count = 1
      /\ Len(q) \in Nat /\ Len(p) = Len(q) + n
      /\ \A i \in 1 .. Len(q) : p[i] = q[i]
      /\ \A i \in Len(q) + 1 .. Len(q) + n : p[i] = d
  BY DEF Lengthened
<1>2. \A i \in 1 .. Len(q) : w[i] = Weight(q[i], s, types) /\ w[i] \in Nat
  BY <1>1, CarriedIs
<1>a. Weight(d, s, types) = unit
  BY <1>1 DEF Weight
<1>3. \A i \in 1 .. Len(q) + n : v[i] = Weight(p[i], s, types) /\ v[i] \in Nat
  <2>1. \A i \in 1 .. Len(p) : v[i] = Weight(p[i], s, types) /\ v[i] \in Nat
    BY <1>1, CarriedIs, Zenon
  <2> QED
    BY <1>1, <2>1, Zenon
<1> HIDE DEF v, w
<1>4. \A i \in 1 .. Len(q) : v[i] = w[i]
  BY <1>1, <1>2, <1>3
<1>5. ASSUME NEW k \in 0 .. Len(q) PROVE Total(v, k) = Total(w, k)
  <2>1. k \in Nat /\ \A i \in 1 .. k : w[i] \in Nat /\ v[i] = w[i]
    BY <1>1, <1>2, <1>4
  <2> QED
    BY <2>1, TotalAgree
<1>6. \A i \in Len(q) + 1 .. Len(q) + n : v[i] = unit
  BY <1>1, <1>3, <1>a
<1>7. unit \in {0, 1}
  OBVIOUS
<1>8. Total(v, Len(q) + n) = Total(v, Len(q)) + IF unit = 1 THEN n ELSE 0
  <2> HIDE DEF unit
  <2> QED
    BY <1>1, <1>3, <1>6, <1>7, TotalMore
<1>9. Total(v, Len(q)) = Total(w, Len(q))
  BY <1>1, <1>5
<1>10. (IF unit = 1 THEN n ELSE 0) = IF d.id = s /\ "DATA" \in types THEN n ELSE 0
  OBVIOUS
<1> HIDE DEF unit
<1>11. Total(v, Len(q) + n) = Total(w, Len(q)) + IF d.id = s /\ "DATA" \in types THEN n ELSE 0
  BY <1>8, <1>9, <1>10
<1> QED
  BY <1>5, <1>11, Zenon DEF v, w

\* The cell at the head of a queue takes its weight away.
LEMMA CarriedTail ==
  ASSUME NEW q \in Seq(Cells), q # <<>>, NEW s, NEW types
  PROVE  \A n \in 0 .. Len(q) - 1 :
            Total(Carried(q, s, types), n + 1)
              = Weight(Head(q), s, types) + Total(Carried(Tail(q), s, types), n)
<1> DEFINE rest == Tail(q)
           w == Carried(q, s, types)
           v == Carried(rest, s, types)
<1>1. /\ rest \in Seq(Cells) /\ Len(rest) = Len(q) - 1 /\ Len(q) \in Nat \ {0}
      /\ Head(q) = q[1] /\ \A i \in 1 .. Len(q) - 1 : rest[i] = q[i + 1]
  OBVIOUS
<1> HIDE DEF rest
<1>2. \A i \in 1 .. Len(q) : w[i] = Weight(q[i], s, types) /\ w[i] \in Nat
  BY CarriedIs
<1>3. \A i \in 1 .. Len(q) - 1 : v[i] = Weight(rest[i], s, types)
  BY <1>1, CarriedIs
<1> HIDE DEF v, w
<1> SUFFICES ASSUME NEW n \in 0 .. Len(q) - 1
             PROVE Total(w, n + 1) = Weight(Head(q), s, types) + Total(v, n)
  BY DEF v, w, rest
<1>4. n \in Nat /\ \A i \in 1 .. n + 1 : w[i] \in Nat
  BY <1>1, <1>2
<1>5. \A i \in 1 .. n : v[i] = w[i + 1]
  <2> SUFFICES ASSUME NEW i \in 1 .. n PROVE v[i] = w[i + 1]
    OBVIOUS
  <2>1. i \in 1 .. Len(q) - 1 /\ i + 1 \in 1 .. Len(q)
    BY <1>1
  <2> QED
    BY <1>1, <1>2, <1>3, <2>1
<1>6. Total(w, n + 1) = w[1] + Total(v, n)
  BY <1>4, <1>5, TotalTail
<1>7. w[1] = Weight(Head(q), s, types)
  BY <1>1, <1>2
<1> QED
  BY <1>6, <1>7

\* At first there is nothing in the queues.
LEMMA EmptyQueue ==
  ASSUME NEW e \in Ends, cells[e] = <<>>
  PROVE  \A t :
            /\ Opens(e, t) = {} /\ Acks(e, t) = {} /\ Closes(e, t) = {}
            /\ Byes(e, t) = {} /\ All(e, t) = {}
            /\ Data(e, t) = 0 /\ Granted(e, t) = 0
<1> TAKE t
<1>1. Len(cells[e]) = 0
  OBVIOUS
<1>2. \A types : OnTheWay(e, t, types) = 0
  <2> TAKE types
  <2>1. 0 \in Nat /\ \A i \in 1 .. 0 : Carried(cells[e], t, types)[i] \in Nat
    OBVIOUS
  <2> QED
    BY <1>1, <2>1, TotalIs DEF OnTheWay
<1>3. Data(e, t) = 0 /\ Granted(e, t) = 0
  BY <1>2 DEF Data, Granted
<1> QED
  BY <1>1, <1>3 DEF Opens, Acks, Closes, Byes, All, At

\* The measures of a queue that does not change do not either.
LEMMA QueueKept ==
  ASSUME NEW e \in Ends, cells'[e] = cells[e]
  PROVE  \A t :
            /\ Opens(e, t)' = Opens(e, t) /\ Acks(e, t)' = Acks(e, t)
            /\ Closes(e, t)' = Closes(e, t) /\ Byes(e, t)' = Byes(e, t)
            /\ All(e, t)' = All(e, t)
            /\ Data(e, t)' = Data(e, t) /\ Granted(e, t)' = Granted(e, t)
            /\ \A n : Ahead(e, t, n)' = Ahead(e, t, n)
BY DEF Opens, Acks, Closes, Byes, All, At, Data, Granted, Ahead, OnTheWay

\* Both measures are numbers.
LEMMA MeasuresType ==
  ASSUME cells \in [Ends -> Seq(Cells)], NEW e \in Ends, NEW t
  PROVE  /\ Data(e, t) \in Nat /\ Granted(e, t) \in Nat
         /\ \A n \in 0 .. Len(cells[e]) : Ahead(e, t, n) \in Nat
<1> DEFINE q == cells[e]
<1>0. q \in Seq(Cells) /\ Len(q) \in Nat
  OBVIOUS
<1> HIDE DEF q
<1>1. ASSUME NEW types, NEW n \in 0 .. Len(q)
      PROVE  Total(Carried(q, t, types), n) \in Nat
  <2>1. n \in Nat /\ \A i \in 1 .. n : Carried(q, t, types)[i] \in Nat
    BY <1>0, CarriedIs
  <2> QED
    BY <2>1, TotalIs
<1>2. Len(q) \in 0 .. Len(q)
  BY <1>0
<1>3. /\ Total(Carried(q, t, {"DATA"}), Len(q)) \in Nat
      /\ Total(Carried(q, t, {"OPEN", "ACK", "WINDOW_UPDATE"}), Len(q)) \in Nat
      /\ \A n \in 0 .. Len(q) : Total(Carried(q, t, {"DATA"}), n) \in Nat
  BY <1>1, <1>2, Zenon
<1> QED
  BY <1>3 DEF Data, Granted, Ahead, OnTheWay, q

\* The place of a cell that is sent, if it is one of these.
Last(e, c, t, types) ==
    IF c.id = t /\ c.type \in types THEN {Len(cells[e]) + 1} ELSE {}

\* What sending a cell does to the measures of the queue.
LEMMA SendOne ==
  ASSUME cells \in [Ends -> Seq(Cells)], NEW e \in Ends, NEW c \in Cells,
         cells'[e] = cells[e] \o <<c>>
  PROVE  \A t :
            /\ Opens(e, t)' = Opens(e, t) \cup Last(e, c, t, {"OPEN"})
            /\ Acks(e, t)' = Acks(e, t) \cup Last(e, c, t, {"ACK"})
            /\ Closes(e, t)' = Closes(e, t) \cup Last(e, c, t, {"CLOSE"})
            /\ Byes(e, t)' = Byes(e, t) \cup Last(e, c, t, {"CLOSE", "RESET"})
            /\ All(e, t)' = All(e, t) \cup Last(e, c, t, {c.type})
            /\ Data(e, t)' = Data(e, t) + Weight(c, t, {"DATA"})
            /\ Granted(e, t)' = Granted(e, t) + Weight(c, t, {"OPEN", "ACK", "WINDOW_UPDATE"})
            /\ \A n \in 0 .. Len(cells[e]) : Ahead(e, t, n)' = Ahead(e, t, n)
<1> TAKE t
<1> DEFINE q == cells[e]
           p == q \o <<c>>
<1>1. q \in Seq(Cells) /\ Len(q) \in Nat
  OBVIOUS
<1>2. /\ Len(p) = Len(q) + 1 /\ p[Len(q) + 1] = c
      /\ \A i \in 1 .. Len(q) : p[i] = q[i]
  BY <1>1
<1>3. cells'[e] = p /\ cells[e] = q
  OBVIOUS
<1>4. ASSUME NEW types
      PROVE  /\ Total(Carried(p, t, types), Len(p))
                  = Total(Carried(q, t, types), Len(q)) + Weight(c, t, types)
             /\ \A n \in 0 .. Len(q) :
                  Total(Carried(p, t, types), n) = Total(Carried(q, t, types), n)
  BY <1>1, <1>2, CarriedAppend
<1> HIDE DEF p, q
<1>5. ASSUME NEW types
      PROVE  At(e, t, types)' = At(e, t, types) \cup Last(e, c, t, types)
  BY <1>1, <1>2, <1>3 DEF At, Last
<1>6. All(e, t)' = All(e, t) \cup Last(e, c, t, {c.type})
  BY <1>1, <1>2, <1>3 DEF All, Last
<1>7. \A types : OnTheWay(e, t, types)' = OnTheWay(e, t, types) + Weight(c, t, types)
  BY <1>3, <1>4 DEF OnTheWay
<1>8. \A n \in 0 .. Len(q) : Ahead(e, t, n)' = Ahead(e, t, n)
  BY <1>3, <1>4 DEF Ahead
<1> QED
  BY <1>3, <1>5, <1>6, <1>7, <1>8, Zenon DEF Opens, Acks, Closes, Byes, Data, Granted

\* What sending n cells of data does.
LEMMA SendBatch ==
  ASSUME cells \in [Ends -> Seq(Cells)], NEW e \in Ends, NEW x \in Ids, NEW n \in Nat,
         cells'[e] = cells[e] \o Batch(n, x)
  PROVE  \A t :
            /\ Opens(e, t)' = Opens(e, t) /\ Acks(e, t)' = Acks(e, t)
            /\ Closes(e, t)' = Closes(e, t) /\ Byes(e, t)' = Byes(e, t)
            /\ All(e, t)' = All(e, t)
                 \cup IF x = t THEN Len(cells[e]) + 1 .. Len(cells[e]) + n ELSE {}
            /\ Data(e, t)' = Data(e, t) + IF x = t THEN n ELSE 0
            /\ Granted(e, t)' = Granted(e, t)
            /\ \A k \in 0 .. Len(cells[e]) : Ahead(e, t, k)' = Ahead(e, t, k)
<1> TAKE t
<1> DEFINE q == cells[e]
           d == Cell("DATA", x, 1)
           p == q \o Batch(n, x)
<1>1. q \in Seq(Cells) /\ Len(q) \in Nat
  OBVIOUS
<1>2. d \in Cells /\ d.id = x /\ d.type = "DATA" /\ d.count = 1
  BY StreamConstants DEF Cell, Cells
<1>5. cells'[e] = p /\ cells[e] = q
  OBVIOUS
<1> HIDE DEF q
<1>3. Lengthened(p, q, n, d)
  BY <1>1, BatchIs, Zenon
<1>4. /\ p \in Seq(Cells) /\ Len(p) = Len(q) + n
      /\ \A i \in 1 .. Len(q) : p[i] = q[i]
      /\ \A i \in Len(q) + 1 .. Len(q) + n : p[i] = d
  BY <1>3, Zenon DEF Lengthened
<1> HIDE DEF p, d
<1>6. ASSUME NEW types
      PROVE  /\ Total(Carried(p, t, types), Len(p)) = Total(Carried(q, t, types), Len(q))
                  + IF x = t /\ "DATA" \in types THEN n ELSE 0
             /\ \A k \in 0 .. Len(q) :
                  Total(Carried(p, t, types), k) = Total(Carried(q, t, types), k)
  <2>1. /\ Total(Carried(p, t, types), Len(q) + n) = Total(Carried(q, t, types), Len(q))
              + IF d.id = t /\ "DATA" \in types THEN n ELSE 0
        /\ \A k \in 0 .. Len(q) :
              Total(Carried(p, t, types), k) = Total(Carried(q, t, types), k)
    BY <1>3, CarriedBatch, SMTT(20)
  <2> QED
    BY <1>2, <1>4, <2>1
<1>7. ASSUME NEW types, "DATA" \notin types
      PROVE  At(e, t, types)' = At(e, t, types)
  <2>1. ASSUME NEW i \in Len(q) + 1 .. Len(q) + n
        PROVE  p[i].type \notin types
    BY <1>2, <1>4, <1>7
  <2>2. 1 .. Len(p) = (1 .. Len(q)) \cup (Len(q) + 1 .. Len(q) + n)
    BY <1>1, <1>4
  <2>3. At(e, t, types)' = {i \in 1 .. Len(p) : p[i].id = t /\ p[i].type \in types}
    BY <1>5 DEF At
  <2>4. At(e, t, types) = {i \in 1 .. Len(q) : q[i].id = t /\ q[i].type \in types}
    BY <1>5 DEF At
  <2> QED
    BY <1>4, <2>1, <2>2, <2>3, <2>4
<1>8. All(e, t)' = All(e, t) \cup IF x = t THEN Len(q) + 1 .. Len(q) + n ELSE {}
  BY <1>1, <1>2, <1>4, <1>5 DEF All
<1>9. \A types : OnTheWay(e, t, types)'
                    = OnTheWay(e, t, types) + IF x = t /\ "DATA" \in types THEN n ELSE 0
  BY <1>5, <1>6 DEF OnTheWay
<1>10. \A k \in 0 .. Len(q) : Ahead(e, t, k)' = Ahead(e, t, k)
  BY <1>5, <1>6 DEF Ahead
<1>11. Opens(e, t)' = Opens(e, t) /\ Acks(e, t)' = Acks(e, t)
       /\ Closes(e, t)' = Closes(e, t) /\ Byes(e, t)' = Byes(e, t)
  BY <1>7 DEF Opens, Acks, Closes, Byes
<1>12. Data(e, t)' = Data(e, t) + IF x = t THEN n ELSE 0
  BY <1>9 DEF Data
<1>13. Granted(e, t)' = Granted(e, t)
  <2>1. OnTheWay(e, t, {"OPEN", "ACK", "WINDOW_UPDATE"}) \in Nat
    BY MeasuresType DEF Granted
  <2> QED
    BY <1>9, <2>1 DEF Granted
<1> QED
  BY <1>5, <1>8, <1>10, <1>11, <1>12, <1>13

\* What handling the cell at its head does.
LEMMA HandleOne ==
  ASSUME cells \in [Ends -> Seq(Cells)], NEW e \in Ends, cells[e] # <<>>,
         cells'[e] = Tail(cells[e])
  PROVE  \A t :
            LET c == Head(cells[e])
                Rest(places) == {i \in 1 .. Len(cells[e]) - 1 : i + 1 \in places}
            IN  /\ Opens(e, t)' = Rest(Opens(e, t)) /\ Acks(e, t)' = Rest(Acks(e, t))
                /\ Closes(e, t)' = Rest(Closes(e, t)) /\ Byes(e, t)' = Rest(Byes(e, t))
                /\ All(e, t)' = Rest(All(e, t))
                /\ Data(e, t) = Weight(c, t, {"DATA"}) + Data(e, t)'
                /\ Granted(e, t)
                      = Weight(c, t, {"OPEN", "ACK", "WINDOW_UPDATE"}) + Granted(e, t)'
                /\ \A n \in 0 .. Len(cells[e]) - 1 :
                      Ahead(e, t, n + 1) = Weight(c, t, {"DATA"}) + Ahead(e, t, n)'
<1> TAKE t
<1> DEFINE q == cells[e]
           p == Tail(q)
<1>1. q \in Seq(Cells) /\ q # <<>>
  OBVIOUS
<1>2. /\ Len(q) \in Nat \ {0} /\ Len(p) = Len(q) - 1
      /\ \A i \in 1 .. Len(q) - 1 : p[i] = q[i + 1]
  BY <1>1
<1>3. cells'[e] = p /\ cells[e] = q
  OBVIOUS
<1>4. ASSUME NEW types
      PROVE  \A n \in 0 .. Len(q) - 1 : Total(Carried(q, t, types), n + 1)
                = Weight(Head(q), t, types) + Total(Carried(p, t, types), n)
  BY <1>1, CarriedTail
<1> HIDE DEF p, q
<1>5. ASSUME NEW types
      PROVE  At(e, t, types)' = {i \in 1 .. Len(q) - 1 : i + 1 \in At(e, t, types)}
  BY <1>2, <1>3 DEF At
<1>6. All(e, t)' = {i \in 1 .. Len(q) - 1 : i + 1 \in All(e, t)}
  BY <1>2, <1>3 DEF All
<1>7. ASSUME NEW types
      PROVE  OnTheWay(e, t, types) = Weight(Head(q), t, types) + OnTheWay(e, t, types)'
  <2>1. Len(p) \in 0 .. Len(q) - 1 /\ Len(p) + 1 = Len(q)
    BY <1>2
  <2> QED
    BY <1>3, <1>4, <2>1 DEF OnTheWay
<1>8. \A n \in 0 .. Len(q) - 1 : Ahead(e, t, n + 1) = Weight(Head(q), t, {"DATA"}) + Ahead(e, t, n)'
  BY <1>3, <1>4 DEF Ahead
<1>9. /\ Opens(e, t)' = {i \in 1 .. Len(q) - 1 : i + 1 \in Opens(e, t)}
      /\ Acks(e, t)' = {i \in 1 .. Len(q) - 1 : i + 1 \in Acks(e, t)}
      /\ Closes(e, t)' = {i \in 1 .. Len(q) - 1 : i + 1 \in Closes(e, t)}
      /\ Byes(e, t)' = {i \in 1 .. Len(q) - 1 : i + 1 \in Byes(e, t)}
  BY <1>5, Zenon DEF Opens, Acks, Closes, Byes
<1>10. /\ Data(e, t) = Weight(Head(q), t, {"DATA"}) + Data(e, t)'
       /\ Granted(e, t) = Weight(Head(q), t, {"OPEN", "ACK", "WINDOW_UPDATE"}) + Granted(e, t)'
  BY <1>7, Zenon DEF Data, Granted
<1> QED
  BY <1>3, <1>6, <1>8, <1>9, <1>10, Zenon

-----------------------------------------------------------------------------
(* Steps *)

LEMMA PeerIs ==
  /\ Peer("Initiator") = "Acceptor" /\ Peer("Acceptor") = "Initiator"
  /\ \A e \in Ends : Peer(e) \in Ends /\ Peer(e) # e /\ Peer(Peer(e)) = e
  /\ \A e, f \in Ends : f = e \/ f = Peer(e)
BY DEF Peer, Ends

Counts(r) ==
    /\ r.credit \in Nat /\ r.chunk \in Nat /\ r.buffer \in Nat /\ r.taken \in Nat
    /\ r.sent \in Nat /\ r.received \in Nat /\ r.dropped \in Nat /\ r.final \in Nat
    /\ Recvd(r) \in Nat

LEMMA CountsOf ==
  ASSUME NEW r \in StreamRecords
  PROVE  Counts(r)
BY StreamConstants DEF StreamRecords, Counts, Recvd

\* The parts of the invariant that speak of one stream at both ends.
Pair(t) ==
    /\ Opened(t) /\ Acknowledged(t)
    /\ \A e \in Ends : Accounts(e, t) /\ Delivered(e, t) /\ Ended(e, t)

\* Stream s of end a becomes q, and no other stream changes.
Changed(a, s, q) ==
    /\ streams' \in [Ends -> [Ids -> StreamRecords]]
    /\ \A e \in Ends, t \in Ids :
          streams'[e][t] = IF e = a /\ t = s THEN q ELSE streams[e][t]

LEMMA ChangedIs ==
  ASSUME Typed, NEW a \in Ends, NEW s \in Ids, NEW q \in StreamRecords,
         streams' = [streams EXCEPT ![a][s] = q]
  PROVE  Changed(a, s, q)
BY DEF Typed, Changed

\* The budget follows what the changed stream holds.
LEMMA BudgetKept ==
  ASSUME Typed, \A e \in Ends : Budgeted(e),
         NEW a \in Ends, NEW s \in Ids, NEW q \in StreamRecords, Changed(a, s, q),
         mux'[a].used = (mux[a].used + Held(q)) - Held(streams[a][s]),
         \A e \in Ends \ {a} : mux'[e].used = mux[e].used
  PROVE  /\ \A e \in Ends : Budgeted(e)'
         /\ mux'[a].used \in Nat
         /\ Held(q) <= Held(streams[a][s]) => mux'[a].used <= mux[a].used
<1>1. \A r \in StreamRecords : Held(r) \in Nat
  BY CountsOf DEF Counts, Held
<1>2. ASSUME NEW e \in Ends
      PROVE  \A t \in 1 .. MaxStreams : HeldBy(e)[t] \in Nat /\ HeldBy(e)[t] = Held(streams[e][t])
  BY <1>1 DEF Typed, HeldBy, Ids
<1>3. ASSUME NEW e \in Ends
      PROVE  \A t \in 1 .. MaxStreams :
                HeldBy(e)'[t] \in Nat /\ HeldBy(e)'[t] = Held(streams'[e][t])
  BY <1>1 DEF Changed, HeldBy, Ids
<1>4. MaxStreams \in Nat
  BY StreamConstants
<1>5. ASSUME NEW e \in Ends, e # a PROVE Budgeted(e)'
  <2>1. \A t \in 1 .. MaxStreams : HeldBy(e)'[t] = HeldBy(e)[t]
    BY <1>2, <1>3, <1>5 DEF Changed, Ids
  <2>2. Total(HeldBy(e)', MaxStreams) = Total(HeldBy(e), MaxStreams)
    BY <1>2, <1>4, <2>1, TotalAgree
  <2> QED
    BY <1>5, <2>2 DEF Budgeted
<1>6. Total(HeldBy(a)', MaxStreams) + Held(streams[a][s]) = Total(HeldBy(a), MaxStreams) + Held(q)
  <2>1. s \in 1 .. MaxStreams
    BY DEF Ids
  <2>2. \A t \in 1 .. MaxStreams : t # s => HeldBy(a)'[t] = HeldBy(a)[t]
    BY <1>2, <1>3 DEF Changed, Ids
  <2>3. Total(HeldBy(a)', MaxStreams) + HeldBy(a)[s] = Total(HeldBy(a), MaxStreams) + HeldBy(a)'[s]
    BY <1>2, <1>3, <1>4, <2>1, <2>2, TotalPick
  <2>4. HeldBy(a)[s] = Held(streams[a][s]) /\ HeldBy(a)'[s] = Held(q)
    BY <1>2, <1>3, <2>1 DEF Changed, Ids
  <2> QED
    BY <2>3, <2>4
<1>7. Total(HeldBy(a)', MaxStreams) \in Nat /\ Total(HeldBy(a), MaxStreams) \in Nat
  BY <1>2, <1>3, <1>4, TotalIs
<1>8. mux[a].used = Total(HeldBy(a), MaxStreams)
  BY DEF Budgeted
<1>9. Held(q) \in Nat /\ Held(streams[a][s]) \in Nat
  BY <1>1 DEF Typed
<1>10. mux'[a].used = Total(HeldBy(a)', MaxStreams)
  BY <1>6, <1>7, <1>8, <1>9
<1>11. Budgeted(a)'
  BY <1>10 DEF Budgeted
<1> QED
  BY <1>5, <1>7, <1>8, <1>9, <1>10, <1>11

\* A record changes from r to q by a step that neither sends nor hears anything.
\* An end that cannot send any more may lose what it was about to send.
Quiet(r, q, can) ==
    /\ q.registered = r.registered /\ q.open = r.open /\ q.sent = r.sent
    /\ q.remoteClosed = r.remoteClosed
    /\ q.sender = "Opening" => r.sender = "Opening"
    /\ r.sender = "Opening" /\ can => q.sender = "Opening"
    /\ q.credit + q.chunk <= r.credit + r.chunk
    /\ can => q.credit + q.chunk = r.credit + r.chunk
    /\ q.buffer + q.taken <= r.buffer + r.taken
    /\ can /\ Hears(q) => q.buffer + q.taken = r.buffer + r.taken
    /\ Recvd(q) + q.buffer <= Recvd(r) + r.buffer
    /\ Hears(q) => Recvd(q) + q.buffer = Recvd(r) + r.buffer /\ Hears(r)
    /\ r.localClosed => q.localClosed
    /\ r.localClosed /\ r.farewell = "None" => q.farewell = "None" /\ q.final = r.final
    /\ r.eof => Recvd(q) = Recvd(r)
    /\ q.eof /\ ~r.eof =>
          r.remoteClosed /\ r.buffer = 0 /\ Hears(r) /\ Recvd(q) = Recvd(r)

\* What a step that moves no cell of stream t may do to the multiplexers ...
Weakened(t) ==
    /\ \A e \in Ends :
        /\ CannotSend(e) => CannotSend(e)'
        /\ \/ mux'[e].acking = t <=> mux[e].acking = t
           \/ mux'[e].acking = 0 /\ CannotSend(e)'
    /\ mux'["Initiator"].acking = mux["Initiator"].acking \/ mux'["Initiator"].acking = 0

\* ... and to what there is of it in the queues, unless the place of a cell changes.
Still(t) ==
    \A e \in Ends :
        /\ Opens(e, t)' = Opens(e, t) /\ Acks(e, t)' = Acks(e, t)
        /\ Closes(e, t)' = Closes(e, t) /\ Byes(e, t)' = Byes(e, t)
        /\ All(e, t)' = All(e, t)
        /\ Data(e, t)' = Data(e, t) /\ Granted(e, t)' = Granted(e, t)
        /\ \A n \in 0 .. Len(cells[e]) : Ahead(e, t, n)' = Ahead(e, t, n)

LEMMA QuietPair ==
  ASSUME IInv, NEW a \in Ends, NEW s \in Ids, NEW q, NEW t \in Ids,
         \A e \in Ends : streams'[e][t] = IF e = a /\ t = s THEN q ELSE streams[e][t],
         Sane(a, q), Quiet(streams[a][s], q, ~CannotSend(a)'), Still(t), Weakened(t)
  PROVE  Pair(t)'
<1> DEFINE r == streams[a][s]
<1>1. Pair(t) /\ \A e \in Ends : Sane(e, streams[e][t])
  BY DEF IInv, Pair
<1>2. /\ \A e \in Ends : Counts(streams[e][t])
      /\ Counts(q) /\ Counts(r)
  BY CountsOf DEF IInv, Typed, Sane
<1>3. \A e \in Ends : Data(e, t) \in Nat /\ Granted(e, t) \in Nat
  BY MeasuresType DEF IInv, Typed
<1>4. \A e \in Ends :
        /\ Opens(e, t)' = Opens(e, t) /\ Acks(e, t)' = Acks(e, t)
        /\ Closes(e, t)' = Closes(e, t) /\ Byes(e, t)' = Byes(e, t)
        /\ All(e, t)' = All(e, t)
        /\ Data(e, t)' = Data(e, t) /\ Granted(e, t)' = Granted(e, t)
        /\ \A n \in 0 .. Len(cells[e]) : Ahead(e, t, n)' = Ahead(e, t, n)
  BY DEF Still
<1>5. \A e \in Ends : streams'[e][t] = IF e = a /\ t = s THEN q ELSE streams[e][t]
  OBVIOUS
<1>6. Quiet(r, q, ~CannotSend(a)')
  OBVIOUS
<1>7. "Initiator" \in Ends /\ "Acceptor" \in Ends /\ "Initiator" # "Acceptor"
  BY DEF Ends
<1> HIDE DEF r
<1>8. Opened(t)'
  <2>1. Opened(t) /\ (CannotSend("Initiator") => CannotSend("Initiator")')
    BY <1>1, <1>7 DEF Pair, Weakened
  <2>2. CASE t # s \/ a = "Acceptor"
    <3>1. streams'["Initiator"][t] = streams["Initiator"][t]
      BY <1>5, <1>7, <2>2
    <3>2. streams'["Acceptor"][t].registered = streams["Acceptor"][t].registered
      BY <1>5, <1>6, <1>7 DEF r, Quiet
    <3> QED
      BY <1>4, <1>7, <2>1, <3>1, <3>2 DEF Opened
  <2>3. CASE t = s /\ a = "Initiator"
    <3>1. /\ streams'["Initiator"][t] = q /\ streams["Initiator"][t] = r
          /\ streams'["Acceptor"][t] = streams["Acceptor"][t]
      BY <1>5, <1>7, <2>3 DEF r
    <3>2. /\ q.registered = r.registered /\ q.open = r.open
          /\ q.sender = "Opening" => r.sender = "Opening"
          /\ r.sender = "Opening" /\ ~CannotSend("Initiator")' => q.sender = "Opening"
          /\ r.sender = "Opening" /\ q.sender # "Opening" => CannotSend("Initiator")'
      BY <1>6, <2>3 DEF Quiet
    <3>3. r.credit = 0 /\ r.chunk = 0 => q.credit = 0 /\ q.chunk = 0
      BY <1>2, <1>6 DEF Quiet, Counts
    <3>4. r.buffer = 0 /\ r.taken = 0 => q.buffer = 0 /\ q.taken = 0
      BY <1>2, <1>6 DEF Quiet, Counts
    <3> QED
      BY <1>4, <1>7, <2>1, <3>1, <3>2, <3>3, <3>4 DEF Opened
  <2> QED
    BY <1>7, <2>2, <2>3 DEF Ends
<1>9. Acknowledged(t)'
  BY <1>1, <1>4, <1>5, <1>6, <1>7 DEF Acknowledged, Quiet, Weakened, Pair, r, Ids
<1>10. ASSUME NEW e \in Ends PROVE Accounts(e, t)'
  <2> DEFINE f == Peer(e)
             w == streams[e][t]
             p == streams[f][t]
             x == streams'[e][t]
             y == streams'[f][t]
             can == ~CannotSend("Initiator")' /\ ~CannotSend("Acceptor")'
             ack == IF mux[f].acking = t THEN StreamWindow ELSE 0
             ack2 == IF mux'[f].acking = t THEN StreamWindow ELSE 0
  <2>1. f \in Ends /\ f # e
    BY PeerIs
  <2>2. /\ Window(e, t) = w.credit + w.chunk + Data(e, t) + p.buffer + p.taken + Granted(f, t) + ack
        /\ Window(e, t)' = x.credit + x.chunk + Data(e, t) + y.buffer + y.taken + Granted(f, t) + ack2
    BY <1>4, <2>1 DEF Window
  <2>3. /\ Window(e, t) <= StreamWindow
        /\ /\ p.registered /\ p.sender # "Opening" /\ Hears(p) /\ ~p.remoteClosed
           /\ ~CannotSend("Initiator") /\ ~CannotSend("Acceptor")
           => Window(e, t) >= StreamWindow
    BY <1>1 DEF Pair, Accounts
  <2>4. /\ ack \in Nat /\ ack2 \in Nat /\ ack2 <= ack
        /\ can => ack2 = ack
    BY <1>7, <2>1, StreamConstants DEF Weakened, Ids, Ends
  <2>5. Counts(w) /\ Counts(p) /\ Counts(x) /\ Counts(y)
    BY <1>2, <1>5, <2>1
  <2>6. x.credit + x.chunk <= w.credit + w.chunk /\ (can => x.credit + x.chunk = w.credit + w.chunk)
    <3>1. CASE e = a /\ t = s
      BY <1>5, <1>6, <1>7, <3>1 DEF Quiet, r, Ends
    <3>2. CASE ~(e = a /\ t = s)
      BY <1>5, <2>5, <3>2 DEF Counts
    <3> QED
      BY <3>1, <3>2
  <2>7. y.buffer + y.taken <= p.buffer + p.taken
        /\ (can /\ Hears(y) => y.buffer + y.taken = p.buffer + p.taken /\ Hears(p))
    <3>1. CASE f = a /\ t = s
      BY <1>5, <1>6, <1>7, <2>1, <3>1 DEF Quiet, r, Ends
    <3>2. CASE ~(f = a /\ t = s)
      BY <1>5, <2>1, <2>5, <3>2 DEF Counts
    <3> QED
      BY <3>1, <3>2
  <2>8. /\ y.registered = p.registered /\ y.remoteClosed = p.remoteClosed
        /\ can /\ y.sender # "Opening" => p.sender # "Opening"
    <3>1. CASE f = a /\ t = s
      BY <1>5, <1>6, <1>7, <2>1, <3>1 DEF Quiet, r, Ends
    <3>2. CASE ~(f = a /\ t = s)
      BY <1>5, <2>1, <3>2
    <3> QED
      BY <3>1, <3>2
  <2>9. can => ~CannotSend("Initiator") /\ ~CannotSend("Acceptor")
    BY <1>7 DEF Weakened
  <2>10. Window(e, t)' <= StreamWindow
    <3> HIDE DEF w, p, x, y, ack, ack2, f
    <3> QED
      BY <1>3, <2>1, <2>2, <2>3, <2>4, <2>5, <2>6, <2>7, StreamConstants DEF Counts
  <2>11. y.registered /\ y.sender # "Opening" /\ Hears(y) /\ ~y.remoteClosed /\ can
           => Window(e, t)' >= StreamWindow
    <3> HIDE DEF w, p, x, y, ack, ack2, f
    <3>1. ASSUME y.registered /\ y.sender # "Opening" /\ Hears(y) /\ ~y.remoteClosed /\ can
          PROVE  Window(e, t)' = Window(e, t) /\ Window(e, t) >= StreamWindow
      BY <1>3, <2>1, <2>2, <2>3, <2>4, <2>5, <2>6, <2>7, <2>8, <2>9, <3>1 DEF Counts
    <3> QED
      BY <3>1
  <2> QED
    BY <2>10, <2>11 DEF Accounts
<1>11. ASSUME NEW e \in Ends PROVE Delivered(e, t)'
  <2> DEFINE f == Peer(e)
             w == streams[e][t]
             p == streams[f][t]
             x == streams'[e][t]
             y == streams'[f][t]
  <2>1. f \in Ends /\ f # e /\ Counts(p) /\ Counts(y) /\ Counts(w)
    BY <1>2, <1>5, PeerIs
  <2>2. x.sent = w.sent
    BY <1>5, <1>6, <2>1 DEF Quiet, r
  <2>3. /\ y.remoteClosed = p.remoteClosed
        /\ Recvd(y) + y.buffer <= Recvd(p) + p.buffer
        /\ Hears(y) => Hears(p) /\ Recvd(y) + y.buffer = Recvd(p) + p.buffer
    <3>1. CASE f = a /\ t = s
      BY <1>5, <1>6, <2>1, <3>1 DEF Quiet, r
    <3>2. CASE ~(f = a /\ t = s)
      BY <1>5, <2>1, <3>2 DEF Counts
    <3> QED
      BY <3>1, <3>2
  <2>4. Delivered(e, t) /\ Data(e, t)' = Data(e, t) /\ Data(e, t) \in Nat
    BY <1>1, <1>3, <1>4 DEF Pair
  <2> HIDE DEF w, p, x, y
  <2>5. /\ Recvd(p) + p.buffer + Data(e, t) <= w.sent
        /\ Hears(p) /\ ~p.remoteClosed => Recvd(p) + p.buffer + Data(e, t) = w.sent
    BY <2>4 DEF Delivered, w, p
  <2>6. /\ Recvd(y) + y.buffer + Data(e, t) <= w.sent
        /\ Hears(y) /\ ~y.remoteClosed => Recvd(y) + y.buffer + Data(e, t) = w.sent
    BY <2>1, <2>3, <2>4, <2>5 DEF Counts
  <2> QED
    BY <2>2, <2>4, <2>6 DEF Delivered, x, y
<1>12. ASSUME NEW e \in Ends PROVE Ended(e, t)'
  <2> DEFINE f == Peer(e)
             w == streams[e][t]
             p == streams[f][t]
             x == streams'[e][t]
             y == streams'[f][t]
  <2>1. f \in Ends /\ f # e /\ Counts(p) /\ Counts(y)
    BY <1>2, <1>5, PeerIs
  <2>2. /\ w.localClosed /\ w.farewell = "None" =>
              x.localClosed /\ x.farewell = "None" /\ x.final = w.final
        /\ y.remoteClosed = p.remoteClosed
    BY <1>5, <1>6, <2>1 DEF Quiet, r
  <2>3. /\ Hears(y) => Hears(p) /\ Recvd(y) + y.buffer = Recvd(p) + p.buffer
        /\ p.eof => Recvd(y) = Recvd(p)
        /\ y.eof /\ ~p.eof =>
              p.remoteClosed /\ p.buffer = 0 /\ Hears(p) /\ Recvd(y) = Recvd(p)
    BY <1>5, <1>6, <2>1 DEF Quiet, r
  <2>4. p.eof => p.remoteClosed
    BY <1>1, <2>1 DEF Sane
  <2>5. Ended(e, t)
    BY <1>1 DEF Pair
  <2>6. /\ Closes(e, t) \subseteq Byes(e, t)
        /\ \A j \in Closes(e, t) : Ahead(e, t, j)' = Ahead(e, t, j)
    <3>1. Closes(e, t) \subseteq Byes(e, t) /\ Closes(e, t) \subseteq 1 .. Len(cells[e])
      BY DEF Closes, Byes, At
    <3>2. Len(cells[e]) \in Nat
      BY DEF IInv, Typed
    <3> QED
      BY <1>4, <3>1, <3>2
  <2>7. y.eof => Recvd(y) = x.final
    <3>1. ASSUME y.eof PROVE p.remoteClosed /\ Recvd(y) = Recvd(p) /\ Recvd(p) = w.final
      BY <2>1, <2>3, <2>4, <2>5, <3>1 DEF Ended, Counts
    <3> QED
      BY <2>2, <2>5, <3>1 DEF Ended
  <2>8. Hears(y) =>
          /\ \A j \in Closes(e, t) : Recvd(y) + y.buffer + Ahead(e, t, j) = x.final
          /\ y.remoteClosed => Recvd(y) + y.buffer = x.final
    <3> HIDE DEF w, x, y, p
    <3> QED
      BY <2>2, <2>3, <2>5, <2>6 DEF Ended, w, x, y, p
  <2> QED
    BY <1>4, <2>2, <2>5, <2>6, <2>7, <2>8 DEF Ended
<1> QED
  BY <1>8, <1>9, <1>10, <1>11, <1>12 DEF Pair

\* The fields of a multiplexer that most steps leave alone.
SameMux(e) ==
    /\ mux'[e].cause = mux[e].cause /\ mux'[e].closed = mux[e].closed
    /\ mux'[e].broken = mux[e].broken /\ mux'[e].reading = mux[e].reading
    /\ mux'[e].acking = mux[e].acking /\ mux'[e].toFail = mux[e].toFail

\* What recv() has taken and not yet given back stays the same.
SameTaken(r, q) ==
    q.receiver = "Taken" \/ r.receiver = "Taken" => q.receiver = r.receiver /\ q.taken = r.taken

\* Nobody goes to sleep on a stream of a multiplexer that has failed, and an
\* error stays.
Dozes(r, q, failed) ==
    /\ r.error # "None" => q.error # "None"
    /\ failed => /\ q.receiver = "Asleep" => r.receiver = "Asleep"
                 /\ q.sender \in {"Asleep", "OpenAsleep"} => r.sender \in {"Asleep", "OpenAsleep"}

LEMMA InitIInv == Init => IInv
<1> SUFFICES ASSUME Init PROVE IInv
  OBVIOUS
<1>0. "Initiator" \in Ends /\ "Acceptor" \in Ends /\ Ends = {"Initiator", "Acceptor"}
  BY DEF Ends
<1>1. /\ \A e \in Ends : cells[e] = <<>>
      /\ \A e \in Ends, s \in Ids : streams[e][s] = Unregistered
      /\ \A e \in Ends : mux[e] = [cause |-> "None", closed |-> FALSE, broken |-> FALSE,
                                   reading |-> TRUE, acking |-> 0, toFail |-> {}, used |-> 0]
  BY DEF Init
<1>2. Unregistered \in StreamRecords
  BY StreamConstants DEF Unregistered, StreamRecords, Errors, Senders, Receivers
<1>3. Typed
  <2>1. mux \in [Ends -> MuxRecords]
    BY StreamConstants DEF Init, MuxRecords
  <2>2. streams \in [Ends -> [Ids -> StreamRecords]]
    BY <1>2 DEF Init
  <2>3. cells \in [Ends -> Seq(Cells)]
    BY DEF Init
  <2>4. \A e \in Ends : Len(cells[e]) = 0 /\ mux[e].cause = "None"
    BY <1>1
  <2> QED
    BY <2>1, <2>2, <2>3, <2>4, StreamConstants DEF Typed
<1>4. \A e \in Ends : \A t :
        /\ Opens(e, t) = {} /\ Acks(e, t) = {} /\ Closes(e, t) = {}
        /\ Byes(e, t) = {} /\ All(e, t) = {}
        /\ Data(e, t) = 0 /\ Granted(e, t) = 0
  BY <1>1, EmptyQueue
<1>5. \A e \in Ends : Peer(e) \in Ends
  BY PeerIs
<1>6. ASSUME NEW s \in Ids PROVE Opened(s) /\ Acknowledged(s)
  <2>1. 0 # s
    BY DEF Ids
  <2> QED
    BY <1>0, <1>1, <1>4, <2>1 DEF Opened, Acknowledged, Unregistered
<1>7. ASSUME NEW e \in Ends PROVE Budgeted(e)
  <2>1. MaxStreams \in Nat /\ 0 + MaxStreams = MaxStreams
    BY StreamConstants
  <2>2. \A i \in 1 .. MaxStreams : HeldBy(e)[i] = 0
    BY <1>1 DEF HeldBy, Ids, Held, Unregistered
  <2>3. \A i \in 1 .. 0 + MaxStreams : HeldBy(e)[i] \in Nat
    BY <2>1, <2>2
  <2>4. \A i \in 0 + 1 .. 0 + MaxStreams : HeldBy(e)[i] = 0
    BY <2>1, <2>2
  <2>5. Total(HeldBy(e), 0 + MaxStreams) = Total(HeldBy(e), 0) + IF 0 = 1 THEN MaxStreams ELSE 0
    BY <2>1, <2>3, <2>4, TotalMore
  <2>6. Total(HeldBy(e), 0) = 0
    BY <2>1, <2>3, TotalIs
  <2> QED
    BY <1>1, <2>1, <2>5, <2>6 DEF Budgeted
<1>8. ASSUME NEW e \in Ends, NEW s \in Ids
      PROVE  /\ Sane(e, streams[e][s]) /\ Wakeful(streams[e][s])
             /\ Accounts(e, s) /\ Delivered(e, s) /\ Ended(e, s) /\ Failing(e, s)
  <2>1. Sane(e, streams[e][s]) /\ Wakeful(streams[e][s])
    BY <1>1, <1>2, StreamConstants DEF Sane, Wakeful, Unregistered
  <2>2. Window(e, s) = 0
    BY <1>1, <1>4, <1>5 DEF Window, Unregistered, Ids
  <2>3. Accounts(e, s)
    BY <1>1, <1>5, <2>2, StreamConstants DEF Accounts, Unregistered
  <2>4. Delivered(e, s)
    BY <1>1, <1>4, <1>5 DEF Delivered, Unregistered, Recvd
  <2>5. Ended(e, s)
    BY <1>1, <1>4, <1>5 DEF Ended, Unregistered
  <2>6. Failing(e, s)
    BY <1>1 DEF Failing, Failed
  <2> QED
    BY <2>1, <2>3, <2>4, <2>5, <2>6
<1> QED
  BY <1>3, <1>6, <1>7, <1>8 DEF IInv

\* The parts of the invariant, after a step.
LEMMA Assembled ==
  ASSUME IInv, NEW a \in Ends, NEW s \in Ids, NEW q,
         Changed(a, s, q), Sane(a, q), Wakeful(q),
         Typed', \A e \in Ends : Budgeted(e)', \A t \in Ids : Pair(t)',
         \A e \in Ends, t \in Ids : Failing(e, t)'
  PROVE  IInv'
<1>1. \A e \in Ends, t \in Ids : streams'[e][t] = IF e = a /\ t = s THEN q ELSE streams[e][t]
  BY DEF Changed
<1>2. \A e \in Ends, t \in Ids : Sane(e, streams'[e][t]) /\ Wakeful(streams'[e][t])
  BY <1>1 DEF IInv
<1>3. \A e \in Ends, t \in Ids : Sane(e, streams[e][t])' /\ Wakeful(streams[e][t])'
  BY <1>2 DEF Sane, Wakeful
<1> QED
  BY <1>3 DEF IInv, Pair

\* What Becomes does, apart from the stream itself.
LEMMA BecomesIs ==
  ASSUME IInv, NEW a \in Ends, NEW s \in Ids, NEW q \in StreamRecords,
         Becomes(a, s, q), SameTaken(streams[a][s], q),
         \/ q.buffer <= streams[a][s].buffer
         \/ q.buffer = streams[a][s].buffer + 1 /\ mux[a].used < Budget
  PROVE  /\ Changed(a, s, q)
         /\ mux' \in [Ends -> MuxRecords]
         /\ \A e \in Ends : SameMux(e) /\ Budgeted(e)'
<1> DEFINE r == streams[a][s]
<1>1. r \in StreamRecords /\ Counts(r) /\ Counts(q)
  BY CountsOf DEF IInv, Typed
<1>2. Changed(a, s, q)
  BY ChangedIs DEF IInv, Becomes
<1>3. mux \in [Ends -> MuxRecords]
  BY DEF IInv, Typed
<1>4. mux' = [mux EXCEPT ![a].used = (mux[a].used + q.buffer) - r.buffer]
  BY DEF Becomes
<1>5. mux[a].used \in Nat
  BY <1>3, StreamConstants DEF MuxRecords
<1>6. (mux[a].used + q.buffer) - r.buffer = (mux[a].used + Held(q)) - Held(r)
  <2> HIDE DEF r
  <2>1. CASE q.receiver = "Taken" \/ r.receiver = "Taken"
    BY <1>1, <1>5, <2>1 DEF SameTaken, Held, Counts, r
  <2>2. CASE ~(q.receiver = "Taken" \/ r.receiver = "Taken")
    BY <1>1, <1>5, <2>2 DEF Held, Counts
  <2> QED
    BY <2>1, <2>2
<1> HIDE DEF r
<1>7. /\ mux'[a].used = (mux[a].used + q.buffer) - r.buffer
      /\ \A e \in Ends \ {a} : mux'[e].used = mux[e].used
      /\ \A e \in Ends : SameMux(e)
  BY <1>3, <1>4 DEF MuxRecords, SameMux
<1>8. /\ \A e \in Ends : Budgeted(e)'
      /\ mux'[a].used \in Nat
  BY <1>2, <1>6, <1>7, BudgetKept DEF IInv, r
<1>9. mux'[a].used \in 0 .. Budget
  <2>1. mux[a].used <= Budget
    BY <1>3, StreamConstants DEF MuxRecords
  <2>2. mux'[a].used <= Budget
    BY <1>1, <1>5, <1>7, <2>1, StreamConstants DEF Counts, r
  <2> QED
    BY <1>8, <2>2, StreamConstants
<1>10. mux' \in [Ends -> MuxRecords]
  BY <1>3, <1>4, <1>7, <1>9 DEF MuxRecords
<1> QED
  BY <1>2, <1>7, <1>8, <1>10

\* A step of the threads of one stream that moves no cell.
LEMMA LocalStep ==
  ASSUME IInv, NEW a \in Ends, NEW s \in Ids, NEW q,
         Becomes(a, s, q), UNCHANGED cells, Sane(a, q), Wakeful(q),
         Quiet(streams[a][s], q, ~CannotSend(a)), SameTaken(streams[a][s], q),
         q.buffer <= streams[a][s].buffer, Dozes(streams[a][s], q, Failed(a))
  PROVE  IInv'
<1>0. q \in StreamRecords
  BY DEF Sane
<1>1. /\ Changed(a, s, q)
      /\ mux' \in [Ends -> MuxRecords]
      /\ \A e \in Ends : SameMux(e) /\ Budgeted(e)'
  BY <1>0, BecomesIs
<1>2. \A e \in Ends : /\ CannotSend(e)' <=> CannotSend(e)
                      /\ Failed(e)' <=> Failed(e)
  BY <1>1 DEF CannotSend, Failed, SameMux
<1>3. Typed'
  BY <1>1 DEF Typed, IInv, Changed, SameMux
<1>4. ASSUME NEW t \in Ids PROVE Pair(t)'
  <2>1. Still(t)
    BY QueueKept DEF Still
  <2>2. Weakened(t)
    BY <1>1, <1>2 DEF Weakened, SameMux, Ends
  <2>3. Quiet(streams[a][s], q, ~CannotSend(a)')
    BY <1>2
  <2>4. \A e \in Ends : streams'[e][t] = IF e = a /\ t = s THEN q ELSE streams[e][t]
    BY <1>1 DEF Changed
  <2> QED
    BY <2>1, <2>2, <2>3, <2>4, QuietPair
<1>5. ASSUME NEW e \in Ends, NEW t \in Ids PROVE Failing(e, t)'
  <2>1. Failing(e, t) /\ SameMux(e) /\ Counts(streams[a][s]) /\ Counts(q)
    BY <1>0, <1>1, CountsOf DEF IInv, Typed
  <2>2. CASE e = a /\ t = s
    <3>1. streams'[e][t] = q /\ q.registered = streams[a][s].registered
      BY <1>1, <2>2 DEF Changed, Quiet
    <3>2. streams[a][s].buffer = 0 => q.buffer = 0
      BY <2>1 DEF Counts
    <3> QED
      BY <1>2, <2>1, <2>2, <3>1, <3>2 DEF Failing, Dozes, SameMux
  <2>3. CASE ~(e = a /\ t = s)
    <3>1. streams'[e][t] = streams[e][t]
      BY <1>1, <2>3 DEF Changed
    <3> QED
      BY <1>2, <2>1, <3>1 DEF Failing, SameMux
  <2> QED
    BY <2>2, <2>3
<1> QED
  BY <1>1, <1>3, <1>4, <1>5, Assembled

-----------------------------------------------------------------------------
(* What the methods of MuxStream do to a record *)

\* q is r after notify_all(), which wakes whoever sleeps.
Woken(r, q) ==
    /\ q \in StreamRecords
    /\ q.registered = r.registered /\ q.open = r.open /\ q.credit = r.credit
    /\ q.buffer = r.buffer /\ q.localClosed = r.localClosed
    /\ q.remoteClosed = r.remoteClosed /\ q.error = r.error /\ q.farewell = r.farewell
    /\ q.chunk = r.chunk /\ q.taken = r.taken /\ q.sent = r.sent
    /\ Recvd(q) = Recvd(r) /\ q.final = r.final /\ q.eof = r.eof
    /\ q.sender \notin {"Asleep", "OpenAsleep"} /\ q.receiver # "Asleep"
    /\ \/ q.sender = r.sender
       \/ r.sender = "OpenAsleep" /\ q.sender = "AwaitingOpen"
       \/ r.sender = "Asleep" /\ q.sender = "Idle"
    /\ q.receiver = r.receiver \/ (r.receiver = "Asleep" /\ q.receiver = "Idle")

LEMMA NotifiedIs ==
  ASSUME NEW r \in StreamRecords
  PROVE  Woken(r, Notified(r))
<1> DEFINE S == CASE r.sender = "OpenAsleep" -> "AwaitingOpen"
                  [] r.sender = "Asleep" -> "Idle"
                  [] OTHER -> r.sender
           R == IF r.receiver = "Asleep" THEN "Idle" ELSE r.receiver
<1>1. Notified(r) = [r EXCEPT !.sender = S, !.receiver = R]
  BY DEF Notified
<1>2. /\ S \in Senders /\ S \notin {"Asleep", "OpenAsleep"}
      /\ S = r.sender \/ (r.sender = "OpenAsleep" /\ S = "AwaitingOpen")
           \/ (r.sender = "Asleep" /\ S = "Idle")
  BY DEF StreamRecords, Senders
<1>3. /\ R \in Receivers /\ R # "Asleep"
      /\ R = r.receiver \/ (r.receiver = "Asleep" /\ R = "Idle")
  BY DEF StreamRecords, Receivers
<1> HIDE DEF S, R
<1>4. Notified(r) \in StreamRecords
  BY <1>1, <1>2, <1>3, ZenonT(60) DEF StreamRecords
<1>5. Notified(r).sender = S /\ Notified(r).receiver = R
  BY <1>1 DEF StreamRecords
<1> QED
  BY <1>1, <1>2, <1>3, <1>4, <1>5, SMTT(30) DEF StreamRecords, Woken, Recvd

\* What a record keeps, and what nobody asleep means, for a method that wakes
\* everybody.
LEMMA WokenWakeful ==
  ASSUME NEW r, NEW q, Woken(r, q)
  PROVE  Wakeful(q)
BY DEF Woken, Wakeful

\* Closing, resetting and failing a stream: its buffer is gone, and it takes no
\* more of what its peer sends.
Ending(e, r, q) ==
    /\ Sane(e, q) /\ Wakeful(q) /\ q.buffer = 0 /\ ~Hears(q)
    /\ SameTaken(r, q) /\ \A failed : Dozes(r, q, failed)
    /\ \A can : r.sender # "Opening" \/ ~can \/ q.sender = "Opening" => Quiet(r, q, can)
    /\ q.sender \notin {"Asleep", "OpenAsleep"} /\ q.receiver # "Asleep"
    /\ r.error # "None" => q.error # "None"

LEMMA FailedRecordIs ==
  ASSUME NEW e \in Ends, NEW r, Sane(e, r), r.registered,
         NEW x \in Errors \ {"None", "OpenAck", "Window", "Credit"}
  PROVE  /\ Ending(e, r, FailedRecord(r, x))
         /\ FailedRecord(r, x).error \in {r.error, x} \ {"None"}
         /\ r.sender = "Opening" => FailedRecord(r, x).sender = "Opening"
<1> DEFINE m == [r EXCEPT !.error = IF r.error = "None" THEN x ELSE r.error, !.buffer = 0]
           q == Notified(m)
<1>1. r \in StreamRecords /\ Counts(r)
  BY CountsOf DEF Sane
<1>2. m \in StreamRecords
  <2>1. 0 \in 0 .. StreamWindow
    BY StreamConstants
  <2>2. (IF r.error = "None" THEN x ELSE r.error) \in Errors
    BY <1>1 DEF StreamRecords
  <2> QED
    BY <1>1, <2>1, <2>2, ZenonT(60) DEF StreamRecords
<1>3. /\ m.registered = r.registered /\ m.open = r.open /\ m.credit = r.credit
      /\ m.buffer = 0 /\ m.localClosed = r.localClosed
      /\ m.remoteClosed = r.remoteClosed /\ m.farewell = r.farewell
      /\ m.chunk = r.chunk /\ m.taken = r.taken /\ m.sent = r.sent
      /\ Recvd(m) = Recvd(r) /\ m.final = r.final /\ m.eof = r.eof
      /\ m.sender = r.sender /\ m.receiver = r.receiver
      /\ m.error \in {r.error, x} \ {"None"}
  BY <1>1 DEF StreamRecords, Recvd
<1>4. FailedRecord(r, x) = q
  BY DEF FailedRecord
<1> HIDE DEF m
<1>5. Woken(m, q)
  BY <1>2, NotifiedIs
<1> HIDE DEF q
<1>6. Wakeful(q)
  BY <1>5, WokenWakeful
<1>7. Sane(e, q)
  BY <1>3, <1>5, SMTT(30) DEF Woken, Sane
<1>8. \A can : Quiet(r, q, can)
  BY <1>1, <1>3, <1>5, SMTT(30) DEF Woken, Quiet, Counts, Hears
<1>9. SameTaken(r, q) /\ \A failed : Dozes(r, q, failed)
  BY <1>3, <1>5 DEF Woken, SameTaken, Dozes
<1>10. /\ q.buffer = 0 /\ ~Hears(q) /\ q.error \in {r.error, x} \ {"None"}
       /\ q.sender \notin {"Asleep", "OpenAsleep"} /\ q.receiver # "Asleep"
       /\ r.sender = "Opening" => q.sender = "Opening"
  BY <1>3, <1>5 DEF Woken, Hears
<1> QED
  BY <1>4, <1>6, <1>7, <1>8, <1>9, <1>10 DEF Ending

\* What close() and reset() do, whether or not the stream was open already.
Shut(r, q) ==
    /\ q \in StreamRecords /\ ~r.localClosed
    /\ q.registered = r.registered /\ q.open = r.open /\ q.credit = r.credit
    /\ q.buffer = 0 /\ q.localClosed
    /\ q.remoteClosed = r.remoteClosed /\ q.farewell \in {"CLOSE", "RESET"}
    /\ q.error \in {r.error, "LocalReset"}
    /\ q.chunk = r.chunk /\ q.taken = r.taken /\ q.sent = r.sent
    /\ Recvd(q) = Recvd(r) /\ q.final = r.final /\ q.eof = r.eof
    /\ \/ q.sender = r.sender
       \/ r.sender \in {"Opening", "AwaitingOpen", "OpenAsleep"} /\ q.sender = "None"
       \/ r.sender = "Asleep" /\ q.sender = "Idle"
    /\ q.sender \notin {"Opening", "AwaitingOpen", "OpenAsleep", "Asleep"}
    /\ q.receiver # "Asleep"
    /\ q.receiver = r.receiver \/ (r.receiver = "Asleep" /\ q.receiver = "Idle")

LEMMA ShutIs ==
  ASSUME NEW e \in Ends, NEW r, Sane(e, r), r.registered, NEW q, Shut(r, q)
  PROVE  Ending(e, r, q)
<1>1. r \in StreamRecords /\ Counts(r)
  BY CountsOf DEF Sane
<1>2. Sane(e, q)
  BY SMTT(30) DEF Shut, Sane
<1>3. Wakeful(q)
  BY DEF Shut, Wakeful
<1>4. \A can : r.sender # "Opening" \/ ~can \/ q.sender = "Opening" => Quiet(r, q, can)
  BY <1>1, SMTT(30) DEF Shut, Quiet, Counts, Hears
<1>5. SameTaken(r, q) /\ \A failed : Dozes(r, q, failed)
  BY DEF Shut, SameTaken, Dozes
<1>6. /\ q.buffer = 0 /\ ~Hears(q) /\ (r.error # "None" => q.error # "None")
      /\ q.sender \notin {"Asleep", "OpenAsleep"} /\ q.receiver # "Asleep"
  BY DEF Shut, Hears
<1> QED
  BY <1>2, <1>3, <1>4, <1>5, <1>6 DEF Ending

LEMMA ClosedRecordIs ==
  ASSUME NEW r \in StreamRecords, ~r.localClosed, r.sender \in {"Idle", "Asleep", "Sending"}
  PROVE  Shut(r, ClosedRecord(r))
<1> DEFINE m == [r EXCEPT !.localClosed = TRUE, !.buffer = 0, !.farewell = "CLOSE"]
<1>0. 0 \in 0 .. StreamWindow
  BY StreamConstants
<1>1. m \in StreamRecords
  BY <1>0, ZenonT(60) DEF StreamRecords
<1>2. /\ m.registered = r.registered /\ m.open = r.open /\ m.credit = r.credit
      /\ m.buffer = 0 /\ m.localClosed
      /\ m.remoteClosed = r.remoteClosed /\ m.farewell = "CLOSE" /\ m.error = r.error
      /\ m.chunk = r.chunk /\ m.taken = r.taken /\ m.sent = r.sent
      /\ Recvd(m) = Recvd(r) /\ m.final = r.final /\ m.eof = r.eof
      /\ m.sender = r.sender /\ m.receiver = r.receiver
  BY DEF StreamRecords, Recvd
<1>3. ClosedRecord(r) = Notified(m)
  BY DEF ClosedRecord
<1> HIDE DEF m
<1>4. Woken(m, Notified(m))
  BY <1>1, NotifiedIs
<1> QED
  BY <1>2, <1>3, <1>4, SMTT(30) DEF Woken, Shut

LEMMA ResetRecordIs ==
  ASSUME NEW r \in StreamRecords, ~r.localClosed
  PROVE  /\ r.sender \in {"Idle", "Asleep", "Sending"} => Shut(r, ResetRecord(r))
         /\ r.sender \in {"Opening", "AwaitingOpen", "OpenAsleep"} =>
              Shut(r, [ResetRecord(r) EXCEPT !.sender = "None"])
<1> DEFINE m == [r EXCEPT !.localClosed = TRUE, !.buffer = 0, !.farewell = "RESET",
                          !.error = "LocalReset"]
           q == Notified(m)
           n == [q EXCEPT !.sender = "None"]
<1>0. 0 \in 0 .. StreamWindow /\ "LocalReset" \in Errors /\ "None" \in Senders
  BY StreamConstants DEF Errors, Senders
<1>1. m \in StreamRecords
  BY <1>0, ZenonT(60) DEF StreamRecords
<1>2. /\ m.registered = r.registered /\ m.open = r.open /\ m.credit = r.credit
      /\ m.buffer = 0 /\ m.localClosed
      /\ m.remoteClosed = r.remoteClosed /\ m.farewell = "RESET" /\ m.error = "LocalReset"
      /\ m.chunk = r.chunk /\ m.taken = r.taken /\ m.sent = r.sent
      /\ Recvd(m) = Recvd(r) /\ m.final = r.final /\ m.eof = r.eof
      /\ m.sender = r.sender /\ m.receiver = r.receiver
  BY DEF StreamRecords, Recvd
<1>3. ResetRecord(r) = q
  BY DEF ResetRecord
<1> HIDE DEF m
<1>4. Woken(m, q)
  BY <1>1, NotifiedIs
<1> HIDE DEF q
<1>5. r.sender \in {"Idle", "Asleep", "Sending"} => Shut(r, q)
  BY <1>2, <1>4, SMTT(30) DEF Woken, Shut
<1>6. q \in StreamRecords
  BY <1>4 DEF Woken
<1>7. n \in StreamRecords
  BY <1>0, <1>6, ZenonT(60) DEF StreamRecords
<1>8. /\ n.registered = q.registered /\ n.open = q.open /\ n.credit = q.credit
      /\ n.buffer = q.buffer /\ n.localClosed = q.localClosed /\ n.error = q.error
      /\ n.remoteClosed = q.remoteClosed /\ n.farewell = q.farewell
      /\ n.chunk = q.chunk /\ n.taken = q.taken /\ n.sent = q.sent
      /\ Recvd(n) = Recvd(q) /\ n.final = q.final /\ n.eof = q.eof
      /\ n.sender = "None" /\ n.receiver = q.receiver
  BY <1>6 DEF StreamRecords, Recvd
<1> HIDE DEF n
<1>9. r.sender \in {"Opening", "AwaitingOpen", "OpenAsleep"} => Shut(r, n)
  BY <1>2, <1>4, <1>7, <1>8, SMTT(30) DEF Woken, Shut
<1> QED
  BY <1>3, <1>5, <1>9 DEF n

\* A stream that is ended by its own end, or by the failure of its multiplexer.
LEMMA EndingStep ==
  ASSUME IInv, NEW a \in Ends, NEW s \in Ids, NEW q,
         Becomes(a, s, q), UNCHANGED cells, Ending(a, streams[a][s], q),
         streams[a][s].sender # "Opening" \/ CannotSend(a)
  PROVE  IInv'
<1>1. q.buffer = 0 /\ streams[a][s].buffer \in Nat
  BY CountsOf DEF IInv, Typed, Counts, Ending
<1>2. q.buffer <= streams[a][s].buffer
  BY <1>1
<1>3. /\ Sane(a, q) /\ Wakeful(q) /\ Quiet(streams[a][s], q, ~CannotSend(a))
      /\ SameTaken(streams[a][s], q) /\ Dozes(streams[a][s], q, Failed(a))
  BY DEF Ending
<1> QED
  BY <1>2, <1>3, LocalStep

-----------------------------------------------------------------------------
(* One lemma per action: opening and accepting *)

LEMMA SendOpenRaises ==
  ASSUME IInv, NEW s \in Ids, SendOpen(s), CannotSend("Initiator")
  PROVE  IInv'
<1> DEFINE r == streams["Initiator"][s]
<1>0. "Initiator" \in Ends
  BY DEF Ends
<1>1. r.sender = "Opening" /\ UNCHANGED cells
  BY DEF SendOpen, SendOrRaise, Send
<1>2. Becomes("Initiator", s, [ResetRecord(r) EXCEPT !.sender = "None"])
  BY DEF SendOpen
<1>3. Sane("Initiator", r) /\ r \in StreamRecords
  BY <1>0 DEF IInv, Typed
<1>4. r.registered /\ ~r.localClosed
  BY <1>1, <1>3 DEF Sane, Unregistered
<1>5. Ending("Initiator", r, [ResetRecord(r) EXCEPT !.sender = "None"])
  BY <1>0, <1>1, <1>3, <1>4, ResetRecordIs, ShutIs
<1> QED
  BY <1>0, <1>1, <1>2, <1>5, EndingStep

LEMMA OpenTimesOutStep ==
  ASSUME IInv, NEW s \in Ids, OpenTimesOut(s)
  PROVE  IInv'
<1> DEFINE r == streams["Initiator"][s]
<1>0. "Initiator" \in Ends
  BY DEF Ends
<1>1. /\ r.sender \in {"AwaitingOpen", "OpenAsleep"} /\ UNCHANGED cells
      /\ Becomes("Initiator", s, [ResetRecord(r) EXCEPT !.sender = "None"])
  BY DEF OpenTimesOut
<1>2. Sane("Initiator", r) /\ r \in StreamRecords
  BY <1>0 DEF IInv, Typed
<1>3. r.registered /\ ~r.localClosed
  BY <1>1, <1>2 DEF Sane, Unregistered
<1>4. Ending("Initiator", r, [ResetRecord(r) EXCEPT !.sender = "None"])
  BY <1>0, <1>1, <1>2, <1>3, ResetRecordIs, ShutIs
<1> QED
  BY <1>0, <1>1, <1>4, EndingStep

\* What these actions leave of a record.
Calm(r, q) ==
    /\ q \in StreamRecords
    /\ q.registered = r.registered /\ q.open = r.open /\ q.buffer = r.buffer
    /\ q.localClosed = r.localClosed /\ q.remoteClosed = r.remoteClosed
    /\ q.error = r.error /\ Recvd(q) = Recvd(r) /\ q.sent = r.sent

\* A step that changes only who does what, as a thread begins or ends to wait.
Turned(r, q) ==
    /\ Calm(r, q)
    /\ q.credit = r.credit /\ q.chunk = r.chunk /\ q.taken = r.taken
    /\ q.farewell = r.farewell /\ q.final = r.final /\ q.eof = r.eof

LEMMA TurnedStep ==
  ASSUME IInv, NEW a \in Ends, NEW s \in Ids, NEW q,
         Becomes(a, s, q), UNCHANGED cells, Turned(streams[a][s], q),
         Wakeful(q), Dozes(streams[a][s], q, Failed(a)),
         streams[a][s].registered,
         LET r == streams[a][s]
         IN  /\ \/ q.sender = r.sender
                \/ r.sender # "Opening" /\ r.chunk = 0 /\ q.sender \in {"Idle", "Asleep"}
                \/ r.sender = "AwaitingOpen" /\ q.sender = "OpenAsleep"
             /\ \/ q.receiver = r.receiver
                \/ /\ r.receiver \notin {"Taken", "Released"}
                   /\ q.receiver \in {"Idle", "Asleep"} /\ q.sender \in {"Idle", "Asleep", "Sending"}
  PROVE  IInv'
<1> DEFINE r == streams[a][s]
<1>1. Sane(a, r) /\ r \in StreamRecords /\ Counts(r)
  BY CountsOf DEF IInv, Typed
<1> HIDE DEF r
<1>2. Turned(r, q) /\ r.registered
  BY DEF r
<1>3. /\ \/ q.sender = r.sender
         \/ r.sender # "Opening" /\ r.chunk = 0 /\ q.sender \in {"Idle", "Asleep"}
         \/ r.sender = "AwaitingOpen" /\ q.sender = "OpenAsleep"
      /\ \/ q.receiver = r.receiver
         \/ /\ r.receiver \notin {"Taken", "Released"}
            /\ q.receiver \in {"Idle", "Asleep"} /\ q.sender \in {"Idle", "Asleep", "Sending"}
  BY DEF r
<1>4. Sane(a, q)
  BY <1>1, <1>2, <1>3, SMTT(30) DEF Sane, Turned, Calm
<1>5. Quiet(r, q, ~CannotSend(a))
  BY <1>1, <1>2, <1>3, SMTT(30) DEF Quiet, Turned, Calm, Counts, Hears
<1>6. SameTaken(r, q) /\ q.buffer <= r.buffer
  BY <1>1, <1>2, <1>3 DEF Turned, Calm, SameTaken, Counts
<1> QED
  BY <1>4, <1>5, <1>6, LocalStep DEF r

LEMMA AwaitOpenStep ==
  ASSUME IInv, NEW s \in Ids, AwaitOpen(s)
  PROVE  IInv'
<1> DEFINE a == "Initiator"
           r == streams[a][s]
           b == [r EXCEPT !.sender = "Idle", !.receiver = "Idle"]
           c == [ResetRecord(r) EXCEPT !.sender = "None"]
           d == [r EXCEPT !.sender = "OpenAsleep"]
<1>0. a \in Ends
  BY DEF Ends
<1>1. /\ r.sender = "AwaitingOpen" /\ UNCHANGED cells
      /\ Becomes(a, s, IF r.open THEN b
                       ELSE IF r.error # "None" \/ Failed(a) THEN c ELSE d)
  BY DEF AwaitOpen
<1>2. Sane(a, r) /\ r \in StreamRecords /\ Wakeful(r)
  BY <1>0 DEF IInv, Typed
<1>3. r.registered /\ ~r.localClosed /\ r.chunk = 0 /\ r.receiver = "None"
  BY <1>1, <1>2 DEF Sane, Unregistered
<1>4. CASE r.open
  <2>1. b \in StreamRecords
    BY <1>2, ZenonT(60) DEF StreamRecords, Senders, Receivers
  <2>2. Turned(r, b) /\ b.sender = "Idle" /\ b.receiver = "Idle"
    BY <1>2, <2>1, SMTT(30) DEF StreamRecords, Turned, Calm, Recvd
  <2>3. Becomes(a, s, b)
    BY <1>1, <1>4
  <2> HIDE DEF b
  <2>4. Wakeful(b) /\ Dozes(r, b, Failed(a))
    BY <2>2 DEF Wakeful, Dozes, Turned, Calm
  <2> QED
    BY <1>0, <1>1, <1>3, <2>2, <2>3, <2>4, TurnedStep
<1>5. CASE ~r.open /\ (r.error # "None" \/ Failed(a))
  <2>1. Becomes(a, s, c)
    BY <1>1, <1>5
  <2>2. Ending(a, r, c)
    BY <1>0, <1>1, <1>2, <1>3, ResetRecordIs, ShutIs
  <2> QED
    BY <1>0, <1>1, <2>1, <2>2, EndingStep
<1>6. CASE ~r.open /\ ~(r.error # "None" \/ Failed(a))
  <2>1. d \in StreamRecords
    BY <1>2, ZenonT(60) DEF StreamRecords, Senders
  <2>2. Turned(r, d) /\ d.sender = "OpenAsleep" /\ d.receiver = r.receiver
    BY <1>2, <2>1, SMTT(30) DEF StreamRecords, Turned, Calm, Recvd
  <2>3. Becomes(a, s, d)
    BY <1>1, <1>6
  <2> HIDE DEF d
  <2>4. Wakeful(d) /\ Dozes(r, d, Failed(a))
    BY <1>2, <1>3, <1>6, <2>2 DEF Wakeful, Dozes, Turned, Calm
  <2> QED
    BY <1>0, <1>1, <1>3, <2>2, <2>3, <2>4, TurnedStep
<1> QED
  BY <1>4, <1>5, <1>6

LEMMA AcceptStreamStep ==
  ASSUME IInv, NEW s \in Ids, AcceptStream(s)
  PROVE  IInv'
<1> DEFINE a == "Acceptor"
           r == streams[a][s]
           q == [r EXCEPT !.sender = "Idle", !.receiver = "Idle"]
<1>0. a \in Ends
  BY DEF Ends
<1>1. r.registered /\ r.sender = "None" /\ UNCHANGED cells /\ Becomes(a, s, q)
  BY DEF AcceptStream
<1>2. Sane(a, r) /\ r \in StreamRecords /\ Wakeful(r)
  BY <1>0 DEF IInv, Typed
<1>3. r.chunk = 0 /\ r.receiver = "None"
  BY <1>1, <1>2 DEF Sane
<1>4. q \in StreamRecords
  BY <1>2, ZenonT(60) DEF StreamRecords, Senders, Receivers
<1>5. Turned(r, q) /\ q.sender = "Idle" /\ q.receiver = "Idle"
  BY <1>2, <1>4, SMTT(30) DEF StreamRecords, Turned, Calm, Recvd
<1> HIDE DEF q
<1>6. Wakeful(q) /\ Dozes(r, q, Failed(a))
  BY <1>5 DEF Wakeful, Dozes, Turned, Calm
<1> QED
  BY <1>0, <1>1, <1>3, <1>5, <1>6, TurnedStep

-----------------------------------------------------------------------------
(* Sending, receiving and closing, as long as no cell moves *)

LEMMA TakeCreditStep ==
  ASSUME IInv, NEW a \in Ends, NEW s \in Ids, TakeCredit(a, s)
  PROVE  IInv'
<1> DEFINE r == streams[a][s]
           d == [r EXCEPT !.sender = "Asleep"]
<1>1. r.sender = "Idle" /\ ~r.localClosed /\ ~r.remoteClosed /\ UNCHANGED cells
  BY DEF TakeCredit
<1>a. \/ \E n \in 1 .. r.credit :
           /\ r.sent + n <= MaxUnits
           /\ Becomes(a, s, [r EXCEPT !.credit = r.credit - n, !.chunk = n, !.sender = "Sending"])
      \/ /\ r.credit = 0 /\ r.error = "None" /\ ~Failed(a)
         /\ Becomes(a, s, d)
  BY DEF TakeCredit
<1>2. Sane(a, r) /\ r \in StreamRecords /\ Wakeful(r) /\ Counts(r)
  BY CountsOf DEF IInv, Typed
<1>3. r.registered /\ r.chunk = 0
  BY <1>1, <1>2 DEF Sane, Unregistered
<1>4. ASSUME NEW n \in 1 .. r.credit, r.sent + n <= MaxUnits,
             Becomes(a, s, [r EXCEPT !.credit = r.credit - n, !.chunk = n, !.sender = "Sending"])
      PROVE  IInv'
  <2> DEFINE m == r.credit - n
             q == [r EXCEPT !.credit = m, !.chunk = n, !.sender = "Sending"]
  <2>1. /\ m \in 0 .. StreamWindow /\ n \in 0 .. StreamWindow /\ m + n = r.credit /\ n \in Nat
        /\ r.sent + n <= MaxUnits
    BY <1>2, <1>4, StreamConstants DEF StreamRecords, Counts
  <2>2. Becomes(a, s, q)
    BY <1>4
  <2> HIDE DEF m
  <2>3. q \in StreamRecords
    BY <1>2, <2>1, ZenonT(60) DEF StreamRecords, Senders
  <2>4. /\ Calm(r, q) /\ q.credit = m /\ q.chunk = n /\ q.sender = "Sending"
        /\ q.taken = r.taken /\ q.farewell = r.farewell /\ q.final = r.final
        /\ q.eof = r.eof /\ q.receiver = r.receiver
    BY <1>2, <2>3, SMTT(30) DEF StreamRecords, Calm, Recvd
  <2> HIDE DEF q, r
  <2>5. Sane(a, q)
    BY <1>1, <1>2, <1>3, <2>1, <2>4, SMTT(30) DEF Sane, Calm
  <2>6. Wakeful(q)
    BY <1>2, <2>4 DEF Wakeful, Calm
  <2>7. Quiet(r, q, ~CannotSend(a))
    BY <1>1, <1>2, <1>3, <2>1, <2>4, SMTT(30) DEF Quiet, Calm, Counts, Hears
  <2>8. SameTaken(r, q) /\ q.buffer <= r.buffer /\ Dozes(r, q, Failed(a))
    BY <1>2, <2>4 DEF SameTaken, Calm, Counts, Dozes
  <2> QED
    BY <1>1, <2>2, <2>5, <2>6, <2>7, <2>8, LocalStep DEF r
<1>5. ASSUME r.credit = 0, r.error = "None", ~Failed(a), Becomes(a, s, d)
      PROVE  IInv'
  <2>1. d \in StreamRecords
    BY <1>2, ZenonT(60) DEF StreamRecords, Senders
  <2>2. Turned(r, d) /\ d.sender = "Asleep" /\ d.receiver = r.receiver
    BY <1>2, <2>1, SMTT(30) DEF StreamRecords, Turned, Calm, Recvd
  <2>3. Becomes(a, s, d)
    BY <1>5
  <2> HIDE DEF d
  <2>4. Wakeful(d) /\ Dozes(r, d, Failed(a))
    BY <1>1, <1>2, <1>5, <2>2 DEF Wakeful, Dozes, Turned, Calm
  <2> QED
    BY <1>1, <1>3, <2>2, <2>3, <2>4, TurnedStep
<1> QED
  BY <1>a, <1>4, <1>5

LEMMA SendDataRaises ==
  ASSUME IInv, NEW a \in Ends, NEW s \in Ids, SendData(a, s), CannotSend(a)
  PROVE  IInv'
<1> DEFINE r == streams[a][s]
           q == [r EXCEPT !.sender = "Idle", !.chunk = 0, !.sent = r.sent]
<1>1. r.sender = "Sending" /\ UNCHANGED cells /\ Becomes(a, s, q)
  BY DEF SendData, SendOrRaise, Send
<1>2. Sane(a, r) /\ r \in StreamRecords /\ Wakeful(r) /\ Counts(r)
  BY CountsOf DEF IInv, Typed
<1>3. r.registered
  BY <1>1, <1>2 DEF Sane, Unregistered
<1>4. q \in StreamRecords
  <2>1. 0 \in 0 .. StreamWindow
    BY StreamConstants
  <2> QED
    BY <1>2, <2>1, ZenonT(60) DEF StreamRecords, Senders
<1>5. /\ Calm(r, q) /\ q.credit = r.credit /\ q.chunk = 0 /\ q.sender = "Idle"
      /\ q.taken = r.taken /\ q.farewell = r.farewell /\ q.final = r.final
      /\ q.eof = r.eof /\ q.receiver = r.receiver
  BY <1>2, <1>4, SMTT(30) DEF StreamRecords, Calm, Recvd
<1> HIDE DEF q, r
<1>6. r.sent <= MaxUnits
  BY <1>2, StreamConstants DEF StreamRecords
<1>7. Sane(a, q)
  BY <1>1, <1>2, <1>3, <1>5, <1>6, StreamConstants, SMTT(30) DEF Sane, Calm, Counts
<1>8. Wakeful(q)
  BY <1>2, <1>5 DEF Wakeful, Calm
<1>9. Quiet(r, q, ~CannotSend(a))
  BY <1>1, <1>2, <1>3, <1>5, SMTT(30) DEF Quiet, Calm, Counts, Hears
<1>10. SameTaken(r, q) /\ q.buffer <= r.buffer /\ Dozes(r, q, Failed(a))
  BY <1>2, <1>5 DEF SameTaken, Calm, Counts, Dozes
<1> QED
  BY <1>1, <1>7, <1>8, <1>9, <1>10, LocalStep DEF r

\* recv() returns b"", ...
LEMMA ReceiveEnd ==
  ASSUME IInv, NEW a \in Ends, NEW s \in Ids,
         streams[a][s].receiver = "Idle", streams[a][s].buffer = 0,
         streams[a][s].remoteClosed \/ streams[a][s].localClosed,
         Becomes(a, s, [streams[a][s] EXCEPT
                          !.eof = \/ streams[a][s].eof
                                  \/ ~streams[a][s].localClosed /\ streams[a][s].error = "None"]),
         UNCHANGED cells
  PROVE  IInv'
<1> DEFINE r == streams[a][s]
           b == (r.eof \/ (~r.localClosed /\ r.error = "None"))
           q == [r EXCEPT !.eof = b]
<1>1. /\ r.receiver = "Idle" /\ r.buffer = 0 /\ (r.remoteClosed \/ r.localClosed)
      /\ Becomes(a, s, q) /\ b \in BOOLEAN
  OBVIOUS
<1>2. Sane(a, r) /\ r \in StreamRecords /\ Wakeful(r) /\ Counts(r)
  BY CountsOf DEF IInv, Typed
<1>3. r.registered
  BY <1>1, <1>2 DEF Sane, Unregistered
<1>a. b <=> r.eof \/ (~r.localClosed /\ r.error = "None")
  OBVIOUS
<1> HIDE DEF b
<1>4. q \in StreamRecords
  BY <1>1, <1>2, ZenonT(60) DEF StreamRecords
<1>5. /\ Calm(r, q) /\ q.credit = r.credit /\ q.chunk = r.chunk /\ q.sender = r.sender
      /\ q.taken = r.taken /\ q.farewell = r.farewell /\ q.final = r.final
      /\ q.receiver = r.receiver
  BY <1>2, <1>4, SMTT(30) DEF StreamRecords, Calm, Recvd
<1>b. q.eof = b
  BY <1>2, ZenonT(60) DEF StreamRecords
<1> HIDE DEF q, r
<1>6. Sane(a, q)
  BY <1>b, <1>a, <1>1, <1>2, <1>3, <1>5, SMTT(30) DEF Sane, Calm
<1>7. Wakeful(q)
  BY <1>2, <1>5 DEF Wakeful, Calm
<1>8. Quiet(r, q, ~CannotSend(a))
  BY <1>a, <1>b, <1>1, <1>2, <1>5, SMTT(30) DEF Quiet, Calm, Counts, Hears
<1>9. SameTaken(r, q) /\ q.buffer <= r.buffer /\ Dozes(r, q, Failed(a))
  BY <1>2, <1>5 DEF SameTaken, Calm, Counts, Dozes
<1> QED
  BY <1>1, <1>6, <1>7, <1>8, <1>9, LocalStep DEF r

\* ... or goes to sleep.
LEMMA ReceiveAsleep ==
  ASSUME IInv, NEW a \in Ends, NEW s \in Ids,
         streams[a][s].receiver = "Idle", streams[a][s].buffer = 0,
         ~streams[a][s].remoteClosed, ~streams[a][s].localClosed,
         streams[a][s].error = "None", ~Failed(a),
         Becomes(a, s, [streams[a][s] EXCEPT !.receiver = "Asleep"]), UNCHANGED cells
  PROVE  IInv'
<1> DEFINE r == streams[a][s]
           q == [r EXCEPT !.receiver = "Asleep"]
<1>1. /\ r.receiver = "Idle" /\ r.buffer = 0 /\ ~r.remoteClosed /\ ~r.localClosed
      /\ r.error = "None" /\ Becomes(a, s, q)
  OBVIOUS
<1>2. Sane(a, r) /\ r \in StreamRecords /\ Wakeful(r)
  BY DEF IInv, Typed
<1>3. r.registered /\ r.sender \in {"Idle", "Asleep", "Sending"}
  BY <1>1, <1>2 DEF Sane, Unregistered, StreamRecords, Senders
<1>4. q \in StreamRecords
  BY <1>2, ZenonT(60) DEF StreamRecords, Receivers
<1>5. Turned(r, q) /\ q.sender = r.sender /\ q.receiver = "Asleep"
  BY <1>2, <1>4, SMTT(30) DEF StreamRecords, Turned, Calm, Recvd
<1> HIDE DEF q
<1>6. Wakeful(q) /\ Dozes(r, q, Failed(a))
  BY <1>1, <1>2, <1>5 DEF Wakeful, Dozes, Turned, Calm
<1> QED
  BY <1>1, <1>3, <1>5, <1>6, TurnedStep

\* The end of a recv() that took something: what it had in its hands is returned, or
\* dropped.
LEMMA RecvEndsIs ==
  ASSUME IInv, NEW a \in Ends, NEW s \in Ids, NEW raised \in BOOLEAN,
         streams[a][s].receiver = "Released"
  PROVE  LET r == streams[a][s]
             q == RecvEnds(r, raised)
         IN  /\ Calm(r, q) /\ q.credit = r.credit /\ q.chunk = r.chunk /\ q.sender = r.sender
             /\ q.taken = 0 /\ q.farewell = r.farewell /\ q.final = r.final
             /\ q.eof = r.eof /\ q.receiver = "Idle"
<1> DEFINE r == streams[a][s]
           w == streams[Peer(a)][s]
           x == IF raised THEN r.received ELSE r.received + r.taken
           d == IF raised THEN r.dropped + r.taken ELSE r.dropped
           q == [r EXCEPT !.receiver = "Idle", !.taken = 0, !.received = x, !.dropped = d]
<1>1. r \in StreamRecords /\ Counts(r)
  BY CountsOf DEF IInv, Typed
<1>2. x \in Nat /\ d \in Nat /\ x + d + 0 = Recvd(r) /\ Recvd(r) <= MaxUnits
  <2>1. /\ Peer(a) \in Ends /\ Peer(Peer(a)) = a
        /\ w \in StreamRecords /\ Counts(w) /\ Data(Peer(a), s) \in Nat
    BY PeerIs, CountsOf, MeasuresType DEF IInv, Typed
  <2>2. Recvd(r) + r.buffer + Data(Peer(a), s) <= w.sent
    BY <2>1 DEF IInv, Delivered
  <2>3. w.sent <= MaxUnits
    BY <2>1, StreamConstants DEF StreamRecords
  <2> HIDE DEF r, w
  <2>4. Recvd(r) <= MaxUnits
    BY <1>1, <2>1, <2>2, <2>3, StreamConstants DEF Counts
  <2> QED
    BY <1>1, <2>4 DEF Counts, Recvd
<1>3. x \in 0 .. MaxUnits /\ d \in 0 .. MaxUnits /\ 0 \in 0 .. StreamWindow
  BY <1>2, StreamConstants
<1>4. RecvEnds(r, raised) = q
  BY DEF RecvEnds
<1> HIDE DEF x, d
<1>5. q \in StreamRecords
  BY <1>1, <1>3, ZenonT(60) DEF StreamRecords, Receivers
<1>6. /\ q.registered = r.registered /\ q.open = r.open /\ q.buffer = r.buffer
      /\ q.localClosed = r.localClosed /\ q.remoteClosed = r.remoteClosed
      /\ q.error = r.error /\ q.sent = r.sent /\ q.received = x /\ q.dropped = d
      /\ q.credit = r.credit /\ q.chunk = r.chunk /\ q.sender = r.sender
      /\ q.taken = 0 /\ q.farewell = r.farewell /\ q.final = r.final
      /\ q.eof = r.eof /\ q.receiver = "Idle"
  BY <1>1, SMTT(30) DEF StreamRecords
<1>7. Recvd(q) = Recvd(r)
  BY <1>2, <1>6 DEF Recvd
<1> QED
  BY <1>4, <1>5, <1>6, <1>7 DEF Calm

LEMMA SendWindowUpdateRaises ==
  ASSUME IInv, NEW a \in Ends, NEW s \in Ids, SendWindowUpdate(a, s), CannotSend(a)
  PROVE  IInv'
<1> DEFINE r == streams[a][s]
           q == RecvEnds(r, CannotSend(a))
<1>1. r.receiver = "Released" /\ UNCHANGED cells /\ Becomes(a, s, q)
  BY DEF SendWindowUpdate, SendOrRaise, Send
<1>2. Sane(a, r) /\ r \in StreamRecords /\ Wakeful(r) /\ Counts(r)
  BY CountsOf DEF IInv, Typed
<1>3. r.registered /\ r.sender \notin {"None", "Opening", "AwaitingOpen", "OpenAsleep"}
  BY <1>1, <1>2 DEF Sane, Unregistered
<1>4. /\ Calm(r, q) /\ q.credit = r.credit /\ q.chunk = r.chunk /\ q.sender = r.sender
      /\ q.taken = 0 /\ q.farewell = r.farewell /\ q.final = r.final
      /\ q.eof = r.eof /\ q.receiver = "Idle"
  BY <1>1, RecvEndsIs DEF CannotSend, Failed
<1>5. q \in StreamRecords
  BY <1>4 DEF Calm
<1> HIDE DEF q, r
<1>6. Sane(a, q)
  BY <1>1, <1>2, <1>3, <1>4, SMTT(30) DEF Sane, Calm
<1>7. Wakeful(q)
  BY <1>2, <1>4 DEF Wakeful, Calm
<1>8. Quiet(r, q, ~CannotSend(a))
  BY <1>2, <1>4, SMTT(30) DEF Quiet, Calm, Counts, Hears
<1>9. SameTaken(r, q) /\ q.buffer <= r.buffer /\ Dozes(r, q, Failed(a))
  BY <1>1, <1>2, <1>4 DEF SameTaken, Calm, Counts, Dozes
<1> QED
  BY <1>1, <1>6, <1>7, <1>8, <1>9, LocalStep DEF r

LEMMA WaitTimesOutStep ==
  ASSUME IInv, NEW a \in Ends, NEW s \in Ids, WaitTimesOut(a, s)
  PROVE  IInv'
<1> DEFINE r == streams[a][s]
           x == IF r.sender = "Asleep" THEN "Idle" ELSE r.sender
           y == IF r.receiver = "Asleep" THEN "Idle" ELSE r.receiver
           b == [r EXCEPT !.sender = x]
           c == [r EXCEPT !.receiver = y]
<1>1. /\ r.sender = "Asleep" \/ r.receiver = "Asleep"
      /\ UNCHANGED cells
      /\ Becomes(a, s, b) \/ Becomes(a, s, c)
  BY DEF WaitTimesOut
<1>2. Sane(a, r) /\ r \in StreamRecords /\ Wakeful(r)
  BY DEF IInv, Typed
<1>3. /\ r.registered /\ (r.sender = "Asleep" => r.chunk = 0)
      /\ r.sender \in {"Idle", "Asleep", "Sending"}
  BY <1>1, <1>2 DEF Sane, Unregistered, StreamRecords, Senders
<1>4. /\ x \in Senders /\ (x = r.sender \/ (r.sender = "Asleep" /\ x = "Idle"))
      /\ y \in Receivers /\ (y = r.receiver \/ (r.receiver = "Asleep" /\ y = "Idle"))
  BY <1>2 DEF StreamRecords, Senders, Receivers
<1> HIDE DEF x, y
<1>5. b \in StreamRecords /\ c \in StreamRecords
  BY <1>2, <1>4, ZenonT(60) DEF StreamRecords
<1>6. Turned(r, b) /\ b.sender = x /\ b.receiver = r.receiver
  BY <1>2, <1>5, SMTT(30) DEF StreamRecords, Turned, Calm, Recvd
<1>7. Turned(r, c) /\ c.sender = r.sender /\ c.receiver = y
  BY <1>2, <1>5, SMTT(30) DEF StreamRecords, Turned, Calm, Recvd
<1> HIDE DEF b, c
<1>8. Wakeful(b) /\ Dozes(r, b, Failed(a))
  BY <1>2, <1>4, <1>6 DEF Wakeful, Dozes, Turned, Calm
<1>9. Wakeful(c) /\ Dozes(r, c, Failed(a))
  BY <1>2, <1>4, <1>7 DEF Wakeful, Dozes, Turned, Calm
<1>10. CASE Becomes(a, s, b)
  BY <1>1, <1>3, <1>4, <1>6, <1>8, <1>10, TurnedStep
<1>11. CASE Becomes(a, s, c)
  BY <1>1, <1>3, <1>4, <1>7, <1>9, <1>11, TurnedStep
<1> QED
  BY <1>1, <1>10, <1>11

LEMMA CloseStep ==
  ASSUME IInv, NEW a \in Ends, NEW s \in Ids, Close(a, s) \/ Reset(a, s)
  PROVE  IInv'
<1> DEFINE r == streams[a][s]
<1>1. /\ r.sender \in {"Idle", "Asleep", "Sending"} /\ ~r.localClosed /\ UNCHANGED cells
      /\ Becomes(a, s, ClosedRecord(r)) \/ Becomes(a, s, ResetRecord(r))
  BY DEF Close, Reset, InUse
<1>2. Sane(a, r) /\ r \in StreamRecords
  BY DEF IInv, Typed
<1>3. r.registered
  BY <1>1, <1>2 DEF Sane, Unregistered
<1>4. Ending(a, r, ClosedRecord(r)) /\ Ending(a, r, ResetRecord(r))
  BY <1>1, <1>2, <1>3, ClosedRecordIs, ResetRecordIs, ShutIs
<1> QED
  BY <1>1, <1>4, EndingStep

LEMMA SendFarewellRaises ==
  ASSUME IInv, NEW a \in Ends, NEW s \in Ids, SendFarewell(a, s), CannotSend(a)
  PROVE  IInv'
<1> DEFINE r == streams[a][s]
           n == IF r.farewell = "CLOSE" THEN r.sent ELSE r.final
           q == [r EXCEPT !.farewell = "None", !.final = n]
<1>1. r.farewell # "None" /\ UNCHANGED cells /\ Becomes(a, s, q)
  BY DEF SendFarewell, SendOrRaise, Send
<1>2. Sane(a, r) /\ r \in StreamRecords /\ Wakeful(r) /\ Counts(r)
  BY CountsOf DEF IInv, Typed
<1>3. r.registered /\ r.localClosed
  BY <1>1, <1>2 DEF Sane, Unregistered
<1>4. n \in 0 .. MaxUnits
  BY <1>2 DEF StreamRecords
<1> HIDE DEF n
<1>5. q \in StreamRecords
  BY <1>2, <1>4, ZenonT(60) DEF StreamRecords
<1>6. /\ Calm(r, q) /\ q.credit = r.credit /\ q.chunk = r.chunk /\ q.sender = r.sender
      /\ q.taken = r.taken /\ q.farewell = "None" /\ q.receiver = r.receiver /\ q.eof = r.eof
  BY <1>2, <1>5, SMTT(30) DEF StreamRecords, Calm, Recvd
<1> HIDE DEF q, r
<1>7. Sane(a, q)
  BY <1>1, <1>2, <1>3, <1>6, SMTT(30) DEF Sane, Calm
<1>8. Wakeful(q)
  BY <1>2, <1>6 DEF Wakeful, Calm
<1>9. Quiet(r, q, ~CannotSend(a))
  BY <1>1, <1>2, <1>3, <1>6, SMTT(30) DEF Quiet, Calm, Counts, Hears
<1>10. SameTaken(r, q) /\ q.buffer <= r.buffer /\ Dozes(r, q, Failed(a))
  BY <1>2, <1>6 DEF SameTaken, Calm, Counts, Dozes
<1> QED
  BY <1>1, <1>7, <1>8, <1>9, <1>10, LocalStep DEF r

-----------------------------------------------------------------------------
(* Steps that change a multiplexer otherwise, and move no cell *)

LEMMA MuxStepOf ==
  ASSUME IInv, NEW a \in Ends, NEW s \in Ids, NEW q,
         Changed(a, s, q), UNCHANGED cells, Sane(a, q), Wakeful(q),
         Quiet(streams[a][s], q, ~CannotSend(a)'),
         mux' \in [Ends -> MuxRecords], \A e \in Ends : Budgeted(e)',
         \A e \in Ends : mux'[e].cause # "Protocol",
         \A t \in Ids : Weakened(t), \A e \in Ends, t \in Ids : Failing(e, t)'
  PROVE  IInv'
<1>1. Typed'
  BY DEF Typed, IInv, Changed
<1>2. ASSUME NEW t \in Ids PROVE Pair(t)'
  <2>1. Still(t)
    BY QueueKept DEF Still
  <2>2. \A e \in Ends : streams'[e][t] = IF e = a /\ t = s THEN q ELSE streams[e][t]
    BY DEF Changed
  <2> QED
    BY <2>1, <2>2, QuietPair
<1> QED
  BY <1>1, <1>2, Assembled

\* Where only one multiplexer changes, and no stream does.
LEMMA MuxAlone ==
  ASSUME IInv, NEW a \in Ends, NEW m, mux' = [mux EXCEPT ![a] = m],
         UNCHANGED <<streams, cells>>, m \in MuxRecords, m.used = mux[a].used,
         m.cause # "Protocol",
         mux[a].cause # "None" => m.cause # "None",
         mux[a].closed => m.closed, mux[a].broken => m.broken,
         \/ m.acking = mux[a].acking
         \/ m.acking = 0 /\ (m.cause # "None" \/ m.closed \/ m.broken),
         \A t \in Ids : Failing(a, t)'
  PROVE  IInv'
<1>1. /\ \A e \in Ends : mux'[e] = IF e = a THEN m ELSE mux[e]
      /\ mux' \in [Ends -> MuxRecords]
  BY DEF IInv, Typed
<1>2. PICK s \in Ids : TRUE
  BY StreamConstants DEF Ids
<1> DEFINE r == streams[a][s]
<1>3. Sane(a, r) /\ Wakeful(r) /\ r \in StreamRecords /\ Counts(r)
  BY CountsOf DEF IInv, Typed
<1>4. Changed(a, s, r)
  BY DEF Changed, IInv, Typed
<1>5. Quiet(r, r, ~CannotSend(a)')
  <2> HIDE DEF r
  <2> QED
    BY <1>3 DEF Quiet, Counts
<1>6. \A e \in Ends : Budgeted(e)'
  <2>1. \A e \in Ends : mux'[e].used = mux[e].used
    BY <1>1
  <2>2. \A e \in Ends : HeldBy(e)' = HeldBy(e)
    BY DEF HeldBy
  <2> QED
    BY <2>1, <2>2 DEF IInv, Budgeted
<1>7. \A e \in Ends : mux'[e].cause # "Protocol"
  BY <1>1 DEF IInv, Typed
<1>8. \A t \in Ids : Weakened(t)
  BY <1>1 DEF Weakened, CannotSend, Failed, Ends
<1>9. ASSUME NEW e \in Ends, NEW t \in Ids PROVE Failing(e, t)'
  <2>1. CASE e # a
    BY <1>1, <2>1 DEF IInv, Failing, Failed
  <2> QED
    BY <2>1
<1> QED
  BY <1>1, <1>3, <1>4, <1>5, <1>6, <1>7, <1>8, <1>9, MuxStepOf

\* The reader ends.
LEMMA ReaderEndsStep ==
  ASSUME IInv, NEW a \in Ends, ReaderEnds(a, "Channel"), UNCHANGED <<streams, cells>>
  PROVE  IInv'
<1> DEFINE o == mux[a]
           c == IF o.cause = "None" THEN "Channel" ELSE o.cause
           b == IF o.closed THEN o ELSE [o EXCEPT !.cause = c, !.toFail = o.toFail \cup Registered(a)]
           m == [b EXCEPT !.reading = FALSE, !.acking = 0]
<1>1. o \in MuxRecords /\ o.cause # "Protocol"
  BY DEF IInv, Typed
<1>2. mux' = [mux EXCEPT ![a] = m]
  BY DEF ReaderEnds, FailedMux
<1>3. /\ b \in MuxRecords /\ b.used = o.used /\ b.closed = o.closed /\ b.broken = o.broken
      /\ ~o.closed => b.cause = c /\ b.toFail = o.toFail \cup Registered(a)
      /\ o.closed => b = o
  BY <1>1 DEF MuxRecords, Registered
<1>4. c \in {"Channel", o.cause} \ {"None", "Protocol"}
  BY <1>1
<1> HIDE DEF b, c
<1>5. /\ m \in MuxRecords /\ m.used = o.used /\ m.closed = o.closed /\ m.broken = o.broken
      /\ m.cause = b.cause /\ m.toFail = b.toFail /\ ~m.reading /\ m.acking = 0
  <2>1. 0 \in 0 .. MaxStreams /\ b \in MuxRecords
    BY <1>3, StreamConstants
  <2>2. m \in MuxRecords
    BY <2>1, ZenonT(60) DEF MuxRecords
  <2> QED
    BY <1>3, <2>1, <2>2 DEF MuxRecords
<1>6. mux'[a] = m
  BY <1>2 DEF IInv, Typed
<1> HIDE DEF m
<1>7. \A t \in Ids : Failing(a, t)'
  <2> TAKE t \in Ids
  <2>1. Failing(a, t)
    BY DEF IInv
  <2> QED
    BY <1>3, <1>4, <1>5, <1>6, <2>1 DEF Failing, Failed, Registered
<1> QED
  BY <1>1, <1>2, <1>3, <1>4, <1>5, <1>7, MuxAlone

LEMMA ReaderStopsStep ==
  ASSUME IInv, NEW a \in Ends, ReaderStops(a)
  PROVE  IInv'
BY ReaderEndsStep DEF ReaderStops

LEMMA SendAckRaises ==
  ASSUME IInv, NEW a \in Ends, SendAck(a), CannotSend(a)
  PROVE  IInv'
BY ReaderEndsStep DEF SendAck, SendOrRaise, Send

LEMMA CloseMuxStep ==
  ASSUME IInv, NEW a \in Ends, CloseMux(a)
  PROVE  IInv'
<1> DEFINE o == mux[a]
           m == [o EXCEPT !.closed = TRUE, !.toFail = o.toFail \cup Registered(a)]
<1>1. o \in MuxRecords /\ o.cause # "Protocol" /\ mux \in [Ends -> MuxRecords]
  BY DEF IInv, Typed
<1>2. mux' = [mux EXCEPT ![a] = m] /\ UNCHANGED <<streams, cells>>
  BY DEF CloseMux
<1>3. /\ m \in MuxRecords /\ m.used = o.used /\ m.closed /\ m.broken = o.broken
      /\ m.cause = o.cause /\ m.acking = o.acking /\ m.reading = o.reading
      /\ m.toFail = o.toFail \cup Registered(a)
  BY <1>1 DEF MuxRecords, Registered
<1>4. mux'[a] = m
  BY <1>1, <1>2
<1> HIDE DEF m
<1>5. \A t \in Ids : Failing(a, t)'
  BY <1>2, <1>3, <1>4 DEF IInv, Failing, Failed, Registered
<1> QED
  BY <1>1, <1>2, <1>3, <1>5, MuxAlone

LEMMA BreakStep ==
  ASSUME IInv, NEW a \in Ends, DestroyChannel(a) \/ ChannelBreaks(a)
  PROVE  IInv'
<1> DEFINE o == mux[a]
           m == [o EXCEPT !.broken = TRUE]
<1>1. o \in MuxRecords /\ o.cause # "Protocol" /\ mux \in [Ends -> MuxRecords]
  BY DEF IInv, Typed
<1>2. mux' = [mux EXCEPT ![a] = m] /\ UNCHANGED <<streams, cells>>
  BY DEF DestroyChannel, ChannelBreaks
<1>3. /\ m \in MuxRecords /\ m.used = o.used /\ m.closed = o.closed /\ m.broken
      /\ m.cause = o.cause /\ m.acking = o.acking /\ m.reading = o.reading
      /\ m.toFail = o.toFail
  BY <1>1 DEF MuxRecords
<1>4. mux'[a] = m
  BY <1>1, <1>2
<1> HIDE DEF m
<1>5. \A t \in Ids : Failing(a, t)'
  BY <1>2, <1>3, <1>4 DEF IInv, Failing, Failed
<1> QED
  BY <1>1, <1>2, <1>3, <1>5, MuxAlone

LEMMA CoverFailsStep ==
  ASSUME IInv, NEW a \in Ends, CoverFails(a)
  PROVE  IInv'
<1> DEFINE o == mux[a]
           c == IF o.cause = "None" THEN "Channel" ELSE o.cause
           m == [o EXCEPT !.cause = c, !.toFail = o.toFail \cup Registered(a)]
<1>1. o \in MuxRecords /\ o.cause # "Protocol" /\ mux \in [Ends -> MuxRecords]
  BY DEF IInv, Typed
<1>2. mux' = [mux EXCEPT ![a] = m] /\ UNCHANGED <<streams, cells>>
  BY DEF CoverFails, FailedMux
<1>3. c \in {"Channel", o.cause} \ {"None", "Protocol"}
  BY <1>1
<1> HIDE DEF c
<1>4. /\ m \in MuxRecords /\ m.used = o.used /\ m.closed = o.closed /\ m.broken = o.broken
      /\ m.cause = c /\ m.acking = o.acking /\ m.reading = o.reading
      /\ m.toFail = o.toFail \cup Registered(a)
  BY <1>1, <1>3 DEF MuxRecords, Registered
<1>5. mux'[a] = m
  BY <1>1, <1>2
<1> HIDE DEF m
<1>6. \A t \in Ids : Failing(a, t)'
  BY <1>2, <1>4, <1>5 DEF IInv, Failing, Failed, Registered
<1> QED
  BY <1>1, <1>2, <1>3, <1>4, <1>6, MuxAlone

\* recv() takes n cells from the buffer.
LEMMA TakeStep ==
  ASSUME IInv, NEW a \in Ends, NEW s \in Ids, streams[a][s].receiver = "Idle",
         NEW n \in 1 .. streams[a][s].buffer, Take(a, s, n), UNCHANGED cells
  PROVE  IInv'
<1> DEFINE r == streams[a][s]
           b == r.buffer - n
           q == [r EXCEPT !.buffer = b, !.taken = n, !.receiver = "Taken"]
<1>1. Sane(a, r) /\ r \in StreamRecords /\ Wakeful(r) /\ Counts(r) /\ Failing(a, s)
  BY CountsOf DEF IInv, Typed
<1>2. n \in Nat /\ n # 0 /\ n <= r.buffer /\ n <= StreamWindow
  BY <1>1, StreamConstants DEF StreamRecords, Counts
<1>4. /\ b \in 0 .. StreamWindow /\ n \in 0 .. StreamWindow
      /\ b + n = r.buffer /\ b \in Nat
  BY <1>1, <1>2, StreamConstants DEF StreamRecords, Counts
<1>5. r.registered /\ r.sender \in {"Idle", "Asleep", "Sending"} /\ r.taken = 0 /\ ~r.eof
      /\ ~r.localClosed /\ r.error = "None"
  BY <1>1, <1>2 DEF Sane, Unregistered, StreamRecords, Senders
<1>6. streams' = [streams EXCEPT ![a][s] = q] /\ mux' = mux
  BY ZenonT(60) DEF Take, IInv, Typed
<1> HIDE DEF b
<1>7. q \in StreamRecords
  BY <1>1, <1>4, ZenonT(200) DEF StreamRecords, Receivers
<1>8. /\ q.registered = r.registered /\ q.open = r.open /\ q.credit = r.credit
      /\ q.buffer = b /\ q.localClosed = r.localClosed /\ q.error = r.error
      /\ q.remoteClosed = r.remoteClosed /\ q.farewell = r.farewell
      /\ q.chunk = r.chunk /\ q.taken = n /\ q.sent = r.sent
      /\ q.received = r.received /\ q.dropped = r.dropped /\ q.final = r.final /\ q.eof = r.eof
      /\ q.sender = r.sender /\ q.receiver = "Taken"
  BY <1>1, SMTT(30) DEF StreamRecords
<1>9. Changed(a, s, q)
  BY <1>6, <1>7, ChangedIs DEF IInv
<1> HIDE DEF q, r
<1>10. Sane(a, q)
  BY <1>1, <1>5, <1>7, <1>8, SMTT(30) DEF Sane
<1>11. Wakeful(q)
  BY <1>1, <1>8 DEF Wakeful
<1>12. Quiet(r, q, ~CannotSend(a)')
  <2>1. Recvd(q) = Recvd(r) + n
    BY <1>1, <1>2, <1>5, <1>8 DEF Recvd, Counts
  <2> QED
    BY <1>1, <1>2, <1>4, <1>5, <1>8, <2>1, SMTT(30) DEF Quiet, Counts, Hears
<1>13. mux' \in [Ends -> MuxRecords] /\ \A e \in Ends : mux'[e].cause # "Protocol"
  BY <1>6 DEF IInv, Typed
<1>14. \A e \in Ends : Budgeted(e)'
  <2>1. mux[a].used \in Nat
    BY StreamConstants DEF IInv, Typed, MuxRecords
  <2>2. Held(q) = Held(r) /\ Held(r) \in Nat
    BY <1>1, <1>2, <1>4, <1>5, <1>8 DEF Held, Counts
  <2>3. mux'[a].used = (mux[a].used + Held(q)) - Held(r)
    BY <1>6, <2>1, <2>2
  <2> QED
    BY <1>6, <1>7, <1>9, <2>3, BudgetKept DEF IInv, r
<1>15. \A t \in Ids : Weakened(t)
  BY <1>6 DEF Weakened, CannotSend, Failed
<1>16. ASSUME NEW e \in Ends, NEW t \in Ids PROVE Failing(e, t)'
  <2>1. streams'[e][t] = IF e = a /\ t = s THEN q ELSE streams[e][t]
    BY <1>9 DEF Changed
  <2>2. r.buffer # 0
    BY <1>1, <1>2 DEF Counts
  <2>3. CASE e = a /\ t = s
    BY <1>1, <1>6, <1>8, <2>1, <2>2, <2>3 DEF Failing, Failed, r
  <2>4. CASE ~(e = a /\ t = s)
    BY <1>6, <2>1, <2>4 DEF IInv, Failing, Failed
  <2> QED
    BY <2>3, <2>4
<1> QED
  BY <1>9, <1>10, <1>11, <1>12, <1>13, <1>14, <1>15, <1>16, MuxStepOf DEF r

LEMMA ReceiveStep ==
  ASSUME IInv, NEW a \in Ends, NEW s \in Ids, Receive(a, s)
  PROVE  IInv'
<1>1. streams[a][s].receiver = "Idle" /\ UNCHANGED cells
  BY DEF Receive
<1>2. CASE \E n \in 1 .. streams[a][s].buffer : Take(a, s, n)
  BY <1>1, <1>2, TakeStep
<1>3. CASE ~(\E n \in 1 .. streams[a][s].buffer : Take(a, s, n))
  BY <1>1, <1>3, ReceiveEnd, ReceiveAsleep DEF Receive
<1> QED
  BY <1>2, <1>3

LEMMA ReleaseTakenStep ==
  ASSUME IInv, NEW a \in Ends, NEW s \in Ids, ReleaseTaken(a, s)
  PROVE  IInv'
<1> DEFINE r == streams[a][s]
           u == mux[a].used - r.taken
           q == [r EXCEPT !.receiver = "Released"]
<1>1. /\ r.receiver = "Taken" /\ UNCHANGED cells
      /\ streams' = [streams EXCEPT ![a][s] = q]
      /\ mux' = [mux EXCEPT ![a].used = u]
  BY DEF ReleaseTaken, IInv, Typed
<1>2. Sane(a, r) /\ r \in StreamRecords /\ Wakeful(r) /\ Counts(r)
  BY CountsOf DEF IInv, Typed
<1>3. r.registered /\ r.sender \notin {"None", "Opening", "AwaitingOpen", "OpenAsleep"}
  BY <1>1, <1>2 DEF Sane, Unregistered
<1>4. q \in StreamRecords
  BY <1>2, ZenonT(60) DEF StreamRecords, Receivers
<1>5. Turned(r, q) /\ q.sender = r.sender /\ q.receiver = "Released"
  BY <1>2, <1>4, SMTT(30) DEF StreamRecords, Turned, Calm, Recvd
<1>6. Changed(a, s, q)
  BY <1>1, <1>4, ChangedIs DEF IInv
<1>7. mux \in [Ends -> MuxRecords] /\ mux[a].used \in Nat /\ mux[a].used <= Budget
  BY StreamConstants DEF IInv, Typed, MuxRecords
<1> HIDE DEF u
<1>8. mux'[a].used = u /\ \A e \in Ends \ {a} : mux'[e].used = mux[e].used
  BY <1>1, <1>7 DEF MuxRecords
<1>9. \A e \in Ends : SameMux(e)
  BY <1>1, <1>7 DEF MuxRecords, SameMux
<1> HIDE DEF q, r
<1>10. (mux[a].used + Held(q)) - Held(r) = u /\ Held(q) <= Held(r)
  BY <1>1, <1>2, <1>5, <1>7 DEF Held, Counts, Turned, Calm, u, r
<1>11. /\ \A e \in Ends : Budgeted(e)'
       /\ u \in Nat /\ u <= mux[a].used
  BY <1>4, <1>6, <1>8, <1>10, BudgetKept DEF IInv, r
<1>12. mux' \in [Ends -> MuxRecords]
  <2>1. u \in 0 .. Budget
    BY <1>7, <1>11, StreamConstants
  <2> QED
    BY <1>1, <1>7, <2>1 DEF MuxRecords
<1>13. Sane(a, q)
  BY <1>1, <1>2, <1>3, <1>5, SMTT(30) DEF Sane, Turned, Calm
<1>14. Wakeful(q)
  BY <1>2, <1>5 DEF Wakeful, Turned, Calm
<1>15. Quiet(r, q, ~CannotSend(a)')
  BY <1>2, <1>3, <1>5, SMTT(30) DEF Quiet, Turned, Calm, Counts, Hears
<1>16. \A e \in Ends : mux'[e].cause # "Protocol"
  BY <1>9 DEF IInv, Typed, SameMux
<1>17. \A t \in Ids : Weakened(t)
  BY <1>9 DEF Weakened, CannotSend, Failed, SameMux, Ends
<1>18. ASSUME NEW e \in Ends, NEW t \in Ids PROVE Failing(e, t)'
  <2>1. streams'[e][t] = IF e = a /\ t = s THEN q ELSE streams[e][t]
    BY <1>6 DEF Changed
  <2>2. Failing(e, t) /\ SameMux(e)
    BY <1>9 DEF IInv
  <2>3. CASE e = a /\ t = s
    BY <1>5, <2>1, <2>2, <2>3 DEF Failing, Failed, r, Turned, Calm, SameMux
  <2>4. CASE ~(e = a /\ t = s)
    BY <2>1, <2>2, <2>4 DEF Failing, Failed, SameMux
  <2> QED
    BY <2>3, <2>4
<1> QED
  BY <1>1, <1>6, <1>11, <1>12, <1>13, <1>14, <1>15, <1>16, <1>17, <1>18, MuxStepOf DEF r

LEMMA FailStreamStep ==
  ASSUME IInv, NEW a \in Ends, NEW s \in Ids, FailStream(a, s)
  PROVE  IInv'
<1> DEFINE r == streams[a][s]
           u == mux[a].used - r.buffer
           l == mux[a].toFail \ {s}
           q == FailedRecord(r, "Multiplexer")
<1>1. /\ s \in mux[a].toFail /\ UNCHANGED cells
      /\ streams' = [streams EXCEPT ![a][s] = q]
      /\ mux' = [mux EXCEPT ![a].toFail = l, ![a].used = u]
  BY DEF FailStream
<1>2. Sane(a, r) /\ r \in StreamRecords /\ Counts(r)
  BY CountsOf DEF IInv, Typed
<1>3. r.registered
  BY <1>1 DEF IInv, Failing
<1>4. /\ Ending(a, r, q) /\ q.error # "None"
      /\ r.sender = "Opening" => q.sender = "Opening"
  BY <1>2, <1>3, FailedRecordIs DEF Errors
<1> HIDE DEF q, r
<1>5. /\ Sane(a, q) /\ Wakeful(q) /\ Quiet(r, q, ~CannotSend(a)') /\ q \in StreamRecords
      /\ q.buffer = 0 /\ SameTaken(r, q)
      /\ q.sender \notin {"Asleep", "OpenAsleep"} /\ q.receiver # "Asleep"
  BY <1>4 DEF Ending, Sane
<1>6. Changed(a, s, q)
  BY <1>1, <1>5, ChangedIs DEF IInv
<1>7. mux \in [Ends -> MuxRecords] /\ mux[a].used \in Nat /\ mux[a].used <= Budget
  BY StreamConstants DEF IInv, Typed, MuxRecords
<1> HIDE DEF u, l
<1>8. mux'[a].used = u /\ \A e \in Ends \ {a} : mux'[e].used = mux[e].used
  BY <1>1, <1>7 DEF MuxRecords
<1>9. \A e \in Ends :
        /\ mux'[e].cause = mux[e].cause /\ mux'[e].closed = mux[e].closed
        /\ mux'[e].broken = mux[e].broken /\ mux'[e].reading = mux[e].reading
        /\ mux'[e].acking = mux[e].acking
        /\ mux'[e].toFail = IF e = a THEN l ELSE mux[e].toFail
  BY <1>1, <1>7 DEF MuxRecords
<1>10. (mux[a].used + Held(q)) - Held(r) = u /\ Held(q) <= Held(r)
  <2>1. Counts(q)
    BY <1>5, CountsOf
  <2>2. CASE q.receiver = "Taken" \/ r.receiver = "Taken"
    BY <1>2, <1>5, <1>7, <2>1, <2>2 DEF Held, Counts, SameTaken, u, r
  <2>3. CASE ~(q.receiver = "Taken" \/ r.receiver = "Taken")
    BY <1>2, <1>5, <1>7, <2>1, <2>3 DEF Held, Counts, SameTaken, u, r
  <2> QED
    BY <2>2, <2>3
<1>11. /\ \A e \in Ends : Budgeted(e)'
       /\ u \in Nat /\ u <= mux[a].used
  BY <1>5, <1>6, <1>8, <1>10, BudgetKept DEF IInv, r
<1>12. mux' \in [Ends -> MuxRecords]
  <2>1. u \in 0 .. Budget /\ l \in SUBSET Ids
    BY <1>7, <1>11, StreamConstants DEF l, MuxRecords
  <2> QED
    BY <1>1, <1>7, <2>1, ZenonT(60) DEF MuxRecords
<1>13. \A e \in Ends : mux'[e].cause # "Protocol"
  BY <1>9 DEF IInv, Typed
<1>14. \A t \in Ids : Weakened(t)
  BY <1>9 DEF Weakened, CannotSend, Failed, Ends
<1>15. ASSUME NEW e \in Ends, NEW t \in Ids PROVE Failing(e, t)'
  <2>1. streams'[e][t] = IF e = a /\ t = s THEN q ELSE streams[e][t]
    BY <1>6 DEF Changed
  <2>2. Failing(e, t)
    BY DEF IInv
  <2>3. CASE e = a /\ t = s
    BY <1>4, <1>5, <1>9, <2>1, <2>3 DEF Failing, l
  <2>4. CASE ~(e = a /\ t = s)
    BY <1>9, <2>1, <2>2, <2>4 DEF Failing, Failed, l
  <2> QED
    BY <2>3, <2>4
<1> QED
  BY <1>1, <1>5, <1>6, <1>11, <1>12, <1>13, <1>14, <1>15, MuxStepOf DEF r

\* The streams a step does not touch.
LEMMA OtherPair ==
  ASSUME IInv, NEW a \in Ends, NEW s \in Ids, NEW q, Changed(a, s, q),
         NEW t \in Ids, t # s, Still(t), Weakened(t)
  PROVE  Pair(t)'
<1> DEFINE r == streams[a][t]
<1>1. Sane(a, r) /\ Counts(r)
  BY CountsOf DEF IInv, Typed
<1>2. \A e \in Ends : streams'[e][t] = IF e = a /\ t = t THEN r ELSE streams[e][t]
  BY DEF Changed
<1>3. Quiet(r, r, ~CannotSend(a)')
  <2> HIDE DEF r
  <2> QED
    BY <1>1 DEF Quiet, Counts
<1> QED
  BY <1>1, <1>2, <1>3, QuietPair

\* Ended, where the cells of a queue move up by d places, or stay.
LEMMA EndedKept ==
  ASSUME NEW e \in Ends, NEW s \in Ids, Ended(e, s), NEW d \in Nat,
         NEW w, NEW p, NEW x, NEW y,
         streams[e][s] = w, streams[Peer(e)][s] = p,
         streams'[e][s] = x, streams'[Peer(e)][s] = y,
         \A j \in Byes(e, s)' : j \in Nat /\ j + d \in Byes(e, s),
         \A j \in Closes(e, s)' : j + d \in Closes(e, s),
         Hears(y) => Hears(p),
         Hears(y) => \A j \in Closes(e, s)' :
            Recvd(y) + y.buffer + Ahead(e, s, j)' = Recvd(p) + p.buffer + Ahead(e, s, j + d),
         y.remoteClosed => p.remoteClosed,
         y.remoteClosed /\ Hears(y) => Recvd(y) + y.buffer = Recvd(p) + p.buffer,
         y.eof => p.eof /\ p.remoteClosed /\ Recvd(y) = Recvd(p),
         w.localClosed /\ w.farewell = "None" =>
            x.localClosed /\ x.farewell = "None" /\ x.final = w.final
  PROVE  Ended(e, s)'
<1>1. /\ Byes(e, s) # {} \/ p.remoteClosed => w.localClosed /\ w.farewell = "None"
      /\ p.remoteClosed => Byes(e, s) = {}
      /\ \A j, k \in Byes(e, s) : j = k
      /\ Hears(p) =>
            /\ \A j \in Closes(e, s) : Recvd(p) + p.buffer + Ahead(e, s, j) = w.final
            /\ p.remoteClosed => Recvd(p) + p.buffer = w.final
      /\ p.eof => Recvd(p) = w.final
  BY DEF Ended
<1>2. Byes(e, s)' # {} \/ y.remoteClosed =>
        /\ w.localClosed /\ w.farewell = "None"
        /\ x.localClosed /\ x.farewell = "None" /\ x.final = w.final
  BY <1>1
<1>3. y.remoteClosed => Byes(e, s)' = {}
  BY <1>1
<1>4. \A j, k \in Byes(e, s)' : j = k
  BY <1>1
<1>5. Hears(y) => \A j \in Closes(e, s)' : Recvd(y) + y.buffer + Ahead(e, s, j)' = x.final
  <2>1. Closes(e, s)' \subseteq Byes(e, s)'
    BY DEF Closes, Byes, At
  <2> QED
    BY <1>1, <1>2, <2>1
<1>6. Hears(y) /\ y.remoteClosed => Recvd(y) + y.buffer = x.final
  BY <1>1, <1>2
<1>7. y.eof => Recvd(y) = x.final
  BY <1>1, <1>2
<1>8. (y.eof => Recvd(y) = x.final) /\ (Byes(e, s)' # {} \/ y.remoteClosed =>
           x.localClosed /\ x.farewell = "None")
  BY <1>2, <1>7
<1> QED
  BY <1>3, <1>4, <1>5, <1>6, <1>8 DEF Ended

LEMMA OpenStreamStep ==
  ASSUME IInv, NEW s \in Ids, OpenStream(s)
  PROVE  IInv'
<1> DEFINE a == "Initiator"
           r == streams[a][s]
           k == streams["Acceptor"][s]
           q == [Unregistered EXCEPT !.registered = TRUE, !.sender = "Opening"]
<1>0. a \in Ends /\ "Acceptor" \in Ends /\ "Acceptor" # a
      /\ Peer(a) = "Acceptor" /\ Peer("Acceptor") = a
      /\ \A e \in Ends : e = a \/ e = "Acceptor"
  BY DEF Ends, Peer
<1>1. ~Failed(a) /\ UNCHANGED cells /\ Becomes(a, s, q)
  BY DEF OpenStream
<1>2. ~r.registered
  <2>1. s \notin 1 .. s - 1
    BY DEF Ids
  <2> QED
    BY <2>1 DEF OpenStream, Registered
<1>3. r = Unregistered /\ r \in StreamRecords /\ Failing(a, s)
  BY <1>0, <1>2 DEF IInv, Sane, Typed
<1>4. q \in StreamRecords
  BY <1>3, ZenonT(60) DEF StreamRecords, Senders
<1>5. /\ q.registered /\ q.open = r.open /\ q.credit = 0 /\ q.chunk = 0 /\ q.buffer = 0
      /\ q.taken = 0 /\ ~q.localClosed /\ ~q.remoteClosed /\ q.error = "None"
      /\ q.farewell = r.farewell /\ q.sender = "Opening" /\ q.receiver = "None"
      /\ q.sent = r.sent /\ Recvd(q) = Recvd(r) /\ q.final = r.final /\ ~q.eof
  BY <1>3 DEF Unregistered, Recvd
<1>6. /\ r.credit = 0 /\ r.chunk = 0 /\ r.buffer = 0 /\ r.taken = 0 /\ ~r.localClosed
      /\ ~r.remoteClosed /\ r.error = "None" /\ r.farewell = "None" /\ r.sent = 0
      /\ r.receiver = "None" /\ ~r.eof /\ Recvd(r) = 0 /\ r.final = 0
  BY <1>3 DEF Unregistered, Recvd
<1>7. /\ Changed(a, s, q)
      /\ mux' \in [Ends -> MuxRecords]
      /\ \A e \in Ends : SameMux(e) /\ Budgeted(e)'
  <2>1. SameTaken(r, q) /\ q.buffer <= r.buffer
    BY <1>5, <1>6 DEF SameTaken
  <2> QED
    BY <1>0, <1>1, <1>4, <2>1, BecomesIs
<1> HIDE DEF q
<1>8. \A e \in Ends : /\ CannotSend(e)' <=> CannotSend(e)
                      /\ Failed(e)' <=> Failed(e)
  BY <1>7 DEF CannotSend, Failed, SameMux
<1>9. Typed'
  BY <1>1, <1>7 DEF Typed, IInv, Changed, SameMux
<1>10. \A t \in Ids : Still(t) /\ Weakened(t)
  BY <1>1, <1>7, <1>8, QueueKept DEF Still, Weakened, SameMux, Ends
<1>11. Pair(s)'
  <2>1. /\ streams'[a][s] = q /\ streams'["Acceptor"][s] = k
        /\ k.registered => k.registered
    BY <1>0, <1>7 DEF Changed
  <2>2. \A e \in Ends :
          /\ Opens(e, s)' = Opens(e, s) /\ Acks(e, s)' = Acks(e, s)
          /\ Closes(e, s)' = Closes(e, s) /\ Byes(e, s)' = Byes(e, s)
          /\ All(e, s)' = All(e, s)
          /\ Data(e, s)' = Data(e, s) /\ Granted(e, s)' = Granted(e, s)
          /\ \A n \in 0 .. Len(cells[e]) : Ahead(e, s, n)' = Ahead(e, s, n)
    BY <1>10 DEF Still
  <2>3. /\ Opened(s) /\ Acknowledged(s)
        /\ \A e \in Ends : Accounts(e, s) /\ Delivered(e, s) /\ Ended(e, s)
    BY DEF IInv
  <2>4. ~k.registered /\ All(a, s) = {} /\ Opens(a, s) = {}
    BY <1>2, <2>3 DEF Opened, Opens, At, All
  <2>5. Opened(s)'
    <3>1. /\ Data(a, s) = 0 /\ Data("Acceptor", s) = 0 /\ Granted("Acceptor", s) = 0
          /\ All("Acceptor", s) = {} /\ Granted(a, s) = 0
      BY <1>2, <2>3, <2>4 DEF Opened
    <3>2. ~q.open
      BY DEF q, Unregistered
    <3>3. /\ Opens(a, s)' = {} /\ All(a, s)' = {} /\ All("Acceptor", s)' = {}
          /\ Data(a, s)' = 0 /\ Data("Acceptor", s)' = 0 /\ Granted("Acceptor", s)' = 0
          /\ Granted(a, s)' = 0
      BY <1>0, <2>2, <2>4, <3>1
    <3> QED
      BY <1>5, <2>1, <2>4, <3>2, <3>3 DEF Opened
  <2>6. Acknowledged(s)'
    BY <1>0, <1>3, <1>5, <1>7, <2>1, <2>2, <2>3 DEF Acknowledged, SameMux
  <2>7. \A e \in Ends : Window(e, s)' = Window(e, s)
    BY <1>0, <1>5, <1>6, <1>7, <2>1, <2>2 DEF Window, SameMux
  <2>8. \A e \in Ends : Accounts(e, s)'
    BY <1>0, <1>5, <1>8, <2>1, <2>3, <2>4, <2>7 DEF Accounts
  <2>9. \A e \in Ends : Delivered(e, s)'
    BY <1>0, <1>5, <1>6, <2>1, <2>2, <2>3 DEF Delivered, Hears
  <2>10. ASSUME NEW e \in Ends PROVE Ended(e, s)'
    <3>1. Byes(e, s) \subseteq 1 .. Len(cells[e]) /\ Closes(e, s) \subseteq 1 .. Len(cells[e])
          /\ Len(cells[e]) \in Nat
      BY DEF Closes, Byes, At, IInv, Typed
    <3>2. /\ \A j \in Byes(e, s)' : j \in Nat /\ j + 0 \in Byes(e, s)
          /\ \A j \in Closes(e, s)' : j + 0 \in Closes(e, s) /\ j + 0 = j
          /\ \A j \in Closes(e, s) : Ahead(e, s, j)' = Ahead(e, s, j)
      BY <2>2, <3>1
    <3>3. /\ Hears(q) => Hears(r)
          /\ Recvd(q) + q.buffer = Recvd(r) + r.buffer
      BY <1>5, <1>6 DEF Hears
    <3>4. k.eof => k.remoteClosed
      BY <1>0 DEF IInv, Sane
    <3>5. CASE e = a
      <4>1. /\ streams[e][s] = r /\ streams[Peer(e)][s] = k
            /\ streams'[e][s] = q /\ streams'[Peer(e)][s] = k
        BY <1>0, <2>1, <3>5
      <4> QED
        BY <1>5, <1>6, <2>3, <3>2, <3>4, <4>1, EndedKept
    <3>6. CASE e = "Acceptor"
      <4>1. /\ streams[e][s] = k /\ streams[Peer(e)][s] = r
            /\ streams'[e][s] = k /\ streams'[Peer(e)][s] = q
        BY <1>0, <2>1, <3>6
      <4> QED
        BY <1>5, <1>6, <2>3, <3>2, <3>3, <4>1, EndedKept
    <3> QED
      BY <1>0, <3>5, <3>6
  <2> QED
    BY <2>5, <2>6, <2>8, <2>9, <2>10 DEF Pair
<1>12. \A t \in Ids : Pair(t)'
  BY <1>0, <1>7, <1>10, <1>11, OtherPair
<1>13. Sane(a, q) /\ Wakeful(q)
  BY <1>4, <1>5, <1>6, StreamConstants DEF Sane, Wakeful
<1>14. ASSUME NEW e \in Ends, NEW t \in Ids PROVE Failing(e, t)'
  <2>1. streams'[e][t] = IF e = a /\ t = s THEN q ELSE streams[e][t]
    BY <1>7 DEF Changed
  <2>2. Failing(e, t) /\ SameMux(e)
    BY <1>7 DEF IInv
  <2>3. CASE e = a /\ t = s
    BY <1>1, <1>5, <1>8, <2>1, <2>2, <2>3 DEF Failing
  <2>4. CASE ~(e = a /\ t = s)
    BY <1>8, <2>1, <2>2, <2>4 DEF Failing, SameMux
  <2> QED
    BY <2>3, <2>4
<1> QED
  BY <1>0, <1>7, <1>9, <1>12, <1>13, <1>14, Assembled

-----------------------------------------------------------------------------
(* Steps that send *)

\* A cell of stream s is sent: what becomes of the queues, and of the others.
LEMMA SentIs ==
  ASSUME Typed, NEW a \in Ends, NEW s \in Ids, NEW c \in Cells, c.id = s,
         Send(a, <<c>>),
         c.type \in {"OPEN", "ACK"} => c.count = StreamWindow,
         c.type = "DATA" => c.count = 1,
         streams' \in [Ends -> [Ids -> StreamRecords]],
         mux' \in [Ends -> MuxRecords], \A e \in Ends : mux'[e].cause # "Protocol"
  PROVE  /\ Typed' /\ ~CannotSend(a)
         /\ cells'[a] = cells[a] \o <<c>> /\ cells'[Peer(a)] = cells[Peer(a)]
         /\ \A t \in Ids : t # s => Still(t)
<1>1. /\ ~CannotSend(a) /\ Len(cells[a]) + 1 <= Capacity
      /\ cells' = [cells EXCEPT ![a] = cells[a] \o <<c>>]
  BY DEF Send
<1>2. cells \in [Ends -> Seq(Cells)] /\ Peer(a) \in Ends /\ Peer(a) # a
      /\ \A e \in Ends : e = a \/ e = Peer(a)
  BY PeerIs DEF Typed
<1>3. cells'[a] = cells[a] \o <<c>> /\ \A e \in Ends : e # a => cells'[e] = cells[e]
  BY <1>1, <1>2
<1> DEFINE p == cells[a] \o <<c>>
<1>4. /\ p \in Seq(Cells) /\ Len(p) = Len(cells[a]) + 1 /\ Len(cells[a]) \in Nat
      /\ p[Len(cells[a]) + 1] = c /\ \A i \in 1 .. Len(cells[a]) : p[i] = cells[a][i]
  <2> DEFINE q == cells[a]
  <2>1. q \in Seq(Cells) /\ Len(q) \in Nat
    BY <1>2
  <2> HIDE DEF q
  <2>2. /\ q \o <<c>> \in Seq(Cells) /\ Len(q \o <<c>>) = Len(q) + 1
        /\ (q \o <<c>>)[Len(q) + 1] = c /\ \A i \in 1 .. Len(q) : (q \o <<c>>)[i] = q[i]
    BY <2>1
  <2> QED
    BY <2>1, <2>2 DEF q
<1> HIDE DEF p
<1>a. \A i \in 1 .. Len(p) : i = Len(cells[a]) + 1 \/ i \in 1 .. Len(cells[a])
  BY <1>4
<1>5. Typed'
  <2>1. cells' \in [Ends -> Seq(Cells)]
    BY <1>1, <1>2, <1>4 DEF p
  <2>2. ASSUME NEW e \in Ends
        PROVE  /\ Len(cells'[e]) <= Capacity
               /\ \A i \in 1 .. Len(cells'[e]) :
                    /\ cells'[e][i].type \in {"OPEN", "ACK"} => cells'[e][i].count = StreamWindow
                    /\ cells'[e][i].type = "DATA" => cells'[e][i].count = 1
    <3>1. CASE e = a
      <4>1. cells'[e] = p /\ Len(cells[e]) + 1 <= Capacity
        BY <1>1, <1>3, <3>1 DEF p
      <4>2. \A i \in 1 .. Len(cells[e]) :
              /\ cells[e][i].type \in {"OPEN", "ACK"} => cells[e][i].count = StreamWindow
              /\ cells[e][i].type = "DATA" => cells[e][i].count = 1
        BY Zenon DEF Typed
      <4> QED
        BY <1>4, <1>a, <3>1, <4>1, <4>2
    <3>2. CASE e # a
      <4>1. cells'[e] = cells[e]
        BY <1>3, <3>2
      <4> QED
        BY <4>1, Zenon DEF Typed
    <3> QED
      BY <3>1, <3>2
  <2> QED
    BY <2>1, <2>2 DEF Typed
<1>6. ASSUME NEW t \in Ids, t # s PROVE Still(t)
  <2>1. \A types : Weight(c, t, types) = 0 /\ Last(a, c, t, types) = {}
    BY <1>6 DEF Weight, Last
  <2>2. Data(a, t) \in Nat /\ Granted(a, t) \in Nat
    BY <1>2, MeasuresType
  <2>3. /\ Opens(a, t)' = Opens(a, t) /\ Acks(a, t)' = Acks(a, t)
        /\ Closes(a, t)' = Closes(a, t) /\ Byes(a, t)' = Byes(a, t)
        /\ All(a, t)' = All(a, t)
        /\ Data(a, t)' = Data(a, t) + Weight(c, t, {"DATA"})
        /\ Granted(a, t)' = Granted(a, t) + Weight(c, t, {"OPEN", "ACK", "WINDOW_UPDATE"})
        /\ \A n \in 0 .. Len(cells[a]) : Ahead(a, t, n)' = Ahead(a, t, n)
    <3>1. cells'[a] = cells[a] \o <<c>> /\ cells \in [Ends -> Seq(Cells)]
      BY <1>2, <1>3
    <3>2. /\ Opens(a, t)' = Opens(a, t) \cup Last(a, c, t, {"OPEN"})
          /\ Acks(a, t)' = Acks(a, t) \cup Last(a, c, t, {"ACK"})
          /\ Closes(a, t)' = Closes(a, t) \cup Last(a, c, t, {"CLOSE"})
          /\ Byes(a, t)' = Byes(a, t) \cup Last(a, c, t, {"CLOSE", "RESET"})
          /\ All(a, t)' = All(a, t) \cup Last(a, c, t, {c.type})
          /\ Data(a, t)' = Data(a, t) + Weight(c, t, {"DATA"})
          /\ Granted(a, t)' = Granted(a, t) + Weight(c, t, {"OPEN", "ACK", "WINDOW_UPDATE"})
          /\ \A n \in 0 .. Len(cells[a]) : Ahead(a, t, n)' = Ahead(a, t, n)
      BY <3>1, SendOne, Zenon
    <3> QED
      BY <2>1, <3>2
  <2>4. Data(a, t)' = Data(a, t) /\ Granted(a, t)' = Granted(a, t)
    BY <2>1, <2>2, <2>3
  <2>5. cells'[Peer(a)] = cells[Peer(a)]
    BY <1>2, <1>3
  <2>6. \A e \in Ends : e = a \/ (e = Peer(a) /\ cells'[e] = cells[e])
    BY <1>2, <2>5
  <2> QED
    BY <2>3, <2>4, <2>6, QueueKept DEF Still
<1> QED
  BY <1>1, <1>2, <1>3, <1>5, <1>6

\* The rest of a step that sends for stream s.
LEMMA SendStep ==
  ASSUME IInv, NEW a \in Ends, NEW s \in Ids, NEW q,
         Becomes(a, s, q), ~CannotSend(a), Sane(a, q), Wakeful(q),
         SameTaken(streams[a][s], q), q.buffer <= streams[a][s].buffer,
         q.registered = streams[a][s].registered,
         Typed', Pair(s)', \A t \in Ids : t # s => Still(t)
  PROVE  IInv'
<1>0. q \in StreamRecords
  BY DEF Sane
<1>1. /\ Changed(a, s, q)
      /\ \A e \in Ends : SameMux(e) /\ Budgeted(e)'
  BY <1>0, BecomesIs
<1>2. \A t \in Ids : Weakened(t)
  BY <1>1 DEF Weakened, CannotSend, Failed, SameMux, Ends
<1>3. \A t \in Ids : Pair(t)'
  BY <1>1, <1>2, OtherPair
<1>4. ASSUME NEW e \in Ends, NEW t \in Ids PROVE Failing(e, t)'
  <2>1. streams'[e][t] = IF e = a /\ t = s THEN q ELSE streams[e][t]
    BY <1>1 DEF Changed
  <2>2. Failing(e, t) /\ SameMux(e)
    BY <1>1 DEF IInv
  <2>3. CASE e = a /\ t = s
    BY <2>1, <2>2, <2>3 DEF Failing, Failed, CannotSend, SameMux
  <2>4. CASE ~(e = a /\ t = s)
    BY <2>1, <2>2, <2>4 DEF Failing, Failed, SameMux
  <2> QED
    BY <2>3, <2>4
<1> QED
  BY <1>1, <1>3, <1>4, Assembled

\* A registered stream whose OPEN was sent sends something else.
LEMMA OpenedSent ==
  ASSUME IInv, NEW a \in Ends, NEW s \in Ids, NEW q, Changed(a, s, q), NEW new,
         LET r == streams[a][s]
         IN  /\ r.registered /\ r.sender # "Opening"
             /\ q.registered /\ q.sender # "Opening" /\ (q.open => r.open)
             /\ r.credit = 0 => q.credit = 0
             /\ r.chunk = 0 => q.chunk = 0 /\ Data(a, s)' = Data(a, s)
             /\ r.buffer = 0 => q.buffer = 0
             /\ r.taken = 0 => q.taken = 0,
         ~CannotSend(a), CannotSend("Initiator")' <=> CannotSend("Initiator"),
         Opens(a, s)' = Opens(a, s), All(a, s)' = All(a, s) \cup new,
         \A k \in new : k > Len(cells[a]) /\ k \in Nat,
         cells'[Peer(a)] = cells[Peer(a)]
  PROVE  Opened(s)'
<1> DEFINE i == streams["Initiator"][s]
           k == streams["Acceptor"][s]
           x == streams'["Initiator"][s]
           y == streams'["Acceptor"][s]
<1>0. /\ "Initiator" \in Ends /\ "Acceptor" \in Ends
      /\ \/ a = "Initiator" /\ Peer(a) = "Acceptor"
         \/ a = "Acceptor" /\ Peer(a) = "Initiator"
  BY DEF Ends, Peer
<1>1. /\ k.registered => Opens("Initiator", s) = {}
      /\ k.registered \/ All("Initiator", s) # {} => i.registered /\ i.sender # "Opening"
      /\ (i.registered /\ i.sender # "Opening" /\ ~CannotSend("Initiator"))
            \/ All("Initiator", s) # {}
         => k.registered \/ Opens("Initiator", s) # {}
      /\ \A j \in Opens("Initiator", s), l \in All("Initiator", s) : j <= l
      /\ ~k.registered =>
            /\ ~i.open /\ i.credit = 0 /\ i.chunk = 0 /\ i.buffer = 0 /\ i.taken = 0
            /\ Data("Initiator", s) = 0 /\ Data("Acceptor", s) = 0
            /\ Granted("Acceptor", s) = 0 /\ All("Acceptor", s) = {}
      /\ ~i.registered \/ i.sender = "Opening" => Granted("Initiator", s) = 0
  BY DEF IInv, Opened
<1>2. /\ Opens(Peer(a), s)' = Opens(Peer(a), s) /\ All(Peer(a), s)' = All(Peer(a), s)
      /\ Data(Peer(a), s)' = Data(Peer(a), s) /\ Granted(Peer(a), s)' = Granted(Peer(a), s)
  BY <1>0, QueueKept
<1>3. CASE a = "Acceptor"
  <2>1. x = i /\ y = q /\ k.registered /\ q.registered
    BY <1>0, <1>3 DEF Changed
  <2> HIDE DEF x, y, i, k
  <2> QED
    BY <1>0, <1>1, <1>2, <1>3, <2>1 DEF Opened, x, y
<1>4. CASE a = "Initiator"
  <2>1. x = q /\ y = k
    BY <1>0, <1>4 DEF Changed
  <2>2. \A j \in Opens(a, s) : j <= Len(cells[a]) /\ j \in Nat
    BY DEF Opens, At, IInv, Typed
  <2>3. Len(cells[a]) \in Nat
    BY DEF IInv, Typed
  <2>4. \A j \in Opens(a, s)', l \in All(a, s)' : j <= l
    BY <1>1, <1>4, <2>2, <2>3
  <2>5. k.registered \/ Opens(a, s) # {}
    BY <1>1, <1>4
  <2>6. ~k.registered => /\ ~q.open /\ q.credit = 0 /\ q.chunk = 0 /\ q.buffer = 0 /\ q.taken = 0
                         /\ Data(a, s)' = 0
    BY <1>1, <1>4
  <2> HIDE DEF x, y, i, k
  <2> QED
    BY <1>0, <1>1, <1>2, <1>4, <2>1, <2>4, <2>5, <2>6 DEF Opened, x, y
<1> QED
  BY <1>0, <1>3, <1>4

\* What there is of stream s after one cell of it is sent.
LEMMA SentMeasures ==
  ASSUME Typed, NEW a \in Ends, NEW s \in Ids, NEW c \in Cells, c.id = s,
         cells'[a] = cells[a] \o <<c>>, cells'[Peer(a)] = cells[Peer(a)]
  PROVE  /\ Opens(a, s)' = Opens(a, s) \cup Last(a, c, s, {"OPEN"})
         /\ Acks(a, s)' = Acks(a, s) \cup Last(a, c, s, {"ACK"})
         /\ Closes(a, s)' = Closes(a, s) \cup Last(a, c, s, {"CLOSE"})
         /\ Byes(a, s)' = Byes(a, s) \cup Last(a, c, s, {"CLOSE", "RESET"})
         /\ All(a, s)' = All(a, s) \cup {Len(cells[a]) + 1}
         /\ Data(a, s)' = Data(a, s) + Weight(c, s, {"DATA"})
         /\ Granted(a, s)' = Granted(a, s) + Weight(c, s, {"OPEN", "ACK", "WINDOW_UPDATE"})
         /\ \A n \in 0 .. Len(cells[a]) : Ahead(a, s, n)' = Ahead(a, s, n)
         /\ LET f == Peer(a)
            IN  /\ Opens(f, s)' = Opens(f, s) /\ Acks(f, s)' = Acks(f, s)
                /\ Closes(f, s)' = Closes(f, s) /\ Byes(f, s)' = Byes(f, s)
                /\ All(f, s)' = All(f, s)
                /\ Data(f, s)' = Data(f, s) /\ Granted(f, s)' = Granted(f, s)
                /\ \A n : Ahead(f, s, n)' = Ahead(f, s, n)
         /\ \A e \in Ends : Data(e, s) \in Nat /\ Granted(e, s) \in Nat
<1> DEFINE f == Peer(a)
<1>1. cells \in [Ends -> Seq(Cells)] /\ f \in Ends
  BY PeerIs DEF Typed
<1>2. /\ Opens(a, s)' = Opens(a, s) \cup Last(a, c, s, {"OPEN"})
      /\ Acks(a, s)' = Acks(a, s) \cup Last(a, c, s, {"ACK"})
      /\ Closes(a, s)' = Closes(a, s) \cup Last(a, c, s, {"CLOSE"})
      /\ Byes(a, s)' = Byes(a, s) \cup Last(a, c, s, {"CLOSE", "RESET"})
      /\ All(a, s)' = All(a, s) \cup Last(a, c, s, {c.type})
      /\ Data(a, s)' = Data(a, s) + Weight(c, s, {"DATA"})
      /\ Granted(a, s)' = Granted(a, s) + Weight(c, s, {"OPEN", "ACK", "WINDOW_UPDATE"})
      /\ \A n \in 0 .. Len(cells[a]) : Ahead(a, s, n)' = Ahead(a, s, n)
  BY <1>1, SendOne, ZenonT(60)
<1>3. Last(a, c, s, {c.type}) = {Len(cells[a]) + 1}
  BY DEF Last
<1>4. /\ Opens(f, s)' = Opens(f, s) /\ Acks(f, s)' = Acks(f, s)
      /\ Closes(f, s)' = Closes(f, s) /\ Byes(f, s)' = Byes(f, s)
      /\ All(f, s)' = All(f, s)
      /\ Data(f, s)' = Data(f, s) /\ Granted(f, s)' = Granted(f, s)
      /\ \A n : Ahead(f, s, n)' = Ahead(f, s, n)
  BY <1>1, QueueKept, Zenon
<1>5. \A e \in Ends : Data(e, s) \in Nat /\ Granted(e, s) \in Nat
  BY <1>1, MeasuresType
<1> QED
  BY <1>2, <1>3, <1>4, <1>5, Zenon

\* The places of the farewells, and what is ahead of them, when others are added.
LEMMA PlacesKept ==
  ASSUME Typed, NEW e \in Ends, NEW s \in Ids,
         Byes(e, s)' = Byes(e, s), Closes(e, s)' = Closes(e, s),
         \A n \in 0 .. Len(cells[e]) : Ahead(e, s, n)' = Ahead(e, s, n)
  PROVE  /\ \A j \in Byes(e, s)' : j \in Nat /\ j + 0 \in Byes(e, s)
         /\ \A j \in Closes(e, s)' : /\ j + 0 \in Closes(e, s)
                                     /\ Ahead(e, s, j)' = Ahead(e, s, j + 0)
<1>1. Byes(e, s) \subseteq 1 .. Len(cells[e]) /\ Closes(e, s) \subseteq 1 .. Len(cells[e])
      /\ Len(cells[e]) \in Nat
  BY DEF Closes, Byes, At, Typed
<1> QED
  BY <1>1

LEMMA SendOpenSends ==
  ASSUME IInv, NEW s \in Ids, SendOpen(s), ~CannotSend("Initiator")
  PROVE  IInv'
<1> DEFINE a == "Initiator"
           f == "Acceptor"
           r == streams[a][s]
           k == streams[f][s]
           q == [r EXCEPT !.sender = "AwaitingOpen"]
           c == Cell("OPEN", s, StreamWindow)
<1>0. /\ a \in Ends /\ f \in Ends /\ f # a /\ Peer(a) = f /\ Peer(f) = a
      /\ \A e \in Ends : e = a \/ e = f
  BY DEF Ends, Peer
<1>1. r.sender = "Opening" /\ Send(a, <<c>>) /\ Becomes(a, s, q)
  BY DEF SendOpen, SendOrRaise
<1>2. /\ Sane(a, r) /\ r \in StreamRecords /\ Wakeful(r) /\ Counts(r)
      /\ Sane(f, k) /\ k \in StreamRecords /\ Counts(k)
  BY <1>0, CountsOf DEF IInv, Typed
<1>3. r.registered
  BY <1>1, <1>2 DEF Sane, Unregistered
<1>4. q \in StreamRecords
  BY <1>2, ZenonT(60) DEF StreamRecords, Senders
<1>5. Turned(r, q) /\ q.sender = "AwaitingOpen" /\ q.receiver = r.receiver
  BY <1>2, <1>4, SMTT(30) DEF StreamRecords, Turned, Calm, Recvd
<1>6. Sane(a, q) /\ Wakeful(q) /\ SameTaken(r, q) /\ q.buffer <= r.buffer
  <2> HIDE DEF q, r
  <2> QED
    BY <1>1, <1>2, <1>3, <1>5, SMTT(30) DEF Sane, Wakeful, SameTaken, Turned, Calm, Counts
<1>7. /\ Changed(a, s, q) /\ mux' \in [Ends -> MuxRecords]
      /\ \A e \in Ends : SameMux(e)
  BY <1>0, <1>1, <1>4, <1>6, BecomesIs
<1>8. c \in Cells /\ c.id = s /\ c.type = "OPEN" /\ c.count = StreamWindow
  BY StreamConstants DEF Cell, Cells
<1> HIDE DEF c, q
<1>9. /\ Typed' /\ ~CannotSend(a)
      /\ cells'[a] = cells[a] \o <<c>> /\ cells'[f] = cells[f]
      /\ \A t \in Ids : t # s => Still(t)
  <2>1. streams' \in [Ends -> [Ids -> StreamRecords]] /\ \A e \in Ends : mux'[e].cause # "Protocol"
    BY <1>7 DEF Changed, SameMux, IInv, Typed
  <2> QED
    BY <1>0, <1>1, <1>7, <1>8, <2>1, SentIs DEF IInv
<1>10. /\ streams'[a][s] = q /\ streams'[f][s] = k
       /\ CannotSend(a)' = CannotSend(a) /\ CannotSend(f)' = CannotSend(f)
  BY <1>0, <1>7 DEF Changed, CannotSend, Failed, SameMux
<1>11. /\ Opened(s) /\ Acknowledged(s)
       /\ \A e \in Ends : Accounts(e, s) /\ Delivered(e, s) /\ Ended(e, s)
  BY DEF IInv
<1>12. /\ ~k.registered /\ All(a, s) = {} /\ Opens(a, s) = {} /\ Granted(a, s) = 0
       /\ ~r.open /\ r.credit = 0 /\ r.chunk = 0 /\ r.buffer = 0 /\ r.taken = 0
       /\ Data(a, s) = 0 /\ Data(f, s) = 0 /\ Granted(f, s) = 0 /\ All(f, s) = {}
  BY <1>1, <1>11 DEF Opened, Opens, At, All
<1>13. k = Unregistered
  BY <1>2, <1>12 DEF Sane
<1>14. /\ Opens(a, s)' = {Len(cells[a]) + 1} /\ Acks(a, s)' = Acks(a, s)
       /\ Closes(a, s)' = Closes(a, s) /\ Byes(a, s)' = Byes(a, s)
       /\ All(a, s)' = {Len(cells[a]) + 1}
       /\ Data(a, s)' = 0 /\ Granted(a, s)' = StreamWindow
       /\ \A n \in 0 .. Len(cells[a]) : Ahead(a, s, n)' = Ahead(a, s, n)
       /\ Opens(f, s)' = Opens(f, s) /\ Acks(f, s)' = Acks(f, s)
       /\ Closes(f, s)' = Closes(f, s) /\ Byes(f, s)' = Byes(f, s)
       /\ All(f, s)' = {} /\ Data(f, s)' = 0 /\ Granted(f, s)' = 0
       /\ \A n : Ahead(f, s, n)' = Ahead(f, s, n)
  <2>1. /\ Opens(a, s)' = Opens(a, s) \cup Last(a, c, s, {"OPEN"})
        /\ Acks(a, s)' = Acks(a, s) \cup Last(a, c, s, {"ACK"})
        /\ Closes(a, s)' = Closes(a, s) \cup Last(a, c, s, {"CLOSE"})
        /\ Byes(a, s)' = Byes(a, s) \cup Last(a, c, s, {"CLOSE", "RESET"})
        /\ All(a, s)' = All(a, s) \cup {Len(cells[a]) + 1}
        /\ Data(a, s)' = Data(a, s) + Weight(c, s, {"DATA"})
        /\ Granted(a, s)' = Granted(a, s) + Weight(c, s, {"OPEN", "ACK", "WINDOW_UPDATE"})
        /\ \A n \in 0 .. Len(cells[a]) : Ahead(a, s, n)' = Ahead(a, s, n)
        /\ Opens(f, s)' = Opens(f, s) /\ Acks(f, s)' = Acks(f, s)
        /\ Closes(f, s)' = Closes(f, s) /\ Byes(f, s)' = Byes(f, s)
        /\ All(f, s)' = All(f, s)
        /\ Data(f, s)' = Data(f, s) /\ Granted(f, s)' = Granted(f, s)
        /\ \A n : Ahead(f, s, n)' = Ahead(f, s, n)
    BY <1>0, <1>8, <1>9, SentMeasures DEF IInv
  <2>2. /\ Last(a, c, s, {"OPEN"}) = {Len(cells[a]) + 1} /\ Last(a, c, s, {"ACK"}) = {}
        /\ Last(a, c, s, {"CLOSE"}) = {} /\ Last(a, c, s, {"CLOSE", "RESET"}) = {}
        /\ Weight(c, s, {"DATA"}) = 0
        /\ Weight(c, s, {"OPEN", "ACK", "WINDOW_UPDATE"}) = StreamWindow
    BY <1>8 DEF Last, Weight
  <2>3. /\ Opens(a, s)' = {Len(cells[a]) + 1} /\ All(a, s)' = {Len(cells[a]) + 1}
        /\ Acks(a, s)' = Acks(a, s)
        /\ Closes(a, s)' = Closes(a, s) /\ Byes(a, s)' = Byes(a, s)
    BY <1>12, <2>1, <2>2, Zenon
  <2>4. Data(a, s)' = 0 /\ Granted(a, s)' = StreamWindow
    BY <1>12, <2>1, <2>2, StreamConstants
  <2> QED
    BY <1>12, <2>1, <2>3, <2>4, Zenon
<1> HIDE DEF r, k
<1>15. Opened(s)'
  <2>1. Len(cells[a]) + 1 \in Nat
    BY <1>0 DEF IInv, Typed
  <2>2. /\ q.registered /\ ~q.open /\ q.credit = 0 /\ q.chunk = 0 /\ q.buffer = 0
        /\ q.taken = 0 /\ q.sender = "AwaitingOpen"
    BY <1>3, <1>5, <1>12 DEF Turned, Calm, r
  <2>3. \A j \in Opens(a, s)', l \in All(a, s)' : j <= l
    BY <1>14, <2>1
  <2> QED
    BY <1>10, <1>12, <1>14, <2>2, <2>3 DEF Opened
<1>16. Acknowledged(s)'
  BY <1>0, <1>5, <1>7, <1>10, <1>11, <1>14 DEF Acknowledged, SameMux, Turned, Calm, r, k
<1>17. ASSUME NEW e \in Ends PROVE Accounts(e, s)'
  <2>1. CASE e = a
    <3>1. Window(e, s)' = Window(e, s)
      BY <1>0, <1>5, <1>7, <1>10, <1>12, <1>14, <2>1 DEF Window, SameMux, Turned, Calm, r, k
    <3> QED
      BY <1>0, <1>10, <1>11, <1>12, <2>1, <3>1 DEF Accounts
  <2>2. CASE e = f
    <3>1. mux'[a].acking # s
      BY <1>7, <1>0, <1>11 DEF Acknowledged, SameMux, Ids
    <3>2. Window(e, s)' = StreamWindow
      BY <1>0, <1>5, <1>10, <1>12, <1>13, <1>14, <2>2, <3>1, StreamConstants
         DEF Window, Turned, Calm, Unregistered
    <3> QED
      BY <3>2, StreamConstants DEF Accounts
  <2> QED
    BY <1>0, <2>1, <2>2
<1>18. ASSUME NEW e \in Ends PROVE Delivered(e, s)'
  BY <1>0, <1>5, <1>10, <1>11, <1>12, <1>14 DEF Delivered, Turned, Calm, Hears, r, k
<1>19. ASSUME NEW e \in Ends PROVE Ended(e, s)'
  <2>1. /\ \A j \in Byes(e, s)' : j \in Nat /\ j + 0 \in Byes(e, s)
        /\ \A j \in Closes(e, s)' : /\ j + 0 \in Closes(e, s)
                                    /\ Ahead(e, s, j)' = Ahead(e, s, j + 0)
    <3>1. /\ Byes(e, s)' = Byes(e, s) /\ Closes(e, s)' = Closes(e, s)
          /\ \A n \in 0 .. Len(cells[e]) : Ahead(e, s, n)' = Ahead(e, s, n)
      BY <1>0, <1>14
    <3> QED
      BY <3>1, PlacesKept DEF IInv
  <2>2. /\ Hears(q) => Hears(r)
        /\ Recvd(q) = Recvd(r) /\ q.buffer = r.buffer /\ q.eof = r.eof
        /\ q.remoteClosed = r.remoteClosed /\ q.localClosed = r.localClosed
        /\ q.farewell = r.farewell /\ q.final = r.final
        /\ (k.eof => k.remoteClosed) /\ (r.eof => r.remoteClosed)
    BY <1>2, <1>5 DEF Turned, Calm, Hears, Sane
  <2>3. CASE e = a
    <3>1. /\ streams[e][s] = r /\ streams[Peer(e)][s] = k
          /\ streams'[e][s] = q /\ streams'[Peer(e)][s] = k
      BY <1>0, <1>10, <2>3 DEF r, k
    <3> QED
      BY <1>11, <2>1, <2>2, <3>1, EndedKept
  <2>4. CASE e = f
    <3>1. /\ streams[e][s] = k /\ streams[Peer(e)][s] = r
          /\ streams'[e][s] = k /\ streams'[Peer(e)][s] = q
      BY <1>0, <1>10, <2>4 DEF r, k
    <3> QED
      BY <1>11, <2>1, <2>2, <3>1, EndedKept
  <2> QED
    BY <1>0, <2>3, <2>4
<1>20. Pair(s)'
  BY <1>15, <1>16, <1>17, <1>18, <1>19 DEF Pair
<1> QED
  BY <1>0, <1>1, <1>5, <1>6, <1>9, <1>20, SendStep DEF r, Turned, Calm

\* Acknowledged, where no ACK moves.
LEMMA AcknowledgedKept ==
  ASSUME IInv, NEW a \in Ends, NEW s \in Ids, NEW q, Changed(a, s, q),
         q.registered = streams[a][s].registered, q.open = streams[a][s].open,
         \A e \in Ends : Acks(e, s)' = Acks(e, s) /\ Opens(e, s)' = Opens(e, s),
         \A e \in Ends : SameMux(e)
  PROVE  Acknowledged(s)'
<1>1. "Initiator" \in Ends /\ "Acceptor" \in Ends
  BY DEF Ends
<1>2. \A e \in Ends : /\ streams'[e][s].registered = streams[e][s].registered
                      /\ streams'[e][s].open = streams[e][s].open
  BY DEF Changed
<1>3. Acknowledged(s)
  BY DEF IInv
<1> QED
  BY <1>1, <1>2, <1>3 DEF Acknowledged, SameMux

LEMMA SendWindowUpdateSends ==
  ASSUME IInv, NEW a \in Ends, NEW s \in Ids, SendWindowUpdate(a, s), ~CannotSend(a)
  PROVE  IInv'
<1> DEFINE f == Peer(a)
           r == streams[a][s]
           k == streams[f][s]
           q == RecvEnds(r, CannotSend(a))
           c == Cell("WINDOW_UPDATE", s, r.taken)
<1>0. /\ f \in Ends /\ f # a /\ Peer(f) = a
      /\ \A e \in Ends : e = a \/ e = f
  BY PeerIs
<1>1. r.receiver = "Released" /\ Send(a, <<c>>) /\ Becomes(a, s, q)
  BY DEF SendWindowUpdate, SendOrRaise
<1>2. /\ Sane(a, r) /\ r \in StreamRecords /\ Wakeful(r) /\ Counts(r)
      /\ Sane(f, k) /\ k \in StreamRecords /\ Counts(k)
  BY <1>0, CountsOf DEF IInv, Typed
<1>3. r.registered /\ r.sender \notin {"None", "Opening", "AwaitingOpen", "OpenAsleep"}
  BY <1>1, <1>2 DEF Sane, Unregistered
<1>4. /\ Calm(r, q) /\ q.credit = r.credit /\ q.chunk = r.chunk /\ q.sender = r.sender
      /\ q.taken = 0 /\ q.farewell = r.farewell /\ q.final = r.final
      /\ q.eof = r.eof /\ q.receiver = "Idle"
  BY <1>1, RecvEndsIs DEF CannotSend, Failed
<1>5. q \in StreamRecords
  BY <1>4 DEF Calm
<1>6. Sane(a, q) /\ Wakeful(q) /\ SameTaken(r, q) /\ q.buffer <= r.buffer
  <2> HIDE DEF q, r
  <2>1. Sane(a, q)
    BY <1>1, <1>2, <1>3, <1>4, SMTT(30) DEF Sane, Calm
  <2> QED
    BY <1>1, <1>2, <1>4, <2>1 DEF Wakeful, SameTaken, Calm, Counts
<1>7. /\ Changed(a, s, q) /\ mux' \in [Ends -> MuxRecords]
      /\ \A e \in Ends : SameMux(e)
  BY <1>0, <1>1, <1>5, <1>6, BecomesIs
<1>8. c \in Cells /\ c.id = s /\ c.type = "WINDOW_UPDATE" /\ c.count = r.taken
  BY <1>2, StreamConstants DEF Cell, Cells, StreamRecords
<1> HIDE DEF c, q
<1>9. /\ Typed' /\ ~CannotSend(a)
      /\ cells'[a] = cells[a] \o <<c>> /\ cells'[f] = cells[f]
      /\ \A t \in Ids : t # s => Still(t)
  <2>1. streams' \in [Ends -> [Ids -> StreamRecords]] /\ \A e \in Ends : mux'[e].cause # "Protocol"
    BY <1>7 DEF Changed, SameMux, IInv, Typed
  <2> QED
    BY <1>0, <1>1, <1>7, <1>8, <2>1, SentIs DEF IInv
<1>10. /\ streams'[a][s] = q /\ streams'[f][s] = k
       /\ \A e \in Ends : CannotSend(e)' <=> CannotSend(e)
  BY <1>0, <1>7 DEF Changed, CannotSend, Failed, SameMux
<1>11. \A e \in Ends : Accounts(e, s) /\ Delivered(e, s) /\ Ended(e, s)
  BY DEF IInv
<1>12. /\ Data(a, s) \in Nat /\ Granted(a, s) \in Nat /\ Data(f, s) \in Nat /\ Granted(f, s) \in Nat
  BY <1>0, MeasuresType DEF IInv, Typed
<1>14. /\ Opens(a, s)' = Opens(a, s) /\ Acks(a, s)' = Acks(a, s)
       /\ Closes(a, s)' = Closes(a, s) /\ Byes(a, s)' = Byes(a, s)
       /\ All(a, s)' = All(a, s) \cup {Len(cells[a]) + 1}
       /\ Data(a, s)' = Data(a, s) /\ Granted(a, s)' = Granted(a, s) + r.taken
       /\ \A n \in 0 .. Len(cells[a]) : Ahead(a, s, n)' = Ahead(a, s, n)
       /\ Opens(f, s)' = Opens(f, s) /\ Acks(f, s)' = Acks(f, s)
       /\ Closes(f, s)' = Closes(f, s) /\ Byes(f, s)' = Byes(f, s)
       /\ All(f, s)' = All(f, s) /\ Data(f, s)' = Data(f, s) /\ Granted(f, s)' = Granted(f, s)
       /\ \A n : Ahead(f, s, n)' = Ahead(f, s, n)
  <2>1. /\ Opens(a, s)' = Opens(a, s) \cup Last(a, c, s, {"OPEN"})
        /\ Acks(a, s)' = Acks(a, s) \cup Last(a, c, s, {"ACK"})
        /\ Closes(a, s)' = Closes(a, s) \cup Last(a, c, s, {"CLOSE"})
        /\ Byes(a, s)' = Byes(a, s) \cup Last(a, c, s, {"CLOSE", "RESET"})
        /\ All(a, s)' = All(a, s) \cup {Len(cells[a]) + 1}
        /\ Data(a, s)' = Data(a, s) + Weight(c, s, {"DATA"})
        /\ Granted(a, s)' = Granted(a, s) + Weight(c, s, {"OPEN", "ACK", "WINDOW_UPDATE"})
        /\ \A n \in 0 .. Len(cells[a]) : Ahead(a, s, n)' = Ahead(a, s, n)
        /\ Opens(f, s)' = Opens(f, s) /\ Acks(f, s)' = Acks(f, s)
        /\ Closes(f, s)' = Closes(f, s) /\ Byes(f, s)' = Byes(f, s)
        /\ All(f, s)' = All(f, s)
        /\ Data(f, s)' = Data(f, s) /\ Granted(f, s)' = Granted(f, s)
        /\ \A n : Ahead(f, s, n)' = Ahead(f, s, n)
    BY <1>8, <1>9, SentMeasures DEF IInv
  <2>2. /\ Last(a, c, s, {"OPEN"}) = {} /\ Last(a, c, s, {"ACK"}) = {}
        /\ Last(a, c, s, {"CLOSE"}) = {} /\ Last(a, c, s, {"CLOSE", "RESET"}) = {}
        /\ Weight(c, s, {"DATA"}) = 0
        /\ Weight(c, s, {"OPEN", "ACK", "WINDOW_UPDATE"}) = r.taken
    BY <1>8 DEF Last, Weight
  <2>3. /\ Opens(a, s)' = Opens(a, s) /\ Acks(a, s)' = Acks(a, s)
        /\ Closes(a, s)' = Closes(a, s) /\ Byes(a, s)' = Byes(a, s)
    BY <2>1, <2>2, Zenon
  <2>4. Data(a, s)' = Data(a, s) /\ Granted(a, s)' = Granted(a, s) + r.taken
    BY <1>12, <2>1, <2>2
  <2> QED
    BY <2>1, <2>3, <2>4, Zenon
<1> HIDE DEF r, k, f
<1>15. Opened(s)'
  <2>1. \A j \in {Len(cells[a]) + 1} : j > Len(cells[a]) /\ j \in Nat
    BY DEF IInv, Typed
  <2>2. /\ r.registered /\ r.sender # "Opening"
        /\ q.registered /\ q.sender # "Opening" /\ (q.open => r.open)
        /\ r.credit = 0 => q.credit = 0
        /\ r.chunk = 0 => q.chunk = 0 /\ Data(a, s)' = Data(a, s)
        /\ r.buffer = 0 => q.buffer = 0
        /\ r.taken = 0 => q.taken = 0
    BY <1>3, <1>4, <1>14 DEF Calm
  <2>3. CannotSend("Initiator")' <=> CannotSend("Initiator")
    BY <1>10 DEF Ends
  <2> QED
    BY <1>7, <1>9, <1>14, <2>1, <2>2, <2>3, OpenedSent DEF r, f
<1>16. Acknowledged(s)'
  BY <1>0, <1>4, <1>7, <1>14, AcknowledgedKept DEF Calm, r
<1>17. ASSUME NEW e \in Ends PROVE Accounts(e, s)'
  <2>1. /\ CannotSend("Initiator")' <=> CannotSend("Initiator")
        /\ CannotSend("Acceptor")' <=> CannotSend("Acceptor")
    BY <1>10 DEF Ends
  <2>a. streams'[e][s].credit = streams[e][s].credit /\ streams'[e][s].chunk = streams[e][s].chunk
    BY <1>0, <1>4, <1>10 DEF r, k
  <2>2. CASE e = a
    <3>1. /\ Data(a, s)' = Data(a, s) /\ Granted(f, s)' = Granted(f, s)
          /\ streams'[f][s] = streams[f][s] /\ mux'[f].acking = mux[f].acking
      BY <1>0, <1>7, <1>10, <1>14 DEF SameMux, k
    <3>b. Window(e, s)' = Window(e, s)
      BY <2>a, <2>2, <3>1, Zenon DEF Window, f
    <3> QED
      BY <1>0, <1>10, <1>11, <2>1, <2>2, <3>b DEF Accounts, k, f
  <2>3. CASE e = f
    <3> DEFINE ack == IF mux[a].acking = s THEN StreamWindow ELSE 0
    <3>1. /\ Window(e, s) = k.credit + k.chunk + Data(f, s) + r.buffer + r.taken + Granted(a, s) + ack
          /\ Window(e, s)' = k.credit + k.chunk + Data(f, s) + q.buffer + q.taken + Granted(a, s)' + ack
      BY <1>0, <1>7, <1>10, <1>14, <2>3 DEF Window, SameMux, r, k
    <3>c. /\ q.buffer = r.buffer /\ q.taken = 0 /\ Granted(a, s)' = Granted(a, s) + r.taken
          /\ r.buffer \in Nat /\ r.taken \in Nat /\ k.credit \in Nat /\ k.chunk \in Nat
      BY <1>2, <1>4, <1>14 DEF Counts, Calm
    <3>2. ack \in Nat
      BY StreamConstants
    <3> HIDE DEF ack
    <3>3. Window(e, s)' = Window(e, s)
      BY <1>12, <3>1, <3>2, <3>c
    <3> QED
      BY <1>0, <1>4, <1>10, <1>11, <2>1, <2>3, <3>3 DEF Accounts, r, Calm, Hears
  <2> QED
    BY <1>0, <2>2, <2>3
<1>18. ASSUME NEW e \in Ends PROVE Delivered(e, s)'
  BY <1>0, <1>4, <1>10, <1>11, <1>14 DEF Delivered, Calm, Hears, r, k, f
<1>19. ASSUME NEW e \in Ends PROVE Ended(e, s)'
  <2>1. /\ \A j \in Byes(e, s)' : j \in Nat /\ j + 0 \in Byes(e, s)
        /\ \A j \in Closes(e, s)' : /\ j + 0 \in Closes(e, s)
                                    /\ Ahead(e, s, j)' = Ahead(e, s, j + 0)
    <3>1. /\ Byes(e, s)' = Byes(e, s) /\ Closes(e, s)' = Closes(e, s)
          /\ \A n \in 0 .. Len(cells[e]) : Ahead(e, s, n)' = Ahead(e, s, n)
      BY <1>0, <1>14
    <3> QED
      BY <3>1, PlacesKept DEF IInv
  <2>2. /\ Hears(q) => Hears(r)
        /\ Recvd(q) = Recvd(r) /\ q.buffer = r.buffer /\ q.eof = r.eof
        /\ q.remoteClosed = r.remoteClosed /\ q.localClosed = r.localClosed
        /\ q.farewell = r.farewell /\ q.final = r.final
        /\ (k.eof => k.remoteClosed) /\ (r.eof => r.remoteClosed)
    BY <1>2, <1>4 DEF Calm, Hears, Sane
  <2>3. CASE e = a
    <3>1. /\ streams[e][s] = r /\ streams[Peer(e)][s] = k
          /\ streams'[e][s] = q /\ streams'[Peer(e)][s] = k
      BY <1>0, <1>10, <2>3 DEF r, k, f
    <3> QED
      BY <1>11, <2>1, <2>2, <3>1, EndedKept
  <2>4. CASE e = f
    <3>1. /\ streams[e][s] = k /\ streams[Peer(e)][s] = r
          /\ streams'[e][s] = k /\ streams'[Peer(e)][s] = q
      BY <1>0, <1>10, <2>4 DEF r, k
    <3> QED
      BY <1>11, <2>1, <2>2, <3>1, EndedKept
  <2> QED
    BY <1>0, <2>3, <2>4
<1>20. Pair(s)'
  BY <1>15, <1>16, <1>17, <1>18, <1>19 DEF Pair
<1> QED
  BY <1>1, <1>4, <1>6, <1>9, <1>20, SendStep DEF r, Calm

\* A batch of data of stream s is sent: what becomes of the queues, and of the others.
LEMMA SentBatchIs ==
  ASSUME Typed, NEW a \in Ends, NEW s \in Ids, NEW n \in Nat, Send(a, Batch(n, s)),
         streams' \in [Ends -> [Ids -> StreamRecords]],
         mux' \in [Ends -> MuxRecords], \A e \in Ends : mux'[e].cause # "Protocol"
  PROVE  /\ Typed' /\ ~CannotSend(a)
         /\ cells'[a] = cells[a] \o Batch(n, s) /\ cells'[Peer(a)] = cells[Peer(a)]
         /\ \A t \in Ids : t # s => Still(t)
<1> DEFINE q == cells[a]
           b == Batch(n, s)
           p == q \o b
           d == Cell("DATA", s, 1)
<1>1. ~CannotSend(a) /\ Len(q) + Len(b) <= Capacity /\ cells' = [cells EXCEPT ![a] = p]
  BY DEF Send
<1>2. cells \in [Ends -> Seq(Cells)] /\ q \in Seq(Cells) /\ Len(q) \in Nat
      /\ Peer(a) \in Ends /\ Peer(a) # a /\ \A e \in Ends : e = a \/ e = Peer(a)
  BY PeerIs DEF Typed
<1>3. cells'[a] = p /\ \A e \in Ends : e # a => cells'[e] = cells[e]
  BY <1>1, <1>2
<1>4. Len(b) = n
  BY DEF Batch
<1>5. \A i \in 1 .. Len(q) : /\ q[i].type \in {"OPEN", "ACK"} => q[i].count = StreamWindow
                             /\ q[i].type = "DATA" => q[i].count = 1
  BY DEF Typed
<1>6. d.id = s
  BY DEF Cell
<1>7. ASSUME NEW t \in Ids, t # s PROVE Still(t)
  <2>1. /\ Opens(a, t)' = Opens(a, t) /\ Acks(a, t)' = Acks(a, t)
        /\ Closes(a, t)' = Closes(a, t) /\ Byes(a, t)' = Byes(a, t)
        /\ All(a, t)' = All(a, t) \cup IF s = t THEN Len(cells[a]) + 1 .. Len(cells[a]) + n ELSE {}
        /\ Data(a, t)' = Data(a, t) + IF s = t THEN n ELSE 0
        /\ Granted(a, t)' = Granted(a, t)
        /\ \A k \in 0 .. Len(cells[a]) : Ahead(a, t, k)' = Ahead(a, t, k)
    <3> HIDE DEF b
    <3> QED
      BY <1>2, <1>3, SendBatch, Zenon DEF b
  <2>2. Data(a, t) \in Nat
    BY <1>2, MeasuresType
  <2>3. All(a, t)' = All(a, t) /\ Data(a, t)' = Data(a, t)
    BY <1>7, <2>1, <2>2
  <2>4. \A e \in Ends : e = a \/ (e = Peer(a) /\ cells'[e] = cells[e])
    BY <1>2, <1>3
  <2> QED
    BY <2>1, <2>3, <2>4, QueueKept, Zenon DEF Still
<1> HIDE DEF q, b
<1>8. Lengthened(p, q, n, d)
  BY <1>2, BatchIs, Zenon DEF b
<1> HIDE DEF p, d
<1>9. Typed'
  <2>1. /\ p \in Seq(Cells) /\ Len(p) = Len(q) + n
        /\ d.type = "DATA" /\ d.count = 1
        /\ \A i \in 1 .. Len(q) : p[i] = q[i]
        /\ \A i \in Len(q) + 1 .. Len(q) + n : p[i] = d
    BY <1>8, Zenon DEF Lengthened
  <2>2. cells' \in [Ends -> Seq(Cells)]
    BY <1>1, <1>2, <2>1
  <2>3. \A i \in 1 .. Len(p) : i \in 1 .. Len(q) \/ i \in Len(q) + 1 .. Len(q) + n
    BY <1>2, <2>1
  <2>4. ASSUME NEW e \in Ends
        PROVE  /\ Len(cells'[e]) <= Capacity
               /\ \A i \in 1 .. Len(cells'[e]) :
                    /\ cells'[e][i].type \in {"OPEN", "ACK"} => cells'[e][i].count = StreamWindow
                    /\ cells'[e][i].type = "DATA" => cells'[e][i].count = 1
    <3>1. CASE e = a
      <4>1. \A i \in 1 .. Len(p) : /\ p[i].type \in {"OPEN", "ACK"} => p[i].count = StreamWindow
                                   /\ p[i].type = "DATA" => p[i].count = 1
        BY <1>5, <2>1, <2>3
      <4>2. Len(p) <= Capacity
        BY <1>1, <1>4, <2>1
      <4> QED
        BY <1>3, <3>1, <4>1, <4>2
    <3>2. CASE e # a
      <4>1. cells'[e] = cells[e]
        BY <1>3, <3>2
      <4> QED
        BY <4>1, Zenon DEF Typed
    <3> QED
      BY <3>1, <3>2
  <2> QED
    BY <2>2, <2>4 DEF Typed
<1> QED
  BY <1>1, <1>2, <1>3, <1>7, <1>9 DEF p, q, b

\* Accounts, where the window is neither spent nor granted.
LEMMA AccountsKept ==
  ASSUME NEW e \in Ends, NEW s \in Ids, Accounts(e, s), Window(e, s)' = Window(e, s),
         NEW p, NEW y, streams[Peer(e)][s] = p, streams'[Peer(e)][s] = y,
         y.registered /\ y.sender # "Opening" /\ Hears(y) /\ ~y.remoteClosed
            => p.registered /\ p.sender # "Opening" /\ Hears(p) /\ ~p.remoteClosed,
         \A x \in Ends : CannotSend(x) => CannotSend(x)'
  PROVE  Accounts(e, s)'
<1>1. "Initiator" \in Ends /\ "Acceptor" \in Ends
  BY DEF Ends
<1> QED
  BY <1>1 DEF Accounts

LEMMA SendDataSends ==
  ASSUME IInv, NEW a \in Ends, NEW s \in Ids, SendData(a, s), ~CannotSend(a)
  PROVE  IInv'
<1> DEFINE f == Peer(a)
           r == streams[a][s]
           k == streams[f][s]
           n == r.chunk
           q == [r EXCEPT !.sender = "Idle", !.chunk = 0, !.sent = r.sent + n]
<1>0. /\ f \in Ends /\ f # a /\ Peer(f) = a
      /\ \A e \in Ends : e = a \/ e = f
  BY PeerIs
<1>1. r.sender = "Sending" /\ Send(a, Batch(n, s)) /\ Becomes(a, s, q)
  BY DEF SendData, SendOrRaise, Batch
<1>2. /\ Sane(a, r) /\ r \in StreamRecords /\ Wakeful(r) /\ Counts(r)
      /\ Sane(f, k) /\ k \in StreamRecords /\ Counts(k)
  BY <1>0, CountsOf DEF IInv, Typed
<1>3. r.registered /\ n \in Nat /\ r.sent \in Nat
  BY <1>1, <1>2 DEF Sane, Unregistered, Counts
<1>4. q \in StreamRecords
  <2>1. 0 \in 0 .. StreamWindow /\ r.sent + n \in 0 .. MaxUnits
    BY <1>2, <1>3, StreamConstants DEF Sane
  <2> HIDE DEF n
  <2> QED
    BY <1>2, <2>1, ZenonT(60) DEF StreamRecords, Senders
<1>5. /\ q.registered = r.registered /\ q.open = r.open /\ q.credit = r.credit
      /\ q.buffer = r.buffer /\ q.localClosed = r.localClosed
      /\ q.remoteClosed = r.remoteClosed /\ q.error = r.error /\ q.farewell = r.farewell
      /\ q.sender = "Idle" /\ q.chunk = 0 /\ q.receiver = r.receiver /\ q.taken = r.taken
      /\ q.sent = r.sent + n /\ Recvd(q) = Recvd(r) /\ q.final = r.final /\ q.eof = r.eof
  BY <1>2, SMTT(30) DEF StreamRecords, Recvd
<1>6. Sane(a, q) /\ Wakeful(q) /\ SameTaken(r, q) /\ q.buffer <= r.buffer
  <2> HIDE DEF q, r
  <2>1. Sane(a, q)
    BY <1>1, <1>2, <1>3, <1>4, <1>5, SMTT(30) DEF Sane
  <2> QED
    BY <1>1, <1>2, <1>5, <2>1 DEF Wakeful, SameTaken, Counts
<1>7. /\ Changed(a, s, q) /\ mux' \in [Ends -> MuxRecords]
      /\ \A e \in Ends : SameMux(e)
  BY <1>0, <1>1, <1>4, <1>6, BecomesIs
<1> HIDE DEF q, n
<1>9. /\ Typed' /\ ~CannotSend(a)
      /\ cells'[a] = cells[a] \o Batch(n, s) /\ cells'[f] = cells[f]
      /\ \A t \in Ids : t # s => Still(t)
  <2>1. streams' \in [Ends -> [Ids -> StreamRecords]] /\ \A e \in Ends : mux'[e].cause # "Protocol"
    BY <1>7 DEF Changed, SameMux, IInv, Typed
  <2> QED
    BY <1>0, <1>1, <1>3, <1>7, <2>1, SentBatchIs DEF IInv
<1>10. /\ streams'[a][s] = q /\ streams'[f][s] = k
       /\ \A e \in Ends : CannotSend(e)' <=> CannotSend(e)
  BY <1>0, <1>7 DEF Changed, CannotSend, Failed, SameMux
<1>11. \A e \in Ends : Accounts(e, s) /\ Delivered(e, s) /\ Ended(e, s)
  BY DEF IInv
<1>12. /\ Data(a, s) \in Nat /\ Granted(a, s) \in Nat /\ Data(f, s) \in Nat /\ Granted(f, s) \in Nat
  BY <1>0, MeasuresType DEF IInv, Typed
<1>13. cells \in [Ends -> Seq(Cells)]
  BY DEF IInv, Typed
<1>14. /\ Opens(a, s)' = Opens(a, s) /\ Acks(a, s)' = Acks(a, s)
       /\ Closes(a, s)' = Closes(a, s) /\ Byes(a, s)' = Byes(a, s)
       /\ All(a, s)' = All(a, s) \cup (Len(cells[a]) + 1 .. Len(cells[a]) + n)
       /\ Data(a, s)' = Data(a, s) + n /\ Granted(a, s)' = Granted(a, s)
       /\ \A j \in 0 .. Len(cells[a]) : Ahead(a, s, j)' = Ahead(a, s, j)
  <2>1. /\ Opens(a, s)' = Opens(a, s) /\ Acks(a, s)' = Acks(a, s)
        /\ Closes(a, s)' = Closes(a, s) /\ Byes(a, s)' = Byes(a, s)
        /\ All(a, s)' = All(a, s) \cup IF s = s THEN Len(cells[a]) + 1 .. Len(cells[a]) + n ELSE {}
        /\ Data(a, s)' = Data(a, s) + IF s = s THEN n ELSE 0
        /\ Granted(a, s)' = Granted(a, s)
        /\ \A j \in 0 .. Len(cells[a]) : Ahead(a, s, j)' = Ahead(a, s, j)
    BY <1>3, <1>9, <1>13, SendBatch, Zenon
  <2> QED
    BY <2>1, Zenon
<1>15. /\ Opens(f, s)' = Opens(f, s) /\ Acks(f, s)' = Acks(f, s)
       /\ Closes(f, s)' = Closes(f, s) /\ Byes(f, s)' = Byes(f, s)
       /\ All(f, s)' = All(f, s) /\ Data(f, s)' = Data(f, s) /\ Granted(f, s)' = Granted(f, s)
       /\ \A j : Ahead(f, s, j)' = Ahead(f, s, j)
  BY <1>0, <1>9, QueueKept, Zenon
<1>a. /\ r.credit \in Nat /\ r.chunk = n /\ r.buffer \in Nat /\ r.taken \in Nat
      /\ k.buffer \in Nat /\ k.taken \in Nat /\ Recvd(k) \in Nat
  BY <1>2 DEF Counts, n
<1> HIDE DEF r, k, f
<1>16. Opened(s)'
  <2>1. Len(cells[a]) \in Nat
    BY DEF IInv, Typed
  <2>2. \A j \in Len(cells[a]) + 1 .. Len(cells[a]) + n : j > Len(cells[a]) /\ j \in Nat
    BY <1>3, <2>1
  <2>3. r.chunk = 0 => q.chunk = 0 /\ Data(a, s)' = Data(a, s)
    BY <1>5, <1>12, <1>14, <1>a
  <2>4. /\ r.registered /\ r.sender # "Opening"
        /\ q.registered /\ q.sender # "Opening" /\ (q.open => r.open)
        /\ r.credit = 0 => q.credit = 0
        /\ r.buffer = 0 => q.buffer = 0
        /\ r.taken = 0 => q.taken = 0
    BY <1>1, <1>3, <1>5
  <2>5. CannotSend("Initiator")' <=> CannotSend("Initiator")
    BY <1>10 DEF Ends
  <2> QED
    BY <1>7, <1>9, <1>14, <2>2, <2>3, <2>4, <2>5, OpenedSent DEF r, f
<1>17. Acknowledged(s)'
  <2>1. \A e \in Ends : Acks(e, s)' = Acks(e, s) /\ Opens(e, s)' = Opens(e, s)
    BY <1>0, <1>14, <1>15
  <2> QED
    BY <1>5, <1>7, <2>1, AcknowledgedKept DEF r
<1>18. ASSUME NEW e \in Ends PROVE Accounts(e, s)'
  <2>1. CASE e = a
    <3> DEFINE ack == IF mux[f].acking = s THEN StreamWindow ELSE 0
    <3>1. /\ Window(e, s) = r.credit + r.chunk + Data(a, s) + k.buffer + k.taken + Granted(f, s) + ack
          /\ Window(e, s)' = q.credit + q.chunk + Data(a, s)' + k.buffer + k.taken + Granted(f, s) + ack
      BY <1>0, <1>7, <1>10, <1>15, <2>1 DEF Window, SameMux, r, k, f
    <3>2. ack \in Nat
      BY StreamConstants
    <3> HIDE DEF ack
    <3>3. q.credit = r.credit /\ q.chunk = 0 /\ Data(a, s)' = Data(a, s) + n
      BY <1>5, <1>14
    <3>4. Window(e, s)' = Window(e, s)
      BY <1>3, <1>12, <1>a, <3>1, <3>2, <3>3
    <3> QED
      BY <1>10, <1>11, <2>1, <3>4, AccountsKept DEF k, f
  <2>2. CASE e = f
    <3>1. Window(e, s)' = Window(e, s)
      BY <1>0, <1>5, <1>7, <1>10, <1>14, <1>15, <2>2, Zenon DEF Window, SameMux, r, k
    <3> QED
      BY <1>0, <1>1, <1>5, <1>10, <1>11, <2>2, <3>1, AccountsKept DEF r, Hears
  <2> QED
    BY <1>0, <2>1, <2>2
<1>19. ASSUME NEW e \in Ends PROVE Delivered(e, s)'
  <2>1. CASE e = a
    <3>1. /\ Recvd(k) + k.buffer + Data(a, s) <= r.sent
          /\ Hears(k) /\ ~k.remoteClosed => Recvd(k) + k.buffer + Data(a, s) = r.sent
      BY <1>11 DEF Delivered, r, k, f
    <3>2. Recvd(k) + k.buffer + Data(a, s)' = (Recvd(k) + k.buffer + Data(a, s)) + n
      BY <1>3, <1>12, <1>14, <1>a
    <3>3. /\ Recvd(k) + k.buffer + Data(a, s)' <= q.sent
          /\ Hears(k) /\ ~k.remoteClosed => Recvd(k) + k.buffer + Data(a, s)' = q.sent
      BY <1>3, <1>5, <1>12, <1>a, <3>1, <3>2
    <3> QED
      BY <1>10, <2>1, <3>3 DEF Delivered, f, k
  <2>2. CASE e = f
    BY <1>0, <1>5, <1>10, <1>11, <1>15, <2>2 DEF Delivered, Hears, r, k
  <2> QED
    BY <1>0, <2>1, <2>2
<1>20. ASSUME NEW e \in Ends PROVE Ended(e, s)'
  <2>1. /\ \A j \in Byes(e, s)' : j \in Nat /\ j + 0 \in Byes(e, s)
        /\ \A j \in Closes(e, s)' : /\ j + 0 \in Closes(e, s)
                                    /\ Ahead(e, s, j)' = Ahead(e, s, j + 0)
    <3>1. /\ Byes(e, s)' = Byes(e, s) /\ Closes(e, s)' = Closes(e, s)
          /\ \A j \in 0 .. Len(cells[e]) : Ahead(e, s, j)' = Ahead(e, s, j)
      BY <1>0, <1>14, <1>15
    <3> QED
      BY <3>1, PlacesKept DEF IInv
  <2>2. /\ Hears(q) => Hears(r)
        /\ (k.eof => k.remoteClosed) /\ (r.eof => r.remoteClosed)
    BY <1>2, <1>5 DEF Hears, Sane
  <2>3. CASE e = a
    <3>1. /\ streams[e][s] = r /\ streams[Peer(e)][s] = k
          /\ streams'[e][s] = q /\ streams'[Peer(e)][s] = k
      BY <1>0, <1>10, <2>3 DEF r, k, f
    <3> QED
      BY <1>5, <1>11, <2>1, <2>2, <3>1, EndedKept
  <2>4. CASE e = f
    <3>1. /\ streams[e][s] = k /\ streams[Peer(e)][s] = r
          /\ streams'[e][s] = k /\ streams'[Peer(e)][s] = q
      BY <1>0, <1>10, <2>4 DEF r, k
    <3> QED
      BY <1>5, <1>11, <2>1, <2>2, <3>1, EndedKept
  <2> QED
    BY <1>0, <2>3, <2>4
<1>21. Pair(s)'
  BY <1>16, <1>17, <1>18, <1>19, <1>20 DEF Pair
<1> QED
  BY <1>1, <1>5, <1>6, <1>9, <1>21, SendStep DEF r

\* close() and reset() say farewell, behind all that was sent before.
LEMMA SendFarewellSends ==
  ASSUME IInv, NEW a \in Ends, NEW s \in Ids, SendFarewell(a, s), ~CannotSend(a)
  PROVE  IInv'
<1> DEFINE f == Peer(a)
           r == streams[a][s]
           k == streams[f][s]
           n == IF r.farewell = "CLOSE" THEN r.sent ELSE r.final
           q == [r EXCEPT !.farewell = "None", !.final = n]
           c == Cell(r.farewell, s, 0)
           l == Len(cells[a]) + 1
<1>0. /\ f \in Ends /\ f # a /\ Peer(f) = a
      /\ \A e \in Ends : e = a \/ e = f
  BY PeerIs
<1>1. r.farewell # "None" /\ Send(a, <<c>>) /\ Becomes(a, s, q)
  BY DEF SendFarewell, SendOrRaise
<1>2. /\ Sane(a, r) /\ r \in StreamRecords /\ Wakeful(r) /\ Counts(r)
      /\ Sane(f, k) /\ k \in StreamRecords /\ Counts(k)
  BY <1>0, CountsOf DEF IInv, Typed
<1>3. /\ r.registered /\ r.localClosed /\ r.farewell \in {"CLOSE", "RESET"}
      /\ r.sender \notin {"Opening", "AwaitingOpen", "OpenAsleep"}
  BY <1>1, <1>2 DEF Sane, Unregistered, StreamRecords
<1>4. q \in StreamRecords
  <2>1. n \in 0 .. MaxUnits
    BY <1>2 DEF StreamRecords
  <2> HIDE DEF n
  <2> QED
    BY <1>2, <2>1, ZenonT(60) DEF StreamRecords
<1>5. /\ q.registered = r.registered /\ q.open = r.open /\ q.credit = r.credit
      /\ q.buffer = r.buffer /\ q.localClosed = r.localClosed
      /\ q.remoteClosed = r.remoteClosed /\ q.error = r.error /\ q.farewell = "None"
      /\ q.sender = r.sender /\ q.chunk = r.chunk /\ q.receiver = r.receiver /\ q.taken = r.taken
      /\ q.sent = r.sent /\ Recvd(q) = Recvd(r) /\ q.final = n /\ q.eof = r.eof
  BY <1>2, SMTT(30) DEF StreamRecords, Recvd
<1>6. Sane(a, q) /\ Wakeful(q) /\ SameTaken(r, q) /\ q.buffer <= r.buffer
  <2> HIDE DEF q, r
  <2>1. Sane(a, q)
    BY <1>1, <1>2, <1>3, <1>4, <1>5, SMTT(30) DEF Sane
  <2> QED
    BY <1>1, <1>2, <1>5, <2>1 DEF Wakeful, SameTaken, Counts
<1>7. /\ Changed(a, s, q) /\ mux' \in [Ends -> MuxRecords]
      /\ \A e \in Ends : SameMux(e)
  BY <1>0, <1>1, <1>4, <1>6, BecomesIs
<1>8. c \in Cells /\ c.id = s /\ c.type = r.farewell /\ c.type \in {"CLOSE", "RESET"} /\ c.count = 0
  BY <1>3, StreamConstants DEF Cell, Cells
<1> HIDE DEF c, q, n
<1>9. /\ Typed' /\ ~CannotSend(a)
      /\ cells'[a] = cells[a] \o <<c>> /\ cells'[f] = cells[f]
      /\ \A t \in Ids : t # s => Still(t)
  <2>1. streams' \in [Ends -> [Ids -> StreamRecords]] /\ \A e \in Ends : mux'[e].cause # "Protocol"
    BY <1>7 DEF Changed, SameMux, IInv, Typed
  <2> QED
    BY <1>0, <1>1, <1>7, <1>8, <2>1, SentIs DEF IInv
<1>10. /\ streams'[a][s] = q /\ streams'[f][s] = k
       /\ \A e \in Ends : CannotSend(e)' <=> CannotSend(e)
  BY <1>0, <1>7 DEF Changed, CannotSend, Failed, SameMux
<1>11. \A e \in Ends : Accounts(e, s) /\ Delivered(e, s) /\ Ended(e, s)
  BY DEF IInv
<1>12. /\ Data(a, s) \in Nat /\ Granted(a, s) \in Nat /\ Data(f, s) \in Nat /\ Granted(f, s) \in Nat
  BY <1>0, MeasuresType DEF IInv, Typed
<1>13. Byes(a, s) = {} /\ Closes(a, s) = {} /\ ~k.remoteClosed /\ ~k.eof
  <2>1. Byes(a, s) = {} /\ ~k.remoteClosed
    BY <1>0, <1>1, <1>11 DEF Ended
  <2>2. Closes(a, s) \subseteq Byes(a, s)
    BY DEF Closes, Byes, At
  <2> QED
    BY <1>2, <2>1, <2>2 DEF Sane
<1>14. /\ Opens(a, s)' = Opens(a, s) /\ Acks(a, s)' = Acks(a, s)
       /\ Closes(a, s)' = IF c.type = "CLOSE" THEN {l} ELSE {}
       /\ Byes(a, s)' = {l}
       /\ All(a, s)' = All(a, s) \cup {l}
       /\ Data(a, s)' = Data(a, s) /\ Granted(a, s)' = Granted(a, s)
       /\ Opens(f, s)' = Opens(f, s) /\ Acks(f, s)' = Acks(f, s)
       /\ Closes(f, s)' = Closes(f, s) /\ Byes(f, s)' = Byes(f, s)
       /\ All(f, s)' = All(f, s) /\ Data(f, s)' = Data(f, s) /\ Granted(f, s)' = Granted(f, s)
       /\ \A j : Ahead(f, s, j)' = Ahead(f, s, j)
  <2>1. /\ Opens(a, s)' = Opens(a, s) \cup Last(a, c, s, {"OPEN"})
        /\ Acks(a, s)' = Acks(a, s) \cup Last(a, c, s, {"ACK"})
        /\ Closes(a, s)' = Closes(a, s) \cup Last(a, c, s, {"CLOSE"})
        /\ Byes(a, s)' = Byes(a, s) \cup Last(a, c, s, {"CLOSE", "RESET"})
        /\ All(a, s)' = All(a, s) \cup {l}
        /\ Data(a, s)' = Data(a, s) + Weight(c, s, {"DATA"})
        /\ Granted(a, s)' = Granted(a, s) + Weight(c, s, {"OPEN", "ACK", "WINDOW_UPDATE"})
        /\ Opens(f, s)' = Opens(f, s) /\ Acks(f, s)' = Acks(f, s)
        /\ Closes(f, s)' = Closes(f, s) /\ Byes(f, s)' = Byes(f, s)
        /\ All(f, s)' = All(f, s)
        /\ Data(f, s)' = Data(f, s) /\ Granted(f, s)' = Granted(f, s)
        /\ \A j : Ahead(f, s, j)' = Ahead(f, s, j)
    BY <1>8, <1>9, SentMeasures DEF IInv
  <2>2. /\ Last(a, c, s, {"OPEN"}) = {} /\ Last(a, c, s, {"ACK"}) = {}
        /\ Last(a, c, s, {"CLOSE"}) = IF c.type = "CLOSE" THEN {l} ELSE {}
        /\ Last(a, c, s, {"CLOSE", "RESET"}) = {l}
        /\ Weight(c, s, {"DATA"}) = 0
        /\ Weight(c, s, {"OPEN", "ACK", "WINDOW_UPDATE"}) = 0
    BY <1>8 DEF Last, Weight
  <2>3. /\ Opens(a, s)' = Opens(a, s) /\ Acks(a, s)' = Acks(a, s)
        /\ Byes(a, s)' = {l}
    BY <1>13, <2>1, <2>2, Zenon
  <2>4. Closes(a, s)' = IF c.type = "CLOSE" THEN {l} ELSE {}
    BY <1>13, <2>1, <2>2, Zenon
  <2>5. Data(a, s)' = Data(a, s) /\ Granted(a, s)' = Granted(a, s)
    BY <1>12, <2>1, <2>2
  <2> QED
    BY <2>1, <2>3, <2>4, <2>5, Zenon
<1>15. \A j : j = l => Ahead(a, s, j)' = Data(a, s)'
  <2>1. Len(cells'[a]) = l
    <3> DEFINE b == cells[a]
    <3>1. b \in Seq(Cells)
      BY DEF IInv, Typed
    <3> HIDE DEF b
    <3>2. Len(b \o <<c>>) = Len(b) + 1
      BY <3>1
    <3> QED
      BY <1>9, <3>2 DEF b
  <2> QED
    BY <2>1 DEF Ahead, Data, OnTheWay
<1> HIDE DEF r, k, f
<1>16. Opened(s)'
  <2>1. \A j \in {l} : j > Len(cells[a]) /\ j \in Nat
    BY DEF IInv, Typed
  <2>2. /\ r.registered /\ r.sender # "Opening"
        /\ q.registered /\ q.sender # "Opening" /\ (q.open => r.open)
        /\ r.credit = 0 => q.credit = 0
        /\ r.chunk = 0 => q.chunk = 0 /\ Data(a, s)' = Data(a, s)
        /\ r.buffer = 0 => q.buffer = 0
        /\ r.taken = 0 => q.taken = 0
    BY <1>3, <1>5, <1>14
  <2>3. CannotSend("Initiator")' <=> CannotSend("Initiator")
    BY <1>10 DEF Ends
  <2> QED
    BY <1>7, <1>9, <1>14, <2>1, <2>2, <2>3, OpenedSent DEF r, f
<1>17. Acknowledged(s)'
  <2>1. \A e \in Ends : Acks(e, s)' = Acks(e, s) /\ Opens(e, s)' = Opens(e, s)
    BY <1>0, <1>14
  <2> QED
    BY <1>5, <1>7, <2>1, AcknowledgedKept DEF r
<1>18. ASSUME NEW e \in Ends PROVE Accounts(e, s)'
  <2>1. Window(e, s)' = Window(e, s)
    <3>1. CASE e = a
      BY <1>0, <1>5, <1>7, <1>10, <1>14, <3>1, Zenon DEF Window, SameMux, r, k, f
    <3>2. CASE e = f
      BY <1>0, <1>5, <1>7, <1>10, <1>14, <3>2, Zenon DEF Window, SameMux, r, k
    <3> QED
      BY <1>0, <3>1, <3>2
  <2>2. CASE e = a
    BY <1>10, <1>11, <2>1, <2>2, AccountsKept DEF k, f
  <2>3. CASE e = f
    BY <1>0, <1>3, <1>5, <1>10, <1>11, <2>1, <2>3, AccountsKept DEF r, Hears
  <2> QED
    BY <1>0, <2>2, <2>3
<1>19. ASSUME NEW e \in Ends PROVE Delivered(e, s)'
  BY <1>0, <1>5, <1>10, <1>11, <1>14 DEF Delivered, Hears, r, k, f
<1>20. Ended(a, s)'
  <2>1. Hears(k) => Recvd(k) + k.buffer + Data(a, s) = r.sent
    BY <1>11, <1>13 DEF Delivered, r, k, f
  <2>2. c.type = "CLOSE" => q.final = r.sent
    BY <1>5, <1>8 DEF n
  <2>3. Hears(k) => \A j \in Closes(a, s)' : Recvd(k) + k.buffer + Ahead(a, s, j)' = q.final
    <3>1. \A j \in Closes(a, s)' : j = l /\ q.final = r.sent
      BY <1>14, <2>2
    <3>2. \A j \in Closes(a, s)' : Ahead(a, s, j)' = Data(a, s)
      BY <1>14, <1>15, <3>1
    <3> QED
      BY <2>1, <3>1, <3>2
  <2>4. q.localClosed /\ q.farewell = "None"
    BY <1>3, <1>5
  <2> QED
    BY <1>10, <1>13, <1>14, <2>3, <2>4 DEF Ended, k, f
<1>21. Ended(f, s)'
  <2>1. /\ \A j \in Byes(f, s)' : j \in Nat /\ j + 0 \in Byes(f, s)
        /\ \A j \in Closes(f, s)' : /\ j + 0 \in Closes(f, s)
                                    /\ Ahead(f, s, j)' = Ahead(f, s, j + 0)
    BY <1>0, <1>14, PlacesKept DEF IInv
  <2>2. /\ Hears(q) => Hears(r)
        /\ (k.eof => k.remoteClosed) /\ (r.eof => r.remoteClosed)
    BY <1>2, <1>5 DEF Hears, Sane
  <2>3. /\ streams[f][s] = k /\ streams[Peer(f)][s] = r
        /\ streams'[f][s] = k /\ streams'[Peer(f)][s] = q
    BY <1>0, <1>10 DEF r, k
  <2> QED
    BY <1>0, <1>5, <1>11, <2>1, <2>2, <2>3, EndedKept
<1>22. Pair(s)'
  BY <1>0, <1>16, <1>17, <1>18, <1>19, <1>20, <1>21 DEF Pair
<1> QED
  BY <1>1, <1>5, <1>6, <1>9, <1>22, SendStep DEF r

\* The reader acknowledges a stream it has registered.
LEMMA AckSent ==
  ASSUME IInv, NEW a \in Ends, NEW s \in Ids, mux[a].acking = s,
         Send(a, <<Cell("ACK", s, StreamWindow)>>), UNCHANGED streams,
         mux' = [mux EXCEPT ![a].acking = 0]
  PROVE  IInv'
<1> DEFINE f == "Initiator"
           r == streams[a][s]
           k == streams[f][s]
           c == Cell("ACK", s, StreamWindow)
           l == Len(cells[a]) + 1
           m == [mux[a] EXCEPT !.acking = 0]
<1>0. mux \in [Ends -> MuxRecords] /\ mux[a] \in MuxRecords /\ mux[a].cause # "Protocol"
  BY DEF IInv, Typed
<1>1. Send(a, <<c>>) /\ mux' = [mux EXCEPT ![a] = m] /\ s # 0
  BY DEF Ids
<1>3. /\ a = "Acceptor" /\ f \in Ends /\ Peer(a) = f /\ Peer(f) = a /\ f # a
      /\ \A e \in Ends : e = a \/ e = f
  BY <1>1 DEF IInv, Acknowledged, Ends, Peer
<1>4. /\ m \in MuxRecords /\ m.used = mux[a].used /\ m.cause = mux[a].cause
      /\ m.closed = mux[a].closed /\ m.broken = mux[a].broken
      /\ m.reading = mux[a].reading /\ m.toFail = mux[a].toFail /\ m.acking = 0
  <2>1. 0 \in 0 .. MaxStreams
    BY StreamConstants
  <2>2. m \in MuxRecords
    BY <1>0, <2>1, ZenonT(60) DEF MuxRecords
  <2> QED
    BY <1>0, <2>2 DEF MuxRecords
<1> HIDE DEF m
<1>5. /\ \A e \in Ends : mux'[e] = IF e = a THEN m ELSE mux[e]
      /\ mux' \in [Ends -> MuxRecords]
  BY <1>0, <1>1, <1>4
<1>6. c \in Cells /\ c.id = s /\ c.type = "ACK" /\ c.count = StreamWindow
  BY StreamConstants DEF Cell, Cells
<1> HIDE DEF c
<1>7. /\ Typed' /\ ~CannotSend(a)
      /\ cells'[a] = cells[a] \o <<c>> /\ cells'[f] = cells[f]
      /\ \A t \in Ids : t # s => Still(t)
  <2>1. /\ streams' \in [Ends -> [Ids -> StreamRecords]]
        /\ \A e \in Ends : mux'[e].cause # "Protocol"
    BY <1>1, <1>4, <1>5 DEF IInv, Typed
  <2>2. /\ c.type \in {"OPEN", "ACK"} => c.count = StreamWindow
        /\ c.type = "DATA" => c.count = 1
    BY <1>6
  <2>3. /\ Typed' /\ ~CannotSend(a)
        /\ cells'[a] = cells[a] \o <<c>> /\ cells'[Peer(a)] = cells[Peer(a)]
        /\ \A t \in Ids : t # s => Still(t)
    BY <1>1, <1>5, <1>6, <2>1, <2>2, SentIs, Zenon DEF IInv
  <2> QED
    BY <1>3, <2>3
<1>8. /\ \A e \in Ends : /\ CannotSend(e)' <=> CannotSend(e)
                         /\ Failed(e)' <=> Failed(e)
                         /\ mux'[e].toFail = mux[e].toFail
      /\ mux'[a].acking = 0 /\ mux'[f].acking = mux[f].acking
  BY <1>3, <1>4, <1>5 DEF CannotSend, Failed
<1>9. /\ r \in StreamRecords /\ Sane(a, r) /\ Wakeful(r) /\ Counts(r)
      /\ Sane(f, k) /\ k \in StreamRecords /\ Counts(k)
  BY <1>3, CountsOf DEF IInv, Typed
<1>10. /\ Opened(s) /\ Acknowledged(s) /\ mux[f].acking = 0
       /\ \A e \in Ends : Accounts(e, s) /\ Delivered(e, s) /\ Ended(e, s)
  BY DEF IInv, Acknowledged
<1>11. r.registered /\ Acks(a, s) = {} /\ ~k.open /\ r.sender # "Opening"
  BY <1>3, <1>9, <1>10 DEF Acknowledged, Sane
<1>12. Changed(a, s, r)
  BY DEF Changed, IInv, Typed
<1>13. \A e \in Ends : Data(e, s) \in Nat /\ Granted(e, s) \in Nat
  BY MeasuresType DEF IInv, Typed
<1>14. /\ Opens(a, s)' = Opens(a, s) /\ Acks(a, s)' = {l}
       /\ Closes(a, s)' = Closes(a, s) /\ Byes(a, s)' = Byes(a, s)
       /\ All(a, s)' = All(a, s) \cup {l}
       /\ Data(a, s)' = Data(a, s) /\ Granted(a, s)' = Granted(a, s) + StreamWindow
       /\ \A j \in 0 .. Len(cells[a]) : Ahead(a, s, j)' = Ahead(a, s, j)
       /\ Opens(f, s)' = Opens(f, s) /\ Acks(f, s)' = Acks(f, s)
       /\ Closes(f, s)' = Closes(f, s) /\ Byes(f, s)' = Byes(f, s)
       /\ All(f, s)' = All(f, s) /\ Data(f, s)' = Data(f, s) /\ Granted(f, s)' = Granted(f, s)
       /\ \A j : Ahead(f, s, j)' = Ahead(f, s, j)
  <2>1. /\ Opens(a, s)' = Opens(a, s) \cup Last(a, c, s, {"OPEN"})
        /\ Acks(a, s)' = Acks(a, s) \cup Last(a, c, s, {"ACK"})
        /\ Closes(a, s)' = Closes(a, s) \cup Last(a, c, s, {"CLOSE"})
        /\ Byes(a, s)' = Byes(a, s) \cup Last(a, c, s, {"CLOSE", "RESET"})
        /\ All(a, s)' = All(a, s) \cup {l}
        /\ Data(a, s)' = Data(a, s) + Weight(c, s, {"DATA"})
        /\ Granted(a, s)' = Granted(a, s) + Weight(c, s, {"OPEN", "ACK", "WINDOW_UPDATE"})
        /\ \A j \in 0 .. Len(cells[a]) : Ahead(a, s, j)' = Ahead(a, s, j)
        /\ Opens(f, s)' = Opens(f, s) /\ Acks(f, s)' = Acks(f, s)
        /\ Closes(f, s)' = Closes(f, s) /\ Byes(f, s)' = Byes(f, s)
        /\ All(f, s)' = All(f, s)
        /\ Data(f, s)' = Data(f, s) /\ Granted(f, s)' = Granted(f, s)
        /\ \A j : Ahead(f, s, j)' = Ahead(f, s, j)
    BY <1>3, <1>6, <1>7, SentMeasures, SMTT(60) DEF IInv
  <2>2. /\ Last(a, c, s, {"OPEN"}) = {} /\ Last(a, c, s, {"ACK"}) = {l}
        /\ Last(a, c, s, {"CLOSE"}) = {} /\ Last(a, c, s, {"CLOSE", "RESET"}) = {}
        /\ Weight(c, s, {"DATA"}) = 0
        /\ Weight(c, s, {"OPEN", "ACK", "WINDOW_UPDATE"}) = StreamWindow
    BY <1>6 DEF Last, Weight
  <2>3. /\ Opens(a, s)' = Opens(a, s) /\ Acks(a, s)' = {l}
        /\ Closes(a, s)' = Closes(a, s) /\ Byes(a, s)' = Byes(a, s)
    BY <1>11, <2>1, <2>2, Zenon
  <2>4. Data(a, s)' = Data(a, s) /\ Granted(a, s)' = Granted(a, s) + StreamWindow
    BY <1>13, <2>1, <2>2
  <2> QED
    BY <2>1, <2>3, <2>4, Zenon
<1>15. streams'[a][s] = r /\ streams'[f][s] = k
  OBVIOUS
<1> HIDE DEF r, k
<1>16. Opened(s)'
  <2>1. \A j \in {l} : j > Len(cells[a]) /\ j \in Nat
    BY DEF IInv, Typed
  <2>2. CannotSend(f)' <=> CannotSend(f)
    BY <1>3, <1>8
  <2> QED
    BY <1>3, <1>7, <1>11, <1>12, <1>14, <2>1, <2>2, OpenedSent DEF r
<1>17. Acknowledged(s)'
  BY <1>1, <1>3, <1>8, <1>10, <1>11, <1>14, <1>15 DEF Acknowledged, r, k
<1>18. ASSUME NEW e \in Ends PROVE Accounts(e, s)'
  <2>1. CASE e = f
    <3>1. /\ Window(e, s) = k.credit + k.chunk + Data(f, s) + r.buffer + r.taken + Granted(a, s) + StreamWindow
          /\ Window(e, s)' = k.credit + k.chunk + Data(f, s) + r.buffer + r.taken + Granted(a, s)' + 0
      BY <1>1, <1>3, <1>8, <1>14, <1>15, <2>1 DEF Window, r, k
    <3>2. /\ k.credit \in Nat /\ k.chunk \in Nat /\ r.buffer \in Nat /\ r.taken \in Nat
          /\ Data(f, s) \in Nat /\ Granted(a, s) \in Nat
          /\ Granted(a, s)' = Granted(a, s) + StreamWindow
      BY <1>3, <1>9, <1>13, <1>14 DEF Counts
    <3>3. Window(e, s)' = Window(e, s)
      BY <3>1, <3>2, StreamConstants
    <3> QED
      BY <1>3, <1>8, <1>10, <1>15, <2>1, <3>3, AccountsKept DEF r
  <2>2. CASE e = a
    <3>1. Window(e, s)' = Window(e, s)
      BY <1>3, <1>8, <1>14, <1>15, <2>2, Zenon DEF Window, r, k
    <3> QED
      BY <1>3, <1>8, <1>10, <1>15, <2>2, <3>1, AccountsKept DEF k
  <2> QED
    BY <1>3, <2>1, <2>2
<1>19. ASSUME NEW e \in Ends PROVE Delivered(e, s)'
  BY <1>3, <1>10, <1>14, <1>15 DEF Delivered, r, k
<1>20. ASSUME NEW e \in Ends PROVE Ended(e, s)'
  <2>1. /\ \A j \in Byes(e, s)' : j \in Nat /\ j + 0 \in Byes(e, s)
        /\ \A j \in Closes(e, s)' : /\ j + 0 \in Closes(e, s)
                                    /\ Ahead(e, s, j)' = Ahead(e, s, j + 0)
    <3>1. /\ Byes(e, s)' = Byes(e, s) /\ Closes(e, s)' = Closes(e, s)
          /\ \A j \in 0 .. Len(cells[e]) : Ahead(e, s, j)' = Ahead(e, s, j)
      BY <1>3, <1>14
    <3> QED
      BY <3>1, PlacesKept DEF IInv
  <2>2. (k.eof => k.remoteClosed) /\ (r.eof => r.remoteClosed)
    BY <1>9 DEF Sane
  <2>3. CASE e = a
    <3>1. /\ streams[e][s] = r /\ streams[Peer(e)][s] = k
          /\ streams'[e][s] = r /\ streams'[Peer(e)][s] = k
      BY <1>3, <1>15, <2>3 DEF r, k
    <3> QED
      BY <1>10, <2>1, <2>2, <3>1, EndedKept
  <2>4. CASE e = f
    <3>1. /\ streams[e][s] = k /\ streams[Peer(e)][s] = r
          /\ streams'[e][s] = k /\ streams'[Peer(e)][s] = r
      BY <1>3, <1>15, <2>4 DEF r, k
    <3> QED
      BY <1>10, <2>1, <2>2, <3>1, EndedKept
  <2> QED
    BY <1>3, <2>3, <2>4
<1>21. Pair(s)'
  BY <1>16, <1>17, <1>18, <1>19, <1>20 DEF Pair
<1>22. ASSUME NEW t \in Ids PROVE Pair(t)'
  <2>1. CASE t = s
    BY <1>21, <2>1
  <2>2. CASE t # s
    <3>1. Weakened(t)
      <4>1. \A e \in Ends : mux'[e].acking = t <=> mux[e].acking = t
        BY <1>3, <1>8, <2>2 DEF Ids
      <4> QED
        BY <1>3, <1>8, <4>1 DEF Weakened
    <3> QED
      BY <1>7, <1>12, <2>2, <3>1, OtherPair
  <2> QED
    BY <2>1, <2>2
<1>23. \A e \in Ends : Budgeted(e)'
  <2>1. \A e \in Ends : mux'[e].used = mux[e].used
    BY <1>4, <1>5
  <2>2. \A e \in Ends : HeldBy(e)' = HeldBy(e)
    BY DEF HeldBy
  <2> QED
    BY <2>1, <2>2 DEF IInv, Budgeted
<1>24. ASSUME NEW e \in Ends, NEW t \in Ids PROVE Failing(e, t)'
  <2>1. Failing(e, t)
    BY DEF IInv
  <2>2. CASE e = a
    BY <1>7, <1>8, <2>1, <2>2 DEF Failing, CannotSend
  <2>3. CASE e # a
    BY <1>5, <1>8, <2>1, <2>3 DEF Failing
  <2> QED
    BY <2>2, <2>3
<1> QED
  BY <1>7, <1>9, <1>12, <1>22, <1>23, <1>24, Assembled DEF r

LEMMA SendAckSends ==
  ASSUME IInv, NEW a \in Ends, SendAck(a), ~CannotSend(a)
  PROVE  IInv'
<1>1. /\ mux[a].acking # 0 /\ Send(a, <<Cell("ACK", mux[a].acking, StreamWindow)>>)
      /\ UNCHANGED streams /\ mux' = [mux EXCEPT ![a].acking = 0]
  BY DEF SendAck, SendOrRaise
<1>2. mux[a].acking \in Ids
  BY <1>1, StreamConstants DEF IInv, Typed, MuxRecords, Ids
<1> QED
  BY <1>1, <1>2, AckSent

-----------------------------------------------------------------------------
(* Steps that handle the cell at the head of the peer's queue *)

\* Places of a queue before and after its head is taken off.
Moved(old, new) ==
    /\ \A j \in new : j \in Nat \ {0} /\ j + 1 \in old
    /\ \A j \in old : j # 1 => j - 1 \in new

\* What there is of stream t in the queue of end f, when cell c is taken off.
Handled(f, t, c) ==
    /\ Moved(Opens(f, t), Opens(f, t)') /\ Moved(Acks(f, t), Acks(f, t)')
    /\ Moved(Closes(f, t), Closes(f, t)') /\ Moved(Byes(f, t), Byes(f, t)')
    /\ Moved(All(f, t), All(f, t)')
    /\ Data(f, t) \in Nat /\ Data(f, t)' \in Nat
    /\ Granted(f, t) \in Nat /\ Granted(f, t)' \in Nat
    /\ Data(f, t) = Weight(c, t, {"DATA"}) + Data(f, t)'
    /\ Granted(f, t) = Weight(c, t, {"OPEN", "ACK", "WINDOW_UPDATE"}) + Granted(f, t)'
    /\ \A j \in Closes(f, t)' :
          /\ Ahead(f, t, j)' \in Nat
          /\ Ahead(f, t, j + 1) = Weight(c, t, {"DATA"}) + Ahead(f, t, j)'
    /\ 1 \in Closes(f, t) => Ahead(f, t, 1) = Weight(c, t, {"DATA"})
    /\ 1 \in Opens(f, t) <=> c.id = t /\ c.type = "OPEN"
    /\ 1 \in Acks(f, t) <=> c.id = t /\ c.type = "ACK"
    /\ 1 \in Closes(f, t) <=> c.id = t /\ c.type = "CLOSE"
    /\ 1 \in Byes(f, t) <=> c.id = t /\ c.type \in {"CLOSE", "RESET"}
    /\ 1 \in All(f, t) <=> c.id = t

\* Sums of what a queue carries are numbers.
LEMMA CarriedNat ==
  ASSUME NEW q \in Seq(Cells), NEW t, NEW types
  PROVE  /\ \A n \in 0 .. Len(q) : Total(Carried(q, t, types), n) \in Nat
         /\ Total(Carried(q, t, types), Len(q)) \in Nat
         /\ Total(Carried(q, t, types), 0) = 0
<1>1. Len(q) \in Nat
  OBVIOUS
<1>2. ASSUME NEW n \in 0 .. Len(q) PROVE Total(Carried(q, t, types), n) \in Nat
  <2>1. n \in Nat /\ \A i \in 1 .. n : Carried(q, t, types)[i] \in Nat
    BY <1>1, CarriedIs
  <2> QED
    BY <2>1, TotalIs
<1>3. Total(Carried(q, t, types), 0) = 0
  <2>1. 0 \in Nat /\ \A i \in 1 .. 0 : Carried(q, t, types)[i] \in Nat
    OBVIOUS
  <2> QED
    BY <2>1, TotalIs
<1> QED
  BY <1>1, <1>2, <1>3

LEMMA HandledIs ==
  ASSUME cells \in [Ends -> Seq(Cells)], NEW f \in Ends, cells[f] # <<>>,
         cells'[f] = Tail(cells[f])
  PROVE  \A t : Handled(f, t, Head(cells[f]))
<1> TAKE t
<1> DEFINE q == cells[f]
           c == Head(q)
           p == cells'[f]
           Rest(places) == {i \in 1 .. Len(q) - 1 : i + 1 \in places}
<1>1. /\ Opens(f, t)' = Rest(Opens(f, t)) /\ Acks(f, t)' = Rest(Acks(f, t))
      /\ Closes(f, t)' = Rest(Closes(f, t)) /\ Byes(f, t)' = Rest(Byes(f, t))
      /\ All(f, t)' = Rest(All(f, t))
      /\ Data(f, t) = Weight(c, t, {"DATA"}) + Data(f, t)'
      /\ Granted(f, t) = Weight(c, t, {"OPEN", "ACK", "WINDOW_UPDATE"}) + Granted(f, t)'
      /\ \A n \in 0 .. Len(q) - 1 : Ahead(f, t, n + 1) = Weight(c, t, {"DATA"}) + Ahead(f, t, n)'
  BY HandleOne, Zenon
<1>2. q \in Seq(Cells) /\ q # <<>>
  OBVIOUS
<1>3. /\ p = Tail(q) /\ p \in Seq(Cells) /\ Len(p) = Len(q) - 1
      /\ Len(q) \in Nat \ {0} /\ c = q[1]
  BY <1>2
<1>4. q = cells[f]
  OBVIOUS
<1>5. /\ Data(f, t) \in Nat /\ Granted(f, t) \in Nat
      /\ \A n \in 0 .. Len(q) : Ahead(f, t, n) \in Nat
  BY MeasuresType
<1> HIDE DEF q
<1>6. /\ Data(f, t)' \in Nat /\ Granted(f, t)' \in Nat
      /\ \A n \in 0 .. Len(p) : Ahead(f, t, n)' \in Nat
      /\ \A n : n = 0 => Ahead(f, t, n)' = 0
  <2>1. \A types : /\ \A n \in 0 .. Len(p) : Total(Carried(p, t, types), n) \in Nat
                   /\ Total(Carried(p, t, types), Len(p)) \in Nat
                   /\ Total(Carried(p, t, types), 0) = 0
    <3> HIDE DEF p
    <3> QED
      BY <1>3, CarriedNat
  <2> QED
    BY <2>1, Zenon DEF Data, Granted, Ahead, OnTheWay
<1>7. ASSUME NEW old \in SUBSET (1 .. Len(q)), NEW new, new = Rest(old)
      PROVE  Moved(old, new)
  BY <1>3, <1>7 DEF Moved
<1>8. /\ Opens(f, t) \subseteq 1 .. Len(q) /\ Acks(f, t) \subseteq 1 .. Len(q)
      /\ Closes(f, t) \subseteq 1 .. Len(q) /\ Byes(f, t) \subseteq 1 .. Len(q)
      /\ All(f, t) \subseteq 1 .. Len(q)
  BY <1>4 DEF Opens, Acks, Closes, Byes, All, At
<1>9. /\ Moved(Opens(f, t), Opens(f, t)') /\ Moved(Acks(f, t), Acks(f, t)')
      /\ Moved(Closes(f, t), Closes(f, t)') /\ Moved(Byes(f, t), Byes(f, t)')
      /\ Moved(All(f, t), All(f, t)')
  <2> HIDE DEF Rest
  <2> QED
    BY <1>1, <1>7, <1>8
<1>10. /\ 1 \in Opens(f, t) <=> c.id = t /\ c.type = "OPEN"
       /\ 1 \in Acks(f, t) <=> c.id = t /\ c.type = "ACK"
       /\ 1 \in Closes(f, t) <=> c.id = t /\ c.type = "CLOSE"
       /\ 1 \in Byes(f, t) <=> c.id = t /\ c.type \in {"CLOSE", "RESET"}
       /\ 1 \in All(f, t) <=> c.id = t
  <2>1. 1 \in 1 .. Len(q)
    BY <1>3
  <2> QED
    BY <1>3, <1>4, <2>1 DEF Opens, Acks, Closes, Byes, All, At
<1>11. \A j \in Closes(f, t)' :
          /\ Ahead(f, t, j)' \in Nat
          /\ Ahead(f, t, j + 1) = Weight(c, t, {"DATA"}) + Ahead(f, t, j)'
  <2>1. \A j \in Closes(f, t)' : j \in 0 .. Len(p) /\ j \in 0 .. Len(q) - 1
    BY <1>1, <1>3
  <2> QED
    BY <1>1, <1>6, <2>1
<1>12. Ahead(f, t, 1) = Weight(c, t, {"DATA"})
  <2>1. 0 \in 0 .. Len(q) - 1 /\ 0 + 1 = 1
    BY <1>3
  <2>2. \A n : n = 0 => Ahead(f, t, n + 1) = Weight(c, t, {"DATA"}) + Ahead(f, t, n)'
    BY <1>1, <2>1
  <2>3. \A n : n = 0 => Ahead(f, t, n)' = 0
    BY <1>6
  <2>4. Weight(c, t, {"DATA"}) \in Nat
    <3>1. c \in Cells
      BY <1>2, <1>3
    <3> QED
      BY <3>1, StreamConstants DEF Weight, Cells
  <2>5. PICK n : n = 0
    OBVIOUS
  <2>6. Ahead(f, t, n + 1) = Weight(c, t, {"DATA"}) + Ahead(f, t, n)' /\ Ahead(f, t, n)' = 0
    BY <2>2, <2>3, <2>5
  <2> QED
    BY <2>1, <2>4, <2>5, <2>6
<1> QED
  BY <1>1, <1>4, <1>5, <1>6, <1>9, <1>10, <1>11, <1>12, Zenon DEF Handled

\* The queues stay what they should be.
LEMMA HandledTyped ==
  ASSUME Typed, NEW a \in Ends, cells[Peer(a)] # <<>>,
         cells' = [cells EXCEPT ![Peer(a)] = Tail(@)],
         streams' \in [Ends -> [Ids -> StreamRecords]],
         mux' \in [Ends -> MuxRecords], \A e \in Ends : mux'[e].cause # "Protocol"
  PROVE  LET c == Head(cells[Peer(a)])
         IN  /\ Typed'
             /\ cells'[a] = cells[a] /\ cells'[Peer(a)] = Tail(cells[Peer(a)])
             /\ c \in Cells /\ c.id \in Ids
             /\ c.type \in {"OPEN", "ACK"} => c.count = StreamWindow
             /\ c.type = "DATA" => c.count = 1
             /\ \A t : Handled(Peer(a), t, c)
<1> DEFINE f == Peer(a)
           q == cells[f]
           p == Tail(q)
           c == Head(q)
           Legal(d) == /\ d.type \in {"OPEN", "ACK"} => d.count = StreamWindow
                       /\ d.type = "DATA" => d.count = 1
<1>1. f \in Ends /\ f # a
  BY PeerIs
<1>2. cells \in [Ends -> Seq(Cells)] /\ q \in Seq(Cells) /\ q # <<>> /\ Len(q) <= Capacity
  BY <1>1 DEF Typed
<1>3. /\ \A e \in Ends : cells'[e] = IF e = f THEN p ELSE cells[e]
      /\ cells' = [cells EXCEPT ![f] = p]
  BY <1>2
<1>4. \A e \in Ends : Len(cells[e]) <= Capacity /\ \A i \in 1 .. Len(cells[e]) : Legal(cells[e][i])
  BY DEF Typed
<1>5. \A t : Handled(f, t, c)
  BY <1>1, <1>2, <1>3, HandledIs, Zenon
<1>6. \A i \in 1 .. Len(q) : Legal(q[i])
  BY <1>1, <1>4
<1> HIDE DEF q, Legal
<1>7. /\ p \in Seq(Cells) /\ Len(p) = Len(q) - 1 /\ Len(q) \in Nat \ {0}
      /\ c = q[1] /\ c \in Cells /\ \A i \in 1 .. Len(q) - 1 : p[i] = q[i + 1]
  BY <1>2
<1> HIDE DEF p, c
<1>8. Legal(c) /\ c.id \in Ids
  BY <1>6, <1>7 DEF Cells
<1>9. Len(p) <= Capacity /\ \A i \in 1 .. Len(p) : Legal(p[i])
  BY <1>2, <1>6, <1>7, StreamConstants
<1>10. cells' \in [Ends -> Seq(Cells)]
  BY <1>2, <1>3, <1>7
<1>11. \A e \in Ends : Len(cells'[e]) <= Capacity /\ \A i \in 1 .. Len(cells'[e]) : Legal(cells'[e][i])
  BY <1>3, <1>4, <1>9
<1>12. Typed'
  BY <1>10, <1>11 DEF Typed, Legal
<1> QED
  BY <1>1, <1>3, <1>5, <1>7, <1>8, <1>12 DEF Legal, p, c, q

\* A stream the cell is not for.
LEMMA ShiftedPair ==
  ASSUME IInv, NEW a \in Ends, NEW t \in Ids, NEW c, c.id # t,
         Handled(Peer(a), t, c), cells'[a] = cells[a],
         \A e \in Ends : streams'[e][t] = streams[e][t], Weakened(t)
  PROVE  Pair(t)'
<1> DEFINE f == Peer(a)
<1>0. /\ f \in Ends /\ f # a /\ Peer(f) = a
      /\ "Initiator" \in Ends /\ "Acceptor" \in Ends
      /\ \A e \in Ends : e = a \/ e = f
  BY PeerIs DEF Ends
<1>1. /\ Weight(c, t, {"DATA"}) = 0
      /\ Weight(c, t, {"OPEN", "ACK", "WINDOW_UPDATE"}) = 0
  BY DEF Weight
<1>2. /\ Opens(a, t)' = Opens(a, t) /\ Acks(a, t)' = Acks(a, t)
      /\ Closes(a, t)' = Closes(a, t) /\ Byes(a, t)' = Byes(a, t)
      /\ All(a, t)' = All(a, t)
      /\ Data(a, t)' = Data(a, t) /\ Granted(a, t)' = Granted(a, t)
      /\ \A n : Ahead(a, t, n)' = Ahead(a, t, n)
  BY QueueKept, Zenon
<1>3. /\ Moved(Opens(f, t), Opens(f, t)') /\ Moved(Acks(f, t), Acks(f, t)')
      /\ Moved(Closes(f, t), Closes(f, t)') /\ Moved(Byes(f, t), Byes(f, t)')
      /\ Moved(All(f, t), All(f, t)')
      /\ 1 \notin Opens(f, t) /\ 1 \notin Acks(f, t) /\ 1 \notin All(f, t)
  BY DEF Handled
<1>4. Data(f, t)' = Data(f, t) /\ Granted(f, t)' = Granted(f, t)
  BY <1>1 DEF Handled
<1>5. \A j \in Closes(f, t)' : Ahead(f, t, j)' = Ahead(f, t, j + 1)
  BY <1>1 DEF Handled
<1> HIDE DEF f
<1>6. \A old, new : Moved(old, new) /\ 1 \notin old => (new = {} <=> old = {})
  BY DEF Moved
<1>7. \A e \in Ends :
        /\ Opens(e, t)' = {} <=> Opens(e, t) = {}
        /\ Acks(e, t)' = {} <=> Acks(e, t) = {}
        /\ All(e, t)' = {} <=> All(e, t) = {}
        /\ Data(e, t)' = Data(e, t) /\ Granted(e, t)' = Granted(e, t)
  <2>1. /\ Opens(f, t)' = {} <=> Opens(f, t) = {}
        /\ Acks(f, t)' = {} <=> Acks(f, t) = {}
        /\ All(f, t)' = {} <=> All(f, t) = {}
    BY <1>3, <1>6, Zenon
  <2> QED
    BY <1>0, <1>2, <1>4, <2>1
<1>8. /\ Opened(t) /\ Acknowledged(t)
      /\ \A e \in Ends : Accounts(e, t) /\ Delivered(e, t) /\ Ended(e, t) /\ Sane(e, streams[e][t])
  BY DEF IInv
<1>9. Opened(t)'
  <2>1. \A j \in Opens("Initiator", t)', k \in All("Initiator", t)' : j <= k
    <3>1. \A j \in Opens("Initiator", t), k \in All("Initiator", t) : j <= k
      BY <1>8 DEF Opened
    <3>2. CASE f = "Initiator"
      <4>1. \A j \in Opens("Initiator", t)' : j \in Nat /\ j + 1 \in Opens("Initiator", t)
        BY <1>3, <3>2 DEF Moved
      <4>2. \A j \in All("Initiator", t)' : j \in Nat /\ j + 1 \in All("Initiator", t)
        BY <1>3, <3>2 DEF Moved
      <4> QED
        BY <3>1, <4>1, <4>2
    <3>3. CASE a = "Initiator"
      BY <1>2, <3>1, <3>3
    <3> QED
      BY <1>0, <3>2, <3>3
  <2>2. CannotSend("Initiator") => CannotSend("Initiator")'
    BY <1>0 DEF Weakened
  <2> QED
    BY <1>0, <1>7, <1>8, <2>1, <2>2 DEF Opened
<1>10. Acknowledged(t)'
  <2>1. \A j, k \in Acks("Acceptor", t)' : j = k
    <3>1. \A j, k \in Acks("Acceptor", t) : j = k
      BY <1>8 DEF Acknowledged
    <3>2. CASE f = "Acceptor"
      <4>1. \A j \in Acks("Acceptor", t)' : j \in Nat /\ j + 1 \in Acks("Acceptor", t)
        BY <1>3, <3>2 DEF Moved
      <4> QED
        BY <3>1, <4>1
    <3>3. CASE a = "Acceptor"
      BY <1>2, <3>1, <3>3
    <3> QED
      BY <1>0, <3>2, <3>3
  <2>2. /\ mux'["Initiator"].acking = mux["Initiator"].acking \/ mux'["Initiator"].acking = 0
        /\ mux'["Acceptor"].acking = t => mux["Acceptor"].acking = t
    BY <1>0 DEF Weakened, Ids
  <2> QED
    BY <1>0, <1>7, <1>8, <2>1, <2>2 DEF Acknowledged
<1>11. ASSUME NEW e \in Ends PROVE Accounts(e, t)'
  <2> DEFINE g == Peer(e)
             w == streams[e][t]
             p == streams[g][t]
             b == w.credit + w.chunk + Data(e, t) + p.buffer + p.taken + Granted(g, t)
             ack == IF mux[g].acking = t THEN StreamWindow ELSE 0
             ack2 == IF mux'[g].acking = t THEN StreamWindow ELSE 0
  <2>1. g \in Ends
    BY PeerIs
  <2>2. Window(e, t) = b + ack /\ Window(e, t)' = b + ack2
    BY <1>7, <2>1, Zenon DEF Window
  <2>3. /\ ack \in Nat /\ ack2 \in Nat /\ ack2 <= ack
        /\ ~CannotSend(g)' => ack2 = ack
    BY <2>1, StreamConstants DEF Weakened, Ids
  <2>4. b \in Nat
    <3>1. Counts(w) /\ Counts(p)
      BY <2>1, CountsOf DEF IInv, Typed
    <3>2. Data(e, t) \in Nat /\ Granted(g, t) \in Nat
      BY <2>1, MeasuresType DEF IInv, Typed
    <3> HIDE DEF w, p, g
    <3> QED
      BY <3>1, <3>2 DEF Counts
  <2>5. \A x \in Ends : CannotSend(x) => CannotSend(x)'
    BY DEF Weakened
  <2>6. Accounts(e, t) /\ streams'[g][t] = p
    BY <1>8, <2>1
  <2>7. g = "Initiator" \/ g = "Acceptor"
    BY <2>1 DEF Ends
  <2>8. /\ Window(e, t) <= StreamWindow
        /\ p.registered /\ p.sender # "Opening" /\ Hears(p) /\ ~p.remoteClosed
              /\ ~CannotSend("Initiator") /\ ~CannotSend("Acceptor")
              => Window(e, t) >= StreamWindow
    BY <2>6 DEF Accounts
  <2> HIDE DEF b, ack, ack2
  <2>9. Window(e, t)' <= StreamWindow
    BY <2>2, <2>3, <2>4, <2>8, StreamConstants
  <2>10. ~CannotSend("Initiator")' /\ ~CannotSend("Acceptor")' => Window(e, t)' = Window(e, t)
    BY <2>2, <2>3, <2>7
  <2> QED
    BY <1>0, <2>5, <2>6, <2>8, <2>9, <2>10 DEF Accounts
<1>12. ASSUME NEW e \in Ends PROVE Delivered(e, t)'
  <2>1. Peer(e) \in Ends
    BY PeerIs
  <2> QED
    BY <1>7, <1>8, <2>1 DEF Delivered
<1>13. ASSUME NEW e \in Ends PROVE Ended(e, t)'
  <2> DEFINE w == streams[e][t]
             p == streams[Peer(e)][t]
  <2>1. /\ streams[e][t] = w /\ streams[Peer(e)][t] = p
        /\ streams'[e][t] = w /\ streams'[Peer(e)][t] = p
        /\ p.eof => p.remoteClosed
    BY <1>8, PeerIs DEF Sane
  <2>2. Ended(e, t)
    BY <1>8
  <2> HIDE DEF w, p
  <2>3. CASE e = f
    <3>1. /\ \A j \in Byes(e, t)' : j \in Nat /\ j + 1 \in Byes(e, t)
          /\ \A j \in Closes(e, t)' : j + 1 \in Closes(e, t)
      BY <1>3, <2>3 DEF Moved
    <3>2. \A j \in Closes(e, t)' : Recvd(p) + p.buffer + Ahead(e, t, j)'
                                    = Recvd(p) + p.buffer + Ahead(e, t, j + 1)
      BY <1>5, <2>3
    <3> QED
      BY <2>1, <2>2, <3>1, <3>2, EndedKept
  <2>4. CASE e = a
    <3>1. /\ \A j \in Byes(e, t)' : j \in Nat /\ j + 0 \in Byes(e, t)
          /\ \A j \in Closes(e, t)' : /\ j + 0 \in Closes(e, t)
                                      /\ Ahead(e, t, j)' = Ahead(e, t, j + 0)
      BY <1>2, <2>4, PlacesKept DEF IInv
    <3> QED
      BY <2>1, <2>2, <3>1, EndedKept
  <2> QED
    BY <1>0, <2>3, <2>4
<1> QED
  BY <1>9, <1>10, <1>11, <1>12, <1>13 DEF Pair

\* OPEN arrives at the acceptor, which has not seen it before and has room for it.
LEMMA OpenHandled ==
  ASSUME IInv, NEW a \in Ends, HandleOpen(a), NEW c, c = Head(cells[Peer(a)]),
         NEW s \in Ids, c.id = s, Handled(Peer(a), s, c)
  PROVE  /\ a = "Acceptor" /\ ~streams[a][s].registered
         /\ ~(Cardinality(Registered(a)) >= MaxStreams)
         /\ Opens("Initiator", s)' = {} /\ All("Initiator", s) # {}
<1>1. /\ Opened(s) /\ Acknowledged(s)
      /\ streams["Acceptor"] \in [Ids -> StreamRecords]
  BY DEF IInv, Typed, Ends
<1>2. c.type = "OPEN"
  BY DEF HandleOpen
<1>3. 1 \in Opens(Peer(a), s) /\ 1 \in All(Peer(a), s)
  BY <1>2 DEF Handled
<1>4. a = "Acceptor" /\ Peer(a) = "Initiator"
  BY <1>1, <1>3 DEF Acknowledged, Ends, Peer
<1>5. ~streams[a][s].registered
  BY <1>1, <1>3, <1>4 DEF Opened
<1>6. ~(Cardinality(Registered(a)) >= MaxStreams)
  <2>1. IsFiniteSet(Ids) /\ Cardinality(Ids) = MaxStreams
    BY FS_Interval, StreamConstants DEF Ids
  <2>2. Registered(a) \subseteq Ids \ {s}
    BY <1>5 DEF Registered
  <2>3. IsFiniteSet(Ids \ {s}) /\ Cardinality(Ids \ {s}) = Cardinality(Ids) - 1
    BY <2>1, FS_RemoveElement
  <2>4. Cardinality(Registered(a)) <= Cardinality(Ids \ {s}) /\ Cardinality(Registered(a)) \in Nat
    BY <2>2, <2>3, FS_Subset, FS_CardinalityType
  <2> QED
    BY <2>1, <2>3, <2>4, StreamConstants
<1>7. Opens("Initiator", s)' = {}
  <2>1. \A j \in Opens("Initiator", s) : j <= 1 /\ j \in Nat \ {0}
    BY <1>1, <1>3, <1>4 DEF Opened, Opens, At
  <2>2. \A j \in Opens("Initiator", s)' : j \in Nat \ {0} /\ j + 1 \in Opens("Initiator", s)
    BY <1>4 DEF Handled, Moved
  <2> QED
    BY <2>1, <2>2
<1> QED
  BY <1>3, <1>4, <1>5, <1>6, <1>7

LEMMA HandleOpenStep ==
  ASSUME IInv, NEW a \in Ends, HandleOpen(a)
  PROVE  IInv'
<1> DEFINE f == Peer(a)
<1>0. PICK c : c = Head(cells[f])
  OBVIOUS
<1>1. PICK s : s = c.id
  OBVIOUS
<1> DEFINE r == streams[a][s]
           i == streams[f][s]
           q == [Unregistered EXCEPT !.registered = TRUE, !.open = TRUE, !.credit = c.count]
<1>2. /\ mux[a].reading /\ mux[a].acking = 0 /\ cells[f] # <<>>
      /\ c.type = "OPEN" /\ cells' = [cells EXCEPT ![f] = Tail(@)]
  BY <1>0 DEF HandleOpen, Receivable
<1>3. mux \in [Ends -> MuxRecords] /\ streams \in [Ends -> [Ids -> StreamRecords]]
      /\ cells \in [Ends -> Seq(Cells)] /\ Typed
  BY DEF IInv, Typed
<1>4. c \in Cells /\ s \in Ids /\ c.count = StreamWindow /\ \A t : Handled(f, t, c)
  <2>1. f \in Ends /\ f # a
    BY PeerIs
  <2>2. c \in Cells
    BY <1>0, <1>2, <1>3, <2>1
  <2>3. cells'[f] = Tail(cells[f])
    BY <1>2, <1>3, <2>1
  <2>4. \A t : Handled(f, t, c)
    BY <1>0, <1>2, <1>3, <2>1, <2>3, HandledIs, Zenon
  <2>5. cells[f] \in Seq(Cells) /\ 1 \in 1 .. Len(cells[f]) /\ c = cells[f][1]
    BY <1>0, <1>2, <1>3, <2>1
  <2>6. c.count = StreamWindow
    BY <1>2, <1>3, <2>1, <2>5 DEF Typed
  <2> QED
    BY <1>1, <2>2, <2>4, <2>6 DEF Cells
<1>5. /\ a = "Acceptor" /\ ~r.registered
      /\ streams' = [streams EXCEPT ![a][s] = q]
      /\ mux' = [mux EXCEPT ![a].acking = s]
      /\ Opens("Initiator", s)' = {} /\ All("Initiator", s) # {}
  <2>1. c = Head(cells[Peer(a)]) /\ s \in Ids /\ c.id = s /\ Handled(Peer(a), s, c)
    BY <1>0, <1>1, <1>4, Zenon
  <2>2. /\ a = "Acceptor" /\ ~r.registered
        /\ ~(Cardinality(Registered(a)) >= MaxStreams)
        /\ Opens("Initiator", s)' = {} /\ All("Initiator", s) # {}
    BY <2>1, OpenHandled
  <2>3. /\ streams' = [streams EXCEPT ![a][s] = q]
        /\ mux' = [mux EXCEPT ![a].acking = s]
    BY <2>1, <2>2 DEF HandleOpen
  <2> QED
    BY <2>2, <2>3
<1>6. /\ f = "Initiator" /\ f \in Ends /\ f # a /\ Peer(f) = a
      /\ \A e \in Ends : e = a \/ e = f
  BY <1>5 DEF Peer, Ends
<1>7. /\ Opened(s) /\ Acknowledged(s) /\ mux[f].acking = 0
      /\ \A e \in Ends : Accounts(e, s) /\ Delivered(e, s) /\ Ended(e, s)
      /\ Sane(a, r) /\ Sane(f, i)
  BY <1>4, <1>6 DEF IInv, Acknowledged
<1>8. r = Unregistered
  BY <1>5, <1>7 DEF Sane
<1>9. /\ r.credit = 0 /\ r.chunk = 0 /\ r.buffer = 0 /\ r.taken = 0 /\ ~r.localClosed
      /\ ~r.remoteClosed /\ r.error = "None" /\ r.farewell = "None" /\ r.sent = 0
      /\ r.sender = "None" /\ r.receiver = "None" /\ ~r.eof /\ Recvd(r) = 0 /\ r.final = 0
  BY <1>8 DEF Unregistered, Recvd
<1>10. q \in StreamRecords
  <2>1. Unregistered \in StreamRecords /\ StreamWindow \in 0 .. StreamWindow
    BY <1>7, <1>8, StreamConstants DEF Sane
  <2> QED
    BY <1>4, <2>1, ZenonT(60) DEF StreamRecords
<1>11. /\ q.registered /\ q.open /\ q.credit = StreamWindow
       /\ q.chunk = 0 /\ q.buffer = 0 /\ q.taken = 0 /\ ~q.localClosed
       /\ ~q.remoteClosed /\ q.error = "None" /\ q.farewell = "None" /\ q.sent = 0
       /\ q.sender = "None" /\ q.receiver = "None" /\ ~q.eof /\ Recvd(q) = 0 /\ q.final = 0
  BY <1>4 DEF Unregistered, Recvd
<1>12. Sane(a, q) /\ Wakeful(q)
  <2> HIDE DEF q
  <2> QED
    BY <1>5, <1>10, <1>11, StreamConstants DEF Sane, Wakeful
<1>13. Changed(a, s, q)
  BY <1>3, <1>4, <1>5, <1>10, ChangedIs
<1> HIDE DEF q
<1>14. /\ mux' \in [Ends -> MuxRecords]
       /\ \A e \in Ends :
            /\ mux'[e].cause = mux[e].cause /\ mux'[e].closed = mux[e].closed
            /\ mux'[e].broken = mux[e].broken /\ mux'[e].reading = mux[e].reading
            /\ mux'[e].toFail = mux[e].toFail /\ mux'[e].used = mux[e].used
       /\ mux'[a].acking = s /\ mux'[f].acking = 0
  <2>1. s \in 0 .. MaxStreams
    BY <1>4, StreamConstants DEF Ids
  <2>2. mux' \in [Ends -> MuxRecords]
    BY <1>3, <1>5, <2>1, ZenonT(60) DEF MuxRecords
  <2> QED
    BY <1>3, <1>5, <1>6, <1>7, <2>2 DEF MuxRecords
<1>15. /\ Typed' /\ cells'[a] = cells[a]
  <2>1. \A e \in Ends : mux'[e].cause # "Protocol"
    BY <1>3, <1>14 DEF Typed
  <2>2. streams' \in [Ends -> [Ids -> StreamRecords]]
    BY <1>13 DEF Changed
  <2> QED
    BY <1>2, <1>3, <1>14, <2>1, <2>2, HandledTyped
<1>16. \A e \in Ends : /\ CannotSend(e)' <=> CannotSend(e)
                       /\ Failed(e)' <=> Failed(e)
  BY <1>14 DEF CannotSend, Failed
<1>17. /\ Opens(a, s)' = Opens(a, s) /\ Acks(a, s)' = Acks(a, s)
       /\ Closes(a, s)' = Closes(a, s) /\ Byes(a, s)' = Byes(a, s)
       /\ All(a, s)' = All(a, s)
       /\ Data(a, s)' = Data(a, s) /\ Granted(a, s)' = Granted(a, s)
       /\ \A n : Ahead(a, s, n)' = Ahead(a, s, n)
  BY <1>15, QueueKept, Zenon
<1>18. /\ i.registered /\ i.sender # "Opening" /\ ~i.open
       /\ i.credit = 0 /\ i.chunk = 0 /\ i.buffer = 0 /\ i.taken = 0
       /\ Data(f, s) = 0 /\ Data(a, s) = 0 /\ Granted(a, s) = 0 /\ All(a, s) = {}
  BY <1>5, <1>6, <1>7 DEF Opened
<1>19. /\ Handled(f, s, c) /\ Weight(c, s, {"DATA"}) = 0
       /\ Weight(c, s, {"OPEN", "ACK", "WINDOW_UPDATE"}) = StreamWindow
  BY <1>1, <1>2, <1>4 DEF Weight
<1>20. /\ Data(f, s)' = 0 /\ Granted(f, s) = StreamWindow + Granted(f, s)'
       /\ Granted(f, s)' \in Nat
       /\ Acks(f, s)' = {} /\ Acks(a, s) = {} /\ Opens(a, s) = {}
  <2>1. Data(f, s)' \in Nat /\ Data(f, s) = 0 + Data(f, s)'
        /\ Granted(f, s) = StreamWindow + Granted(f, s)' /\ Granted(f, s)' \in Nat
    BY <1>19 DEF Handled
  <2>2. Acks(f, s)' = {}
    BY <1>6, <1>7, <1>19 DEF Handled, Moved, Acknowledged
  <2>3. Acks(a, s) \subseteq All(a, s) /\ Opens(a, s) \subseteq All(a, s)
    BY DEF Acks, Opens, At, All
  <2> QED
    BY <1>18, <2>1, <2>2, <2>3
<1>21. streams'[a][s] = q /\ streams'[f][s] = i
  BY <1>4, <1>6, <1>13 DEF Changed
<1> HIDE DEF i, r
<1>22. Opened(s)'
  BY <1>5, <1>6, <1>11, <1>18, <1>21 DEF Opened, i
<1>23. Acknowledged(s)'
  BY <1>5, <1>6, <1>11, <1>14, <1>17, <1>18, <1>20, <1>21 DEF Acknowledged
<1>24. Accounts(f, s)'
  <2>1. Window(f, s)' = i.credit + i.chunk + Data(f, s)' + q.buffer + q.taken + Granted(a, s)' + StreamWindow
    BY <1>6, <1>14, <1>21 DEF Window
  <2>2. Window(f, s)' = StreamWindow
    BY <1>11, <1>17, <1>18, <1>20, <2>1, StreamConstants
  <2> QED
    BY <2>2, StreamConstants DEF Accounts
<1>25. Accounts(a, s)'
  <2>1. mux'[f].acking # s /\ mux[f].acking # s
    BY <1>4, <1>7, <1>14 DEF Ids
  <2>2. /\ Window(a, s) = r.credit + r.chunk + Data(a, s) + i.buffer + i.taken + Granted(f, s) + 0
        /\ Window(a, s)' = q.credit + q.chunk + Data(a, s)' + i.buffer + i.taken + Granted(f, s)' + 0
    BY <1>6, <1>21, <2>1 DEF Window, r, i
  <2>3. Window(a, s)' = Window(a, s)
    BY <1>9, <1>11, <1>17, <1>18, <1>20, <2>2, StreamConstants
  <2> QED
    BY <1>4, <1>6, <1>7, <1>16, <1>21, <2>3, AccountsKept DEF i
<1>26. Delivered(f, s)' /\ Delivered(a, s)'
  BY <1>6, <1>7, <1>9, <1>11, <1>17, <1>18, <1>20, <1>21 DEF Delivered, Hears, r, i
<1>27. Ended(f, s)'
  <2>1. /\ \A j \in Byes(f, s)' : j \in Nat /\ j + 1 \in Byes(f, s)
        /\ \A j \in Closes(f, s)' : j + 1 \in Closes(f, s)
    BY <1>19 DEF Handled, Moved
  <2>2. \A j \in Closes(f, s)' : Recvd(q) + q.buffer + Ahead(f, s, j)'
                                    = Recvd(r) + r.buffer + Ahead(f, s, j + 1)
    <3>1. \A j \in Closes(f, s)' : Ahead(f, s, j)' = Ahead(f, s, j + 1)
      BY <1>19 DEF Handled
    <3> QED
      BY <1>9, <1>11, <3>1
  <2>3. /\ streams[f][s] = i /\ streams[Peer(f)][s] = r
        /\ streams'[f][s] = i /\ streams'[Peer(f)][s] = q
    BY <1>6, <1>21 DEF i, r
  <2>4. Hears(r)
    BY <1>9 DEF Hears
  <2> QED
    BY <1>4, <1>6, <1>7, <1>11, <2>1, <2>2, <2>3, <2>4, EndedKept
<1>28. Ended(a, s)'
  <2>1. /\ \A j \in Byes(a, s)' : j \in Nat /\ j + 0 \in Byes(a, s)
        /\ \A j \in Closes(a, s)' : /\ j + 0 \in Closes(a, s)
                                    /\ Ahead(a, s, j)' = Ahead(a, s, j + 0)
    BY <1>4, <1>17, PlacesKept DEF IInv
  <2>2. /\ streams[a][s] = r /\ streams[Peer(a)][s] = i
        /\ streams'[a][s] = q /\ streams'[Peer(a)][s] = i
    BY <1>6, <1>21 DEF i, r
  <2>3. i.eof => i.remoteClosed
    BY <1>7 DEF Sane
  <2> QED
    BY <1>4, <1>7, <1>9, <2>1, <2>2, <2>3, EndedKept
<1>29. Pair(s)'
  BY <1>6, <1>22, <1>23, <1>24, <1>25, <1>26, <1>27, <1>28 DEF Pair
<1>30. ASSUME NEW t \in Ids PROVE Pair(t)'
  <2>1. CASE t = s
    BY <1>29, <2>1
  <2>2. CASE t # s
    <3>1. Weakened(t)
      <4>1. \A e \in Ends : mux'[e].acking = t <=> mux[e].acking = t
        BY <1>2, <1>6, <1>7, <1>14, <2>2 DEF Ids
      <4> QED
        BY <1>6, <1>7, <1>14, <1>16, <4>1 DEF Weakened
    <3>2. \A e \in Ends : streams'[e][t] = streams[e][t]
      BY <1>13, <2>2 DEF Changed
    <3> QED
      BY <1>1, <1>4, <1>15, <2>2, <3>1, <3>2, ShiftedPair
  <2> QED
    BY <2>1, <2>2
<1>31. \A e \in Ends : Budgeted(e)'
  <2>1. mux[a].used \in Nat
    BY <1>3, StreamConstants DEF MuxRecords
  <2>2. Held(q) = 0 /\ Held(r) = 0
    BY <1>9, <1>11 DEF Held
  <2>3. mux'[a].used = (mux[a].used + Held(q)) - Held(r)
    BY <1>14, <2>1, <2>2
  <2>4. \A e \in Ends \ {a} : mux'[e].used = mux[e].used
    BY <1>14
  <2> QED
    BY <1>4, <1>10, <1>13, <2>3, <2>4, BudgetKept DEF IInv, r
<1>32. ASSUME NEW e \in Ends, NEW t \in Ids PROVE Failing(e, t)'
  <2>1. streams'[e][t] = IF e = a /\ t = s THEN q ELSE streams[e][t]
    BY <1>13 DEF Changed
  <2>2. Failing(e, t)
    BY DEF IInv
  <2>3. CASE e = a /\ t = s
    BY <1>11, <1>14, <2>1, <2>3 DEF Failing
  <2>4. CASE e = a /\ t # s
    <3>1. mux[a].acking # t
      BY <1>2 DEF Ids
    <3> QED
      BY <1>14, <1>16, <2>1, <2>2, <2>4, <3>1 DEF Failing
  <2>5. CASE e = f
    BY <1>6, <1>7, <1>14, <1>16, <2>1, <2>2, <2>5 DEF Failing
  <2> QED
    BY <1>6, <2>3, <2>4, <2>5
<1> QED
  BY <1>4, <1>12, <1>13, <1>15, <1>30, <1>31, <1>32, Assembled

\* What a cell leaves alone in the record of its stream.
Kept(r, q) ==
    /\ q.registered /\ q.farewell = r.farewell /\ q.localClosed = r.localClosed
    /\ q.chunk = r.chunk /\ q.taken = r.taken /\ q.sent = r.sent
    /\ Recvd(q) = Recvd(r) /\ q.final = r.final /\ q.eof = r.eof

\* What a cell of one of these types is worth.
Worth(c, types) == IF c.type \in types THEN c.count ELSE 0

\* Record r of end e becomes q, which is no bad record, by a method that wakes
\* everybody or changes nothing.
Stirred(e, r, q) ==
    /\ Sane(e, q) /\ Wakeful(q) /\ Kept(r, q) /\ q.sender # "Opening"
    /\ SameTaken(r, q) /\ \A failed : Dozes(r, q, failed)

\* Record r of end e becomes q by cell c.
Heard(e, r, q, c, used) ==
    /\ Stirred(e, r, q)
    /\ Hears(q) => Hears(r) /\ c.type # "RESET"
    /\ q.credit = r.credit + Worth(c, {"ACK", "WINDOW_UPDATE"})
    /\ q.buffer <= r.buffer \/ (q.buffer = r.buffer + 1 /\ used < Budget)
    /\ q.buffer <= r.buffer + Worth(c, {"DATA"})
    /\ Hears(q) /\ ~r.remoteClosed => q.buffer = r.buffer + Worth(c, {"DATA"})
    /\ Hears(q) /\ r.remoteClosed => q.buffer = r.buffer
    /\ q.remoteClosed <=> r.remoteClosed \/ c.type \in {"CLOSE", "RESET"}
    /\ q.open <=> r.open \/ c.type = "ACK"

LEMMA NotifiedHeard ==
  ASSUME NEW e \in Ends, NEW r, Sane(e, r), r.registered, r.sender # "Opening",
         NEW m \in StreamRecords, Kept(r, m), m.sender = r.sender, m.receiver = r.receiver,
         r.open => m.open, r.error # "None" => m.error # "None",
         m.error \notin {"OpenAck", "Window", "Credit"},
         m.localClosed \/ m.error # "None" => m.buffer = 0,
         m.eof => m.remoteClosed /\ m.buffer = 0
  PROVE  /\ Stirred(e, r, Notified(m))
         /\ Notified(m).open = m.open /\ Notified(m).credit = m.credit
         /\ Notified(m).buffer = m.buffer /\ Notified(m).remoteClosed = m.remoteClosed
         /\ Notified(m).localClosed = m.localClosed /\ Notified(m).error = m.error
<1> DEFINE q == Notified(m)
<1>1. Woken(m, q)
  BY NotifiedIs
<1> HIDE DEF q
<1>2. Wakeful(q)
  BY <1>1, WokenWakeful
<1>3. Kept(r, q) /\ q.sender # "Opening" /\ SameTaken(r, q)
  BY <1>1, SMTT(30) DEF Woken, Kept, SameTaken
<1>4. \A failed : Dozes(r, q, failed)
  BY <1>1 DEF Woken, Dozes
<1>5. Sane(e, q)
  BY <1>1, SMTT(30) DEF Woken, Sane, Kept
<1> QED
  BY <1>1, <1>2, <1>3, <1>4, <1>5 DEF Woken, Stirred, q

LEMMA AckHeard ==
  ASSUME NEW e \in Ends, NEW r, Sane(e, r), r.registered, r.sender # "Opening",
         NEW c \in Cells, c.type = "ACK", ~r.open, r.credit = 0, NEW used
  PROVE  Heard(e, r, Dispatch(r, c, used), c, used)
<1> DEFINE m == [r EXCEPT !.open = TRUE, !.credit = c.count]
           q == Notified(m)
<1>1. r \in StreamRecords /\ Counts(r) /\ c.count \in 0 .. StreamWindow
  BY CountsOf DEF Sane, Cells
<1>2. Dispatch(r, c, used) = q
  BY DEF Dispatch, MarkOpen
<1>3. m \in StreamRecords
  BY <1>1, ZenonT(60) DEF StreamRecords
<1>4. /\ Kept(r, m) /\ m.sender = r.sender /\ m.receiver = r.receiver
      /\ m.open /\ m.credit = c.count /\ m.buffer = r.buffer
      /\ m.remoteClosed = r.remoteClosed /\ m.error = r.error
  BY <1>1 DEF StreamRecords, Kept, Recvd
<1> HIDE DEF m
<1>5. /\ m.localClosed \/ m.error # "None" => m.buffer = 0
      /\ m.eof => m.remoteClosed /\ m.buffer = 0
      /\ m.error \notin {"OpenAck", "Window", "Credit"}
  BY <1>4 DEF Sane, Kept
<1>6. /\ Stirred(e, r, q)
      /\ q.open = m.open /\ q.credit = m.credit
      /\ q.buffer = m.buffer /\ q.remoteClosed = m.remoteClosed
      /\ q.localClosed = m.localClosed /\ q.error = m.error
  BY <1>3, <1>4, <1>5, NotifiedHeard
<1> HIDE DEF q
<1>7. Worth(c, {"ACK", "WINDOW_UPDATE"}) = c.count /\ Worth(c, {"DATA"}) = 0
  BY DEF Worth
<1>8. q.credit = r.credit + c.count /\ q.buffer = r.buffer + 0 /\ q.buffer <= r.buffer
  BY <1>1, <1>4, <1>6 DEF Counts
<1>9. /\ q.open /\ (q.remoteClosed <=> r.remoteClosed)
      /\ Hears(q) => Hears(r)
  BY <1>4, <1>6 DEF Hears, Kept
<1> QED
  BY <1>1, <1>2, <1>6, <1>7, <1>8, <1>9 DEF Heard, Counts

LEMMA CreditHeard ==
  ASSUME NEW e \in Ends, NEW r, Sane(e, r), r.registered, r.sender # "Opening",
         NEW c \in Cells, c.type = "WINDOW_UPDATE", r.credit + c.count <= StreamWindow, NEW used
  PROVE  Heard(e, r, Dispatch(r, c, used), c, used)
<1> DEFINE m == [r EXCEPT !.credit = r.credit + c.count]
           q == Notified(m)
<1>1. r \in StreamRecords /\ Counts(r) /\ c.count \in Nat
  BY CountsOf, StreamConstants DEF Sane, Cells
<1>2. Dispatch(r, c, used) = q
  <2>1. ~(r.credit + c.count > StreamWindow)
    BY <1>1, StreamConstants DEF Counts
  <2> QED
    BY <2>1 DEF Dispatch, AddCredit
<1>3. m \in StreamRecords
  <2>1. r.credit + c.count \in 0 .. StreamWindow
    BY <1>1, StreamConstants DEF Counts
  <2> QED
    BY <1>1, <2>1, ZenonT(60) DEF StreamRecords
<1>4. /\ Kept(r, m) /\ m.sender = r.sender /\ m.receiver = r.receiver
      /\ m.open = r.open /\ m.credit = r.credit + c.count /\ m.buffer = r.buffer
      /\ m.remoteClosed = r.remoteClosed /\ m.error = r.error
  BY <1>1 DEF StreamRecords, Kept, Recvd
<1> HIDE DEF m
<1>5. /\ m.localClosed \/ m.error # "None" => m.buffer = 0
      /\ m.eof => m.remoteClosed /\ m.buffer = 0
      /\ m.error \notin {"OpenAck", "Window", "Credit"}
  BY <1>4 DEF Sane, Kept
<1>6. /\ Stirred(e, r, q)
      /\ q.open = m.open /\ q.credit = m.credit
      /\ q.buffer = m.buffer /\ q.remoteClosed = m.remoteClosed
      /\ q.localClosed = m.localClosed /\ q.error = m.error
  BY <1>3, <1>4, <1>5, NotifiedHeard
<1> HIDE DEF q
<1>7. Worth(c, {"ACK", "WINDOW_UPDATE"}) = c.count /\ Worth(c, {"DATA"}) = 0
  BY DEF Worth
<1>8. q.credit = r.credit + c.count /\ q.buffer = r.buffer + 0 /\ q.buffer <= r.buffer
  BY <1>1, <1>4, <1>6 DEF Counts
<1>9. /\ q.open <=> r.open
      /\ q.remoteClosed <=> r.remoteClosed
      /\ Hears(q) => Hears(r)
  BY <1>4, <1>6 DEF Hears, Kept
<1> QED
  BY <1>1, <1>2, <1>6, <1>7, <1>8, <1>9 DEF Heard, Counts

LEMMA ByeHeard ==
  ASSUME NEW e \in Ends, NEW r, Sane(e, r), r.registered, r.sender # "Opening",
         NEW c \in Cells, c.type \in {"CLOSE", "RESET"}, NEW used
  PROVE  Heard(e, r, Dispatch(r, c, used), c, used)
<1> DEFINE x == IF c.type = "CLOSE" THEN r.error ELSE "RemoteReset"
           b == IF c.type = "CLOSE" THEN r.buffer ELSE 0
           close == [r EXCEPT !.remoteClosed = TRUE]
           reset == [r EXCEPT !.remoteClosed = TRUE, !.error = "RemoteReset", !.buffer = 0]
           m == IF c.type = "CLOSE" THEN close ELSE reset
           q == Notified(m)
<1>1. r \in StreamRecords /\ Counts(r)
  BY CountsOf DEF Sane
<1>2. Dispatch(r, c, used) = q
  BY DEF Dispatch, RemoteClose, RemoteReset
<1>3. m \in StreamRecords
  <2>1. 0 \in 0 .. StreamWindow /\ "RemoteReset" \in Errors
    BY StreamConstants DEF Errors
  <2>2. close \in StreamRecords
    BY <1>1, ZenonT(60) DEF StreamRecords
  <2>3. reset \in StreamRecords
    BY <1>1, <2>1, ZenonT(60) DEF StreamRecords
  <2> QED
    BY <2>2, <2>3
<1>4. /\ Kept(r, m) /\ m.sender = r.sender /\ m.receiver = r.receiver
      /\ m.open = r.open /\ m.credit = r.credit /\ m.buffer = b
      /\ m.remoteClosed /\ m.error = x
  <2>1. CASE c.type = "CLOSE"
    <3>1. m = close
      BY <2>1
    <3> HIDE DEF m
    <3> QED
      BY <1>1, <2>1, <3>1, SMTT(30) DEF StreamRecords, Kept, Recvd
  <2>2. CASE c.type = "RESET"
    <3>1. m = reset
      BY <2>2
    <3> HIDE DEF m
    <3> QED
      BY <1>1, <2>2, <3>1, SMTT(30) DEF StreamRecords, Kept, Recvd
  <2> QED
    BY <2>1, <2>2
<1> HIDE DEF m
<1>5. /\ m.localClosed \/ m.error # "None" => m.buffer = 0
      /\ m.eof => m.remoteClosed /\ m.buffer = 0
      /\ m.error \notin {"OpenAck", "Window", "Credit"}
      /\ r.error # "None" => m.error # "None"
  BY <1>4 DEF Sane, Kept
<1>6. /\ Stirred(e, r, q)
      /\ q.open = m.open /\ q.credit = m.credit
      /\ q.buffer = m.buffer /\ q.remoteClosed = m.remoteClosed
      /\ q.localClosed = m.localClosed /\ q.error = m.error
  BY <1>3, <1>4, <1>5, NotifiedHeard
<1> HIDE DEF q
<1>7. Worth(c, {"ACK", "WINDOW_UPDATE"}) = 0 /\ Worth(c, {"DATA"}) = 0
  BY DEF Worth
<1>8. /\ q.credit = r.credit + 0 /\ q.buffer <= r.buffer /\ q.buffer <= r.buffer + 0
      /\ c.type = "CLOSE" => q.buffer = r.buffer /\ q.buffer = r.buffer + 0
  BY <1>1, <1>4, <1>6 DEF Counts
<1>9. /\ q.open <=> r.open
      /\ q.remoteClosed
      /\ Hears(q) => Hears(r) /\ c.type = "CLOSE"
  BY <1>4, <1>6 DEF Hears, Kept
<1> QED
  BY <1>1, <1>2, <1>6, <1>7, <1>8, <1>9 DEF Heard, Counts

LEMMA DataHeard ==
  ASSUME NEW e \in Ends, NEW r, Sane(e, r), Wakeful(r), r.registered, r.sender # "Opening",
         NEW c \in Cells, c.type = "DATA", c.count = 1, r.buffer < StreamWindow,
         NEW used \in 0 .. Budget
  PROVE  Heard(e, r, Dispatch(r, c, used), c, used)
<1> DEFINE d == Dispatch(r, c, used)
<1>1. r \in StreamRecords /\ Counts(r) /\ used \in Nat /\ used <= Budget
  BY CountsOf, StreamConstants DEF Sane
<1>2. Worth(c, {"ACK", "WINDOW_UPDATE"}) = 0 /\ Worth(c, {"DATA"}) = 1
  BY DEF Worth
<1>3. d = Feed(r, used)
  BY DEF Dispatch
<1>4. CASE r.localClosed \/ r.remoteClosed \/ r.error # "None"
  <2>1. d = r
    BY <1>3, <1>4 DEF Feed
  <2>2. Stirred(e, r, r)
    BY DEF Stirred, Kept, SameTaken, Dozes
  <2>3. r.credit = r.credit + 0 /\ r.buffer <= r.buffer /\ r.buffer <= r.buffer + 1
    BY <1>1 DEF Counts
  <2>4. Heard(e, r, r, c, used)
    BY <1>2, <1>4, <2>2, <2>3 DEF Heard, Hears
  <2> QED
    BY <2>1, <2>4
<1>5. CASE ~(r.localClosed \/ r.remoteClosed \/ r.error # "None") /\ used = Budget
  <2> DEFINE m == [r EXCEPT !.error = IF r.error = "None" THEN "Budget" ELSE r.error, !.buffer = 0]
             q == Notified(m)
  <2>1. d = q
    <3>1. r.buffer # StreamWindow
      BY <1>1, StreamConstants DEF Counts
    <3> QED
      BY <1>3, <1>5, <3>1 DEF Feed, FailedRecord
  <2>2. m \in StreamRecords
    <3>1. 0 \in 0 .. StreamWindow /\ (IF r.error = "None" THEN "Budget" ELSE r.error) \in Errors
      BY <1>1, StreamConstants DEF Errors, StreamRecords
    <3> QED
      BY <1>1, <3>1, ZenonT(60) DEF StreamRecords
  <2>3. /\ Kept(r, m) /\ m.sender = r.sender /\ m.receiver = r.receiver
        /\ m.open = r.open /\ m.credit = r.credit /\ m.buffer = 0
        /\ m.remoteClosed = r.remoteClosed /\ m.error = "Budget"
    BY <1>1, <1>5, SMTT(30) DEF StreamRecords, Kept, Recvd
  <2> HIDE DEF m
  <2>4. ~m.eof
    BY <1>5, <2>3 DEF Kept, Sane
  <2>5. /\ Stirred(e, r, q)
        /\ q.open = m.open /\ q.credit = m.credit
        /\ q.buffer = m.buffer /\ q.remoteClosed = m.remoteClosed
        /\ q.localClosed = m.localClosed /\ q.error = m.error
    BY <2>2, <2>3, <2>4, NotifiedHeard
  <2> HIDE DEF q
  <2>6. q.credit = r.credit + 0 /\ q.buffer <= r.buffer /\ q.buffer <= r.buffer + 1
    BY <1>1, <2>3, <2>5 DEF Counts
  <2>7. /\ q.open <=> r.open
        /\ q.remoteClosed <=> r.remoteClosed
        /\ ~Hears(q)
    BY <2>3, <2>5 DEF Hears
  <2>8. Heard(e, r, q, c, used)
    BY <1>2, <2>5, <2>6, <2>7 DEF Heard
  <2> QED
    BY <2>1, <2>8
<1>6. CASE ~(r.localClosed \/ r.remoteClosed \/ r.error # "None") /\ used # Budget
  <2> DEFINE m == [r EXCEPT !.buffer = r.buffer + 1]
             q == Notified(m)
  <2>1. d = q
    <3>1. r.buffer # StreamWindow
      BY <1>1, StreamConstants DEF Counts
    <3> QED
      BY <1>3, <1>6, <3>1 DEF Feed
  <2>2. m \in StreamRecords
    <3>1. r.buffer + 1 \in 0 .. StreamWindow
      BY <1>1, StreamConstants DEF Counts
    <3> QED
      BY <1>1, <3>1, ZenonT(60) DEF StreamRecords
  <2>3. /\ Kept(r, m) /\ m.sender = r.sender /\ m.receiver = r.receiver
        /\ m.open = r.open /\ m.credit = r.credit /\ m.buffer = r.buffer + 1
        /\ m.remoteClosed = r.remoteClosed /\ m.error = r.error
    BY <1>1, SMTT(30) DEF StreamRecords, Kept, Recvd
  <2> HIDE DEF m
  <2>4. ~m.eof /\ ~m.localClosed /\ m.error = "None"
    BY <1>6, <2>3 DEF Kept, Sane
  <2>5. /\ Stirred(e, r, q)
        /\ q.open = m.open /\ q.credit = m.credit
        /\ q.buffer = m.buffer /\ q.remoteClosed = m.remoteClosed
        /\ q.localClosed = m.localClosed /\ q.error = m.error
    BY <1>6, <2>2, <2>3, <2>4, NotifiedHeard
  <2> HIDE DEF q
  <2>6. /\ q.credit = r.credit + 0 /\ q.buffer = r.buffer + 1 /\ q.buffer <= r.buffer + 1
        /\ used < Budget
    BY <1>1, <1>6, <2>3, <2>5, StreamConstants DEF Counts
  <2>7. /\ q.open <=> r.open
        /\ q.remoteClosed <=> r.remoteClosed
        /\ Hears(q) => Hears(r)
    BY <1>6, <2>3, <2>5 DEF Hears
  <2>8. Heard(e, r, q, c, used)
    BY <1>2, <1>6, <2>5, <2>6, <2>7 DEF Heard
  <2> QED
    BY <2>1, <2>8
<1> QED
  BY <1>4, <1>5, <1>6

\* The stream of a cell other than OPEN is known to both ends.
LEMMA HeadKnown ==
  ASSUME IInv, NEW a \in Ends, NEW s \in Ids, NEW c, c.id = s, c.type # "OPEN",
         Handled(Peer(a), s, c)
  PROVE  /\ streams["Initiator"][s].registered /\ streams["Acceptor"][s].registered
         /\ streams["Initiator"][s].sender # "Opening" /\ Opens("Initiator", s) = {}
         /\ \A e \in Ends : streams[e][s].registered /\ streams[e][s].sender # "Opening"
<1> DEFINE f == Peer(a)
           i == streams["Initiator"][s]
           k == streams["Acceptor"][s]
<1>1. 1 \in All(f, s) /\ 1 \notin Opens(f, s)
  BY DEF Handled
<1>2. f = "Initiator" \/ f = "Acceptor"
  BY DEF Peer
<1>3. /\ k.registered => Opens("Initiator", s) = {}
      /\ k.registered \/ All("Initiator", s) # {} => i.registered /\ i.sender # "Opening"
      /\ All("Initiator", s) # {} => k.registered \/ Opens("Initiator", s) # {}
      /\ \A j \in Opens("Initiator", s), l \in All("Initiator", s) : j <= l
      /\ ~k.registered => All("Acceptor", s) = {}
  BY DEF IInv, Opened
<1>4. \A j \in Opens("Initiator", s) : j \in Nat \ {0}
  BY DEF Opens, At
<1> HIDE DEF f, i, k
<1>5. k.registered
  <2>1. CASE f = "Initiator"
    BY <1>1, <1>3, <1>4, <2>1
  <2>2. CASE f = "Acceptor"
    BY <1>1, <1>3, <2>2
  <2> QED
    BY <1>2, <2>1, <2>2
<1>6. i.registered /\ i.sender # "Opening" /\ Opens("Initiator", s) = {}
  BY <1>3, <1>5
<1>7. k.sender # "Opening"
  <2>1. Sane("Acceptor", k)
    BY DEF IInv, Ends, k
  <2> QED
    BY <2>1 DEF Sane
<1> QED
  BY <1>5, <1>6, <1>7 DEF i, k, Ends

\* The peer keeps the rules: the cell at the head of its queue may be dispatched.
LEMMA DispatchHeard ==
  ASSUME IInv, NEW a \in Ends, NEW s \in Ids, NEW c \in Cells, c.id = s, c.type # "OPEN",
         c.type = "ACK" => c.count = StreamWindow, c.type = "DATA" => c.count = 1,
         Handled(Peer(a), s, c)
  PROVE  Heard(a, streams[a][s], Dispatch(streams[a][s], c, mux[a].used), c, mux[a].used)
<1> DEFINE f == Peer(a)
           r == streams[a][s]
           p == streams[f][s]
           used == mux[a].used
           x == IF mux[f].acking = s THEN StreamWindow ELSE 0
           y == IF mux[a].acking = s THEN StreamWindow ELSE 0
<1>1. /\ f \in Ends /\ f # a /\ Peer(f) = a
      /\ f = "Initiator" \/ f = "Acceptor"
      /\ a = "Initiator" \/ a = "Acceptor"
  BY PeerIs DEF Ends
<1>2. r.registered /\ r.sender # "Opening"
  BY HeadKnown
<1>3. /\ Sane(a, r) /\ Wakeful(r) /\ Acknowledged(s) /\ Accounts(a, s) /\ Accounts(f, s)
      /\ r \in StreamRecords /\ Counts(r) /\ Counts(p)
      /\ used \in 0 .. Budget
  BY <1>1, CountsOf DEF IInv, Typed, MuxRecords
<1>4. \A e \in Ends : Data(e, s) \in Nat /\ Granted(e, s) \in Nat
  BY MeasuresType DEF IInv, Typed
<1>5. x \in Nat /\ y \in Nat /\ StreamWindow \in Nat \ {0} /\ c.count \in Nat
  BY StreamConstants DEF Cells
<1>6. r.credit + r.chunk + Data(a, s) + p.buffer + p.taken + Granted(f, s) + x <= StreamWindow
  BY <1>3 DEF Accounts, Window
<1>7. p.credit + p.chunk + Data(f, s) + r.buffer + r.taken + Granted(a, s) + y <= StreamWindow
  BY <1>1, <1>3 DEF Accounts, Window
<1>8. c.type \in {"ACK", "WINDOW_UPDATE"} => Granted(f, s) >= c.count
  BY <1>5 DEF Handled, Weight
<1>9. c.type = "DATA" => Data(f, s) >= 1
  BY DEF Handled, Weight
<1>10. c.type = "ACK" => ~r.open
  <2>1. c.type = "ACK" => 1 \in Acks(f, s)
    BY DEF Handled
  <2> QED
    BY <1>1, <1>3, <2>1 DEF Acknowledged
<1> HIDE DEF r, p, f, x, y, used
<1>11. CASE c.type = "ACK"
  <2>1. r.credit = 0
    BY <1>1, <1>3, <1>4, <1>5, <1>6, <1>8, <1>11 DEF Counts
  <2> QED
    BY <1>2, <1>3, <1>10, <1>11, <2>1, AckHeard DEF r, used
<1>12. CASE c.type = "WINDOW_UPDATE"
  <2>1. r.credit + c.count <= StreamWindow
    BY <1>1, <1>3, <1>4, <1>5, <1>6, <1>8, <1>12 DEF Counts
  <2> QED
    BY <1>2, <1>3, <1>12, <2>1, CreditHeard DEF r, used
<1>13. CASE c.type = "DATA"
  <2>1. r.buffer < StreamWindow
    BY <1>1, <1>3, <1>4, <1>5, <1>7, <1>9, <1>13 DEF Counts
  <2> QED
    BY <1>2, <1>3, <1>13, <2>1, DataHeard DEF r, used
<1>14. CASE c.type \in {"CLOSE", "RESET"}
  BY <1>2, <1>3, <1>14, ByeHeard DEF r, used
<1> QED
  BY <1>11, <1>12, <1>13, <1>14 DEF Cells

\* Cell c is handled by end a, for its stream s, which becomes q.
HeardCell(a, s, q, c) ==
    LET r == streams[a][s]
        f == Peer(a)
    IN  /\ c \in Cells /\ c.id = s /\ c.type # "OPEN"
        /\ Handled(f, s, c) /\ cells'[a] = cells[a]
        /\ Changed(a, s, q) /\ Heard(a, r, q, c, mux[a].used)
        /\ \A e \in Ends : SameMux(e) /\ (CannotSend(e)' <=> CannotSend(e))

\* What all the parts of the invariant need to know of it.
LEMMA HeardCellIs ==
  ASSUME IInv, NEW a \in Ends, NEW s \in Ids, NEW q, NEW c, HeardCell(a, s, q, c)
  PROVE  LET f == Peer(a)
             r == streams[a][s]
             p == streams[f][s]
         IN  /\ f \in Ends /\ f # a /\ Peer(f) = a /\ \A e \in Ends : e = a \/ e = f
             /\ streams'[a][s] = q /\ streams'[f][s] = p
             /\ Sane(a, r) /\ Sane(f, p) /\ Sane(a, q)
             /\ Counts(r) /\ Counts(p) /\ Counts(q)
             /\ Opens(a, s)' = Opens(a, s) /\ Acks(a, s)' = Acks(a, s)
             /\ Closes(a, s)' = Closes(a, s) /\ Byes(a, s)' = Byes(a, s)
             /\ All(a, s)' = All(a, s)
             /\ Data(a, s)' = Data(a, s) /\ Granted(a, s)' = Granted(a, s)
             /\ \A n : Ahead(a, s, n)' = Ahead(a, s, n)
             /\ Opened(s) /\ Acknowledged(s)
             /\ \A e \in Ends : Accounts(e, s) /\ Delivered(e, s) /\ Ended(e, s)
             /\ Data(a, s) \in Nat /\ Granted(a, s) \in Nat
             /\ Data(f, s) \in Nat /\ Data(f, s)' \in Nat
             /\ Granted(f, s) \in Nat /\ Granted(f, s)' \in Nat
             /\ Data(f, s) = Worth(c, {"DATA"}) + Data(f, s)'
             /\ Granted(f, s) = Worth(c, {"ACK", "WINDOW_UPDATE"}) + Granted(f, s)'
             /\ Worth(c, {"DATA"}) \in Nat /\ Worth(c, {"ACK", "WINDOW_UPDATE"}) \in Nat
<1> DEFINE f == Peer(a)
           r == streams[a][s]
           p == streams[f][s]
<1>1. /\ f \in Ends /\ f # a /\ Peer(f) = a
      /\ \A e \in Ends : e = a \/ e = f
  BY PeerIs
<1>2. streams'[a][s] = q /\ streams'[f][s] = p
  BY <1>1 DEF HeardCell, Changed
<1>3. Sane(a, r) /\ Sane(f, p) /\ Sane(a, q)
  BY <1>1 DEF IInv, HeardCell, Heard, Stirred
<1>4. Counts(r) /\ Counts(p) /\ Counts(q)
  BY <1>3, CountsOf DEF Sane
<1>5. /\ Opens(a, s)' = Opens(a, s) /\ Acks(a, s)' = Acks(a, s)
      /\ Closes(a, s)' = Closes(a, s) /\ Byes(a, s)' = Byes(a, s)
      /\ All(a, s)' = All(a, s)
      /\ Data(a, s)' = Data(a, s) /\ Granted(a, s)' = Granted(a, s)
      /\ \A n : Ahead(a, s, n)' = Ahead(a, s, n)
  BY QueueKept, Zenon DEF HeardCell
<1>6. /\ Opened(s) /\ Acknowledged(s)
      /\ \A e \in Ends : Accounts(e, s) /\ Delivered(e, s) /\ Ended(e, s)
  BY DEF IInv
<1>7. \A e \in Ends : Data(e, s) \in Nat /\ Granted(e, s) \in Nat
  BY MeasuresType DEF IInv, Typed
<1>8. /\ Data(f, s)' \in Nat /\ Granted(f, s)' \in Nat
      /\ Data(f, s) = Weight(c, s, {"DATA"}) + Data(f, s)'
      /\ Granted(f, s) = Weight(c, s, {"OPEN", "ACK", "WINDOW_UPDATE"}) + Granted(f, s)'
  BY DEF HeardCell, Handled
<1>9. /\ Weight(c, s, {"DATA"}) = Worth(c, {"DATA"})
      /\ Weight(c, s, {"OPEN", "ACK", "WINDOW_UPDATE"}) = Worth(c, {"ACK", "WINDOW_UPDATE"})
  BY DEF HeardCell, Weight, Worth
<1>10. Worth(c, {"DATA"}) \in Nat /\ Worth(c, {"ACK", "WINDOW_UPDATE"}) \in Nat
  BY StreamConstants DEF HeardCell, Worth, Cells
<1> QED
  BY <1>1, <1>2, <1>3, <1>4, <1>5, <1>6, <1>7, <1>8, <1>9, <1>10, Zenon

\* Empty sets of places stay empty, and single places single.
LEMMA MovedEmpty ==
  ASSUME NEW old, NEW new, Moved(old, new)
  PROVE  /\ old = {} => new = {}
         /\ 1 \in old /\ (\A j, k \in old : j = k) => new = {}
         /\ (\A j, k \in old : j = k) => \A j, k \in new : j = k
<1>1. \A j \in new : j \in Nat \ {0} /\ j + 1 \in old
  BY DEF Moved
<1> QED
  BY <1>1

LEMMA HeardOpened ==
  ASSUME IInv, NEW a \in Ends, NEW s \in Ids, NEW q, NEW c, HeardCell(a, s, q, c)
  PROVE  Opened(s)'
<1> DEFINE f == Peer(a)
<1>1. /\ streams'[a][s] = q /\ streams'[f][s] = streams[f][s]
      /\ Opens(a, s)' = Opens(a, s) /\ f \in Ends
  BY HeardCellIs
<1>2. Handled(f, s, c) /\ c.id = s /\ c.type # "OPEN" /\ q.registered /\ q.sender # "Opening"
  BY DEF HeardCell, Heard, Stirred, Kept
<1>3. /\ Opens("Initiator", s) = {}
      /\ \A e \in Ends : streams[e][s].registered /\ streams[e][s].sender # "Opening"
  BY <1>2, HeadKnown
<1>4. Moved(Opens(f, s), Opens(f, s)')
  BY <1>2 DEF Handled
<1>5. a = "Initiator" \/ f = "Initiator"
  BY DEF Peer, Ends
<1> HIDE DEF f
<1>6. Opens("Initiator", s)' = {}
  BY <1>1, <1>3, <1>4, <1>5, MovedEmpty
<1>7. (a = "Initiator" /\ f = "Acceptor") \/ (f = "Initiator" /\ a = "Acceptor")
  BY DEF Peer, Ends, f
<1>8. \A e \in Ends : streams'[e][s].registered /\ streams'[e][s].sender # "Opening"
  BY <1>1, <1>2, <1>3, <1>7 DEF Ends
<1>9. "Initiator" \in Ends /\ "Acceptor" \in Ends
  BY DEF Ends
<1> QED
  BY <1>6, <1>8, <1>9 DEF Opened

LEMMA HeardAcknowledged ==
  ASSUME IInv, NEW a \in Ends, NEW s \in Ids, NEW q, NEW c, HeardCell(a, s, q, c)
  PROVE  Acknowledged(s)'
<1> DEFINE f == Peer(a)
           r == streams[a][s]
<1>1. /\ streams'[a][s] = q /\ streams'[f][s] = streams[f][s]
      /\ Opens(a, s)' = Opens(a, s) /\ Acks(a, s)' = Acks(a, s)
      /\ Acknowledged(s)
  BY HeardCellIs
<1>2. /\ Handled(f, s, c) /\ c.id = s /\ q.registered
      /\ q.open <=> r.open \/ c.type = "ACK"
      /\ \A e \in Ends : mux'[e].acking = mux[e].acking
  BY DEF HeardCell, Heard, Stirred, Kept, SameMux
<1>3. /\ Moved(Opens(f, s), Opens(f, s)') /\ Moved(Acks(f, s), Acks(f, s)')
      /\ 1 \in Acks(f, s) <=> c.type = "ACK"
  BY <1>2 DEF Handled
<1>4. /\ (a = "Initiator" /\ f = "Acceptor") \/ (f = "Initiator" /\ a = "Acceptor")
      /\ "Initiator" \in Ends /\ "Acceptor" \in Ends
  BY DEF Peer, Ends
<1>5. /\ Acks("Initiator", s) = {} /\ Opens("Acceptor", s) = {}
      /\ mux["Initiator"].acking = 0
      /\ mux["Acceptor"].acking = s =>
            streams["Acceptor"][s].registered /\ Acks("Acceptor", s) = {}
      /\ mux["Acceptor"].acking = s \/ Acks("Acceptor", s) # {} =>
            ~streams["Initiator"][s].open
      /\ \A j, k \in Acks("Acceptor", s) : j = k
  BY <1>1 DEF Acknowledged
<1>6. /\ Opens(f, s) = {} => Opens(f, s)' = {}
      /\ Acks(f, s) = {} => Acks(f, s)' = {}
      /\ 1 \in Acks(f, s) /\ (\A j, k \in Acks(f, s) : j = k) => Acks(f, s)' = {}
      /\ (\A j, k \in Acks(f, s) : j = k) => \A j, k \in Acks(f, s)' : j = k
  <2>1. Moved(Acks(f, s), Acks(f, s)')
    BY <1>3
  <2>2. /\ Acks(f, s) = {} => Acks(f, s)' = {}
        /\ 1 \in Acks(f, s) /\ (\A j, k \in Acks(f, s) : j = k) => Acks(f, s)' = {}
        /\ (\A j, k \in Acks(f, s) : j = k) => \A j, k \in Acks(f, s)' : j = k
    BY <2>1, MovedEmpty
  <2>3. Opens(f, s) = {} => Opens(f, s)' = {}
    BY <1>3, MovedEmpty
  <2> QED
    BY <2>2, <2>3
<1> HIDE DEF f
<1>7. CASE a = "Initiator" /\ f = "Acceptor"
  <2>1. /\ Acks("Initiator", s)' = {} /\ Opens("Acceptor", s)' = {}
        /\ Acks("Acceptor", s) = {} => Acks("Acceptor", s)' = {}
        /\ \A j, k \in Acks("Acceptor", s)' : j = k
    BY <1>1, <1>5, <1>6, <1>7
  <2>2. mux["Acceptor"].acking = s \/ Acks("Acceptor", s)' # {} => ~q.open
    <3>1. CASE c.type = "ACK"
      BY <1>3, <1>5, <1>6, <1>7, <3>1
    <3>2. CASE c.type # "ACK"
      BY <1>2, <1>5, <1>7, <2>1, <3>2
    <3> QED
      BY <3>1, <3>2
  <2> QED
    BY <1>1, <1>2, <1>4, <1>5, <1>7, <2>1, <2>2 DEF Acknowledged
<1>8. CASE f = "Initiator" /\ a = "Acceptor"
  <2>1. /\ Acks("Initiator", s)' = {} /\ Opens("Acceptor", s)' = {}
        /\ Acks("Acceptor", s)' = Acks("Acceptor", s)
    BY <1>1, <1>5, <1>6, <1>8
  <2>2. /\ streams'["Initiator"][s].open = streams["Initiator"][s].open
        /\ streams'["Acceptor"][s].registered
    BY <1>1, <1>2, <1>8
  <2> QED
    BY <1>2, <1>4, <1>5, <2>1, <2>2 DEF Acknowledged
<1> QED
  BY <1>4, <1>7, <1>8

LEMMA HeardAccounts ==
  ASSUME IInv, NEW a \in Ends, NEW s \in Ids, NEW q, NEW c, HeardCell(a, s, q, c)
  PROVE  \A e \in Ends : Accounts(e, s)'
<1> DEFINE f == Peer(a)
           r == streams[a][s]
           p == streams[f][s]
           x == IF mux[f].acking = s THEN StreamWindow ELSE 0
           y == IF mux[a].acking = s THEN StreamWindow ELSE 0
           D == Worth(c, {"DATA"})
           G == Worth(c, {"ACK", "WINDOW_UPDATE"})
<1>1. /\ f \in Ends /\ f # a /\ Peer(f) = a /\ \A e \in Ends : e = a \/ e = f
      /\ streams'[a][s] = q /\ streams'[f][s] = p
      /\ Counts(r) /\ Counts(p) /\ Counts(q)
      /\ Data(a, s)' = Data(a, s) /\ Granted(a, s)' = Granted(a, s)
      /\ \A e \in Ends : Accounts(e, s)
      /\ Data(a, s) \in Nat /\ Granted(a, s) \in Nat
      /\ Data(f, s) \in Nat /\ Data(f, s)' \in Nat
      /\ Granted(f, s) \in Nat /\ Granted(f, s)' \in Nat
      /\ Data(f, s) = D + Data(f, s)'
      /\ Granted(f, s) = G + Granted(f, s)'
      /\ D \in Nat /\ G \in Nat
  BY HeardCellIs
<1>2. /\ q.chunk = r.chunk /\ q.taken = r.taken /\ q.registered /\ q.sender # "Opening"
      /\ q.credit = r.credit + G
      /\ q.buffer <= r.buffer + D
      /\ Hears(q) => Hears(r)
      /\ Hears(q) /\ ~r.remoteClosed => q.buffer = r.buffer + D
      /\ q.remoteClosed <=> r.remoteClosed \/ c.type \in {"CLOSE", "RESET"}
      /\ Handled(f, s, c) /\ c.id = s /\ c.type # "OPEN"
      /\ \A e \in Ends : mux'[e].acking = mux[e].acking
      /\ \A e \in Ends : CannotSend(e) => CannotSend(e)'
  BY DEF HeardCell, Heard, Stirred, Kept, SameMux
<1>3. r.registered /\ r.sender # "Opening"
  BY <1>2, HeadKnown
<1>4. x \in Nat /\ y \in Nat
  BY StreamConstants
<1>5. /\ Window(a, s) = r.credit + r.chunk + Data(a, s) + p.buffer + p.taken + Granted(f, s) + x
      /\ Window(f, s) = p.credit + p.chunk + Data(f, s) + r.buffer + r.taken + Granted(a, s) + y
  BY <1>1, Zenon DEF Window
<1>6. /\ Window(a, s)' = q.credit + q.chunk + Data(a, s) + p.buffer + p.taken + Granted(f, s)' + x
      /\ Window(f, s)' = p.credit + p.chunk + Data(f, s)' + q.buffer + q.taken + Granted(a, s) + y
  BY <1>1, <1>2, ZenonT(60) DEF Window
<1>7. streams[Peer(a)][s] = p /\ streams[Peer(f)][s] = r /\ streams'[Peer(a)][s] = p
      /\ streams'[Peer(f)][s] = q
  BY <1>1
<1> HIDE DEF f, r, p, x, y, D, G
<1>8. Window(a, s)' = Window(a, s)
  BY <1>1, <1>2, <1>4, <1>5, <1>6 DEF Counts
<1>9. Accounts(a, s)'
  BY <1>1, <1>2, <1>7, <1>8, AccountsKept
<1>10. Window(f, s)' <= Window(f, s) /\ Window(f, s) \in Nat /\ Window(f, s)' \in Nat
  BY <1>1, <1>2, <1>4, <1>5, <1>6 DEF Counts
<1>11. Hears(q) /\ ~q.remoteClosed => Window(f, s)' = Window(f, s)
  BY <1>1, <1>2, <1>4, <1>5, <1>6 DEF Counts
<1>12. /\ Window(f, s) <= StreamWindow
       /\ Hears(r) /\ ~r.remoteClosed /\ ~CannotSend("Initiator") /\ ~CannotSend("Acceptor")
            => Window(f, s) >= StreamWindow
  BY <1>1, <1>3, <1>7 DEF Accounts
<1>13. "Initiator" \in Ends /\ "Acceptor" \in Ends
  BY DEF Ends
<1>14. Window(f, s)' <= StreamWindow
  BY <1>10, <1>12, StreamConstants
<1>15. Accounts(f, s)'
  BY <1>2, <1>7, <1>11, <1>12, <1>13, <1>14 DEF Accounts
<1> QED
  BY <1>1, <1>9, <1>15

LEMMA HeardDelivered ==
  ASSUME IInv, NEW a \in Ends, NEW s \in Ids, NEW q, NEW c, HeardCell(a, s, q, c)
  PROVE  \A e \in Ends : Delivered(e, s)'
<1> DEFINE f == Peer(a)
           r == streams[a][s]
           p == streams[f][s]
           D == Worth(c, {"DATA"})
<1>1. /\ Peer(f) = a /\ \A e \in Ends : e = a \/ e = f
      /\ f \in Ends
      /\ streams'[a][s] = q /\ streams'[f][s] = p
      /\ Counts(r) /\ Counts(p) /\ Counts(q)
      /\ Data(a, s)' = Data(a, s)
      /\ \A e \in Ends : Delivered(e, s)
      /\ Data(f, s) \in Nat /\ Data(f, s)' \in Nat
      /\ Data(f, s) = D + Data(f, s)'
      /\ D \in Nat
  BY HeardCellIs
<1>2. /\ q.sent = r.sent /\ Recvd(q) = Recvd(r)
      /\ q.buffer <= r.buffer + D
      /\ Hears(q) => Hears(r)
      /\ Hears(q) /\ ~r.remoteClosed => q.buffer = r.buffer + D
      /\ q.remoteClosed <=> r.remoteClosed \/ c.type \in {"CLOSE", "RESET"}
  BY DEF HeardCell, Heard, Stirred, Kept
<1>3. streams[Peer(a)][s] = p /\ streams[Peer(f)][s] = r /\ streams'[Peer(a)][s] = p
      /\ streams'[Peer(f)][s] = q /\ streams[f][s] = p /\ streams[a][s] = r
  BY <1>1
<1> HIDE DEF f, r, p, D
<1>4. Delivered(a, s)'
  BY <1>1, <1>2, <1>3 DEF Delivered
<1>5. /\ Recvd(q) + q.buffer + Data(f, s)' <= Recvd(r) + r.buffer + Data(f, s)
      /\ Hears(q) /\ ~q.remoteClosed =>
            Recvd(q) + q.buffer + Data(f, s)' = Recvd(r) + r.buffer + Data(f, s)
      /\ Recvd(q) + q.buffer + Data(f, s)' \in Nat
      /\ Recvd(r) + r.buffer + Data(f, s) \in Nat
  BY <1>1, <1>2 DEF Counts
<1>6. /\ Recvd(r) + r.buffer + Data(f, s) <= p.sent
      /\ Hears(r) /\ ~r.remoteClosed => Recvd(r) + r.buffer + Data(f, s) = p.sent
  BY <1>1, <1>3 DEF Delivered
<1>7. Recvd(q) + q.buffer + Data(f, s)' <= p.sent
  BY <1>1, <1>5, <1>6 DEF Counts
<1>8. Hears(q) /\ ~q.remoteClosed => Recvd(q) + q.buffer + Data(f, s)' = p.sent
  BY <1>2, <1>5, <1>6
<1>9. Delivered(f, s)'
  BY <1>1, <1>3, <1>7, <1>8 DEF Delivered
<1> QED
  BY <1>1, <1>4, <1>9

LEMMA HeardEnded ==
  ASSUME IInv, NEW a \in Ends, NEW s \in Ids, NEW q, NEW c, HeardCell(a, s, q, c)
  PROVE  \A e \in Ends : Ended(e, s)'
<1> DEFINE f == Peer(a)
           r == streams[a][s]
           p == streams[f][s]
           D == Worth(c, {"DATA"})
<1>1. /\ Peer(f) = a /\ f \in Ends /\ \A e \in Ends : e = a \/ e = f
      /\ streams'[a][s] = q /\ streams'[f][s] = p
      /\ Sane(a, r) /\ Sane(f, p)
      /\ Counts(r) /\ Counts(p) /\ Counts(q)
      /\ Closes(a, s)' = Closes(a, s) /\ Byes(a, s)' = Byes(a, s)
      /\ \A n : Ahead(a, s, n)' = Ahead(a, s, n)
      /\ \A e \in Ends : Ended(e, s)
      /\ D \in Nat
  BY HeardCellIs
<1>2. /\ Recvd(q) = Recvd(r) /\ q.localClosed = r.localClosed /\ q.farewell = r.farewell
      /\ q.final = r.final /\ q.eof = r.eof
      /\ Hears(q) => Hears(r) /\ c.type # "RESET"
      /\ Hears(q) /\ ~r.remoteClosed => q.buffer = r.buffer + D
      /\ Hears(q) /\ r.remoteClosed => q.buffer = r.buffer
      /\ q.remoteClosed <=> r.remoteClosed \/ c.type \in {"CLOSE", "RESET"}
      /\ Handled(f, s, c) /\ c.id = s
  BY DEF HeardCell, Heard, Stirred, Kept
<1>3. /\ Moved(Closes(f, s), Closes(f, s)') /\ Moved(Byes(f, s), Byes(f, s)')
      /\ \A j \in Closes(f, s)' :
            /\ Ahead(f, s, j)' \in Nat
            /\ Ahead(f, s, j + 1) = Weight(c, s, {"DATA"}) + Ahead(f, s, j)'
      /\ 1 \in Closes(f, s) => Ahead(f, s, 1) = Weight(c, s, {"DATA"})
      /\ 1 \in Closes(f, s) <=> c.type = "CLOSE"
      /\ 1 \in Byes(f, s) <=> c.type \in {"CLOSE", "RESET"}
  BY <1>2 DEF Handled
<1>4. Weight(c, s, {"DATA"}) = D /\ (c.type = "CLOSE" => D = 0)
  BY <1>2 DEF Weight, Worth
<1>5. /\ streams[Peer(a)][s] = p /\ streams[Peer(f)][s] = r /\ streams'[Peer(a)][s] = p
      /\ streams'[Peer(f)][s] = q /\ streams[f][s] = p /\ streams[a][s] = r
  BY <1>1
<1>6. (p.eof => p.remoteClosed) /\ (r.eof => r.remoteClosed)
  BY <1>1 DEF Sane
<1>7. Closes(f, s) \subseteq Byes(f, s) /\ Closes(f, s)' \subseteq Byes(f, s)'
  BY DEF Closes, Byes, At
<1>8. Ended(a, s) /\ Ended(f, s)
  BY <1>1
<1>9. /\ \A j \in Byes(a, s)' : j \in Nat /\ j + 0 \in Byes(a, s)
      /\ \A j \in Closes(a, s)' : /\ j + 0 \in Closes(a, s)
                                  /\ Ahead(a, s, j)' = Ahead(a, s, j + 0)
  BY <1>1, PlacesKept DEF IInv
<1> HIDE DEF f, r, p, D
<1>10. Ended(a, s)'
  BY <1>1, <1>2, <1>5, <1>6, <1>8, <1>9, EndedKept
<1>11. /\ Byes(f, s) # {} \/ r.remoteClosed => p.localClosed /\ p.farewell = "None"
       /\ r.remoteClosed => Byes(f, s) = {}
       /\ \A j, k \in Byes(f, s) : j = k
       /\ Hears(r) => \A j \in Closes(f, s) : Recvd(r) + r.buffer + Ahead(f, s, j) = p.final
       /\ r.eof => Recvd(r) = p.final
  BY <1>5, <1>8 DEF Ended
<1>12. ASSUME c.type \in {"CLOSE", "RESET"} PROVE Ended(f, s)'
  <2>1. Byes(f, s)' = {} /\ Closes(f, s)' = {}
    BY <1>3, <1>7, <1>11, <1>12, MovedEmpty
  <2>2. ~r.remoteClosed /\ ~q.eof /\ p.localClosed /\ p.farewell = "None"
    BY <1>2, <1>3, <1>6, <1>11, <1>12
  <2>3. Hears(q) => Recvd(q) + q.buffer = p.final
    <3>1. SUFFICES ASSUME Hears(q) PROVE Recvd(q) + q.buffer = p.final
      OBVIOUS
    <3>2. c.type = "CLOSE" /\ q.buffer = r.buffer + 0 /\ Hears(r) /\ Recvd(q) = Recvd(r)
      BY <1>2, <1>4, <1>12, <2>2, <3>1
    <3>3. Recvd(r) + r.buffer + 0 = p.final
      BY <1>3, <1>4, <1>11, <3>2
    <3> QED
      BY <1>1, <3>2, <3>3 DEF Counts
  <2> QED
    BY <1>5, <1>1, <2>1, <2>2, <2>3 DEF Ended
<1>13. ASSUME c.type \notin {"CLOSE", "RESET"} PROVE Ended(f, s)'
  <2>1. /\ \A j \in Byes(f, s)' : j \in Nat /\ j + 1 \in Byes(f, s)
        /\ \A j \in Closes(f, s)' : j + 1 \in Closes(f, s)
    BY <1>3 DEF Moved
  <2>2. Hears(q) => \A j \in Closes(f, s)' :
           Recvd(q) + q.buffer + Ahead(f, s, j)' = Recvd(r) + r.buffer + Ahead(f, s, j + 1)
    <3>1. SUFFICES ASSUME Hears(q), NEW j \in Closes(f, s)'
                   PROVE  Recvd(q) + q.buffer + Ahead(f, s, j)'
                            = Recvd(r) + r.buffer + Ahead(f, s, j + 1)
      OBVIOUS
    <3>2. ~r.remoteClosed
      BY <1>7, <1>11, <2>1, <3>1
    <3>3. /\ q.buffer = r.buffer + D /\ Recvd(q) = Recvd(r)
          /\ Ahead(f, s, j)' \in Nat /\ Ahead(f, s, j + 1) = D + Ahead(f, s, j)'
      BY <1>2, <1>3, <1>4, <3>1, <3>2
    <3> HIDE DEF Ahead
    <3> QED
      BY <1>1, <3>3 DEF Counts
  <2>3. /\ q.remoteClosed => r.remoteClosed
        /\ Hears(q) => Hears(r)
        /\ q.remoteClosed /\ Hears(q) => Recvd(q) + q.buffer = Recvd(r) + r.buffer
        /\ q.eof => r.eof /\ r.remoteClosed /\ Recvd(q) = Recvd(r)
    BY <1>2, <1>6, <1>13
  <2> QED
    BY <1>1, <1>5, <1>8, <2>1, <2>2, <2>3, EndedKept
<1> QED
  BY <1>1, <1>10, <1>12, <1>13

LEMMA HeardCellStep ==
  ASSUME IInv, NEW a \in Ends, NEW s \in Ids, NEW q, NEW c, HeardCell(a, s, q, c),
         Typed', \A e \in Ends : Budgeted(e)', \A t : Handled(Peer(a), t, c),
         mux[a].acking = 0, mux[a].reading
  PROVE  IInv'
<1> DEFINE r == streams[a][s]
<1>1. /\ Changed(a, s, q) /\ cells'[a] = cells[a] /\ c.id = s
      /\ Sane(a, q) /\ Wakeful(q) /\ q.registered
      /\ r.error # "None" => q.error # "None"
      /\ Dozes(r, q, TRUE)
      /\ \A e \in Ends : SameMux(e) /\ (CannotSend(e)' <=> CannotSend(e))
  BY DEF HeardCell, Heard, Stirred, Kept, Dozes
<1>2. ASSUME NEW t \in Ids PROVE Pair(t)'
  <2>1. CASE t = s
    <3>1. Pair(s)'
      BY HeardOpened, HeardAcknowledged, HeardAccounts, HeardDelivered, HeardEnded DEF Pair
    <3> QED
      BY <2>1, <3>1
  <2>2. CASE t # s
    <3>1. Weakened(t)
      BY <1>1 DEF Weakened, SameMux, Ends
    <3>2. \A e \in Ends : streams'[e][t] = streams[e][t]
      BY <1>1, <2>2 DEF Changed
    <3>3. Handled(Peer(a), t, c)
      OBVIOUS
    <3> QED
      BY <1>1, <2>2, <3>1, <3>2, <3>3, ShiftedPair
  <2> QED
    BY <2>1, <2>2
<1>3. \A e \in Ends : Failed(e)' <=> Failed(e)
  BY <1>1 DEF SameMux, Failed
<1>4. ASSUME NEW e \in Ends, NEW t \in Ids PROVE Failing(e, t)'
  <2>1. streams'[e][t] = IF e = a /\ t = s THEN q ELSE streams[e][t]
    BY <1>1 DEF Changed
  <2>2. Failing(e, t)
    BY DEF IInv
  <2>3. /\ mux'[e].toFail = mux[e].toFail /\ mux'[e].acking = mux[e].acking
        /\ mux'[e].reading = mux[e].reading
    BY <1>1 DEF SameMux
  <2>4. CASE e = a /\ t = s
    <3>1. mux[a].acking # s
      BY DEF Ids
    <3>2. r.registered
      BY HeadKnown DEF HeardCell
    <3>3. Failed(a) /\ s \notin mux[a].toFail =>
            r.error # "None" /\ r.receiver # "Asleep" /\ r.sender \notin {"Asleep", "OpenAsleep"}
      BY <2>2, <2>4, <3>1, <3>2 DEF Failing
    <3>4. Failed(a) /\ s \notin mux[a].toFail =>
            /\ q.error # "None" /\ q.buffer = 0
            /\ q.receiver # "Asleep" /\ q.sender \notin {"Asleep", "OpenAsleep"}
      BY <1>1, <3>3 DEF Dozes, Sane
    <3> QED
      BY <1>1, <1>3, <2>1, <2>3, <2>4, <3>4 DEF Failing
  <2>5. CASE ~(e = a /\ t = s)
    BY <1>3, <2>1, <2>2, <2>3, <2>5 DEF Failing
  <2> QED
    BY <2>4, <2>5
<1> QED
  BY <1>1, <1>2, <1>4, Assembled

\* A cell of a stream the reader knows, which is every cell but OPEN.
LEMMA HandleCellStep ==
  ASSUME IInv, NEW a \in Ends, HandleCell(a)
  PROVE  IInv'
<1> DEFINE f == Peer(a)
<1>0. PICK c : c = Head(cells[f])
  OBVIOUS
<1>1. PICK s : s = c.id
  OBVIOUS
<1>2. PICK q : q = Dispatch(streams[a][s], c, mux[a].used)
  OBVIOUS
<1>3. /\ mux[a].reading /\ mux[a].acking = 0 /\ cells[f] # <<>>
      /\ c.type # "OPEN" /\ cells' = [cells EXCEPT ![f] = Tail(@)]
  BY <1>0 DEF HandleCell, Receivable
<1>4. /\ mux \in [Ends -> MuxRecords] /\ cells \in [Ends -> Seq(Cells)] /\ Typed
      /\ f \in Ends /\ f # a
  BY PeerIs DEF IInv, Typed
<1>5. /\ c \in Cells /\ s \in Ids /\ \A t : Handled(f, t, c)
      /\ c.type = "ACK" => c.count = StreamWindow
      /\ c.type = "DATA" => c.count = 1
      /\ cells'[a] = cells[a]
  <2>1. c \in Cells
    BY <1>0, <1>3, <1>4
  <2>2. cells'[f] = Tail(cells[f]) /\ cells'[a] = cells[a]
    BY <1>3, <1>4
  <2>3. \A t : Handled(f, t, c)
    BY <1>0, <1>3, <1>4, <2>2, HandledIs, Zenon
  <2>4. cells[f] \in Seq(Cells) /\ 1 \in 1 .. Len(cells[f]) /\ c = cells[f][1]
    BY <1>0, <1>3, <1>4
  <2>5. (c.type = "ACK" => c.count = StreamWindow) /\ (c.type = "DATA" => c.count = 1)
    BY <1>4, <2>4 DEF Typed
  <2> QED
    BY <1>1, <2>1, <2>2, <2>3, <2>5 DEF Cells
<1>6. streams[a][s].registered
  BY <1>1, <1>3, <1>5, HeadKnown
<1>7. Heard(a, streams[a][s], q, c, mux[a].used)
  BY <1>1, <1>2, <1>3, <1>5, DispatchHeard
<1>8. Becomes(a, s, q)
  BY <1>0, <1>1, <1>2, <1>6 DEF HandleCell
<1>9. /\ q \in StreamRecords /\ SameTaken(streams[a][s], q)
      /\ \/ q.buffer <= streams[a][s].buffer
         \/ q.buffer = streams[a][s].buffer + 1 /\ mux[a].used < Budget
  BY <1>7 DEF Heard, Stirred, Sane
<1>10. /\ Changed(a, s, q)
       /\ mux' \in [Ends -> MuxRecords]
       /\ \A e \in Ends : SameMux(e) /\ Budgeted(e)'
  BY <1>5, <1>8, <1>9, BecomesIs
<1>11. \A e \in Ends : CannotSend(e)' <=> CannotSend(e)
  BY <1>10 DEF SameMux, CannotSend, Failed
<1>12. Typed'
  <2>1. \A e \in Ends : mux'[e].cause # "Protocol"
    BY <1>4, <1>10 DEF Typed, SameMux
  <2>2. streams' \in [Ends -> [Ids -> StreamRecords]]
    BY <1>10 DEF Changed
  <2> QED
    BY <1>3, <1>4, <1>10, <2>1, <2>2, HandledTyped
<1>13. HeardCell(a, s, q, c)
  BY <1>1, <1>3, <1>5, <1>7, <1>10, <1>11 DEF HeardCell
<1> QED
  BY <1>3, <1>5, <1>10, <1>12, <1>13, HeardCellStep

-----------------------------------------------------------------------------
(* The theorems *)

LEMMA StreamStepIInv ==
  ASSUME IInv, NEW e \in Ends, NEW s \in Ids, StreamStep(e, s)
  PROVE  IInv'
<1>1. CASE TakeCredit(e, s)
  BY <1>1, TakeCreditStep
<1>2. CASE SendData(e, s)
  BY <1>2, SendDataRaises, SendDataSends
<1>3. CASE Receive(e, s)
  BY <1>3, ReceiveStep
<1>4. CASE ReleaseTaken(e, s)
  BY <1>4, ReleaseTakenStep
<1>5. CASE SendWindowUpdate(e, s)
  BY <1>5, SendWindowUpdateRaises, SendWindowUpdateSends
<1>6. CASE WaitTimesOut(e, s)
  BY <1>6, WaitTimesOutStep
<1>7. CASE Close(e, s) \/ Reset(e, s)
  BY <1>7, CloseStep
<1>8. CASE SendFarewell(e, s)
  BY <1>8, SendFarewellRaises, SendFarewellSends
<1>9. CASE FailStream(e, s)
  BY <1>9, FailStreamStep
<1> QED
  BY <1>1, <1>2, <1>3, <1>4, <1>5, <1>6, <1>7, <1>8, <1>9, Zenon DEF StreamStep

LEMMA OpeningStepIInv ==
  ASSUME IInv, NEW s \in Ids, OpeningStep(s)
  PROVE  IInv'
<1>1. CASE OpenStream(s)
  BY <1>1, OpenStreamStep
<1>2. CASE SendOpen(s)
  BY <1>2, SendOpenRaises, SendOpenSends
<1>3. CASE AwaitOpen(s)
  BY <1>3, AwaitOpenStep
<1>4. CASE OpenTimesOut(s)
  BY <1>4, OpenTimesOutStep
<1>5. CASE AcceptStream(s)
  BY <1>5, AcceptStreamStep
<1> QED
  BY <1>1, <1>2, <1>3, <1>4, <1>5, Zenon DEF OpeningStep

LEMMA MuxStepIInv ==
  ASSUME IInv, NEW e \in Ends, MuxStep(e)
  PROVE  IInv'
<1>1. CASE HandleOpen(e)
  BY <1>1, HandleOpenStep
<1>2. CASE SendAck(e)
  BY <1>2, SendAckRaises, SendAckSends
<1>3. CASE HandleCell(e)
  BY <1>3, HandleCellStep
<1>4. CASE CloseMux(e)
  BY <1>4, CloseMuxStep
<1>5. CASE DestroyChannel(e) \/ ChannelBreaks(e)
  BY <1>5, BreakStep
<1>6. CASE ReaderStops(e)
  BY <1>6, ReaderStopsStep
<1>7. CASE CoverFails(e)
  BY <1>7, CoverFailsStep
<1> QED
  BY <1>1, <1>2, <1>3, <1>4, <1>5, <1>6, <1>7, Zenon DEF MuxStep

\* The invariant speaks of nothing but the variables.
LEMMA StutteringIInv ==
  ASSUME IInv, UNCHANGED vars
  PROVE  IInv'
<1>0. "Initiator" \in Ends /\ "Acceptor" \in Ends /\ \A e \in Ends : Peer(e) \in Ends
  BY PeerIs DEF Ends
<1>1. mux' = mux /\ streams' = streams /\ cells' = cells
  BY DEF vars
<1>2. Typed'
  BY <1>1 DEF IInv, Typed
<1>3. \A e \in Ends : \A s :
                /\ Opens(e, s)' = Opens(e, s) /\ Acks(e, s)' = Acks(e, s)
                /\ Closes(e, s)' = Closes(e, s) /\ Byes(e, s)' = Byes(e, s)
                /\ All(e, s)' = All(e, s)
                /\ Data(e, s)' = Data(e, s) /\ Granted(e, s)' = Granted(e, s)
                /\ \A n : Ahead(e, s, n)' = Ahead(e, s, n)
  BY <1>1, QueueKept
<1>4. \A e : CannotSend(e)' = CannotSend(e) /\ Failed(e)' = Failed(e)
  BY <1>1, Zenon DEF CannotSend, Failed
<1>5. \A e \in Ends : \A s : Window(e, s)' = Window(e, s)
  BY <1>0, <1>1, <1>3, Zenon DEF Window
<1>6. ASSUME NEW s \in Ids PROVE Opened(s)' /\ Acknowledged(s)'
  BY <1>0, <1>1, <1>3, <1>4 DEF IInv, Opened, Acknowledged
<1>7. ASSUME NEW e \in Ends PROVE Budgeted(e)'
  BY <1>1 DEF IInv, Budgeted, HeldBy
<1>8. ASSUME NEW e \in Ends, NEW s \in Ids
      PROVE  Sane(e, streams[e][s])' /\ Wakeful(streams[e][s])'
  BY <1>1 DEF IInv, Sane, Wakeful
<1>9. ASSUME NEW e \in Ends, NEW s \in Ids
      PROVE  Accounts(e, s)' /\ Delivered(e, s)'
  BY <1>1, <1>3, <1>4, <1>5 DEF IInv, Accounts, Delivered
<1>10. ASSUME NEW e \in Ends, NEW s \in Ids
       PROVE  Ended(e, s)' /\ Failing(e, s)'
  BY <1>1, <1>3, <1>4 DEF IInv, Ended, Failing
<1> QED
  BY <1>2, <1>6, <1>7, <1>8, <1>9, <1>10 DEF IInv

LEMMA NextIInv ==
  ASSUME IInv, [Next]_vars
  PROVE  IInv'
<1>1. CASE \E e \in Ends, s \in Ids : StreamStep(e, s)
  BY <1>1, StreamStepIInv
<1>2. CASE \E s \in Ids : OpeningStep(s)
  BY <1>2, OpeningStepIInv
<1>3. CASE \E e \in Ends : MuxStep(e)
  BY <1>3, MuxStepIInv
<1>4. CASE UNCHANGED vars
  BY <1>4, StutteringIInv
<1> QED
  BY <1>1, <1>2, <1>3, <1>4, Zenon DEF Next

\* The inductive invariant: how the cells on the way, the records of a stream at
\* both ends and the two multiplexers go together, whatever the threads of the
\* applications and the readers of both ends do.
THEOREM AlwaysIInv == Spec => []IInv
<1>1. Init => IInv
  BY InitIInv
<1>2. IInv /\ [Next]_vars => IInv'
  BY NextIInv
<1> QED
  BY <1>1, <1>2, PTL DEF Spec

\* _add_credit(), _feed() and recv(): the window a stream granted is, to the
\* cell, the credit, the data and the grants there are of it, as long as both
\* ends can send and the stream that granted it is open.
THEOREM AlwaysCreditConserved == Spec => []CreditConserved
<1>1. IInv => CreditConserved
  <2> SUFFICES ASSUME IInv, NEW e \in Ends, NEW s \in Ids,
                      LET r == streams[Peer(e)][s]
                      IN  /\ r.registered /\ r.sender # "Opening"
                          /\ ~r.localClosed /\ ~r.remoteClosed /\ r.error = "None",
                      ~CannotSend("Initiator"), ~CannotSend("Acceptor")
               PROVE  Accounted(e, s) = StreamWindow
    BY DEF CreditConserved
  <2>1. Window(e, s) <= StreamWindow /\ Window(e, s) >= StreamWindow
    BY DEF IInv, Accounts, Hears
  <2>2. Accounted(e, s) = Window(e, s)
    BY Zenon DEF Accounted, Window, Data, Granted
  <2>3. Window(e, s) \in Nat
    <3> DEFINE f == Peer(e)
               r == streams[e][s]
               p == streams[f][s]
    <3>1. f \in Ends
      BY PeerIs
    <3>2. Counts(r) /\ Counts(p)
      BY <3>1, CountsOf DEF IInv, Typed
    <3>3. Data(e, s) \in Nat /\ Granted(f, s) \in Nat
      BY <3>1, MeasuresType DEF IInv, Typed
    <3>4. Window(e, s) = r.credit + r.chunk + Data(e, s) + p.buffer + p.taken
                           + Granted(f, s) + IF mux[f].acking = s THEN StreamWindow ELSE 0
      BY Zenon DEF Window
    <3> HIDE DEF f, r, p
    <3> QED
      BY <3>2, <3>3, <3>4, StreamConstants DEF Counts
  <2> QED
    BY <2>1, <2>2, <2>3, StreamConstants
<1> QED
  BY <1>1, AlwaysIInv, PTL

\* _dispatch(): no cell an end sends breaks a rule its peer enforces, so neither
\* the stream nor the multiplexer that gets it is failed for it.
THEOREM AlwaysPeerNeverFaulted == Spec => []PeerNeverFaulted
<1>1. IInv => PeerNeverFaulted
  <2> SUFFICES ASSUME IInv PROVE PeerNeverFaulted
    OBVIOUS
  <2>1. TypeOK
    BY DEF IInv, Typed, TypeOK
  <2>2. \A e \in Ends : mux[e].cause # "Protocol"
    BY DEF IInv, Typed
  <2>3. \A e \in Ends, s \in Ids : streams[e][s].error \notin {"OpenAck", "Window", "Credit"}
    BY DEF IInv, Sane
  <2> QED
    BY <2>1, <2>2, <2>3 DEF PeerNeverFaulted
<1> QED
  BY <1>1, AlwaysIInv, PTL

\* _fail(), close() and release(): a multiplexer that failed, with every listed
\* stream failed and no recv() about to give bytes back, holds nothing of its
\* receive budget.
THEOREM AlwaysBudgetReturned == Spec => []BudgetReturned
<1>1. IInv => BudgetReturned
  <2> SUFFICES ASSUME IInv, NEW e \in Ends, Failed(e), mux[e].toFail = {},
                      \A s \in Ids : streams[e][s].receiver # "Taken"
               PROVE  mux[e].used = 0
    BY DEF BudgetReturned
  <2>1. \A s \in Ids : streams[e][s].buffer = 0
    <3> SUFFICES ASSUME NEW s \in Ids PROVE streams[e][s].buffer = 0
      OBVIOUS
    <3>1. Sane(e, streams[e][s]) /\ Failing(e, s)
      BY DEF IInv
    <3> QED
      BY <3>1 DEF Sane, Failing, Unregistered
  <2>2. MaxStreams \in Nat /\ 0 + MaxStreams = MaxStreams
    BY StreamConstants
  <2>3. \A i \in 1 .. MaxStreams : HeldBy(e)[i] = 0
    BY <2>1 DEF HeldBy, Ids, Held
  <2>4. \A i \in 1 .. 0 + MaxStreams : HeldBy(e)[i] \in Nat
    BY <2>2, <2>3
  <2>5. \A i \in 0 + 1 .. 0 + MaxStreams : HeldBy(e)[i] = 0
    BY <2>2, <2>3
  <2>6. Total(HeldBy(e), 0 + MaxStreams) = Total(HeldBy(e), 0) + IF 0 = 1 THEN MaxStreams ELSE 0
    BY <2>2, <2>4, <2>5, TotalMore
  <2>7. Total(HeldBy(e), 0) = 0
    BY <2>2, <2>4, TotalIs
  <2> QED
    BY <2>2, <2>6, <2>7 DEF IInv, Budgeted
<1> QED
  BY <1>1, AlwaysIInv, PTL

\* sendall(), recv() and open_stream(): no thread sleeps on a stream that has
\* what it waits for or has failed, or that nobody will notify any more.
THEOREM AlwaysNoLostWakeup == Spec => []NoLostWakeup
<1>1. IInv => NoLostWakeup
  <2> SUFFICES ASSUME IInv, NEW e \in Ends, NEW s \in Ids
               PROVE  LET r == streams[e][s] IN
                      /\ r.sender = "Asleep" =>
                           r.credit = 0 /\ ~r.localClosed /\ ~r.remoteClosed
                      /\ r.receiver = "Asleep" =>
                           r.buffer = 0 /\ ~r.localClosed /\ ~r.remoteClosed
                      /\ r.sender = "OpenAsleep" => ~r.open
                      /\ r.receiver = "Asleep" \/ r.sender \in {"Asleep", "OpenAsleep"} =>
                           r.error = "None" /\ (Failed(e) => s \in mux[e].toFail)
    BY DEF NoLostWakeup
  <2>1. Sane(e, streams[e][s]) /\ Wakeful(streams[e][s]) /\ Failing(e, s)
    BY DEF IInv
  <2>2. ~streams[e][s].registered =>
           streams[e][s].receiver # "Asleep" /\ streams[e][s].sender \notin {"Asleep", "OpenAsleep"}
    BY <2>1 DEF Sane, Unregistered
  <2> QED
    BY <2>1, <2>2 DEF Wakeful, Failing
<1> QED
  BY <1>1, AlwaysIInv, PTL

\* The end of a stream that recv() reported is that of all the data.
LEMMA EofIsComplete == IInv => EofComplete
<1> SUFFICES ASSUME IInv, NEW e \in Ends, NEW s \in Ids, streams[e][s].eof
             PROVE  streams[e][s].received + streams[e][s].dropped = streams[Peer(e)][s].final
  BY DEF EofComplete
<1> DEFINE r == streams[e][s]
<1>1. Peer(e) \in Ends /\ Peer(Peer(e)) = e
  BY PeerIs
<1>2. Ended(Peer(e), s)
  BY <1>1 DEF IInv
<1>3. Recvd(r) = streams[Peer(e)][s].final
  BY <1>1, <1>2 DEF Ended
<1>4. r.taken = 0 /\ Counts(r)
  BY CountsOf DEF IInv, Typed, Sane
<1> QED
  BY <1>3, <1>4 DEF Recvd, Counts

\* recv() and _remote_close(): when recv() reports that the peer closed a stream that
\* has no error, all that was sent before CLOSE was returned by recv(), or dropped by
\* one that raised.
THEOREM AlwaysEofComplete == Spec => []EofComplete
  BY EofIsComplete, AlwaysIInv, PTL

-----------------------------------------------------------------------------
(* What recv() drops *)

\* An end at which recv() has dropped anything cannot send any more.
DroppedWhenUseless ==
    \A e \in Ends, s \in Ids : streams[e][s].dropped > 0 => CannotSend(e)

\* A step by which recv() drops nothing, unless its end cannot send, and which does
\* not make an end useful again.
DropsNothing ==
    /\ \A e \in Ends : CannotSend(e) => CannotSend(e)'
    /\ \A e \in Ends, s \in Ids :
          streams'[e][s].dropped \in {0, streams[e][s].dropped} \/ CannotSend(e)

LEMMA DropsNothingKeeps ==
  ASSUME DroppedWhenUseless, DropsNothing
  PROVE  DroppedWhenUseless'
BY DEF DroppedWhenUseless, DropsNothing

\* No method of a stream but recv() counts what is dropped.
LEMMA MethodsDropNothing ==
  ASSUME NEW r \in StreamRecords
  PROVE  /\ Notified(r).dropped = r.dropped
         /\ \A x : FailedRecord(r, x).dropped = r.dropped
         /\ ClosedRecord(r).dropped = r.dropped
         /\ ResetRecord(r).dropped = r.dropped
         /\ [ResetRecord(r) EXCEPT !.sender = "None"].dropped = r.dropped
<1>1. Notified(r).dropped = r.dropped
  BY DEF Notified, StreamRecords
<1>2. \A x : FailedRecord(r, x).dropped = r.dropped
  BY DEF FailedRecord, Notified, StreamRecords
<1>3. ClosedRecord(r).dropped = r.dropped
  BY DEF ClosedRecord, Notified, StreamRecords
<1>4. /\ ResetRecord(r).dropped = r.dropped
      /\ [ResetRecord(r) EXCEPT !.sender = "None"].dropped = r.dropped
  BY DEF ResetRecord, Notified, StreamRecords
<1> QED
  BY <1>1, <1>2, <1>3, <1>4

LEMMA DispatchDropsNothing ==
  ASSUME NEW r \in StreamRecords, NEW cell \in Cells, cell.type # "OPEN", NEW used
  PROVE  Dispatch(r, cell, used).dropped = r.dropped
<1>1. MarkOpen(r, cell.count).dropped = r.dropped
  BY MethodsDropNothing DEF MarkOpen, Notified, StreamRecords
<1>2. Feed(r, used).dropped = r.dropped
  BY MethodsDropNothing DEF Feed, Notified, StreamRecords
<1>3. AddCredit(r, cell.count).dropped = r.dropped
  BY MethodsDropNothing DEF AddCredit, Notified, StreamRecords
<1>4. RemoteClose(r).dropped = r.dropped /\ RemoteReset(r).dropped = r.dropped
  BY DEF RemoteClose, RemoteReset, Notified, StreamRecords
<1>5. cell.type \in {"ACK", "DATA", "WINDOW_UPDATE", "CLOSE", "RESET"}
  BY DEF Cells
<1> QED
  BY <1>1, <1>2, <1>3, <1>4, <1>5, Zenon DEF Dispatch

LEMMA BecomesDropsNothing ==
  ASSUME IInv, NEW a \in Ends, NEW s \in Ids, NEW q, Becomes(a, s, q),
         q.dropped \in {0, streams[a][s].dropped} \/ CannotSend(a)
  PROVE  DropsNothing
<1>1. \A e \in Ends : CannotSend(e) => CannotSend(e)'
  BY DEF IInv, Typed, Becomes, MuxRecords, CannotSend, Failed
<1>2. \A e \in Ends, t \in Ids :
         streams'[e][t] = IF e = a /\ t = s THEN q ELSE streams[e][t]
  BY DEF IInv, Typed, Becomes
<1> QED
  BY <1>1, <1>2 DEF DropsNothing

LEMMA StreamStepDrops ==
  ASSUME IInv, NEW e \in Ends, NEW s \in Ids, StreamStep(e, s)
  PROVE  DropsNothing
<1> DEFINE r == streams[e][s]
<1>0. r \in StreamRecords
  BY DEF IInv, Typed
<1>1. CASE TakeCredit(e, s)
  <2>1. \A n : [r EXCEPT !.credit = @ - n, !.chunk = n, !.sender = "Sending"].dropped = r.dropped
    BY <1>0 DEF StreamRecords
  <2>2. [r EXCEPT !.sender = "Asleep"].dropped = r.dropped
    BY <1>0 DEF StreamRecords
  <2> QED
    BY <1>1, <2>1, <2>2, BecomesDropsNothing DEF TakeCredit
<1>2. CASE SendData(e, s)
  <2>1. \A x : [r EXCEPT !.sender = "Idle", !.chunk = 0, !.sent = x].dropped = r.dropped
    BY <1>0 DEF StreamRecords
  <2> QED
    BY <1>2, <2>1, BecomesDropsNothing DEF SendData
<1>3. CASE Receive(e, s)
  <2>1. ASSUME NEW n, Take(e, s, n) PROVE DropsNothing
    <3> DEFINE q == [r EXCEPT !.buffer = @ - n, !.taken = n, !.receiver = "Taken"]
    <3>1. streams' = [streams EXCEPT ![e][s] = q] /\ mux' = mux
      BY <2>1, ZenonT(60) DEF Take, IInv, Typed
    <3>2. q.dropped = r.dropped
      BY <1>0 DEF StreamRecords
    <3> HIDE DEF q
    <3>3. \A f \in Ends, t \in Ids : streams'[f][t].dropped = streams[f][t].dropped
      BY <3>1, <3>2 DEF IInv, Typed
    <3> QED
      BY <3>1, <3>3 DEF DropsNothing, CannotSend, Failed
  <2>2. \A x : [r EXCEPT !.eof = x].dropped = r.dropped
    BY <1>0 DEF StreamRecords
  <2>3. [r EXCEPT !.receiver = "Asleep"].dropped = r.dropped
    BY <1>0 DEF StreamRecords
  <2> QED
    BY <1>3, <2>1, <2>2, <2>3, BecomesDropsNothing DEF Receive
<1>4. CASE ReleaseTaken(e, s)
  <2>1. \A f \in Ends, t \in Ids : streams'[f][t].dropped = streams[f][t].dropped
    <3> DEFINE q == [r EXCEPT !.receiver = "Released"]
    <3>1. streams' = [streams EXCEPT ![e][s] = q]
      BY <1>4 DEF ReleaseTaken
    <3>2. q.dropped = r.dropped
      BY <1>0 DEF StreamRecords
    <3> HIDE DEF q
    <3> QED
      BY <3>1, <3>2, SMTT(30) DEF IInv, Typed
  <2>2. \A f \in Ends : CannotSend(f) => CannotSend(f)'
    BY <1>4 DEF ReleaseTaken, IInv, Typed, MuxRecords, CannotSend, Failed
  <2> QED
    BY <2>1, <2>2 DEF DropsNothing
<1>5. CASE SendWindowUpdate(e, s)
  <2>1. RecvEnds(r, FALSE).dropped = r.dropped
    BY <1>0 DEF RecvEnds, StreamRecords
  <2>2. Becomes(e, s, RecvEnds(r, CannotSend(e)))
    BY <1>5 DEF SendWindowUpdate
  <2>3. CASE CannotSend(e)
    BY <2>2, <2>3, BecomesDropsNothing
  <2>4. CASE ~CannotSend(e)
    <3>1. Becomes(e, s, RecvEnds(r, FALSE))
      BY <2>2, <2>4 DEF CannotSend, Failed
    <3> QED
      BY <2>1, <3>1, BecomesDropsNothing
  <2> QED
    BY <2>3, <2>4
<1>6. CASE WaitTimesOut(e, s)
  <2>1. \A x : /\ [r EXCEPT !.sender = x].dropped = r.dropped
               /\ [r EXCEPT !.receiver = x].dropped = r.dropped
    BY <1>0 DEF StreamRecords
  <2> QED
    BY <1>6, <2>1, BecomesDropsNothing DEF WaitTimesOut
<1>7. CASE Close(e, s) \/ Reset(e, s)
  BY <1>0, <1>7, MethodsDropNothing, BecomesDropsNothing DEF Close, Reset
<1>8. CASE SendFarewell(e, s)
  <2> DEFINE x == IF r.farewell = "CLOSE" THEN r.sent ELSE r.final
             q == [r EXCEPT !.farewell = "None", !.final = x]
  <2>1. Becomes(e, s, q)
    BY <1>8 DEF SendFarewell
  <2> HIDE DEF x
  <2>2. q.dropped = r.dropped
    BY <1>0 DEF StreamRecords
  <2> QED
    BY <2>1, <2>2, BecomesDropsNothing
<1>9. CASE FailStream(e, s)
  <2>1. \A f \in Ends, t \in Ids :
           streams'[f][t] = IF f = e /\ t = s THEN FailedRecord(r, "Multiplexer") ELSE streams[f][t]
    BY <1>9 DEF FailStream, IInv, Typed
  <2>2. \A f \in Ends : CannotSend(f) => CannotSend(f)'
    BY <1>9 DEF FailStream, IInv, Typed, MuxRecords, CannotSend, Failed
  <2> QED
    BY <1>0, <2>1, <2>2, MethodsDropNothing DEF DropsNothing
<1> QED
  BY <1>1, <1>2, <1>3, <1>4, <1>5, <1>6, <1>7, <1>8, <1>9, Zenon DEF StreamStep

LEMMA OpeningStepDrops ==
  ASSUME IInv, NEW s \in Ids, OpeningStep(s)
  PROVE  DropsNothing
<1> DEFINE i == streams["Initiator"][s]
           a == streams["Acceptor"][s]
<1>0. /\ i \in StreamRecords /\ a \in StreamRecords
      /\ "Initiator" \in Ends /\ "Acceptor" \in Ends
  BY DEF IInv, Typed, Ends
<1>1. CASE OpenStream(s)
  <2>1. [Unregistered EXCEPT !.registered = TRUE, !.sender = "Opening"].dropped = 0
    BY DEF Unregistered
  <2> QED
    BY <1>0, <1>1, <2>1, BecomesDropsNothing DEF OpenStream
<1>2. CASE SendOpen(s)
  <2>1. [i EXCEPT !.sender = "AwaitingOpen"].dropped = i.dropped
    BY <1>0 DEF StreamRecords
  <2> QED
    BY <1>0, <1>2, <2>1, MethodsDropNothing, BecomesDropsNothing DEF SendOpen
<1>3. CASE AwaitOpen(s)
  <2>1. /\ [i EXCEPT !.sender = "Idle", !.receiver = "Idle"].dropped = i.dropped
        /\ [i EXCEPT !.sender = "OpenAsleep"].dropped = i.dropped
    BY <1>0 DEF StreamRecords
  <2> QED
    BY <1>0, <1>3, <2>1, MethodsDropNothing, BecomesDropsNothing DEF AwaitOpen
<1>4. CASE OpenTimesOut(s)
  BY <1>0, <1>4, MethodsDropNothing, BecomesDropsNothing DEF OpenTimesOut
<1>5. CASE AcceptStream(s)
  <2>1. [a EXCEPT !.sender = "Idle", !.receiver = "Idle"].dropped = a.dropped
    BY <1>0 DEF StreamRecords
  <2> QED
    BY <1>0, <1>5, <2>1, BecomesDropsNothing DEF AcceptStream
<1> QED
  BY <1>1, <1>2, <1>3, <1>4, <1>5, Zenon DEF OpeningStep

\* The end of a reader, and every step that leaves the streams alone.
LEMMA ReaderEndsDropsNothing ==
  ASSUME IInv, NEW e \in Ends, NEW cause \in {"Channel", "Protocol"},
         ReaderEnds(e, cause), UNCHANGED streams
  PROVE  DropsNothing
<1>1. \A f \in Ends : CannotSend(f) => CannotSend(f)'
  BY DEF ReaderEnds, FailedMux, IInv, Typed, MuxRecords, CannotSend, Failed
<1> QED
  BY <1>1 DEF DropsNothing

LEMMA MuxStepDrops ==
  ASSUME IInv, NEW e \in Ends, MuxStep(e)
  PROVE  DropsNothing
<1>1. CASE HandleOpen(e)
  <2> DEFINE c == Head(cells[Peer(e)])
             q == [Unregistered EXCEPT !.registered = TRUE, !.open = TRUE, !.credit = c.count]
  <2>1. q.dropped = 0
    BY DEF Unregistered
  <2>2. CASE ReaderEnds(e, "Protocol") /\ UNCHANGED streams
    BY <2>2, ReaderEndsDropsNothing
  <2>3. CASE streams' = [streams EXCEPT ![e][c.id] = q] /\ mux' = [mux EXCEPT ![e].acking = c.id]
    <3> HIDE DEF q
    <3>1. \A f \in Ends, t \in Ids : streams'[f][t] \in {q, streams[f][t]}
      BY <2>3 DEF IInv, Typed
    <3>2. \A f \in Ends : CannotSend(f) => CannotSend(f)'
      BY <2>3 DEF IInv, Typed, MuxRecords, CannotSend, Failed
    <3> QED
      BY <2>1, <3>1, <3>2 DEF DropsNothing
  <2> QED
    BY <1>1, <2>2, <2>3 DEF HandleOpen
<1>2. CASE SendAck(e)
  <2>1. CASE CannotSend(e)
    BY <1>2, <2>1, ReaderEndsDropsNothing DEF SendAck
  <2>2. CASE ~CannotSend(e)
    BY <1>2, <2>2 DEF SendAck, IInv, Typed, MuxRecords, CannotSend, Failed, DropsNothing
  <2> QED
    BY <2>1, <2>2
<1>3. CASE HandleCell(e)
  <2> DEFINE c == Head(cells[Peer(e)])
             r == streams[e][c.id]
  <2>1. c \in Cells /\ c.id \in Ids /\ c.type # "OPEN"
    <3>1. cells[Peer(e)] \in Seq(Cells) /\ cells[Peer(e)] # <<>> /\ c.type # "OPEN"
      BY <1>3, PeerIs DEF HandleCell, Receivable, IInv, Typed
    <3>2. c \in Cells
      BY <3>1
    <3> QED
      BY <3>1, <3>2 DEF Cells
  <2>2. r \in StreamRecords
    BY <2>1 DEF IInv, Typed
  <2>3. CASE ReaderEnds(e, "Protocol") /\ UNCHANGED streams
    BY <2>3, ReaderEndsDropsNothing
  <2>4. CASE Becomes(e, c.id, Dispatch(r, c, mux[e].used))
    <3>1. Dispatch(r, c, mux[e].used).dropped = r.dropped
      BY <2>1, <2>2, DispatchDropsNothing
    <3> QED
      BY <2>1, <2>4, <3>1, BecomesDropsNothing
  <2> QED
    BY <1>3, <2>3, <2>4 DEF HandleCell
<1>4. CASE ReaderStops(e)
  BY <1>4, ReaderEndsDropsNothing DEF ReaderStops
<1>5. CASE CloseMux(e) \/ DestroyChannel(e) \/ CoverFails(e) \/ ChannelBreaks(e)
  <2>1. UNCHANGED streams
    BY <1>5 DEF CloseMux, DestroyChannel, CoverFails, ChannelBreaks
  <2>2. \A f \in Ends : CannotSend(f) => CannotSend(f)'
    <3>1. CASE CloseMux(e)
      BY <3>1 DEF CloseMux, IInv, Typed, MuxRecords, CannotSend, Failed
    <3>2. CASE DestroyChannel(e) \/ ChannelBreaks(e)
      BY <3>2 DEF DestroyChannel, ChannelBreaks, IInv, Typed, MuxRecords, CannotSend, Failed
    <3>3. CASE CoverFails(e)
      BY <3>3 DEF CoverFails, FailedMux, IInv, Typed, MuxRecords, CannotSend, Failed
    <3> QED
      BY <1>5, <3>1, <3>2, <3>3
  <2> QED
    BY <2>1, <2>2 DEF DropsNothing
<1> QED
  BY <1>1, <1>2, <1>3, <1>4, <1>5, Zenon DEF MuxStep

\* recv() drops what it has taken only where nothing can be sent any more.
LEMMA AlwaysDroppedWhenUseless == Spec => []DroppedWhenUseless
<1>1. Init => DroppedWhenUseless
  BY DEF Init, Unregistered, DroppedWhenUseless
<1>2. IInv /\ DroppedWhenUseless /\ [Next]_vars => DroppedWhenUseless'
  <2> SUFFICES ASSUME IInv, DroppedWhenUseless, [Next]_vars PROVE DroppedWhenUseless'
    OBVIOUS
  <2>1. CASE UNCHANGED vars
    BY <2>1 DEF vars, DroppedWhenUseless, CannotSend, Failed
  <2>2. CASE Next
    BY <2>2, StreamStepDrops, OpeningStepDrops, MuxStepDrops, DropsNothingKeeps DEF Next
  <2> QED
    BY <2>1, <2>2
<1> QED
  BY <1>1, <1>2, AlwaysIInv, PTL DEF Spec

\* sendall(), _feed() and recv(): what was sent has been through recv(), is unread or is
\* on the way, for any window and budget, and less only where the stream failed or was
\* closed; and recv() drops some of it only where nothing can be sent any more.
THEOREM AlwaysNothingLost == Spec => []NothingLost
<1>1. IInv /\ DroppedWhenUseless => NothingLost
  <2> SUFFICES ASSUME IInv, DroppedWhenUseless, NEW e \in Ends, NEW s \in Ids
               PROVE  LET r   == streams[Peer(e)][s]
                          got == r.received + r.dropped + r.taken + r.buffer + Data(e, s)
                      IN  /\ got <= streams[e][s].sent
                          /\ got < streams[e][s].sent =>
                               r.localClosed \/ r.remoteClosed \/ r.error # "None"
                          /\ r.dropped > 0 => CannotSend(Peer(e))
    BY EofIsComplete DEF NothingLost, Data
  <2> DEFINE r   == streams[Peer(e)][s]
             got == r.received + r.dropped + r.taken + r.buffer + Data(e, s)
  <2>0. r.dropped > 0 => CannotSend(Peer(e))
    BY PeerIs DEF DroppedWhenUseless
  <2>1. Delivered(e, s)
    BY DEF IInv
  <2>2. got <= streams[e][s].sent /\ (Hears(r) /\ ~r.remoteClosed => got = streams[e][s].sent)
    BY <2>1 DEF Delivered, Recvd
  <2>3. streams[e][s].sent \in Nat
    BY CountsOf DEF IInv, Typed, Counts
  <2> HIDE DEF got
  <2>4. got < streams[e][s].sent => ~(Hears(r) /\ ~r.remoteClosed)
    BY <2>2, <2>3
  <2> QED
    BY <2>0, <2>2, <2>4 DEF Hears, got
<1> QED
  BY <1>1, AlwaysIInv, AlwaysDroppedWhenUseless, PTL

=============================================================================
