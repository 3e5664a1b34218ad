----------------------------- MODULE CellStream -----------------------------
(***************************************************************************)
(* The relay-cell multiplexer of the Granger Network                       *)
(* (GrangerNetwork/src/granger_network/cells.py): two CellMultiplexers at  *)
(* the ends of one secure channel, and the MuxStreams between them, with   *)
(* their flow control and the receive-memory budget they draw on.          *)
(*                                                                         *)
(* Threads.  At each end a reader thread handles the cells that arrive,    *)
(* and the threads of the application open, accept, send, receive, close   *)
(* and reset streams.  A method runs up to a lock it lets go of: what it   *)
(* does under the condition of one stream is one action, and a cell is     *)
(* sent, under the send lock, in an action of its own.  A thread that      *)
(* waits is "asleep" until its stream is notified.                         *)
(*                                                                         *)
(* Only the initiator opens streams, as everywhere in the node.  Data is   *)
(* counted in units of one cell; cover cells carry nothing and are left    *)
(* out.                                                                    *)
(***************************************************************************)
EXTENDS Naturals, Sequences, FiniteSets

CONSTANTS
    MaxStreams,     \* max_streams of both multiplexers
    StreamWindow,   \* stream_window of both, in cells, and MAX_STREAM_WINDOW
    Budget,         \* maximum_bytes of each ReceiveMemoryBudget, in cells
    Capacity,       \* cells the sockets between the two ends hold
    MaxUnits,       \* bound: cells an application sends over one stream
    Talkers,        \* the ends whose application sends data
    Closers,        \* the ends whose owner closes the multiplexer
    Faults          \* the ends whose side of the channel may fail by itself

ASSUME StreamConstants ==
    /\ MaxStreams \in Nat \ {0}
    /\ StreamWindow \in Nat \ {0}
    /\ Budget \in Nat \ {0}
    /\ Capacity \in Nat \ {0}
    /\ MaxUnits \in Nat
    /\ Talkers \subseteq {"Initiator", "Acceptor"}
    /\ Closers \subseteq {"Initiator", "Acceptor"}
    /\ Faults \subseteq {"Initiator", "Acceptor"}

VARIABLES
    mux,        \* the two multiplexers
    streams,    \* the streams each of them has registered
    cells       \* the cells each end has sent and the other has not handled

vars == <<mux, streams, cells>>

-----------------------------------------------------------------------------
(* Types *)

Ends == {"Initiator", "Acceptor"}

Peer(e) == IF e = "Initiator" THEN "Acceptor" ELSE "Initiator"

Ids == 1 .. MaxStreams

\* "OPEN" with CELL_FLAG_ACK is written "ACK".  count: the window of an OPEN or
\* an ACK, the credit of a WINDOW_UPDATE, the length of a DATA cell.
Cell(type, id, count) == [type |-> type, id |-> id, count |-> count]

Cells == [type : {"OPEN", "ACK", "DATA", "WINDOW_UPDATE", "CLOSE", "RESET"},
          id : Ids, count : 0 .. StreamWindow]

\* The thread of a stream that sends: it opens the stream and waits for the
\* acknowledgement, or it is in the application, or it has taken credit.
Senders == {"None", "Opening", "AwaitingOpen", "OpenAsleep", "Idle", "Asleep", "Sending"}

\* The thread that receives: it has taken bytes from the buffer, then returned
\* them to the budget.
Receivers == {"None", "Idle", "Asleep", "Taken", "Released"}

Errors == {"None", "OpenAck", "Window", "Budget", "Credit",
           "RemoteReset", "LocalReset", "Multiplexer"}

\* sent: cells handed over to sendall() so far.  received, dropped: those recv() has
\* returned, and those it had taken from the buffer when it raised.  final: those sent
\* before CLOSE.  eof: recv() has returned b"" for a stream that has no error and that
\* this end has not closed, which only the CLOSE of the peer explains.
StreamRecords ==
    [registered   : BOOLEAN,
     open         : BOOLEAN,
     credit       : 0 .. StreamWindow,
     buffer       : 0 .. StreamWindow,
     localClosed  : BOOLEAN,
     remoteClosed : BOOLEAN,
     error        : Errors,
     farewell     : {"None", "CLOSE", "RESET"},
     sender       : Senders,
     chunk        : 0 .. StreamWindow,
     receiver     : Receivers,
     taken        : 0 .. StreamWindow,
     sent         : 0 .. MaxUnits,
     received     : 0 .. MaxUnits,
     dropped      : 0 .. MaxUnits,
     final        : 0 .. MaxUnits,
     eof          : BOOLEAN]

\* toFail: the streams _fail() or close() has listed and not yet failed.
\* cause: why the multiplexer failed.  acking: the stream the reader is about
\* to acknowledge, or 0.
MuxRecords ==
    [cause   : {"None", "Channel", "Protocol"},
     closed  : BOOLEAN,
     broken  : BOOLEAN,
     reading : BOOLEAN,
     acking  : 0 .. MaxStreams,
     toFail  : SUBSET Ids,
     used    : 0 .. Budget]

TypeOK ==
    /\ mux \in [Ends -> MuxRecords]
    /\ streams \in [Ends -> [Ids -> StreamRecords]]
    /\ \A e \in Ends :
          /\ Len(cells[e]) <= Capacity
          /\ \A i \in 1 .. Len(cells[e]) : cells[e][i] \in Cells

Unregistered ==
    [registered |-> FALSE, open |-> FALSE, credit |-> 0, buffer |-> 0,
     localClosed |-> FALSE, remoteClosed |-> FALSE, error |-> "None",
     farewell |-> "None", sender |-> "None", chunk |-> 0, receiver |-> "None",
     taken |-> 0, sent |-> 0, received |-> 0, dropped |-> 0, final |-> 0, eof |-> FALSE]

Registered(e) == {s \in Ids : streams[e][s].registered}

\* CellMultiplexer.failed
Failed(e) == mux[e].cause # "None" \/ mux[e].closed

-----------------------------------------------------------------------------
(* What the methods of MuxStream do to its record *)

\* notify_all(): whoever waits for the stream looks at it again.
Notified(r) ==
    [r EXCEPT !.sender = CASE @ = "OpenAsleep" -> "AwaitingOpen"
                           [] @ = "Asleep" -> "Idle"
                           [] OTHER -> @,
              !.receiver = IF @ = "Asleep" THEN "Idle" ELSE @]

\* _fail(): the first error stays.
FailedRecord(r, error) ==
    Notified([r EXCEPT !.error = IF @ = "None" THEN error ELSE @, !.buffer = 0])

ClosedRecord(r) ==
    Notified([r EXCEPT !.localClosed = TRUE, !.buffer = 0, !.farewell = "CLOSE"])

ResetRecord(r) ==
    Notified([r EXCEPT !.localClosed = TRUE, !.buffer = 0, !.farewell = "RESET",
                       !.error = "LocalReset"])

\* _mark_open()
MarkOpen(r, count) ==
    IF r.open THEN FailedRecord(r, "OpenAck")
    ELSE Notified([r EXCEPT !.open = TRUE, !.credit = count])

\* Mutant: nobody is notified.
AddCreditSilently(r, count) ==
    IF r.credit + count > StreamWindow THEN FailedRecord(r, "Credit")
    ELSE [r EXCEPT !.credit = @ + count]

\* _add_credit()
AddCredit(r, count) ==
    IF r.credit + count > StreamWindow THEN FailedRecord(r, "Credit")
    ELSE Notified([r EXCEPT !.credit = @ + count])

\* Mutant: a stream that failed still buffers, whatever the budget.
FeedAfterError(r, used) ==
    IF r.localClosed \/ r.remoteClosed THEN r
    ELSE IF r.buffer = StreamWindow THEN FailedRecord(r, "Window")
    ELSE Notified([r EXCEPT !.buffer = @ + 1])

\* Mutant: what finds no room in the budget is dropped, and nobody is told.
FeedOrDrop(r, used) ==
    IF r.localClosed \/ r.remoteClosed \/ r.error # "None" THEN r
    ELSE IF r.buffer = StreamWindow THEN FailedRecord(r, "Window")
    ELSE IF used = Budget THEN r
    ELSE Notified([r EXCEPT !.buffer = @ + 1])

\* _feed(), with used cells of the budget taken.
Feed(r, used) ==
    IF r.localClosed \/ r.remoteClosed \/ r.error # "None" THEN r
    ELSE IF r.buffer = StreamWindow THEN FailedRecord(r, "Window")
    ELSE IF used = Budget THEN FailedRecord(r, "Budget")
    ELSE Notified([r EXCEPT !.buffer = @ + 1])

\* _remote_close()
RemoteClose(r) == Notified([r EXCEPT !.remoteClosed = TRUE])

RemoteReset(r) ==
    Notified([r EXCEPT !.remoteClosed = TRUE, !.error = "RemoteReset", !.buffer = 0])

\* What a cell does to the stream it is for.
Dispatch(r, cell, used) ==
    CASE cell.type = "ACK" -> MarkOpen(r, cell.count)
      [] cell.type = "DATA" -> Feed(r, used)
      [] cell.type = "WINDOW_UPDATE" -> AddCredit(r, cell.count)
      [] cell.type = "CLOSE" -> RemoteClose(r)
      [] cell.type = "RESET" -> RemoteReset(r)

-----------------------------------------------------------------------------
(* Frames *)

\* Stream s of end e becomes r: what its buffer gains or loses is the budget's.
Becomes(e, s, r) ==
    /\ streams' = [streams EXCEPT ![e][s] = r]
    /\ mux' = [mux EXCEPT ![e].used = (@ + r.buffer) - streams[e][s].buffer]

\* _send_batch() raises: the multiplexer or its channel cannot be used.
CannotSend(e) == Failed(e) \/ mux[e].broken

\* _send_batch(), which blocks while the sockets are full.
Send(e, batch) ==
    /\ ~CannotSend(e)
    /\ Len(cells[e]) + Len(batch) <= Capacity
    /\ cells' = [cells EXCEPT ![e] = @ \o batch]

\* _send_batch(), or the exception it raises instead.
SendOrRaise(e, batch) ==
    \/ Send(e, batch)
    \/ CannotSend(e) /\ UNCHANGED cells

\* CellMultiplexer._fail(): lists the streams to fail.
FailedMux(m, cause, registered) ==
    [m EXCEPT !.cause = IF @ = "None" THEN cause ELSE @,
              !.toFail = @ \cup registered]

-----------------------------------------------------------------------------
(* Opening and accepting *)

Init ==
    /\ mux = [e \in Ends |-> [cause |-> "None", closed |-> FALSE, broken |-> FALSE,
                              reading |-> TRUE, acking |-> 0, toFail |-> {}, used |-> 0]]
    /\ streams = [e \in Ends |-> [s \in Ids |-> Unregistered]]
    /\ cells = [e \in Ends |-> <<>>]

\* open_stream() registers the stream, ...
OpenStream(s) ==
    /\ ~Failed("Initiator")
    /\ Registered("Initiator") = 1 .. s - 1
    /\ Becomes("Initiator", s, [Unregistered EXCEPT !.registered = TRUE, !.sender = "Opening"])
    /\ UNCHANGED cells

\* ... sends OPEN, ...
SendOpen(s) ==
    LET r == streams["Initiator"][s]
    IN  /\ r.sender = "Opening"
        /\ SendOrRaise("Initiator", <<Cell("OPEN", s, StreamWindow)>>)
        /\ Becomes("Initiator", s,
                   IF CannotSend("Initiator") THEN [ResetRecord(r) EXCEPT !.sender = "None"]
                   ELSE [r EXCEPT !.sender = "AwaitingOpen"])

\* ... and waits for the acknowledgement.
AwaitOpen(s) ==
    LET r == streams["Initiator"][s]
    IN  /\ r.sender = "AwaitingOpen"
        /\ Becomes("Initiator", s,
                   IF r.open THEN [r EXCEPT !.sender = "Idle", !.receiver = "Idle"]
                   ELSE IF r.error # "None" \/ Failed("Initiator")
                        THEN [ResetRecord(r) EXCEPT !.sender = "None"]
                   ELSE [r EXCEPT !.sender = "OpenAsleep"])
        /\ UNCHANGED cells

OpenTimesOut(s) ==
    LET r == streams["Initiator"][s]
    IN  /\ r.sender \in {"AwaitingOpen", "OpenAsleep"}
        /\ ~r.open
        /\ Becomes("Initiator", s, [ResetRecord(r) EXCEPT !.sender = "None"])
        /\ UNCHANGED cells

\* accept_stream(): a queued stream is handed out even after a failure.  Several
\* threads accept, so the queue's order is left out.
AcceptStream(s) ==
    LET r == streams["Acceptor"][s]
    IN  /\ r.registered
        /\ r.sender = "None"
        /\ Becomes("Acceptor", s, [r EXCEPT !.sender = "Idle", !.receiver = "Idle"])
        /\ UNCHANGED cells

-----------------------------------------------------------------------------
(* Sending and receiving *)

InUse(e, s) == streams[e][s].sender \in {"Idle", "Asleep", "Sending"}

\* sendall() takes credit for its next chunk, or waits for some.  A stream that
\* failed but was not closed goes on as long as its credit lasts.
TakeCredit(e, s) ==
    LET r == streams[e][s]
    IN  /\ e \in Talkers
        /\ r.sender = "Idle"
        /\ ~r.localClosed /\ ~r.remoteClosed
        /\ r.sent < MaxUnits
        /\ \/ \E n \in 1 .. r.credit :
                 /\ r.sent + n <= MaxUnits
                 /\ Becomes(e, s, [r EXCEPT !.credit = @ - n, !.chunk = n, !.sender = "Sending"])
           \/ /\ r.credit = 0
              /\ r.error = "None" /\ ~Failed(e)
              /\ Becomes(e, s, [r EXCEPT !.sender = "Asleep"])
        /\ UNCHANGED cells

SendData(e, s) ==
    LET r == streams[e][s]
    IN  /\ r.sender = "Sending"
        /\ SendOrRaise(e, [i \in 1 .. r.chunk |-> Cell("DATA", s, 1)])
        /\ Becomes(e, s, [r EXCEPT !.sender = "Idle", !.chunk = 0,
                                   !.sent = IF CannotSend(e) THEN @ ELSE @ + r.chunk])

\* The budget of what recv() takes is given back later.
Take(e, s, n) ==
    /\ streams' = [streams EXCEPT ![e][s].buffer = @ - n,
                                  ![e][s].taken = n,
                                  ![e][s].receiver = "Taken"]
    /\ UNCHANGED mux

\* Mutant: the multiplexer is not asked before going to sleep.
ReceiveAsleepAnyway(e, s) ==
    LET r == streams[e][s]
    IN  /\ r.receiver = "Idle"
        /\ \/ \E n \in 1 .. r.buffer : Take(e, s, n)
           \/ /\ r.buffer = 0
              /\ ~r.remoteClosed /\ ~r.localClosed
              /\ r.error = "None"
              /\ Becomes(e, s, [r EXCEPT !.receiver = "Asleep"])
        /\ UNCHANGED cells

\* recv() takes bytes from the buffer, waits, or returns b"": for a stream that either
\* end has closed, with an error or without.
Receive(e, s) ==
    LET r == streams[e][s]
    IN  /\ r.receiver = "Idle"
        /\ \/ \E n \in 1 .. r.buffer : Take(e, s, n)
           \/ /\ r.buffer = 0
              /\ r.remoteClosed \/ r.localClosed
              /\ Becomes(e, s, [r EXCEPT !.eof = @ \/ (~r.localClosed /\ r.error = "None")])
           \/ /\ r.buffer = 0
              /\ ~r.remoteClosed /\ ~r.localClosed
              /\ r.error = "None" /\ ~Failed(e)
              /\ Becomes(e, s, [r EXCEPT !.receiver = "Asleep"])
        /\ UNCHANGED cells

\* What was taken is given back to the budget, ...
ReleaseTaken(e, s) ==
    LET r == streams[e][s]
    IN  /\ r.receiver = "Taken"
        /\ streams' = [streams EXCEPT ![e][s].receiver = "Released"]
        /\ mux' = [mux EXCEPT ![e].used = @ - r.taken]
        /\ UNCHANGED cells

\* The end of a recv() that took something.
RecvEnds(r, raised) ==
    [r EXCEPT !.receiver = "Idle", !.taken = 0,
              !.received = IF raised THEN @ ELSE @ + r.taken,
              !.dropped  = IF raised THEN @ + r.taken ELSE @]

\* Mutant: the peer is told of what is left in the buffer, not of what was taken.
SendWindowUpdateOfRest(e, s) ==
    LET r == streams[e][s]
    IN  /\ r.receiver = "Released"
        /\ SendOrRaise(e, <<Cell("WINDOW_UPDATE", s, r.buffer)>>)
        /\ Becomes(e, s, RecvEnds(r, CannotSend(e)))

\* ... and to the peer, before recv() returns it: when that raises, so does recv(), and
\* what it took is lost.
SendWindowUpdate(e, s) ==
    LET r == streams[e][s]
    IN  /\ r.receiver = "Released"
        /\ SendOrRaise(e, <<Cell("WINDOW_UPDATE", s, r.taken)>>)
        /\ Becomes(e, s, RecvEnds(r, CannotSend(e)))

\* A wait ends with the timeout of the stream.
WaitTimesOut(e, s) ==
    LET r == streams[e][s]
    IN  /\ r.sender = "Asleep" \/ r.receiver = "Asleep"
        /\ \/ Becomes(e, s, [r EXCEPT !.sender = IF @ = "Asleep" THEN "Idle" ELSE @])
           \/ Becomes(e, s, [r EXCEPT !.receiver = IF @ = "Asleep" THEN "Idle" ELSE @])
        /\ UNCHANGED cells

-----------------------------------------------------------------------------
(* Closing *)

\* Mutant: a closed stream is forgotten at once.
CloseForgets(e, s) ==
    /\ InUse(e, s)
    /\ ~streams[e][s].localClosed
    /\ Becomes(e, s, [ClosedRecord(streams[e][s]) EXCEPT !.registered = FALSE])
    /\ UNCHANGED cells

Close(e, s) ==
    /\ InUse(e, s)
    /\ ~streams[e][s].localClosed
    /\ Becomes(e, s, ClosedRecord(streams[e][s]))
    /\ UNCHANGED cells

Reset(e, s) ==
    /\ InUse(e, s)
    /\ ~streams[e][s].localClosed
    /\ Becomes(e, s, ResetRecord(streams[e][s]))
    /\ UNCHANGED cells

\* close() and reset() tell the peer, if the channel lets them.
SendFarewell(e, s) ==
    LET r == streams[e][s]
    IN  /\ r.farewell # "None"
        /\ SendOrRaise(e, <<Cell(r.farewell, s, 0)>>)
        /\ Becomes(e, s, [r EXCEPT !.farewell = "None",
                                   !.final = IF r.farewell = "CLOSE" THEN r.sent ELSE @])

\* CellMultiplexer.close(): no more cells, every stream fails, ...
CloseMux(e) ==
    /\ e \in Closers
    /\ ~mux[e].closed
    /\ mux' = [mux EXCEPT ![e].closed = TRUE, ![e].toFail = @ \cup Registered(e)]
    /\ UNCHANGED <<streams, cells>>

\* ... and then the channel goes.
DestroyChannel(e) ==
    /\ mux[e].closed /\ mux[e].toFail = {} /\ ~mux[e].broken
    /\ mux' = [mux EXCEPT ![e].broken = TRUE]
    /\ UNCHANGED <<streams, cells>>

\* One stream of those _fail() or close() has listed.
FailStream(e, s) ==
    /\ s \in mux[e].toFail
    /\ streams' = [streams EXCEPT ![e][s] = FailedRecord(@, "Multiplexer")]
    /\ mux' = [mux EXCEPT ![e].toFail = @ \ {s}, ![e].used = @ - streams[e][s].buffer]
    /\ UNCHANGED cells

-----------------------------------------------------------------------------
(* The reader and the channel *)

\* The reader ends with an error, which fails the multiplexer unless it is closed.
ReaderEnds(e, cause) ==
    mux' = [mux EXCEPT ![e] =
              [(IF @.closed THEN @ ELSE FailedMux(@, cause, Registered(e)))
                 EXCEPT !.reading = FALSE, !.acking = 0]]

Receivable(e) == mux[e].reading /\ mux[e].acking = 0 /\ cells[Peer(e)] # <<>>

\* A request to open a stream: it is registered before it is acknowledged.
HandleOpen(e) ==
    /\ Receivable(e)
    /\ LET cell == Head(cells[Peer(e)])
       IN  /\ cell.type = "OPEN"
           /\ IF streams[e][cell.id].registered \/ Cardinality(Registered(e)) >= MaxStreams
              THEN ReaderEnds(e, "Protocol") /\ UNCHANGED streams
              ELSE /\ streams' = [streams EXCEPT ![e][cell.id] =
                         [Unregistered EXCEPT !.registered = TRUE, !.open = TRUE,
                                              !.credit = cell.count]]
                   /\ mux' = [mux EXCEPT ![e].acking = cell.id]
           /\ cells' = [cells EXCEPT ![Peer(e)] = Tail(@)]

SendAck(e) ==
    /\ mux[e].acking # 0
    /\ SendOrRaise(e, <<Cell("ACK", mux[e].acking, StreamWindow)>>)
    /\ IF CannotSend(e) THEN ReaderEnds(e, "Channel")
       ELSE mux' = [mux EXCEPT ![e].acking = 0]
    /\ UNCHANGED streams

\* A cell for a stream that is registered, whatever became of it since.
HandleCell(e) ==
    /\ Receivable(e)
    /\ LET cell == Head(cells[Peer(e)])
           r    == streams[e][cell.id]
       IN  /\ cell.type # "OPEN"
           /\ IF r.registered THEN Becomes(e, cell.id, Dispatch(r, cell, mux[e].used))
              ELSE ReaderEnds(e, "Protocol") /\ UNCHANGED streams
           /\ cells' = [cells EXCEPT ![Peer(e)] = Tail(@)]

\* The reader finds its channel unusable, or the end of the peer's.  It may
\* first handle the rest of a batch it has decrypted.
ReaderStops(e) ==
    /\ mux[e].reading
    /\ mux[e].broken \/ mux[Peer(e)].broken
    /\ ReaderEnds(e, "Channel")
    /\ UNCHANGED <<streams, cells>>

\* A cover cell cannot be sent: the multiplexer fails while its reader goes on.
CoverFails(e) ==
    /\ mux[e].broken /\ ~Failed(e)
    /\ mux' = [mux EXCEPT ![e] = FailedMux(@, "Channel", Registered(e))]
    /\ UNCHANGED <<streams, cells>>

ChannelBreaks(e) ==
    /\ e \in Faults /\ ~mux[e].broken
    /\ mux' = [mux EXCEPT ![e].broken = TRUE]
    /\ UNCHANGED <<streams, cells>>

-----------------------------------------------------------------------------

StreamStep(e, s) ==
    \/ TakeCredit(e, s)
    \/ SendData(e, s)
    \/ Receive(e, s)
    \/ ReleaseTaken(e, s)
    \/ SendWindowUpdate(e, s)
    \/ WaitTimesOut(e, s)
    \/ Close(e, s)
    \/ Reset(e, s)
    \/ SendFarewell(e, s)
    \/ FailStream(e, s)

OpeningStep(s) ==
    \/ OpenStream(s)
    \/ SendOpen(s)
    \/ AwaitOpen(s)
    \/ OpenTimesOut(s)
    \/ AcceptStream(s)

MuxStep(e) ==
    \/ HandleOpen(e)
    \/ SendAck(e)
    \/ HandleCell(e)
    \/ CloseMux(e)
    \/ DestroyChannel(e)
    \/ ReaderStops(e)
    \/ CoverFails(e)
    \/ ChannelBreaks(e)

Next ==
    \/ \E e \in Ends, s \in Ids : StreamStep(e, s)
    \/ \E s \in Ids : OpeningStep(s)
    \/ \E e \in Ends : MuxStep(e)

Spec == Init /\ [][Next]_vars

\* The threads run, the sockets drain, the application accepts and goes on
\* receiving, and the end of a closed socket is seen.
Fairness ==
    /\ \A e \in Ends :
          /\ WF_vars(HandleOpen(e)) /\ WF_vars(HandleCell(e)) /\ WF_vars(SendAck(e))
          /\ WF_vars(DestroyChannel(e)) /\ WF_vars(ReaderStops(e))
    /\ \A e \in Ends, s \in Ids :
          /\ WF_vars(SendData(e, s)) /\ WF_vars(SendFarewell(e, s))
          /\ WF_vars(Receive(e, s)) /\ WF_vars(ReleaseTaken(e, s))
          /\ WF_vars(SendWindowUpdate(e, s)) /\ WF_vars(FailStream(e, s))
    /\ \A s \in Ids :
          WF_vars(SendOpen(s)) /\ WF_vars(AwaitOpen(s)) /\ WF_vars(AcceptStream(s))

FairSpec == Spec /\ Fairness

-----------------------------------------------------------------------------
(* Properties *)

\* w[1] + ... + w[n].
Total(w, n) ==
    LET sum[i \in 0 .. n] == IF i = 0 THEN 0 ELSE sum[i - 1] + w[i]
    IN  sum[n]

\* What each cell of a queue carries for stream s, if it is of one of the types.
Carried(queue, s, types) ==
    [i \in 1 .. Len(queue) |->
        IF queue[i].id = s /\ queue[i].type \in types THEN queue[i].count ELSE 0]

\* What the cells of stream s on the way from end e carry, by their type.
OnTheWay(e, s, types) == Total(Carried(cells[e], s, types), Len(cells[e]))

\* The window end f granted end e for stream s, wherever it is now: credit, data
\* on the way, unread, read and not yet granted again, or a grant on the way.
Accounted(e, s) ==
    LET f == Peer(e)
    IN  streams[e][s].credit + streams[e][s].chunk + OnTheWay(e, s, {"DATA"})
        + streams[f][s].buffer + streams[f][s].taken
        + OnTheWay(f, s, {"OPEN", "ACK", "WINDOW_UPDATE"})
        + IF mux[f].acking = s THEN StreamWindow ELSE 0

\* When recv() reports that the peer has closed a stream that has no error, everything
\* the peer sent before it closed the stream has been through recv(): it was returned,
\* or an earlier recv() raised with it.
EofComplete ==
    \A e \in Ends, s \in Ids : LET r == streams[e][s] IN
        r.eof => r.received + r.dropped = streams[Peer(e)][s].final

\* Nothing that was sent is lost or arrives twice.  It was received, is in the hands of
\* recv(), is unread, or is on the way; and less of it only at an end that failed or
\* closed its stream, or was told that the other end did.  With one exception: recv()
\* drops what it has taken when it cannot tell the peer of it, which happens only on a
\* channel that can send nothing any more.  The end of a stream comes after its data.
NothingLost ==
    /\ EofComplete
    /\ \A e \in Ends, s \in Ids :
        LET r   == streams[Peer(e)][s]
            got == r.received + r.dropped + r.taken + r.buffer + OnTheWay(e, s, {"DATA"})
        IN  /\ got <= streams[e][s].sent
            /\ got < streams[e][s].sent =>
                 r.localClosed \/ r.remoteClosed \/ r.error # "None"
            /\ r.dropped > 0 => CannotSend(Peer(e))

\* Flow control neither leaks nor invents credit: as long as both ends can send
\* and the receiving stream is open, the window is accounted for to the cell.
CreditConserved ==
    \A e \in Ends, s \in Ids : LET r == streams[Peer(e)][s] IN
        /\ r.registered /\ r.sender # "Opening"
        /\ ~r.localClosed /\ ~r.remoteClosed /\ r.error = "None"
        /\ ~CannotSend("Initiator") /\ ~CannotSend("Acceptor")
        => Accounted(e, s) = StreamWindow

\* Whatever closes, resets, timeouts and late cells do, an end that keeps the
\* protocol never breaks a rule its peer enforces: no window is exceeded, no
\* credit overflows, nothing is acknowledged twice, and no cell is for a stream
\* the peer does not know, which would take down all streams of the multiplexer.
PeerNeverFaulted ==
    /\ TypeOK
    /\ \A e \in Ends :
        /\ mux[e].cause # "Protocol"
        /\ \A s \in Ids : streams[e][s].error \notin {"OpenAck", "Window", "Credit"}

\* A multiplexer that failed or was closed gives its receive budget back, although its
\* reader may go on for a while and register a stream nobody will fail.
BudgetReturned ==
    \A e \in Ends :
        /\ Failed(e)
        /\ mux[e].toFail = {}
        /\ \A s \in Ids : streams[e][s].receiver # "Taken"
        => mux[e].used = 0

\* No thread sleeps on a stream that has what it waits for, has failed, or is of
\* a multiplexer that has failed and will not notify it any more.
NoLostWakeup ==
    \A e \in Ends, s \in Ids : LET r == streams[e][s] IN
        /\ r.sender = "Asleep" =>
             r.credit = 0 /\ ~r.localClosed /\ ~r.remoteClosed
        /\ r.receiver = "Asleep" =>
             r.buffer = 0 /\ ~r.localClosed /\ ~r.remoteClosed
        /\ r.sender = "OpenAsleep" => ~r.open
        /\ r.receiver = "Asleep" \/ r.sender \in {"Asleep", "OpenAsleep"} =>
             r.error = "None" /\ (Failed(e) => s \in mux[e].toFail)

\* A sender that ran out of credit is woken, by credit or by the end of the stream, as
\* long as the application at the other end goes on receiving.  Only an end whose
\* stream failed because the receive budget was used up leaves its peer asleep, until
\* it times out or the application closes the stream: nobody tells the peer.
CreditReturns ==
    \A e \in Ends, s \in Ids :
        streams[e][s].sender = "Asleep" ~>
            streams[e][s].sender # "Asleep" \/ streams[Peer(e)][s].error = "Budget"

=============================================================================
