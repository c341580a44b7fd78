------------------------------ MODULE Latency ------------------------------
(***************************************************************************)
(* The latency test: a client that sends numbered messages, each in as     *)
(* many calls as the stack needs, and a server that checks the numbers.    *)
(* Between them the stack cuts what it takes into segments.                *)
(***************************************************************************)
EXTENDS ClientCalls, Sequences

CONSTANTS
    Lengths,        \* the lengths a message may have
    Count,          \* the number of messages, an option
    MSS,
    MaxQueue        \* segments in flight, SEGMENT_COUNT

ASSUME LatencyAssumption ==
    /\ Lengths \subseteq Nat \ {0}
    /\ Count \in Nat \ {0} /\ MSS \in Nat \ {0} /\ MaxQueue \in Nat \ {0}

VARIABLES
    opts,           \* the options: length, nodelay and wait
    state,
    keep_running,
    local,          \* keep_running_local
    sends,
    res,
    buf,            \* external: the send buffer of the connection
    segs,           \* external: its segments on their way
    server          \* the delegate of the server, and what it was given

latencyVars == <<opts, state, keep_running, local, sends, res, buf, segs, server>>

NewServer == [up |-> TRUE, m_next |-> 0, errors |-> 0, data |-> <<>>]

LatencyInit ==
    /\ opts \in [length : Lengths, nodelay : BOOLEAN, wait : BOOLEAN]
    /\ state = "Open" /\ keep_running = TRUE /\ local = TRUE
    /\ sends = 0 /\ res = 0
    /\ buf = <<>> /\ segs = <<>>
    /\ server = NewServer

\* The one handle of the client.
Id == 0

wireVars == <<buf, segs, server>>

-----------------------------------------------------------------------------
(***************************************************************************)
(* The client.                                                             *)
(***************************************************************************)
Opens ==
    /\ state = "Open"
    /\ Open(Id) /\ UNCHANGED arp
    /\ state' = "Connect"
    /\ UNCHANGED <<opts, keep_running, local, sends, res, wireVars>>

\* wait() brought nothing: run() is called, and without a break the error too.
WaitsInVain ==
    /\ local /\ state # "Open" /\ opts.wait
    /\ local' = FALSE
    /\ UNCHANGED <<apiVars, opts, state, keep_running, sends, res, wireVars>>

Connects ==
    /\ local /\ state = "Connect"
    /\ \E st \in {"Ok", "OperationInProgress", "NoMoreResources", "InvalidConnection"} :
        /\ ConnectReturns(Id, st)
        /\ local' = (keep_running /\ st \in {"Ok", "OperationInProgress"})
        /\ state' = IF st = "Ok" THEN "Run" ELSE state
    /\ UNCHANGED <<opts, keep_running, sends, res, wireVars>>

\* keep_running is looked at before anything is sent.
Stops ==
    /\ local /\ state = "Run" /\ ~ keep_running
    /\ \E st \in {"Ok", "NotConnected"} : CloseReturns(Id, st)
    /\ state' = "Closing"
    /\ UNCHANGED <<opts, keep_running, local, sends, res, wireVars>>

SendFails ==
    /\ local /\ state = "Run" /\ keep_running
    /\ ~ IsEstablished(Id)
    /\ local' = FALSE
    /\ UNCHANGED <<apiVars, opts, state, keep_running, sends, res, wireVars>>

\* The bytes of message k from offset a up to b.
Piece(k, a, b) == [i \in 1 .. b - a |-> <<k, a + i - 1>>]

\* What the stack does with what it took: the buffer goes out at once, when it
\* is full, or when nothing is in flight.
Transmit(data) ==
    IF Len(segs) < MaxQueue /\ (opts.nodelay \/ Len(data) = MSS \/ segs = <<>>)
    THEN segs' = Append(segs, data) /\ buf' = <<>>
    ELSE buf' = data /\ UNCHANGED segs

\* Mutation: a message counts as sent once a part of it is.
CountedParts(to) == IF to >= 1 THEN sends + 1 ELSE sends

\* sends, once the stack has taken the message up to here.
Counted(to) == IF to = opts.length THEN sends + 1 ELSE sends

\* The number is written into the message again before every call, also in the
\* middle of a message.
Sends ==
    /\ local /\ state = "Run" /\ keep_running
    /\ IsEstablished(Id)
    /\ opts.nodelay => Len(segs) < MaxQueue
    /\ \E to \in {res + MSS - Len(buf), opts.length} :
        /\ res < to /\ to <= opts.length /\ to - res <= MSS - Len(buf)
        /\ Transmit(buf \o Piece(sends, res, to))
        /\ sends' = Counted(to)
        /\ res' = IF to = opts.length THEN 0 ELSE to
    /\ keep_running' = (sends' # Count)
    /\ UNCHANGED <<apiVars, opts, state, local, server>>

\* Mutation: the loop waits for a close() that is accepted.
FinishesOnOk ==
    /\ local /\ state = "Closing"
    /\ CloseReturns(Id, "Ok") /\ IsClosed(Id)
    /\ local' = FALSE
    /\ UNCHANGED <<opts, keep_running, sends, res, state, wireVars>>

\* The slot does not take another close(), and the handle was told of the end.
Finishes ==
    /\ local /\ state = "Closing"
    /\ CloseReturns(Id, "NotConnected") /\ IsClosed(Id)
    /\ local' = FALSE
    /\ UNCHANGED <<opts, state, keep_running, sends, res, wireVars>>

\* signal_handler(), between any two steps.
Interrupt ==
    /\ keep_running /\ local
    /\ keep_running' = FALSE
    /\ UNCHANGED <<apiVars, opts, state, local, sends, res, wireVars>>

-----------------------------------------------------------------------------
(***************************************************************************)
(* The server, and the wire.                                               *)
(***************************************************************************)
\* onNewData() takes what a segment begins with for the number of a message.
OnNewData(data) ==
    server' = [server EXCEPT
        !.m_next = @ + 1,
        !.errors = IF Head(data)[1] = server.m_next THEN @ ELSE @ + 1,
        !.data = @ \o data]

Delivers ==
    /\ segs # <<>> /\ server.up
    /\ OnNewData(Head(segs))
    /\ segs' = Tail(segs)
    /\ UNCHANGED <<apiVars, opts, state, keep_running, local, sends, res, buf>>

\* An ACK came, and nothing is in flight.
Flushes ==
    /\ segs = <<>> /\ buf # <<>> /\ IsEstablished(Id)
    /\ segs' = <<buf>> /\ buf' = <<>>
    /\ UNCHANGED <<apiVars, opts, state, keep_running, local, sends, res, server>>

\* The loop of the server ends, on a signal or an error of its device.
ServerStops ==
    /\ server.up
    /\ server' = [server EXCEPT !.up = FALSE]
    /\ UNCHANGED <<apiVars, opts, state, keep_running, local, sends, res, buf, segs>>

\* A turn of the loop of the client.
Turn ==
    \/ Opens \/ Connects \/ Stops \/ SendFails \/ Sends \/ Finishes

LatencyNext ==
    \/ Turn \/ WaitsInVain \/ Interrupt
    \/ Delivers \/ Flushes \/ ServerStops
    \/ local /\ CallsNext /\ UNCHANGED latencyVars
=============================================================================
