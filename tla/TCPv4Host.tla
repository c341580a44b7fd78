----------------------------- MODULE TCPv4Host -----------------------------
(***************************************************************************)
(* A tcpv4::Processor with one slot in its connection table, and the       *)
(* application on top of it (the EventHandler).  Frames come in from inp   *)
(* and go out to outp; what the other end and the network do is left to    *)
(* the modules that instantiate this one.                                  *)
(*                                                                         *)
(* There is one action per branch of process() and per operation of the    *)
(* API.  In an action, f is the frame being processed, wnd the window that *)
(* the device has room for at that moment.                                 *)
(*                                                                         *)
(* Time is abstract: the retransmission timer of a connection may expire   *)
(* whenever it runs, if Impatient, and only when no frame is on its way    *)
(* otherwise.                                                              *)
(***************************************************************************)
EXTENDS TCPv4Connection

CONSTANTS
    Listening,      \* is the port of the connection in m_listenports?
    InitialSeqs,    \* the values m_iss may have when a connection opens
    NoDelay,        \* Connection::NO_DELAY is set
    DelayedAck,     \* Connection::DELAYED_ACK is set
    MaxBytes,       \* how many bytes the application has to send
    Reactions,      \* what its callbacks may return: a subset of Actions
    Replies,        \* how many bytes its callbacks may write
    Calls,          \* the API calls it may make
    Windows,        \* the windows that the device may advertise
    MaxConnects,    \* how many connections it opens
    MaxQueue,       \* how many frames may wait in outp for an empty one to follow
    Impatient       \* may a timer expire while frames are on their way?

Actions == {"Continue", "Abort", "Close"}

ASSUME HostAssumption ==
    /\ Listening \in BOOLEAN /\ NoDelay \in BOOLEAN /\ DelayedAck \in BOOLEAN
    /\ Impatient \in BOOLEAN
    /\ InitialSeqs \subseteq SeqNos
    /\ MaxBytes \in Nat /\ MaxConnects \in Nat /\ MaxQueue \in Nat
    /\ Reactions \subseteq Actions
    /\ Replies \subseteq Nat
    /\ Calls \subseteq {"Connect", "Send", "Close", "Abort"}
    /\ Windows \subseteq Nat

VARIABLES
    conn,           \* the connection
    app,            \* what the application did and saw on this connection
    inp,            \* frames on their way to this host
    outp            \* frames on their way to its peer

vars == <<conn, app, inp, outp>>

(***************************************************************************)
(* The application: how many bytes it handed over, the bytes it was given, *)
(* the connection events it was told of, the initial sequence numbers of   *)
(* both ends, and whether the slot was free of segments when it was taken. *)
(* Except for sent these are history: no guard of the stack depends on     *)
(* them.                                                                   *)
(***************************************************************************)
NewApp(iss, irs) ==
    [sent |-> 0, rcvd |-> <<>>, log |-> <<>>, iss |-> iss, irs |-> irs,
     clean |-> ~ HasOutstandingSegments(conn)]

Told(a, event) == [a EXCEPT !.log = Append(@, event)]

Given(a, dat) == [a EXCEPT !.rcvd = @ \o dat]

\* n more bytes of the application at the end of the send buffer.
Write(c, a, n) == [c EXCEPT !.buf = @ \o [p \in 1 .. n |-> a.sent + p]]

Init ==
    /\ conn = NoConnection
    /\ app = [sent |-> 0, rcvd |-> <<>>, log |-> <<>>, iss |-> 0, irs |-> 0,
              clean |-> TRUE]
    /\ inp = <<>>
    /\ outp = <<>>

(***************************************************************************)
(* The end of a step: result r of the connection, application a.           *)
(***************************************************************************)
Become(r, a) ==
    /\ conn' = r.c
    /\ app' = a
    /\ outp' = outp \o r.out

Take == inp' = Tail(inp)

Nothing(c) == Result(c, <<>>)

-----------------------------------------------------------------------------
(***************************************************************************)
(* Demultiplexing: Processor::process(len, data).                          *)
(***************************************************************************)
Matches(f) == conn.state # "CLOSED" /\ conn.port = f.port

\* A new connection takes a CLOSED slot, or one in TIME_WAIT.
OnSyn(f, wnd) ==
    /\ ~ Matches(f)
    /\ f.flags = SYN /\ Listening
    /\ conn.state \in {"CLOSED", "TIME_WAIT"}
    /\ HasAvailableSegments(conn)
    /\ \E iss \in InitialSeqs :
          Become(SendSynAck(Opened(conn, "SYN_RCVD", f.port, iss,
                                   SeqAdd(f.seq, 1), f.wnd, 0), wnd),
                 NewApp(iss, f.seq))

\* All connections are in use: the SYN is dropped.
OnSynDropped(f) ==
    /\ ~ Matches(f)
    /\ f.flags = SYN /\ Listening
    /\ conn.state \notin {"CLOSED", "TIME_WAIT"}
    /\ Become(Nothing(conn), app)

OnUnmatched(f) ==
    /\ ~ Matches(f)
    /\ f.flags # SYN \/ ~ Listening
    /\ Become(Result(conn, IF "RST" \in f.flags THEN <<>> ELSE <<ResetFrame(f)>>),
              app)

(***************************************************************************)
(* process(e, len, data): what all states share.                           *)
(***************************************************************************)
\* Mutation: the connection survives the RST.
OnResetStays(f) ==
    /\ Matches(f)
    /\ "RST" \in f.flags
    /\ Become(Nothing(conn), Told(app, "Aborted"))

OnReset(f) ==
    /\ Matches(f)
    /\ "RST" \in f.flags
    /\ Become(Nothing([conn EXCEPT !.state = "CLOSED"]), Told(app, "Aborted"))

OnUnexpected(f, wnd) ==
    /\ Matches(f)
    /\ "RST" \notin f.flags
    /\ ~ IsExpected(conn, f)
    /\ \E r \in SendAcks(conn, wnd) : Become(r, app)

\* The frame goes on to the ACK scan.
Accepted(f) ==
    /\ Matches(f)
    /\ "RST" \notin f.flags
    /\ IsExpected(conn, f)

OnRexmitRequest(f, wnd) ==
    /\ Accepted(f)
    /\ AsksRexmit(conn, f)
    /\ Become(Rexmit([Scanned(conn, f) EXCEPT !.wnd = f.wnd], wnd), app)

\* The frame goes on to the switch over the states.
Reaches(state, f) ==
    /\ Accepted(f)
    /\ ~ AsksRexmit(conn, f)
    /\ conn.state = state

\* The state after n more bytes of the peer.
Received(c, n) == [c EXCEPT !.rcv_nxt = SeqAdd(@, n)]

-----------------------------------------------------------------------------
(***************************************************************************)
(* process(e, len, data): the states.                                      *)
(***************************************************************************)
InSynRcvd(f, wnd) ==
    /\ Reaches("SYN_RCVD", f)
    /\ LET c == [Scanned(conn, f) EXCEPT !.state = "ESTABLISHED"]
           up == Told(app, "Connected")
       IN  \/ /\ ~ AckData(conn, f)
              /\ Become(Nothing(conn), app)
           \/ /\ AckData(conn, f) /\ f.dat = <<>>
              /\ Become(Nothing(c), up)
           \/ /\ AckData(conn, f) /\ f.dat # <<>>
              /\ \E r \in SendAcks(Received(c, Len(f.dat)), wnd) :
                    Become(r, Given(up, f.dat))

\* Data on the SYN/ACK is given to the application but not counted in rcv_nxt.
InSynSent(f, wnd) ==
    /\ Reaches("SYN_SENT", f)
    /\ IF AckData(conn, f) /\ f.flags = SYNACK
       THEN \E r \in SendAcks([Scanned(conn, f) EXCEPT !.state = "ESTABLISHED",
                                                       !.rcv_nxt = SeqAdd(f.seq, 1),
                                                       !.wnd = f.wnd], wnd) :
               Become(r, Given(Told([app EXCEPT !.irs = f.seq], "Connected"), f.dat))
       ELSE Become(SendAbort(Scanned(conn, f), wnd), Told(app, "Aborted"))

\* The connection closes from this side: FIN, and what was in the buffer is lost.
InEstablishedFin(f, wnd) ==
    /\ Reaches("ESTABLISHED", f)
    /\ "FIN" \in f.flags
    /\ LET c == Scanned(conn, f)
       IN  IF HasOutstandingSegments(c)
           THEN Become(Nothing(c), app)
           ELSE Become(SendFinAck([Received(c, Len(f.dat) + 1)
                                      EXCEPT !.state = "LAST_ACK"], wnd),
                       Given(app, f.dat))

(***************************************************************************)
(* The callbacks.  A reaction is what a callback returns, the connection   *)
(* with what it wrote, and the application after it.                       *)
(***************************************************************************)
Continues(c, a) == [act |-> "Continue", c |-> c, a |-> a]

Room(c) == IF CanSend(c) THEN Bound(c) - Len(c.buf) ELSE 0

Called(c, a) ==
    {[act |-> act, c |-> c, a |-> a] : act \in Reactions \ {"Continue"}}
    \cup
    {Continues(Write(c, a, n), [a EXCEPT !.sent = @ + n]) :
        n \in {m \in Replies \cup {0} : m <= Room(c) /\ a.sent + m <= MaxBytes}}

\* Action::Abort and Action::Close.
Ended(k, wnd) ==
    IF k.act = "Abort" THEN SendAbort(k.c, wnd) ELSE SendClose(k.c, wnd)

\* After the callbacks: send what is in the buffer, or else the delayed ACK.
\* canSend was computed before the last callback wrote to the buffer.
Flushed(c, canSend, new, wnd) ==
    IF HasPendingSendData(c) /\ canSend
    THEN {SendNoDelay(c, wnd)}
    ELSE IF DelayedAck /\ new THEN SendAcks(c, wnd) ELSE {Nothing(c)}

\* m_newdata: without DELAYED_ACK the ACK goes first, then onNewData is called.
NewData(k, dat, wnd) ==
    \E r1 \in IF DelayedAck THEN {Nothing(k.c)} ELSE SendAcks(k.c, wnd) :
    \E k2 \in Called(r1.c, Given(k.a, dat)) :
    \E r2 \in IF k2.act = "Continue"
              THEN Flushed(k2.c, CanSend(r1.c), TRUE, wnd)
              ELSE {Ended(k2, wnd)} :
        Become(Result(r2.c, r1.out \o r2.out), k2.a)

\* onAcked first, then onNewData, unless onAcked ended the connection.
InEstablished(f, wnd) ==
    /\ Reaches("ESTABLISHED", f)
    /\ "FIN" \notin f.flags
    /\ LET acked == AckData(conn, f)
           new == f.dat # <<>>
           c == [Received(Scanned(conn, f), Len(f.dat)) EXCEPT !.wnd = f.wnd]
       IN  \E k \in IF acked THEN Called(c, app) ELSE {Continues(c, app)} :
              \/ /\ k.act # "Continue"
                 /\ Become(Ended(k, wnd), k.a)
              \/ /\ k.act = "Continue" /\ new
                 /\ NewData(k, f.dat, wnd)
              \/ /\ k.act = "Continue" /\ ~ new
                 /\ \E r \in IF acked THEN Flushed(k.c, CanSend(k.c), FALSE, wnd)
                                     ELSE {Nothing(k.c)} :
                       Become(r, k.a)

(***************************************************************************)
(* The states of a connection that is closing.  Data that comes in is      *)
(* counted in rcv_nxt but not given to the application any more.           *)
(***************************************************************************)
InLastAck(f) ==
    /\ Reaches("LAST_ACK", f)
    /\ IF AckData(conn, f)
       THEN Become(Nothing([Scanned(conn, f) EXCEPT !.state = "CLOSED"]),
                   Told(app, "Closed"))
       ELSE Become(Nothing(conn), app)

\* Any ACK that clears a segment counts as the one of the FIN.
InFinWait1(f, wnd) ==
    /\ Reaches("FIN_WAIT_1", f)
    /\ LET acked == AckData(conn, f)
           c == Received(Scanned(conn, f), Len(f.dat))
           next == IF acked THEN "TIME_WAIT" ELSE "CLOSING"
       IN  \/ /\ "FIN" \in f.flags
              /\ \E r \in SendAcks([Received(c, 1) EXCEPT !.state = next], wnd) :
                    Become(r, Told(app, "Closed"))
           \/ /\ "FIN" \notin f.flags /\ acked
              /\ Become(Nothing([c EXCEPT !.state = "FIN_WAIT_2"]), app)
           \/ /\ "FIN" \notin f.flags /\ ~ acked
              /\ \E r \in IF f.dat = <<>> THEN {Nothing(c)} ELSE SendAcks(c, wnd) :
                    Become(r, app)

InFinWait2(f, wnd) ==
    /\ Reaches("FIN_WAIT_2", f)
    /\ LET c == Received(Scanned(conn, f), Len(f.dat))
       IN  \/ /\ "FIN" \in f.flags
              /\ \E r \in SendAcks([Received(c, 1) EXCEPT !.state = "TIME_WAIT"], wnd) :
                    Become(r, Told(app, "Closed"))
           \/ /\ "FIN" \notin f.flags
              /\ \E r \in IF f.dat = <<>> THEN {Nothing(c)} ELSE SendAcks(c, wnd) :
                    Become(r, app)

\* Whatever comes in is answered by an ACK.
InTimeWait(f, wnd) ==
    /\ Reaches("TIME_WAIT", f)
    /\ \E r \in SendAcks(Scanned(conn, f), wnd) : Become(r, app)

\* The application asked to close while segments were in flight.
InClose(f, wnd) ==
    /\ Reaches("CLOSE", f)
    /\ LET c == Scanned(conn, f)
       IN  IF HasOutstandingSegments(c)
           THEN Become(Nothing(c), app)
           ELSE Become(SendFinAck([Received(c, Len(f.dat))
                                     EXCEPT !.state = "FIN_WAIT_1"], wnd), app)

InClosing(f) ==
    /\ Reaches("CLOSING", f)
    /\ Become(Nothing(IF AckData(conn, f)
                      THEN [Scanned(conn, f) EXCEPT !.state = "TIME_WAIT"]
                      ELSE conn), app)

Receive ==
    /\ inp # <<>>
    /\ Take
    /\ LET f == Head(inp)
       IN  \E wnd \in Windows :
              \/ OnSyn(f, wnd) \/ OnSynDropped(f) \/ OnUnmatched(f)
              \/ OnReset(f) \/ OnUnexpected(f, wnd) \/ OnRexmitRequest(f, wnd)
              \/ InSynRcvd(f, wnd) \/ InSynSent(f, wnd)
              \/ InEstablishedFin(f, wnd) \/ InEstablished(f, wnd)
              \/ InLastAck(f) \/ InFinWait1(f, wnd) \/ InFinWait2(f, wnd)
              \/ InTimeWait(f, wnd) \/ InClose(f, wnd) \/ InClosing(f)

-----------------------------------------------------------------------------
(***************************************************************************)
(* The API of the processor, Client.cpp.                                   *)
(***************************************************************************)

\* A new connection has a port of its own.
Connect ==
    /\ "Connect" \in Calls
    /\ conn.port < MaxConnects
    /\ conn.state \in {"CLOSED", "TIME_WAIT"}
    /\ HasAvailableSegments(conn)
    /\ \E iss \in InitialSeqs, wnd \in Windows :
          Become(SendSyn(Opened(conn, "SYN_SENT", conn.port + 1, iss, 0, 0, 1), wnd),
                 NewApp(iss, 0))
    /\ UNCHANGED inp

\* Mutation: send() does not look at the state.
SendInAnyState(n) ==
    /\ "Send" \in Calls
    /\ conn.state # "CLOSED" /\ HasAvailableSegments(conn)
    /\ app.sent + n <= MaxBytes
    /\ \E wnd \in Windows : Become(SendNoDelay(Write(conn, app, n), wnd),
                                   [app EXCEPT !.sent = @ + n])
    /\ UNCHANGED inp

\* The application has n bytes left in the payload it passes to send().
Send(n) ==
    /\ "Send" \in Calls
    /\ conn.state = "ESTABLISHED"
    /\ app.sent + n <= MaxBytes
    /\ NoDelay => HasAvailableSegments(conn)
    /\ Len(conn.buf) <= Bound(conn)
    /\ LET room == Bound(conn) - Len(conn.buf)
           slen == IF n <= room THEN n ELSE room
           c == Write(conn, app, slen)
       IN  /\ slen = 0 => Len(outp) < MaxQueue
           /\ \E wnd \in Windows :
                 Become(CASE ~ HasAvailableSegments(c) -> Nothing(c)
                          [] HasAvailableSegments(c) /\ NoDelay -> SendNoDelay(c, wnd)
                          [] OTHER -> SendNagle(c, wnd),
                        [app EXCEPT !.sent = @ + slen])
    /\ UNCHANGED inp

Close ==
    /\ "Close" \in Calls
    /\ conn.state = "ESTABLISHED"
    /\ \E wnd \in Windows :
          Become(IF HasOutstandingSegments(conn)
                 THEN Nothing([conn EXCEPT !.state = "CLOSE"])
                 ELSE SendClose(conn, wnd), app)
    /\ UNCHANGED inp

\* The callback comes first, then the RST.  abort() tests no state itself:
\* api::Client::abort, which calls it, only does so for a connection it
\* believes open, and here that is one that is not CLOSED.
Abort ==
    /\ "Abort" \in Calls
    /\ conn.state # "CLOSED"
    /\ \E wnd \in Windows : Become(SendAbort(conn, wnd), Told(app, "Aborted"))
    /\ UNCHANGED inp

(***************************************************************************)
(* The timer scan, Processor::run.  A connection in TIME_WAIT or FIN_WAIT_2 *)
(* with segments in flight neither expires nor retransmits: its timer is   *)
(* increased and decreased by every scan.                                  *)
(***************************************************************************)
TimersMayExpire == Impatient \/ (inp = <<>> /\ outp = <<>>)

\* Mutation: TIME_WAIT is left out of the states that wait.
WaitsInFinWait2 == conn.state = "FIN_WAIT_2"

Waits == conn.state \in {"TIME_WAIT", "FIN_WAIT_2"}

TimerRuns ==
    /\ TimersMayExpire
    /\ conn.state # "CLOSED"
    /\ Waits # HasOutstandingSegments(conn)

RexmitTimeout ==
    /\ TimerRuns /\ ~ Waits
    /\ conn.nrtx < MaxRtx
    /\ \E wnd \in Windows : Become(Rexmit([conn EXCEPT !.nrtx = @ + 1], wnd), app)
    /\ UNCHANGED inp

TimedOut ==
    /\ TimerRuns /\ ~ Waits
    /\ conn.nrtx = MaxRtx
    /\ \E wnd \in Windows : Become(SendAbort(conn, wnd), Told(app, "TimedOut"))
    /\ UNCHANGED inp

WaitExpires ==
    /\ TimerRuns /\ Waits
    /\ Become(Nothing([conn EXCEPT !.state = "CLOSED"]), app)
    /\ UNCHANGED inp

Timers == RexmitTimeout \/ TimedOut \/ WaitExpires

Next ==
    \/ Receive
    \/ Connect \/ Close \/ Abort
    \/ \E n \in 1 .. MaxBytes : Send(n)
    \/ Timers
=============================================================================
