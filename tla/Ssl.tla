--------------------------------- MODULE Ssl ---------------------------------
(***************************************************************************)
(* A TLS client and a TLS server over one TCP connection of the library.   *)
(* Of TCP (TCPv4Pair) what matters here is kept: segments of at most Mss   *)
(* pieces arrive once and in order, each is acknowledged, at most NSeg of  *)
(* them are out, and the acknowledgement of one may shut the window.       *)
(***************************************************************************)
EXTENDS SslContext

CONSTANTS
    Mss,            \* the pieces a segment carries at most
    NSeg,           \* the segments that may be in flight
    MaxRecords,     \* bound: data records that each side tries to send
    MaxShut         \* bound: windows that are shut

ASSUME SslAssumption == Mss \in Nat \ {0} /\ NSeg \in Nat \ {0} /\ MaxShut \in Nat

Sides == {"client", "server"}

Peer(e) == CHOOSE f \in Sides : f # e

VARIABLES
    ctx,            \* the contexts, which onConnected() creates
    net,            \* per side: the segments on their way to the other side
    acks,           \* per side: the acknowledgements on their way to it
    open,           \* per side: is the window of the other side open?
    fin,            \* per side: did it close the TCP connection?
    over,           \* how the TCP connection ended
    shut            \* history: how many times a window was shut

vars == <<ctx, net, acks, open, fin, over, shut>>

NoContexts == [e \in Sides |-> NewContext("None")]

NoSegments == [e \in Sides |-> <<>>]

Init ==
    /\ ctx = NoContexts
    /\ net = NoSegments
    /\ acks = [e \in Sides |-> 0]
    /\ open = [e \in Sides |-> TRUE]
    /\ fin = [e \in Sides |-> FALSE]
    /\ over = "no"
    /\ shut = 0

\* The connection is gone, and nothing of it is looked at any more.
Ends(how) ==
    /\ over' = how
    /\ ctx' = NoContexts
    /\ net' = NoSegments
    /\ acks' = [e \in Sides |-> 0]
    /\ fin' = [e \in Sides |-> FALSE]
    /\ UNCHANGED open

InFlight(e) == Len(net[e]) + acks[e]

MayTry(e) == ctx[e].written + ctx[e].ignored < MaxRecords[e]

\* onConnected(), of the client first.
OnConnected(e) ==
    /\ over = "no" /\ ctx[e].state = "None"
    /\ e = "server" => ctx["client"].state # "None"
    /\ ctx' = [ctx EXCEPT ![e] = NewContext(IF e = "client" THEN "Connect" ELSE "Accept")]
    /\ UNCHANGED <<net, acks, open, fin, over, shut>>

\* flush() of a client or server, by send() of TCP: without a free segment it is
\* blocked, with a shut window nothing is taken, else up to Mss pieces are.
Flush(e, c) ==
    LET n == IF open[e] THEN Least(Mss, Pending(c)) ELSE 0 IN
    CASE Pending(c) > 0 /\ InFlight(e) = NSeg ->
            ctx' = [ctx EXCEPT ![e] = [c EXCEPT !.blocked = TRUE]] /\ UNCHANGED net
      [] Pending(c) > 0 /\ InFlight(e) < NSeg /\ n > 0 ->
            /\ ctx' = [ctx EXCEPT ![e] = [c EXCEPT !.bout = Skip(@, n)]]
            /\ net' = [net EXCEPT ![e] = Append(@, Peek(c.bout, n))]
      [] OTHER -> ctx' = [ctx EXCEPT ![e] = c] /\ UNCHANGED net

\* connect() of the client, once the TCP connection is up.
Connect ==
    /\ over = "no" /\ ctx["client"].state = "Connect"
    /\ Flush("client", Handshake(ctx["client"]))
    /\ UNCHANGED <<acks, open, fin, over, shut>>

\* send(): SSL_write() may fail, and send() returns the result of flush().
Send(e) ==
    LET c == ctx[e] IN
    /\ over = "no" /\ c.state = "Ready" /\ ~ c.blocked /\ MayTry(e)
    /\ \E kind \in DataKinds :
        LET d == Put(c, kind) IN
        IF ~ Writable(c)  THEN Flush(e, [c EXCEPT !.ignored = @ + 1])
        ELSE IF d.wedged THEN Flush(e, [d EXCEPT !.ignored = @ + 1])
                         ELSE Flush(e, [d EXCEPT !.written = @ + 1])
    /\ UNCHANGED <<acks, open, fin, over, shut>>

\* Mutation: the shutdown is not sent.
CloseUnflushed(e) ==
    LET c == [ctx[e] EXCEPT !.state = "Shutdown"] IN
    /\ over = "no" /\ ctx[e].state = "Ready"
    /\ ctx' = [ctx EXCEPT ![e] = SayBye(c)]
    /\ fin' = [fin EXCEPT ![e] = c.gotBye]
    /\ UNCHANGED <<net, acks, open, over, shut>>

\* close(): TCP is closed if the shutdown of the peer came before.
Close(e) ==
    LET c == [ctx[e] EXCEPT !.state = "Shutdown"] IN
    /\ over = "no" /\ ctx[e].state = "Ready"
    /\ IF c.gotBye
       THEN fin' = [fin EXCEPT ![e] = TRUE] /\ ctx' = [ctx EXCEPT ![e] = c] /\ UNCHANGED net
       ELSE /\ UNCHANGED fin
            /\ IF SayBye(c).wedged
               THEN ctx' = [ctx EXCEPT ![e] = SayBye(c)] /\ UNCHANGED net
               ELSE Flush(e, SayBye(c))
    /\ UNCHANGED <<acks, open, over, shut>>

Abort(e) ==
    /\ over = "no" /\ ctx[e].state \in {"Ready", "Shutdown"}
    /\ Ends("aborted")
    /\ UNCHANGED shut

\* Mutation: what the answer took stays in bout too.
ReplyKeeps(e, r, can, to, acked) ==
    LET n == IF can THEN Least(Mss, Pending(r.c)) ELSE 0 IN
    IF r.action = "Abort" THEN Ends("aborted")
    ELSE /\ net' = IF n > 0 THEN [to EXCEPT ![e] = Append(@, Peek(r.c.bout, n))] ELSE to
         /\ ctx' = [ctx EXCEPT ![e] = r.c]
         /\ fin' = [fin EXCEPT ![e] = r.action = "Close"]
         /\ acks' = acked
         /\ UNCHANGED <<open, over>>

\* What TCP makes of the result of a callback.  If an answer can be sent it is
\* what the flush of the context took from bout; with a Close it is discarded.
Reply(e, r, can, to, acked) ==
    LET n == IF can /\ r.action = "Continue" THEN Least(Mss, Pending(r.c)) ELSE 0 IN
    IF r.action = "Abort" THEN Ends("aborted")
    ELSE /\ net' = IF n > 0 THEN [to EXCEPT ![e] = Append(@, Peek(r.c.bout, n))] ELSE to
         /\ ctx' = [ctx EXCEPT ![e] = [r.c EXCEPT !.bout = Skip(@, n)]]
         /\ fin' = [fin EXCEPT ![e] = r.action = "Close"]
         /\ acks' = acked
         /\ UNCHANGED <<open, over>>

\* onNewData().  A side that closed the TCP connection takes no data.
OnNewData(e) ==
    LET f == Peer(e)
        c == Receive(ctx[e], Head(net[f]))
        to == [net EXCEPT ![f] = Tail(@)]
        acked == [acks EXCEPT ![f] = @ + 1]
        can == InFlight(e) < NSeg /\ open[e]
    IN  /\ over = "no" /\ ctx[e].state # "None" /\ net[f] # <<>>
        /\ \/ fin[e] /\ net' = to /\ acks' = acked /\ UNCHANGED <<ctx, open, fin, over>>
           \/ /\ ~ fin[e]
              /\ \E answer \in Answers :
                    /\ answer = "Respond" => can /\ MayTry(e)
                    /\ \E n \in IF c.state = "Ready" THEN Reads(c, answer) ELSE {0} :
                        Reply(e, IF can THEN NewData(c, n, answer)
                                        ELSE NewDataNoAnswer(c, n, answer), can, to, acked)
        /\ UNCHANGED shut

\* onAcked().  With a shut window there can be no answer; then the delegate is
\* only called in Ready, and blocked stays.
OnAcked(e) ==
    LET c == ctx[e]
        acked == [acks EXCEPT ![e] = @ - 1]
    IN  /\ over = "no" /\ acks[e] > 0
        /\ \/ fin[e] /\ acks' = acked /\ UNCHANGED <<ctx, net, open, fin, over, shut>>
           \/ /\ ~ fin[e] /\ open[e]
              /\ \E answer \in Answers :
                    /\ answer = "Respond" => MayTry(e)
                    /\ Reply(e, Acked(c, answer), TRUE, net, acked)
              /\ UNCHANGED shut
           \/ /\ ~ fin[e] /\ ~ open[e]
              /\ \E answer \in IF c.state = "Ready" THEN Answers \ {"Respond"} ELSE {"Continue"} :
                    Reply(e, Result(c, answer), FALSE, net, acked)
              /\ UNCHANGED shut

\* The peer shuts its window, with the next acknowledgement.
WindowShuts(e) ==
    /\ over = "no" /\ open[e] /\ acks[e] > 0 /\ shut < MaxShut
    /\ open' = [open EXCEPT ![e] = FALSE]
    /\ shut' = shut + 1
    /\ UNCHANGED <<ctx, net, acks, fin, over>>

\* The peer opens its window again; TCP calls nobody.
WindowOpens(e) ==
    /\ over = "no" /\ ~ open[e]
    /\ open' = [open EXCEPT ![e] = TRUE]
    /\ UNCHANGED <<ctx, net, acks, fin, over, shut>>

\* The FIN of a side arrives behind its data, and the connection is closed.
OnClosed(e) ==
    /\ over = "no" /\ fin[e] /\ net[e] = <<>>
    /\ Ends("closed")
    /\ UNCHANGED shut

Next ==
    \/ Connect
    \/ \E e \in Sides :
        \/ OnConnected(e) \/ Send(e) \/ Close(e) \/ Abort(e)
        \/ OnNewData(e) \/ OnAcked(e) \/ WindowShuts(e) \/ WindowOpens(e) \/ OnClosed(e)

Spec == Init /\ [][Next]_vars

-----------------------------------------------------------------------------
(***************************************************************************)
(* Properties.                                                             *)
(***************************************************************************)

\* Type invariant.
TypeOK ==
    /\ \A e \in Sides :
        /\ ctx[e].state \in {"None", "Connect", "Accept", "Ready", "Shutdown"}
        /\ Available(ctx[e].bout) \in 0 .. Size
        /\ ctx[e].hs \in 0 .. 4
        /\ InFlight(e) \in 0 .. NSeg
    /\ over \in {"no", "closed", "aborted"}
    /\ shut \in 0 .. MaxShut

\* The pieces of e that its peer has not read: those that came, those in segments,
\* and those in bout.
OnTheWay(e) ==
    ToSet(ctx[Peer(e)].bin)
        \cup (UNION {ToSet(net[e][k]) : k \in 1 .. Len(net[e])})
        \cup ToSet(Peek(ctx[e].bout, Pending(ctx[e])))

\* The number of the last piece of the k-th segment of e, by what follows it; with
\* k = 0, of the last piece that came.
EndOf(e, k) ==
    IF k = Len(net[e]) THEN ctx[e].made - Pending(ctx[e]) ELSE net[e][k + 1][1].no - 1

\* The pieces are numbered one by one, up to this number.
Numbered(pieces, end) ==
    \A i \in 1 .. Len(pieces) : pieces[i].no + Len(pieces) = end + i

\* The ciphertext is one stream: whichever way it left bout, by flush() of the
\* API or in the answer of a callback, no piece is lost, repeated or overtaken.
StreamIntact ==
    \A e \in Sides :
        /\ Numbered(Peek(ctx[e].bout, Pending(ctx[e])), ctx[e].made)
        /\ \A k \in 1 .. Len(net[e]) :
            net[e][k] # <<>> /\ Numbered(net[e][k], EndOf(e, k))
        /\ ~ fin[Peer(e)] => Numbered(ctx[Peer(e)].bin, EndOf(e, 0))

\* A record that SSL_write() took is given to the delegate of the other side, or
\* is still on its way, until that side closes.
WrittenIsKept ==
    \A e \in Sides :
        LET f == Peer(e)
        IN ~ fin[f] /\ ~ ctx[f].gotBye /\ ~ ctx[e].wedged =>
            ctx[e].written - ctx[f].given
                = Cardinality({p \in OnTheWay(e) : p.kind \in DataKinds /\ p.last})

\* "Process the internal buffer as long as there is data available": in Ready no
\* complete record waits to be read.
ReadIsComplete ==
    \A e \in Sides : ctx[e].state = "Ready" => Complete(ctx[e]) = {}

\* It is so at least once SSL_read() was called.
LaterReadIsComplete ==
    \A e \in Sides : ctx[e].state = "Ready" /\ ctx[e].read => Complete(ctx[e]) = {}

Calm == over = "no" /\ shut = 0 /\ \A e \in Sides : ~ ctx[e].wedged

\* TCP delivered and acknowledged everything, and calls back no more.
Idle ==
    /\ Calm
    /\ \A e \in Sides : ctx[e].state # "None" /\ net[e] = <<>> /\ acks[e] = 0 /\ ~ fin[e]

\* Nobody waits for a callback that does not come: when TCP is idle, nothing is
\* left in bout, no send() is blocked, the handshake that was begun is over, and
\* a shutdown too, unless that of the peer is left unread.
NothingIsStuck ==
    Idle /\ ctx["client"].hs > 0 =>
        \A e \in Sides :
            /\ Pending(ctx[e]) = 0 /\ ~ ctx[e].blocked
            /\ HandshakeOver(ctx[e])
            /\ ctx[e].state = "Shutdown" => ~ ReadIsComplete
=============================================================================
