---------------------------- MODULE TCPv4AnyPeer ----------------------------
(***************************************************************************)
(* A host against any peer.  The stack is meant to talk to others than     *)
(* itself (Linux above all), so the peer here is every program that sends  *)
(* TCP frames: it may acknowledge anything, close, reset or fall silent.   *)
(* It is honest about one thing: at a given sequence number it always      *)
(* sends the same byte.                                                    *)
(***************************************************************************)
EXTENDS TCPv4Host

CONSTANTS
    PeerFlags,      \* the flags its frames may have
    PeerOffsets,    \* how far from rcv_nxt its sequence numbers may be
    PeerBytes,      \* how many bytes it has to send
    PeerSeq         \* its initial sequence number

ASSUME PeerAssumption ==
    /\ PeerFlags \subseteq SUBSET {"SYN", "ACK", "FIN", "RST"}
    /\ PeerOffsets \subseteq SeqNos
    /\ PeerBytes \in Nat /\ PeerSeq \in SeqNos

\* The position in the peer's stream of the byte at sequence number s.
Position(s) == AckDistance(s, [seq |-> PeerSeq])

\* A host that waits for a SYN/ACK knows no sequence number of the peer yet.
PeerSeqNos(flags) ==
    IF "SYN" \in flags \/ conn.state \in {"CLOSED", "SYN_SENT"} THEN {PeerSeq}
    ELSE {SeqAdd(conn.rcv_nxt, d) : d \in PeerOffsets}

PeerPayloads(flags, s) ==
    {<<>>} \cup IF "SYN" \notin flags /\ Position(s) \in 1 .. PeerBytes
                THEN {<<Position(s)>>} ELSE {}

\* A listening host is called from several ports.
PeerPorts == IF Listening THEN 1 .. MaxConnects ELSE {conn.port}

\* The peer reads what was sent to it and sends something.
PeerSends ==
    /\ inp = <<>>
    /\ \E port \in PeerPorts, flags \in PeerFlags, a \in SeqNos, wnd \in Windows :
       \E s \in PeerSeqNos(flags) :
       \E dat \in PeerPayloads(flags, s) :
          inp' = <<[port |-> port, flags |-> flags, seq |-> s, ack |-> a,
                    dat |-> dat, wnd |-> wnd]>>
    /\ outp' = <<>>
    /\ UNCHANGED <<conn, app>>

Spec == Init /\ [][Next \/ PeerSends]_vars

-----------------------------------------------------------------------------
Closing == {"FIN_WAIT_1", "FIN_WAIT_2", "CLOSING", "TIME_WAIT", "LAST_ACK"}

\* Type invariant of a host.
TypeOK ==
    /\ conn \in Connection
    /\ app.sent \in 0 .. MaxBytes
    /\ app.rcvd \in Seq(Nat)
    /\ app.clean \in BOOLEAN
    /\ app.log \in Seq({"Connected", "Closed", "Aborted", "TimedOut"})

\* Whatever the peer acknowledges, the segments in flight stay contiguous: the
\* branches of process() that push, clear, swap and resend segments agree on
\* where the oldest and the newest ones are, in a connection that found its
\* slot without segments of the last one.
ContiguousInFlight == app.clean => RingShape(conn)

\* Once a FIN was sent nothing more is: no frame that comes in, no timer and no
\* call of the application moves snd_nxt of a closing connection that found its
\* slot without segments of the last one.
NothingAfterFin ==
    [][app.clean /\ conn.state \in Closing /\ conn'.state \in Closing
        => conn'.snd_nxt = conn.snd_nxt]_vars

GivenInOrder == \A i \in DOMAIN app.rcvd : app.rcvd[i] = i

AcknowledgedIsGiven ==
    conn.state = "ESTABLISHED" =>
        conn.rcv_nxt = SeqAdd(SeqAdd(app.irs, 1), Len(app.rcvd))

\* onNewData gives the application the bytes of the peer in order, each once,
\* and ESTABLISHED acknowledges exactly those it gave.
DataIsGiven == GivenInOrder /\ AcknowledgedIsGiven

\* The connection events of EventHandler: a connection is reported once, before
\* anything else, and closed once; what may still come after is that a FIN of the
\* peer already answered ends in a reset or a timeout.
EventOrder ==
    LET ends == {i \in DOMAIN app.log : app.log[i] # "Connected"}
    IN  /\ \A i \in DOMAIN app.log : app.log[i] = "Connected" => i = 1
        /\ \A i, j \in ends :
              i < j => app.log[i] = "Closed" /\ app.log[j] \in {"Aborted", "TimedOut"}
        /\ conn.state \in {"ESTABLISHED", "CLOSE", "FIN_WAIT_1", "FIN_WAIT_2", "LAST_ACK"}
              => app.log = <<"Connected">>
=============================================================================
