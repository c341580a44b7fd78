----------------------------- MODULE TCPv4Pair -----------------------------
(***************************************************************************)
(* A client and a server, both on this stack, and the network between      *)
(* them.  Each host is an instance of TCPv4Host; what one sends goes to    *)
(* the queue that the other reads.                                         *)
(*                                                                         *)
(* The network is a FIFO queue in each direction that may commit MaxFaults *)
(* faults of the kinds in Faults: lose a frame, deliver it twice, or let   *)
(* one overtake the next.                                                  *)
(***************************************************************************)
EXTENDS TCPv4Connection, SequencesExt

CONSTANTS
    ClientSeqs, ServerSeqs,             \* initial sequence numbers
    ClientBytes, ServerBytes,           \* bytes to send
    ClientReactions, ServerReactions,   \* what the callbacks return
    ClientReplies, ServerReplies,       \* what the callbacks write
    ClientCalls, ServerCalls,           \* the API calls the applications make
    NoDelay, DelayedAck,                \* the options of both connections
    Windows, MaxConnects, MaxQueue, Impatient,
    Faults, MaxFaults

VARIABLES
    client, capp,           \* the client's connection and application
    server, sapp,           \* those of the server
    toClient, toServer,     \* the frames on their way
    faults                  \* how many faults the network may still commit

vars == <<client, capp, server, sapp, toClient, toServer, faults>>

C == INSTANCE TCPv4Host WITH
        conn <- client, app <- capp, inp <- toClient, outp <- toServer,
        Listening <- FALSE, InitialSeqs <- ClientSeqs, MaxBytes <- ClientBytes,
        Reactions <- ClientReactions, Replies <- ClientReplies,
        Calls <- ClientCalls

S == INSTANCE TCPv4Host WITH
        conn <- server, app <- sapp, inp <- toServer, outp <- toClient,
        Listening <- TRUE, InitialSeqs <- ServerSeqs, MaxBytes <- ServerBytes,
        Reactions <- ServerReactions, Replies <- ServerReplies,
        Calls <- ServerCalls

Init == C!Init /\ S!Init /\ faults = MaxFaults

ClientStep == C!Next /\ UNCHANGED <<server, sapp, faults>>

ServerStep == S!Next /\ UNCHANGED <<client, capp, faults>>

\* What a fault may make of a queue.
Lost(q) == {RemoveAt(q, i) : i \in DOMAIN q}

Duplicated(q) == {InsertAt(q, i, q[i]) : i \in DOMAIN q}

Overtaken(q) == {[q EXCEPT ![i] = q[i + 1], ![i + 1] = q[i]] : i \in 1 .. Len(q) - 1}

Faulty(q) ==
    UNION {IF "Lose" \in Faults THEN Lost(q) ELSE {},
           IF "Duplicate" \in Faults THEN Duplicated(q) ELSE {},
           IF "Overtake" \in Faults THEN Overtaken(q) ELSE {}}

NetworkFault ==
    /\ faults > 0
    /\ faults' = faults - 1
    /\ \/ toClient' \in Faulty(toClient) /\ UNCHANGED toServer
       \/ toServer' \in Faulty(toServer) /\ UNCHANGED toClient
    /\ UNCHANGED <<client, capp, server, sapp>>

Next == ClientStep \/ ServerStep \/ NetworkFault

Spec == Init /\ [][Next]_vars

(***************************************************************************)
(* Fairness.  The application's loop polls the device and calls run() over *)
(* and over, so that a frame that waits is processed and a timer that runs *)
(* expires.  The applications need not call anything.                      *)
(***************************************************************************)
ClientReceive == C!Receive /\ UNCHANGED <<server, sapp, faults>>
ServerReceive == S!Receive /\ UNCHANGED <<client, capp, faults>>
ClientTimers == C!Timers /\ UNCHANGED <<server, sapp, faults>>
ServerTimers == S!Timers /\ UNCHANGED <<client, capp, faults>>

WeakFairSpec ==
    /\ Spec
    /\ WF_vars(ClientReceive) /\ WF_vars(ServerReceive)
    /\ WF_vars(ClientTimers) /\ WF_vars(ServerTimers)

\* The same with what enables each action written out (a frame that waits, a
\* timer that may expire), which TLC evaluates much faster than ENABLED.
FairSpec ==
    /\ Spec
    /\ []<>(toClient = <<>>) \/ []<><<ClientReceive>>_vars
    /\ []<>(toServer = <<>>) \/ []<><<ServerReceive>>_vars
    /\ []<>(~ C!TimerRuns) \/ []<><<ClientTimers>>_vars
    /\ []<>(~ S!TimerRuns) \/ []<><<ServerTimers>>_vars

-----------------------------------------------------------------------------
(***************************************************************************)
(* Safety.                                                                 *)
(***************************************************************************)
Stream(n) == [i \in 1 .. n |-> i]

\* The two ends belong to the same connection.
SamePort == client.port = server.port

Synchronized == {"ESTABLISHED", "CLOSE", "FIN_WAIT_1", "FIN_WAIT_2",
                 "CLOSING", "TIME_WAIT", "LAST_ACK"}

BothSynchronized ==
    SamePort /\ client.state \in Synchronized /\ server.state \in Synchronized

\* The oldest sequence number that h has not seen acknowledged.
Una(h) == IF HasOutstandingSegments(h) THEN Oldest(h).seq ELSE h.snd_nxt

\* p expects a sequence number between Una(h) and snd_nxt.
KeepsWhatIsMissing(h, p) ==
    AckDistance(p.rcv_nxt, [seq |-> Una(h)]) <= AckDistance(h.snd_nxt, [seq |-> Una(h)])

\* A segment leaves the ring of one host only after the other one took it in
\* (process(): "Check if the incoming segment acknowledges any outstanding data",
\* Processor.cpp:393-396), so that what the other still expects can be sent again.
AckedIsReceived ==
    BothSynchronized =>
        KeepsWhatIsMissing(client, server) /\ KeepsWhatIsMissing(server, client)

\* The bytes that the application of one host is given are those that the
\* application of the other one wrote, in order, without a hole or a repetition.
StreamIntact ==
    SamePort => /\ IsPrefix(sapp.rcvd, Stream(capp.sent))
                /\ IsPrefix(capp.rcvd, Stream(sapp.sent))

\* What send() took from the application is in a segment or in the send buffer
\* ("OK : the payload has been written", Processor.h:126-130): a queued byte is
\* neither sent twice nor forgotten.
KeepsWhatItTook(h, a) ==
    h.state = "ESTABLISHED" =>
        SeqAdd(h.snd_nxt, Len(h.buf)) = SeqAdd(SeqAdd(a.iss, 1), a.sent)

\* It holds where SentArrives does, of which it is a step.
AcceptedIsKept == KeepsWhatItTook(client, capp) /\ KeepsWhatItTook(server, sapp)

\* No application that never aborts loses its connection to what the network
\* does, as long as the retransmissions do not run out.  SentArrives depends on it.
NeverAborted ==
    \A a \in {capp, sapp} :
        \A i \in DOMAIN a.log : a.log[i] \in {"Connected", "Closed"}

\* sendAck(): "An ACK might be sent even though there is pending data in the send
\* buffer. In that case, we should not erase that data" (Send.cpp:117-120).
PendingIsNotErased ==
    \A h \in {client, server} : \A i \in DOMAIN h.buf : h.buf[i] # Garbage

\* Segment::m_dat is the "Data that was sent" (Segment.h:70): a frame carries the
\* bytes that belong at its sequence number, the first time and every other.
CarriesItsBytes(queue, a) ==
    \A i \in DOMAIN queue : \A j \in DOMAIN queue[i].dat :
        SeqAdd(queue[i].seq, j - 1) = SeqAdd(a.iss, queue[i].dat[j])

RexmitSendsTheSame == CarriesItsBytes(toServer, capp) /\ CarriesItsBytes(toClient, sapp)

-----------------------------------------------------------------------------
(***************************************************************************)
(* Liveness.                                                               *)
(***************************************************************************)

\* A connection attempt is decided at both ends: they agree that there is a
\* connection, or there is none.
ConnectIsDecided ==
    client.state = "SYN_SENT" ~>
        \/ client.state \in Synchronized /\ server.state \in Synchronized
        \/ client.state = "CLOSED"

\* What the client's application handed to send() or wrote in a callback reaches
\* the server's application ("If there is any buffered send data, send it",
\* Processor.cpp:792-795), unless the client closes first.
SentArrives ==
    \A n \in 1 .. ClientBytes :
        client.state = "ESTABLISHED" /\ capp.sent >= n
            ~> Len(sapp.rcvd) >= n \/ client.state \in {"CLOSE", "FIN_WAIT_1"}

\* A connection that the client closes goes away at the client: TIME_WAIT and
\* FIN_WAIT_2 are states "in which we simply wait for the connection to time out"
\* (Processor.cpp:110-113), after which connect() may take the slot again.
CloseCompletes ==
    client.state \in {"CLOSE", "FIN_WAIT_1", "FIN_WAIT_2", "TIME_WAIT"}
        ~> client.state \in {"CLOSED", "SYN_SENT"}
=============================================================================
