------------------------------- MODULE Network -------------------------------
(***************************************************************************)
(* A host of the library on its network: the Ethernet, ARP, IPv4 and ICMP  *)
(* layers, the TCP connections that send through them, and the hosts that  *)
(* it talks to.  The producers keep the destination of the next frame in   *)
(* fields that every user shares, and write it in the frame at prepare();  *)
(* a connection holds the frame it prepared until it has something to      *)
(* send.                                                                   *)
(***************************************************************************)
EXTENDS Arp

CONSTANTS
    Locals,         \* the other hosts of the local network
    Remotes,        \* hosts behind the router
    Conns,          \* TCP connections
    Requests,       \* ICMP requests that may be attached, each of them once
    MaxEchoes       \* bound: echo requests sent

Router == "router"
Broadcast == "broadcast"

Neighbours == Locals \cup {Router}
Ips == Neighbours \cup Remotes

ASSUME NetworkAssumption ==
    /\ Macs = Neighbours \cup {Broadcast}
    /\ MaxEchoes \in Nat

VARIABLES
    dest,           \* m_destAddress of the Ethernet and of the IPv4 producer
    conn,           \* m_ripaddr, m_rethaddr and the prepared frame of connections
    req,            \* the ICMP requests
    reqs,           \* m_reqs of the ICMP processor
    echoes,         \* how many echo requests were sent
    answers,        \* the ones whose reply is on its way
    missed          \* history: what was sent to another host than the one meant

networkVars == <<table, ticks, dest, conn, req, reqs, echoes, answers, missed>>

\* The hardware address of the next hop to a host; a neighbour is named as it.
NextHop(ip) == IF ip \in Remotes THEN Router ELSE ip

NoHeader == [mac |-> "none", ip |-> NoIp]

NoConn == [ip |-> NoIp, mac |-> "none", buf |-> NoHeader]

\* The frame of kind what, with the addresses of header, is meant for the host ip.
Frame(what, header, ip) ==
    missed' = IF header = [mac |-> NextHop(ip), ip |-> ip] THEN missed ELSE missed \cup {what}

\* A frame of ARP: it has no IP header.
ArpFrame(what, header, mac) ==
    missed' = IF header.mac = mac THEN missed ELSE missed \cup {what}

NetworkInit ==
    /\ ArpInit
    /\ dest = NoHeader
    /\ conn = [c \in Conns |-> NoConn]
    /\ req = [r \in Requests |-> [state |-> "new", last |-> 0, answer |-> 0]]
    /\ reqs = {}
    /\ echoes = 0 /\ answers = {}
    /\ missed = {}

-----------------------------------------------------------------------------
(***************************************************************************)
(* ARP.                                                                    *)
(***************************************************************************)

ArpRun == Run /\ UNCHANGED <<dest, conn, req, reqs, echoes, answers, missed>>

\* discover(): the destination is set even if no frame can be prepared.
Discover(ip) ==
    /\ Translations(NextHop(ip)) = {}
    /\ dest' = [dest EXCEPT !.mac = Broadcast]
    /\ ArpFrame("ask", dest', Broadcast) \/ UNCHANGED missed
    /\ UNCHANGED <<table, ticks, conn, req, reqs, echoes, answers>>

\* An ARP request for our address: its sender is answered, and learnt if the
\* answer can be prepared.
OnArpRequest(n) ==
    /\ dest' = [dest EXCEPT !.mac = n]
    /\ \/ Update(n, n) /\ ArpFrame("answer", dest', n)
       \/ UNCHANGED <<table, missed>>
    /\ UNCHANGED <<ticks, conn, req, reqs, echoes, answers>>

\* A reply: it may be late, or be repeated, so that one may always arrive.
OnArpReply(n) ==
    /\ Update(n, n)
    /\ UNCHANGED <<ticks, dest, conn, req, reqs, echoes, answers, missed>>

-----------------------------------------------------------------------------
(***************************************************************************)
(* ICMP.                                                                   *)
(***************************************************************************)

Attached == {r \in Requests : req[r].state \notin {"new", "gone"}}

\* attach(): m_ids is never advanced, so every request gets the same id, and the
\* one key of m_reqs leads to the last.
Attach(r) ==
    /\ req[r].state = "new"
    /\ req' = [req EXCEPT ![r].state = "IDLE"]
    /\ reqs' = {r}
    /\ UNCHANGED <<table, ticks, dest, conn, echoes, answers, missed>>

\* detach() erases the key, whatever request it leads to.
Detach(r) ==
    /\ r \in Attached
    /\ req' = [req EXCEPT ![r].state = "gone"]
    /\ reqs' = {}
    /\ UNCHANGED <<table, ticks, dest, conn, echoes, answers, missed>>

\* The frame of an echo request is prepared and committed, or cannot be prepared.
\* It gets to the host if its hardware address does.
EchoFrame(r, ip) ==
    /\ dest' = [dest EXCEPT !.ip = ip]
    /\ \/ /\ Frame("echo", dest', ip)
          /\ echoes' = echoes + 1
          /\ answers' = IF dest.mac \in {Broadcast, NextHop(ip)}
                        THEN answers \cup {echoes'} ELSE answers
          /\ req' = [req EXCEPT ![r].state = "REQUEST", ![r].last = echoes']
       \/ UNCHANGED <<req, missed, echoes, answers>>
    /\ UNCHANGED <<table, ticks, conn, reqs>>

\* Mutation: the next request does not wait for the answer to the last one.
EchoAgain(r, ip) ==
    /\ req[r].state \in {"IDLE", "REQUEST"} /\ echoes < MaxEchoes
    /\ Translations(NextHop(ip)) # {}
    /\ EchoFrame(r, ip)

\* The request is sent.  The destination of the Ethernet producer is not set: the
\* translation is looked up and dropped.
Echo(r, ip) ==
    /\ req[r].state = "IDLE" /\ echoes < MaxEchoes
    /\ Translations(NextHop(ip)) # {}
    /\ EchoFrame(r, ip)

\* The caller sees that it was answered.
Complete(r) ==
    /\ req[r].state = "RESPONSE"
    /\ req' = [req EXCEPT ![r].state = "IDLE"]
    /\ UNCHANGED <<table, ticks, dest, conn, reqs, echoes, answers, missed>>

\* An echo reply, which may be lost: it is for the request of the id, if that
\* waits for one.  The sequence number and the sender are not looked at.
OnEchoReply(e) ==
    /\ e \in answers /\ answers' = answers \ {e}
    /\ \/ req' = [r \in Requests |->
                     IF r \in reqs /\ req[r].state = "REQUEST"
                     THEN [req[r] EXCEPT !.state = "RESPONSE", !.answer = e] ELSE req[r]]
       \/ UNCHANGED req
    /\ UNCHANGED <<table, ticks, dest, conn, reqs, echoes, missed>>

\* An echo request goes back to the addresses it came from.
OnEcho(ip) ==
    /\ dest' = [mac |-> NextHop(ip), ip |-> ip]
    /\ Frame("reply", dest', ip) \/ UNCHANGED missed
    /\ UNCHANGED <<table, ticks, conn, req, reqs, echoes, answers>>

-----------------------------------------------------------------------------
(***************************************************************************)
(* TCP, as far as it uses the layers below.                                *)
(***************************************************************************)

\* connect() with a translation, and the SYN of a peer: the addresses are kept,
\* and the first frame prepared.
Open(c, ip, mac) ==
    /\ conn[c].ip = NoIp
    /\ dest' = [mac |-> mac, ip |-> ip]
    /\ conn' = [conn EXCEPT ![c] = [ip |-> ip, mac |-> mac, buf |-> dest']]
    /\ UNCHANGED <<table, ticks, req, reqs, echoes, answers, missed>>

TcpConnect(c, ip) == \E mac \in Translations(NextHop(ip)) : Open(c, ip, mac)

TcpAccept(c, ip) == Open(c, ip, NextHop(ip))

\* Mutation: the next frame is prepared for whoever was set last.
TcpSendUnset(c) ==
    /\ conn[c].ip # NoIp
    /\ Frame("tcp", conn[c].buf, conn[c].ip)
    /\ conn' = [conn EXCEPT ![c].buf = dest]
    /\ UNCHANGED <<table, ticks, dest, req, reqs, echoes, answers>>

\* send() commits the frame that was prepared before, and prepares the next.
TcpSend(c) ==
    /\ conn[c].ip # NoIp
    /\ Frame("tcp", conn[c].buf, conn[c].ip)
    /\ dest' = [mac |-> conn[c].mac, ip |-> conn[c].ip]
    /\ conn' = [conn EXCEPT ![c].buf = dest']
    /\ UNCHANGED <<table, ticks, req, reqs, echoes, answers>>

TcpEnd(c) ==
    /\ conn[c].ip # NoIp
    /\ conn' = [conn EXCEPT ![c] = NoConn]
    /\ UNCHANGED <<table, ticks, dest, req, reqs, echoes, answers, missed>>

\* A segment without a connection is answered by a RST to where it came from.
TcpReset(ip) ==
    /\ dest' = [mac |-> NextHop(ip), ip |-> ip]
    /\ Frame("tcp", dest', ip)
    /\ UNCHANGED <<table, ticks, conn, req, reqs, echoes, answers>>

-----------------------------------------------------------------------------

NetworkNext ==
    \/ ArpRun
    \/ \E n \in Neighbours : OnArpRequest(n) \/ OnArpReply(n)
    \/ \E ip \in Ips : Discover(ip) \/ OnEcho(ip) \/ TcpReset(ip)
    \/ \E r \in Requests : Attach(r) \/ Detach(r) \/ Complete(r) \/ \E ip \in Ips : Echo(r, ip)
    \/ \E e \in answers : OnEchoReply(e)
    \/ \E c \in Conns :
        TcpSend(c) \/ TcpEnd(c) \/ \E ip \in Ips : TcpConnect(c, ip) \/ TcpAccept(c, ip)

-----------------------------------------------------------------------------
(***************************************************************************)
(* Properties.                                                             *)
(***************************************************************************)

\* Type invariant; what m_reqs leads to is a request that was not deleted.
NetworkTypeOK ==
    /\ ArpTypeOK
    /\ dest \in [mac : Macs \cup {"none"}, ip : Ips \cup {NoIp}]
    /\ reqs \subseteq Attached
    /\ req \in [Requests -> [state : {"new", "IDLE", "REQUEST", "RESPONSE", "gone"},
                            last : 0 .. MaxEchoes, answer : 0 .. MaxEchoes]]
    /\ echoes \in 0 .. MaxEchoes /\ answers \subseteq 1 .. MaxEchoes

\* Every frame but an echo request has the addresses of the host it is meant for,
\* whoever set the destination in between: a TCP segment in a frame that was
\* prepared long ago, an answer to an ARP or an echo request.
FramesReachTheirHost == missed \subseteq {"echo"}

\* So does an echo request: "Get a HW translation of the destination address".
EchoesReachTheirHost == "echo" \notin missed

\* A request that is reported as complete was answered, itself and not an earlier
\* one, as long as it is the only request that was ever attached.
AnswerIsItsOwn ==
    \A r \in Requests :
        /\ req[r].state = "RESPONSE"
        /\ \A other \in Requests \ {r} : req[other].state = "new"
        => req[r].answer = req[r].last
=============================================================================
