---------------------------- MODULE Stack_proofs ----------------------------
(***************************************************************************)
(* Proofs about what the connections of a host share below them: the ARP   *)
(* table, the destination that every user of the producers sets, and the   *)
(* one request of the ICMP processor, for every number of hosts,           *)
(* connections, entries of the table and values of its clock; and about    *)
(* the estimation of their timeouts, for every history of round trips.     *)
(***************************************************************************)
EXTENDS Stack, WellFoundedInduction, TLAPS

\* An entry of the table has the hardware address of its host.
EntriesAreTrue == \A i \in Places : InUse(i) => table[i].mac = table[i].ip

\* A connection keeps the addresses of its peer, and the frame that it prepared
\* has them, whoever used the producers since.
ConnsAreTrue ==
    /\ conn \in [Conns -> [ip : Ips \cup {NoIp}, mac : Macs \cup {"none"},
                           buf : [mac : Macs \cup {"none"}, ip : Ips \cup {NoIp}]]]
    /\ \A c \in Conns : conn[c].ip # NoIp =>
          /\ conn[c].mac = NextHop(conn[c].ip)
          /\ conn[c].buf = [mac |-> NextHop(conn[c].ip), ip |-> conn[c].ip]

\* The other requests were never attached.
IsAlone(r) == \A other \in Requests \ {r} : req[other].state = "new"

\* A reply that is on its way to a request that is alone is the one to its last
\* echo, and there is none unless it waits for one.
RepliesAreExpected ==
    \A r \in Requests : IsAlone(r) =>
        /\ req[r].state \in {"new", "IDLE", "RESPONSE"} => answers = {}
        /\ req[r].state = "REQUEST" => answers \subseteq {req[r].last}
        /\ req[r].state = "RESPONSE" => req[r].answer = req[r].last

NetworkInv ==
    /\ NetworkTypeOK /\ EntriesAreTrue /\ ConnsAreTrue /\ RepliesAreExpected
    /\ TableIsSound /\ FramesReachTheirHost

-----------------------------------------------------------------------------
(***************************************************************************)
(* The first of a set of places, and the clock.                            *)
(***************************************************************************)

\* A set of naturals that is not empty has a least element.
LEMMA FirstIs ==
    ASSUME NEW S, S \subseteq Nat, S # {}
    PROVE  FirstOf(S) \in S
<1>. DEFINE R == {p \in Nat \X Nat : p[1] < p[2]}
<1>1. IsWellFoundedOn(R, Nat)
  BY NatLessThanWellFounded DEF OpToRel
<1>2. \A i, j \in Nat : i < j => <<i, j>> \in R
  OBVIOUS
<1>. HIDE DEF R
<1>3. PICK m \in S : \A j \in S : ~ (<<j, m>> \in R)
  BY <1>1, WFMin
<1>4. ASSUME NEW j \in S
      PROVE  m <= j
  <2>1. ~ (j < m)
    BY <1>2, <1>3
  <2>. QED  BY <2>1
<1>. QED  BY <1>4 DEF FirstOf

\* Within a lap the clock tells the time that passed.
LEMMA LapIs ==
    ASSUME NEW a \in Nat, NEW b \in Nat, a \div Modulus = b \div Modulus
    PROVE  Time(b) - Time(a) = b - a
<1>. DEFINE q == a \div Modulus
<1>1. Modulus \in Nat \ {0} /\ q \in Nat
  BY ArpAssumption
<1>2. a = Modulus * q + Time(a) /\ b = Modulus * q + Time(b)
  BY <1>1 DEF Time
<1>3. Modulus * q \in Nat /\ Time(a) \in Nat /\ Time(b) \in Nat
  BY <1>1 DEF Time
<1>. QED  BY <1>2, <1>3

-----------------------------------------------------------------------------
(***************************************************************************)
(* The ARP table.                                                          *)
(***************************************************************************)

\* The entries that are too old are cleared; the others stay what they were.
LEMMA RunKeeps ==
    ASSUME ArpTypeOK, TableIsSound, EntriesAreTrue, Run
    PROVE  ArpTypeOK' /\ TableIsSound' /\ EntriesAreTrue'
<1>1. /\ ticks < MaxTicks /\ ticks' = ticks + 1 /\ ticks \in Nat
      /\ ticks' \in 0 .. MaxTicks
  BY ArpAssumption DEF Run, ArpTypeOK
<1>2. /\ table' \in [Places -> [ip : Macs \cup {NoIp}, mac : Macs \cup {"none"},
                                tick : 0 .. MaxTicks]]
      /\ \A i \in Places : InUse(i)' =>
            /\ table'[i] = table[i] /\ InUse(i)
            /\ ~ (Time(ticks') - Time(table[i].tick) >= MaxAge)
  <2>1. \A i \in Places :
           table'[i] = IF InUse(i) /\ Time(ticks') - Time(table[i].tick) >= MaxAge
                       THEN [table[i] EXCEPT !.ip = NoIp] ELSE table[i]
    BY DEF Run
  <2>2. \A i \in Places : [table[i] EXCEPT !.ip = NoIp].ip = NoIp
    BY DEF ArpTypeOK
  <2>3. table' \in [Places -> [ip : Macs \cup {NoIp}, mac : Macs \cup {"none"},
                               tick : 0 .. MaxTicks]]
    BY DEF Run, ArpTypeOK
  <2>. QED  BY <2>1, <2>2, <2>3 DEF InUse
<1>3. ArpTypeOK'
  BY <1>1, <1>2 DEF ArpTypeOK
<1>4. EntriesAreTrue'
  BY <1>2 DEF EntriesAreTrue
<1>5. OneTranslation'
  BY <1>2 DEF OneTranslation, TableIsSound
<1>6. StaleIsClearedInLap'
  <2>1. SUFFICES ASSUME NEW i \in Places, InUse(i)',
                        ticks' \div Modulus = table'[i].tick \div Modulus
                 PROVE  ticks' - table'[i].tick < MaxAge
    BY DEF StaleIsClearedInLap
  <2>2. table[i].tick \in Nat /\ ticks' \in Nat /\ table'[i] = table[i]
    BY <1>1, <1>2, <2>1, ArpAssumption DEF ArpTypeOK
  <2>3. Time(ticks') - Time(table[i].tick) = ticks' - table[i].tick
    BY <2>1, <2>2, LapIs
  <2>4. ~ (Time(ticks') - Time(table[i].tick) >= MaxAge)
    BY <1>2, <2>1
  <2>. QED  BY <2>2, <2>3, <2>4, ArpAssumption
<1>. QED  BY <1>3, <1>4, <1>5, <1>6 DEF TableIsSound

\* What is heard of an address takes the place of what was, or of another address.
LEMMA UpdateKeeps ==
    ASSUME ArpTypeOK, TableIsSound, EntriesAreTrue, NEW n \in Macs, Update(n, n),
           UNCHANGED ticks
    PROVE  ArpTypeOK' /\ TableIsSound' /\ EntriesAreTrue'
<1>. DEFINE old == {i \in Places : InUse(i) /\ table[i].ip = n}
            free == {i \in Places : ~ InUse(i)}
            victims == {i \in Places : Time(table[i].tick) = Time(table[Entries].tick)}
            place == IF old # {} THEN FirstOf(old)
                     ELSE IF free # {} THEN FirstOf(free)
                     ELSE FirstOf(victims)
            entry == [ip |-> n, mac |-> n, tick |-> ticks]
<1>1. Places \subseteq Nat /\ Entries \in Places
  BY ArpAssumption DEF Places
<1>2. place \in Places /\ (old # {} => place \in old)
  <2>1. old \subseteq Nat /\ free \subseteq Nat /\ victims \subseteq Nat /\ victims # {}
    BY <1>1
  <2>2. CASE old # {}
    <3>1. FirstOf(old) \in old
      BY <2>1, <2>2, FirstIs
    <3>. QED  BY <2>2, <3>1
  <2>3. CASE old = {} /\ free # {}
    <3>1. FirstOf(free) \in free
      BY <2>1, <2>3, FirstIs
    <3>. QED  BY <2>3, <3>1
  <2>4. CASE old = {} /\ free = {}
    <3>1. FirstOf(victims) \in victims
      BY <2>1, FirstIs
    <3>. QED  BY <2>4, <3>1
  <2>. QED  BY <2>2, <2>3, <2>4
<1>3. table' = [table EXCEPT ![place] = entry]
  BY DEF Update
<1>. HIDE DEF place
<1>4. /\ table'[place] = entry
      /\ \A i \in Places : i # place => table'[i] = table[i]
      /\ table' \in [Places -> [ip : Macs \cup {NoIp}, mac : Macs \cup {"none"},
                                tick : 0 .. MaxTicks]]
  BY <1>2, <1>3 DEF ArpTypeOK
<1>5. ArpTypeOK'
  BY <1>4 DEF ArpTypeOK
<1>6. EntriesAreTrue'
  BY <1>2, <1>4 DEF EntriesAreTrue, InUse
<1>7. OneTranslation'
  <2>1. \A i \in Places : i # place => ~ (InUse(i)' /\ table'[i].ip = n)
    BY <1>2, <1>4 DEF OneTranslation, TableIsSound, InUse
  <2>. QED  BY <1>2, <1>4, <2>1 DEF OneTranslation, TableIsSound, InUse
<1>8. StaleIsClearedInLap'
  <2>1. ticks - ticks < MaxAge
    BY ArpAssumption DEF ArpTypeOK
  <2>. QED  BY <1>2, <1>4, <2>1 DEF StaleIsClearedInLap, TableIsSound, InUse
<1>. QED  BY <1>5, <1>6, <1>7, <1>8 DEF TableIsSound

-----------------------------------------------------------------------------
(***************************************************************************)
(* Frames.                                                                 *)
(***************************************************************************)

\* The next hop to a host is a neighbour.
LEMMA NextHopIs ==
    ASSUME NEW ip \in Ips
    PROVE  NextHop(ip) \in Neighbours /\ NextHop(ip) \in Macs
BY NetworkAssumption DEF NextHop, Ips, Neighbours

\* Frames whose addresses were set for them, and nothing else that is new.
LEMMA SetFramesKeep ==
    ASSUME NetworkInv, NEW ip \in Ips, Discover(ip) \/ OnEcho(ip) \/ TcpReset(ip)
    PROVE  NetworkInv'
<1>. USE DEF NetworkInv
<1>1. UNCHANGED <<table, ticks, conn, req, reqs, echoes, answers>>
  BY DEF Discover, OnEcho, TcpReset
<1>2. missed' = missed
  BY DEF Discover, OnEcho, TcpReset, ArpFrame, Frame, NetworkTypeOK
<1>3. dest' \in [mac : Macs \cup {"none"}, ip : Ips \cup {NoIp}]
  BY NextHopIs, NetworkAssumption DEF Discover, OnEcho, TcpReset, NetworkTypeOK
<1>4. NetworkTypeOK'
  BY <1>1, <1>3 DEF NetworkTypeOK, ArpTypeOK, Attached
<1>5. EntriesAreTrue' /\ TableIsSound'
  BY <1>1 DEF EntriesAreTrue, InUse, TableIsSound, OneTranslation, StaleIsClearedInLap
<1>6. ConnsAreTrue'
  BY <1>1 DEF ConnsAreTrue
<1>7. RepliesAreExpected'
  BY <1>1 DEF RepliesAreExpected, IsAlone
<1>8. FramesReachTheirHost'
  BY <1>2 DEF FramesReachTheirHost
<1>. QED  BY <1>4, <1>5, <1>6, <1>7, <1>8

\* The timer of the table, and what is heard of a neighbour.
LEMMA ArpKeeps ==
    ASSUME NetworkInv, ArpRun \/ \E n \in Neighbours : OnArpRequest(n) \/ OnArpReply(n)
    PROVE  NetworkInv'
<1>. USE DEF NetworkInv
<1>1. UNCHANGED <<conn, req, reqs, echoes, answers>>
  BY DEF ArpRun, OnArpRequest, OnArpReply
<1>2. missed' = missed
  BY DEF ArpRun, OnArpRequest, OnArpReply, ArpFrame, NetworkTypeOK
<1>3. dest' \in [mac : Macs \cup {"none"}, ip : Ips \cup {NoIp}]
  BY NetworkAssumption DEF ArpRun, OnArpRequest, OnArpReply, NetworkTypeOK
<1>4. ArpTypeOK' /\ TableIsSound' /\ EntriesAreTrue'
  <2>1. CASE ArpRun
    BY <2>1, RunKeeps DEF ArpRun, NetworkTypeOK
  <2>2. ASSUME NEW n \in Neighbours, Update(n, n), UNCHANGED ticks
        PROVE  ArpTypeOK' /\ TableIsSound' /\ EntriesAreTrue'
    <3>1. n \in Macs
      BY NetworkAssumption
    <3>. QED  BY <2>2, <3>1, UpdateKeeps DEF NetworkTypeOK
  <2>3. CASE UNCHANGED <<table, ticks>>
    BY <2>3 DEF NetworkTypeOK, ArpTypeOK, EntriesAreTrue, InUse, TableIsSound,
                OneTranslation, StaleIsClearedInLap
  <2>. QED  BY <2>1, <2>2, <2>3 DEF OnArpRequest, OnArpReply
<1>5. NetworkTypeOK'
  BY <1>1, <1>3, <1>4 DEF NetworkTypeOK, Attached
<1>6. ConnsAreTrue'
  BY <1>1 DEF ConnsAreTrue
<1>7. RepliesAreExpected'
  BY <1>1 DEF RepliesAreExpected, IsAlone
<1>8. FramesReachTheirHost'
  BY <1>2 DEF FramesReachTheirHost
<1>. QED  BY <1>4, <1>5, <1>6, <1>7, <1>8

\* A connection takes the addresses of its peer, from the table or from the frame
\* that it answers, and has them until it ends.
LEMMA ConnsKeep ==
    ASSUME NetworkInv, NEW c \in Conns,
           \/ TcpSend(c) \/ TcpEnd(c)
           \/ \E ip \in Ips : TcpConnect(c, ip) \/ TcpAccept(c, ip)
    PROVE  NetworkInv'
<1>. USE DEF NetworkInv
<1>1. UNCHANGED <<table, ticks, req, reqs, echoes, answers>>
  BY DEF TcpSend, TcpEnd, TcpConnect, TcpAccept, Open
<1>2. /\ dest' \in [mac : Macs \cup {"none"}, ip : Ips \cup {NoIp}]
      /\ ConnsAreTrue'
      /\ missed' = missed
  <2>1. CASE TcpSend(c)
    <3>1. /\ conn[c].ip \in Ips /\ conn[c].mac = NextHop(conn[c].ip)
          /\ conn[c].buf = [mac |-> NextHop(conn[c].ip), ip |-> conn[c].ip]
      BY <2>1 DEF TcpSend, ConnsAreTrue
    <3>2. /\ dest' = [mac |-> NextHop(conn[c].ip), ip |-> conn[c].ip]
          /\ missed' = missed
          /\ conn' = [conn EXCEPT ![c].buf = dest']
      BY <2>1, <3>1 DEF TcpSend, Frame
    <3>3. dest' \in [mac : Macs \cup {"none"}, ip : Ips \cup {NoIp}]
      BY <3>1, <3>2, NextHopIs
    <3>4. ConnsAreTrue'
      BY <3>1, <3>2, <3>3 DEF ConnsAreTrue
    <3>. QED  BY <3>2, <3>3, <3>4
  <2>2. CASE TcpEnd(c)
    <3>1. /\ conn' = [conn EXCEPT ![c] = NoConn]
          /\ UNCHANGED <<dest, missed>>
      BY <2>2 DEF TcpEnd
    <3>2. NoConn \in [ip : Ips \cup {NoIp}, mac : Macs \cup {"none"},
                      buf : [mac : Macs \cup {"none"}, ip : Ips \cup {NoIp}]]
      BY DEF NoConn, NoHeader
    <3>3. NoConn.ip = NoIp
      BY DEF NoConn
    <3>4. ConnsAreTrue'
      BY <3>1, <3>2, <3>3 DEF ConnsAreTrue
    <3>. QED  BY <3>1, <3>4 DEF NetworkTypeOK
  <2>3. ASSUME NEW ip \in Ips, Open(c, ip, NextHop(ip))
        PROVE  /\ dest' \in [mac : Macs \cup {"none"}, ip : Ips \cup {NoIp}]
               /\ ConnsAreTrue'
               /\ missed' = missed
    <3>1. /\ dest' = [mac |-> NextHop(ip), ip |-> ip]
          /\ conn' = [conn EXCEPT ![c] = [ip |-> ip, mac |-> NextHop(ip), buf |-> dest']]
          /\ missed' = missed
      BY <2>3 DEF Open
    <3>2. NextHop(ip) \in Macs
      BY NextHopIs
    <3>3. ConnsAreTrue'
      BY <3>1, <3>2 DEF ConnsAreTrue
    <3>. QED  BY <3>1, <3>2, <3>3
  <2>4. ASSUME NEW ip \in Ips, TcpConnect(c, ip)
        PROVE  Open(c, ip, NextHop(ip))
    BY <2>4 DEF TcpConnect, Translations, EntriesAreTrue
  <2>. QED  BY <2>1, <2>2, <2>3, <2>4 DEF TcpAccept
<1>3. NetworkTypeOK'
  BY <1>1, <1>2 DEF NetworkTypeOK, ArpTypeOK, Attached
<1>4. EntriesAreTrue' /\ TableIsSound'
  BY <1>1 DEF EntriesAreTrue, InUse, TableIsSound, OneTranslation, StaleIsClearedInLap
<1>5. RepliesAreExpected'
  BY <1>1 DEF RepliesAreExpected, IsAlone
<1>6. FramesReachTheirHost'
  BY <1>2 DEF FramesReachTheirHost
<1>. QED  BY <1>2, <1>3, <1>4, <1>5, <1>6

-----------------------------------------------------------------------------
(***************************************************************************)
(* ICMP.                                                                   *)
(***************************************************************************)

\* What the table and the connections have, the requests do not touch.
LEMMA RequestsOnly ==
    ASSUME NetworkInv, UNCHANGED <<table, ticks, conn>>, missed' \subseteq missed \cup {"echo"},
           dest' \in [mac : Macs \cup {"none"}, ip : Ips \cup {NoIp}],
           req' \in [Requests -> [state : {"new", "IDLE", "REQUEST", "RESPONSE", "gone"},
                                  last : 0 .. MaxEchoes, answer : 0 .. MaxEchoes]],
           reqs' \subseteq Attached', echoes' \in 0 .. MaxEchoes,
           answers' \subseteq 1 .. MaxEchoes, RepliesAreExpected'
    PROVE  NetworkInv'
<1>. USE DEF NetworkInv
<1>1. NetworkTypeOK'
  BY DEF NetworkTypeOK, ArpTypeOK
<1>2. EntriesAreTrue' /\ TableIsSound'
  BY DEF EntriesAreTrue, InUse, TableIsSound, OneTranslation, StaleIsClearedInLap
<1>3. ConnsAreTrue'
  BY DEF ConnsAreTrue
<1>4. FramesReachTheirHost'
  BY DEF FramesReachTheirHost
<1>. QED  BY <1>1, <1>2, <1>3, <1>4

\* A request is attached, detached, or seen to be answered.
LEMMA RequestMoves ==
    ASSUME NetworkInv, NEW r \in Requests, Attach(r) \/ Detach(r) \/ Complete(r)
    PROVE  NetworkInv'
<1>. USE DEF NetworkInv
<1>1. PICK st \in {"IDLE", "gone"} :
          /\ req' = [req EXCEPT ![r].state = st]
          /\ \/ req[r].state \in {"new", "RESPONSE"} /\ st = "IDLE"
             \/ st = "gone"
  BY DEF Attach, Detach, Complete
<1>2. UNCHANGED <<table, ticks, dest, conn, echoes, answers, missed>>
  BY DEF Attach, Detach, Complete
<1>3. /\ req' \in [Requests -> [state : {"new", "IDLE", "REQUEST", "RESPONSE", "gone"},
                                last : 0 .. MaxEchoes, answer : 0 .. MaxEchoes]]
      /\ req'[r].state = st
      /\ \A q \in Requests : q # r => req'[q] = req[q]
  BY <1>1 DEF NetworkTypeOK
<1>4. reqs' \subseteq Attached'
  <2>1. CASE Attach(r)
    BY <1>3, <2>1 DEF Attach, Attached
  <2>2. CASE Detach(r)
    BY <2>2 DEF Detach
  <2>3. CASE Complete(r)
    <3>1. st = "IDLE" /\ reqs' = reqs
      BY <1>1, <1>3, <2>3 DEF Complete, NetworkTypeOK
    <3>. QED  BY <1>3, <3>1 DEF NetworkTypeOK, Attached
  <2>. QED  BY <2>1, <2>2, <2>3
<1>5. RepliesAreExpected'
  <2>1. \A q \in Requests : IsAlone(q)' => IsAlone(q) /\ q = r
    BY <1>1, <1>3 DEF IsAlone
  <2>. QED  BY <1>1, <1>2, <1>3, <2>1 DEF RepliesAreExpected
<1>. QED  BY <1>2, <1>3, <1>4, <1>5, RequestsOnly DEF NetworkTypeOK

\* An echo request is sent by a request that waits for no other.
LEMMA EchoKeeps ==
    ASSUME NetworkInv, NEW r \in Requests, NEW ip \in Ips, Echo(r, ip)
    PROVE  NetworkInv'
<1>. USE DEF NetworkInv
<1>1. /\ req[r].state = "IDLE" /\ echoes < MaxEchoes
      /\ dest' = [dest EXCEPT !.ip = ip]
      /\ UNCHANGED <<table, ticks, conn, reqs>>
  BY DEF Echo, EchoFrame
<1>2. dest' \in [mac : Macs \cup {"none"}, ip : Ips \cup {NoIp}]
  BY <1>1 DEF NetworkTypeOK
<1>3. CASE UNCHANGED <<req, missed, echoes, answers>>
  <2>1. RepliesAreExpected'
    BY <1>3 DEF RepliesAreExpected, IsAlone
  <2>2. reqs' \subseteq Attached'
    BY <1>1, <1>3 DEF NetworkTypeOK, Attached
  <2>. QED  BY <1>1, <1>2, <1>3, <2>1, <2>2, RequestsOnly DEF NetworkTypeOK
<1>4. CASE /\ Frame("echo", dest', ip)
           /\ echoes' = echoes + 1
           /\ answers' = IF dest.mac \in {Broadcast, NextHop(ip)}
                         THEN answers \cup {echoes'} ELSE answers
           /\ req' = [req EXCEPT ![r].state = "REQUEST", ![r].last = echoes']
  <2>1. /\ echoes' \in 1 .. MaxEchoes /\ echoes' \in 0 .. MaxEchoes
        /\ answers' \subseteq answers \cup {echoes'}
    BY <1>1, <1>4, NetworkAssumption DEF NetworkTypeOK
  <2>2. /\ req' \in [Requests -> [state : {"new", "IDLE", "REQUEST", "RESPONSE", "gone"},
                                  last : 0 .. MaxEchoes, answer : 0 .. MaxEchoes]]
        /\ req'[r].state = "REQUEST" /\ req'[r].last = echoes'
        /\ \A q \in Requests : q # r => req'[q] = req[q]
    <3>1. ASSUME NEW f \in [Requests ->
                              [state : {"new", "IDLE", "REQUEST", "RESPONSE", "gone"},
                               last : 0 .. MaxEchoes, answer : 0 .. MaxEchoes]]
          PROVE  [f EXCEPT ![r].last = echoes'] \in
                    [Requests -> [state : {"new", "IDLE", "REQUEST", "RESPONSE", "gone"},
                                  last : 0 .. MaxEchoes, answer : 0 .. MaxEchoes]]
      BY <2>1
    <3>2. [req EXCEPT ![r].state = "REQUEST"] \in
             [Requests -> [state : {"new", "IDLE", "REQUEST", "RESPONSE", "gone"},
                           last : 0 .. MaxEchoes, answer : 0 .. MaxEchoes]]
      BY DEF NetworkTypeOK
    <3>3. req' \in [Requests -> [state : {"new", "IDLE", "REQUEST", "RESPONSE", "gone"},
                                 last : 0 .. MaxEchoes, answer : 0 .. MaxEchoes]]
      BY <1>4, <3>1, <3>2
    <3>. QED  BY <1>4, <3>3 DEF NetworkTypeOK
  <2>3. missed' \subseteq missed \cup {"echo"}
    BY <1>4 DEF Frame
  <2>4. reqs' \subseteq Attached'
    BY <1>1, <2>2 DEF NetworkTypeOK, Attached
  <2>5. RepliesAreExpected'
    <3>1. \A q \in Requests : IsAlone(q)' => IsAlone(q) /\ q = r
      BY <1>1, <2>2 DEF IsAlone
    <3>2. IsAlone(r) => answers = {}
      BY <1>1 DEF RepliesAreExpected
    <3>. QED  BY <2>1, <2>2, <3>1, <3>2 DEF RepliesAreExpected
  <2>. QED  BY <1>1, <1>2, <2>1, <2>2, <2>3, <2>4, <2>5, RequestsOnly DEF NetworkTypeOK
<1>. QED  BY <1>3, <1>4 DEF Echo, EchoFrame

\* A reply completes the request that the key leads to, if it waits for one.
LEMMA EchoReplyKeeps ==
    ASSUME NetworkInv, NEW e \in answers, OnEchoReply(e)
    PROVE  NetworkInv'
<1>. USE DEF NetworkInv
<1>1. /\ answers' = answers \ {e}
      /\ UNCHANGED <<table, ticks, dest, conn, reqs, echoes, missed>>
  BY DEF OnEchoReply
<1>2. e \in 0 .. MaxEchoes
  BY NetworkAssumption DEF NetworkTypeOK
<1>3. CASE UNCHANGED req
  <2>1. RepliesAreExpected'
    BY <1>1, <1>3 DEF RepliesAreExpected, IsAlone
  <2>2. reqs' \subseteq Attached'
    BY <1>1, <1>3 DEF NetworkTypeOK, Attached
  <2>. QED  BY <1>1, <1>3, <2>1, <2>2, RequestsOnly DEF NetworkTypeOK
<1>4. CASE req' = [r \in Requests |->
                     IF r \in reqs /\ req[r].state = "REQUEST"
                     THEN [req[r] EXCEPT !.state = "RESPONSE", !.answer = e] ELSE req[r]]
  <2>1. \A r \in Requests :
           /\ req'[r] \in [state : {"new", "IDLE", "REQUEST", "RESPONSE", "gone"},
                           last : 0 .. MaxEchoes, answer : 0 .. MaxEchoes]
           /\ \/ /\ req[r].state = "REQUEST" /\ req'[r].state = "RESPONSE"
                 /\ req'[r].answer = e /\ req'[r].last = req[r].last
              \/ req'[r] = req[r]
    <3>1. ASSUME NEW q \in [state : {"new", "IDLE", "REQUEST", "RESPONSE", "gone"},
                            last : 0 .. MaxEchoes, answer : 0 .. MaxEchoes]
          PROVE  /\ [q EXCEPT !.state = "RESPONSE", !.answer = e] \in
                       [state : {"new", "IDLE", "REQUEST", "RESPONSE", "gone"},
                        last : 0 .. MaxEchoes, answer : 0 .. MaxEchoes]
                 /\ [q EXCEPT !.state = "RESPONSE", !.answer = e].state = "RESPONSE"
                 /\ [q EXCEPT !.state = "RESPONSE", !.answer = e].answer = e
                 /\ [q EXCEPT !.state = "RESPONSE", !.answer = e].last = q.last
      BY <1>2
    <3>. QED  BY <1>4, <3>1 DEF NetworkTypeOK
  <2>2. req' \in [Requests -> [state : {"new", "IDLE", "REQUEST", "RESPONSE", "gone"},
                               last : 0 .. MaxEchoes, answer : 0 .. MaxEchoes]]
    BY <1>4, <2>1
  <2>3. reqs' \subseteq Attached'
    BY <1>1, <2>1 DEF NetworkTypeOK, Attached
  <2>4. RepliesAreExpected'
    <3>1. \A r \in Requests : IsAlone(r)' => IsAlone(r)
      BY <2>1 DEF IsAlone
    <3>. QED  BY <1>1, <2>1, <3>1 DEF RepliesAreExpected
  <2>. QED  BY <1>1, <2>2, <2>3, <2>4, RequestsOnly DEF NetworkTypeOK
<1>. QED  BY <1>3, <1>4 DEF OnEchoReply

-----------------------------------------------------------------------------
(***************************************************************************)
(* The estimation of the round-trip time.                                  *)
(***************************************************************************)

\* The longest round trip for which the bytes of the code suffice.
ShortTrips == MaxRtt <= 31

\* What the two accumulators may be.  A long mean and a large deviation exclude each
\* other: an error is at most as large as the mean, or as what the longest round trip
\* exceeds it by.
IsEstimate(e) ==
    /\ e \in [sa : 0 .. 248, sv : 3 .. 90, rto : RTO .. TIME_WAIT_TIMEOUT - 2]
    /\ e.sv <= e.sa + 16 /\ e.sa + e.sv <= Byte - 1
    /\ e.rto \in {RTO, e.sa \div 8 + e.sv}

RttInv == IsEstimate(rtt)

\* A signed byte and an unsigned one hold what fits in them.
LEMMA BytesFit ==
    /\ \A n \in 0 .. Byte - 1 : Unsigned(n) = n
    /\ \A n \in - 128 .. 127 : Signed(n) = n
<1>1. \A n \in 0 .. 255 : (n % 256) = n
  OBVIOUS
<1>2. Byte \div 2 = 128 /\ Byte = 256
  BY DEF Byte
<1>3. ASSUME NEW n \in - 128 .. 127
      PROVE  Signed(n) = n
  <2>1. n + 128 \in 0 .. 255 /\ n + 128 - 128 = n
    OBVIOUS
  <2>2. ((n + 128) % 256) = n + 128
    BY <1>1, <2>1
  <2>. QED  BY <1>2, <2>1, <2>2 DEF Signed
<1>. QED  BY <1>1, <1>2, <1>3 DEF Unsigned

\* The two divisions.
LEMMA Quotients ==
    ASSUME NEW x \in Int
    PROVE  /\ x \div 8 \in Int /\ 8 * (x \div 8) <= x /\ x < 8 * (x \div 8) + 8
           /\ x \div 4 \in Int /\ 4 * (x \div 4) <= x /\ x < 4 * (x \div 4) + 4
OBVIOUS

\* Nothing in updateRttEstimation() wraps, and what it leaves is an estimate again.
LEMMA UpdateIsExact ==
    ASSUME NEW e, IsEstimate(e), NEW rt \in 0 .. 31
    PROVE  UpdateRtt(e, rt) = Exact(e, rt) /\ IsEstimate(Exact(e, rt))
<1>1. PICK sa \in 0 .. 248, sv \in 3 .. 90 :
          /\ e.sa = sa /\ e.sv = sv
          /\ sv <= sa + 16 /\ sa + sv <= 255
  <2>1. e.sa \in 0 .. 248 /\ e.sv \in 3 .. 90 /\ e.sv <= e.sa + 16 /\ e.sa + e.sv <= 255
    BY DEF IsEstimate, Byte
  <2>. QED  BY <2>1
<1>2. PICK m \in Int, q \in Int :
          /\ m = sa \div 8 /\ 8 * m <= sa /\ sa < 8 * m + 8
          /\ q = sv \div 4 /\ 4 * q <= sv /\ sv < 4 * q + 4
  <2>1. sa \in Int /\ sv \in Int
    OBVIOUS
  <2>2. /\ sa \div 8 \in Int /\ 8 * (sa \div 8) <= sa /\ sa < 8 * (sa \div 8) + 8
        /\ sv \div 4 \in Int /\ 4 * (sv \div 4) <= sv /\ sv < 4 * (sv \div 4) + 4
    BY <2>1, Quotients
  <2>. WITNESS sa \div 8 \in Int, sv \div 4 \in Int
  <2>. QED  BY <2>2
<1>3. m \in 0 .. 31 /\ q \in 0 .. 22
  BY <1>1, <1>2
<1>4. PICK error \in - 31 .. 31 : error = rt - m
  BY <1>3
<1>5. PICK g \in 0 .. 31 : g = Magnitude(error) /\ (g = error \/ g = - error)
  BY DEF Magnitude
<1>6. PICK a \in Int, v \in Int : a = sa + error /\ v = sv + g - q
  BY <1>2
<1>7. /\ a \in 0 .. 248 /\ v \in 3 .. 90 /\ v <= a + 16 /\ a + v <= 255
      /\ g - q \in - 31 .. 31 /\ sv + (g - q) = v
  <2>1. g - q \in - 31 .. 31 /\ sv + (g - q) = v
    BY <1>3, <1>6
  <2>2. CASE g = - error
    <3>1. a \in 0 .. 248 /\ v \in 3 .. 90
      BY <1>1, <1>2, <1>3, <1>4, <1>6, <2>2
    <3>2. v <= a + 16 /\ a + v <= 255
      BY <1>1, <1>2, <1>3, <1>4, <1>6, <2>2
    <3>. QED  BY <2>1, <3>1, <3>2
  <2>3. CASE g = error
    <3>1. a \in 0 .. 248 /\ v \in 3 .. 90
      BY <1>1, <1>2, <1>3, <1>4, <1>6, <2>3
    <3>2. v <= a + 16 /\ a + v <= 255
      BY <1>1, <1>2, <1>3, <1>4, <1>6, <2>3
    <3>. QED  BY <2>1, <3>1, <3>2
  <2>. QED  BY <1>5, <2>2, <2>3
<1>8. PICK k \in Int : k = a \div 8 /\ 8 * k <= a /\ k >= 0 /\ k + v \in 3 .. 118
  <2>1. a \div 8 \in Int /\ 8 * (a \div 8) <= a /\ a < 8 * (a \div 8) + 8
    BY Quotients
  <2>2. PICK k \in Int : k = a \div 8 /\ 8 * k <= a /\ a < 8 * k + 8
    BY <2>1
  <2>3. k >= 0 /\ k + v \in 3 .. 118
    BY <1>7, <2>2
  <2>. QED  BY <2>2, <2>3
<1>9. Exact(e, rt) = [sa |-> a, sv |-> v, rto |-> k + v]
  BY <1>1, <1>2, <1>4, <1>5, <1>6, <1>8 DEF Exact
<1>10. /\ Signed(rt) = rt /\ Signed(rt - m) = error
       /\ Unsigned(sa + error) = a
       /\ Signed(g) = g /\ Signed(g - q) = g - q
       /\ Unsigned(sv + (g - q)) = v
       /\ Unsigned(k + v) = k + v
  <2>1. Signed(rt) = rt /\ Signed(error) = error /\ Signed(g) = g /\ Signed(g - q) = g - q
    BY <1>7, BytesFit
  <2>2. Unsigned(a) = a /\ Unsigned(v) = v /\ Unsigned(k + v) = k + v
    BY <1>7, <1>8, BytesFit DEF Byte
  <2>. QED  BY <1>4, <1>6, <1>7, <2>1, <2>2
<1>11. UpdateRtt(e, rt) = [sa |-> a, sv |-> v, rto |-> k + v]
  BY <1>1, <1>2, <1>5, <1>8, <1>10 DEF UpdateRtt
<1>. QED  BY <1>7, <1>8, <1>9, <1>11 DEF IsEstimate, Byte, RTO, TIME_WAIT_TIMEOUT

\* A measure, or a slot that is opened again.
LEMMA RttKeeps ==
    ASSUME ShortTrips, RttInv, RttNext
    PROVE  RttInv'
<1>1. CASE rtt' \in {Accepted, Connected}
  BY <1>1 DEF RttInv, IsEstimate, Accepted, Connected, RTO, TIME_WAIT_TIMEOUT, Byte
<1>2. ASSUME NEW rt \in 0 .. MaxRtt, Measures(rt)
      PROVE  RttInv'
  <2>1. rt \in 0 .. 31
    BY RttAssumption DEF ShortTrips
  <2>. QED  BY <1>2, <2>1, UpdateIsExact DEF Measures, RttInv
<1>. QED  BY <1>1, <1>2 DEF RttNext

-----------------------------------------------------------------------------
(***************************************************************************)
(* Theorems.                                                               *)
(***************************************************************************)

\* The tables are empty, and no frame was sent.
LEMMA NetworkStarts ==
    ASSUME NetworkInit
    PROVE  NetworkInv
<1>. USE DEF NetworkInit, ArpInit, EmptyEntry
<1>1. 0 \in 0 .. MaxTicks /\ 0 \in 0 .. MaxEchoes
  BY ArpAssumption, NetworkAssumption
<1>2. NetworkTypeOK
  BY <1>1 DEF NetworkTypeOK, ArpTypeOK, NoHeader
<1>3. EntriesAreTrue /\ TableIsSound
  BY DEF EntriesAreTrue, InUse, TableIsSound, OneTranslation, StaleIsClearedInLap
<1>4. ConnsAreTrue
  BY DEF ConnsAreTrue, NoConn, NoHeader
<1>5. RepliesAreExpected /\ FramesReachTheirHost
  BY DEF RepliesAreExpected, FramesReachTheirHost
<1>. QED  BY <1>2, <1>3, <1>4, <1>5 DEF NetworkInv

\* Whatever is heard, whoever sends and however long a prepared frame waits, what the
\* layers share is as their users take it to be.
THEOREM NetworkInvariant == Spec => []NetworkInv
<1>1. Init => NetworkInv
  BY NetworkStarts DEF Init
<1>2. NetworkInv /\ [Next]_vars => NetworkInv'
  <2>1. SUFFICES ASSUME NetworkInv, [Next]_vars
                 PROVE  NetworkInv'
    OBVIOUS
  <2>2. CASE NetworkNext
    BY <2>1, <2>2, ArpKeeps, SetFramesKeep, ConnsKeep, RequestMoves, EchoKeeps,
       EchoReplyKeeps DEF NetworkNext
  <2>3. CASE UNCHANGED networkVars
    <3>1. UNCHANGED <<table, ticks, dest, conn, req, reqs, echoes, answers, missed>>
      BY <2>3 DEF networkVars
    <3>2. reqs' \subseteq Attached' /\ RepliesAreExpected'
      BY <2>1, <3>1 DEF NetworkInv, NetworkTypeOK, Attached, RepliesAreExpected, IsAlone
    <3>. QED  BY <2>1, <3>1, <3>2, RequestsOnly DEF NetworkInv, NetworkTypeOK
  <2>. QED  BY <2>1, <2>2, <2>3 DEF Next, vars
<1>. QED  BY <1>1, <1>2, PTL DEF Spec

\* An address has one translation at most, and none that is too old to be believed
\* within a lap of the clock.
THEOREM TableStaysSound == Spec => []TableIsSound
<1>1. NetworkInv => TableIsSound
  BY DEF NetworkInv
<1>. QED  BY <1>1, NetworkInvariant, PTL

\* Every frame but an echo request has the addresses of the host it is meant for,
\* whoever set the destination since it was prepared.
THEOREM FramesAlwaysReachTheirHost == Spec => []FramesReachTheirHost
<1>1. NetworkInv => FramesReachTheirHost
  BY DEF NetworkInv
<1>. QED  BY <1>1, NetworkInvariant, PTL

\* A request that is the only one ever attached is completed by its own answer.
THEOREM AnswersAreOnesOwn == Spec => []AnswerIsItsOwn
<1>1. NetworkInv => AnswerIsItsOwn
  BY DEF NetworkInv, RepliesAreExpected, IsAlone, AnswerIsItsOwn
<1>. QED  BY <1>1, NetworkInvariant, PTL

\* The bytes of the estimation never wrap: whatever round trips of up to 31 ticks were
\* measured, and in whatever order, updateRttEstimation() computes what the integers
\* give, and the timeout stays between RTO and what run() can count to.
THEOREM EstimationIsSound ==
    ASSUME ShortTrips
    PROVE  Spec => []RttIsSound
<1>1. Init => RttInv
  BY DEF Init, RttInit, RttInv, IsEstimate, Accepted, RTO, TIME_WAIT_TIMEOUT, Byte
<1>2. RttInv /\ [Next]_vars => RttInv'
  <2>1. ASSUME RttInv, UNCHANGED rtt
        PROVE  RttInv'
    BY <2>1 DEF RttInv
  <2>. QED  BY <2>1, RttKeeps DEF Next, vars
<1>3. RttInv => RttIsSound
  <2>1. \A n \in 0 .. MaxRtt : n \in 0 .. 31
    BY RttAssumption DEF ShortTrips
  <2>. QED  BY <2>1, UpdateIsExact DEF RttInv, IsEstimate, RttIsSound
<1>. QED  BY <1>1, <1>2, <1>3, PTL DEF Spec
=============================================================================
