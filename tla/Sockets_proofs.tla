--------------------------- MODULE Sockets_proofs ---------------------------
(***************************************************************************)
(* Proofs about the socket tools: what the map of a port knows of the      *)
(* descriptors that the threads share, and what kill() answers, for every  *)
(* set of ports, number of connections and descriptors, and every number   *)
(* the user may ask to kill.                                               *)
(***************************************************************************)
EXTENDS Sockets, SequenceTheorems, FiniteSetTheorems, WellFoundedInduction, TLAPS

Conn ==
    [port : Ports, far : BOOLEAN, near : {"queued", "open", "closed"},
     unread : Nat, taken : Nat, reset : BOOLEAN]

ConnsTypeOK == conn \in Seq(Conn) /\ table \in [Fds -> 0 .. Len(conn)]

Polls == [fd : Fds, in : BOOLEAN]

Pcs == {"none", "poll", "clients", "closing", "kill", "killing", "ended"}

Thread == [pc : Pcs, fds : Seq(Polls), i : Nat \ {0}, new : BOOLEAN, fd : 0 .. MaxFd]

ThreadsTypeOK ==
    /\ m_clients \in [Ports -> [Fds -> [conn : Nat, counter : Nat]]]
    /\ thread \in [Ports -> Thread]
    /\ stolen \in BOOLEAN

UserTypeOK ==
    /\ m_prey \in [Ports -> Preys \cup {NoPrey}]
    /\ m_run \in [Ports -> BOOLEAN]
    /\ user \in [at : {"idle", "joins", "waits", "woken"}, port : Ports \cup {Idle.port}]
    /\ user.at # "idle" => user.port \in Ports
    /\ hit \in Nat

\* A descriptor is that of an open connection, and no other has it; nothing was
\* read of a connection before it is accepted.
TableIsSound ==
    /\ \A f \in Fds : table[f] # 0 => conn[table[f]].near = "open"
    /\ \A f, g \in Fds : table[f] # 0 /\ table[f] = table[g] => f = g
    /\ \A k \in DOMAIN conn : conn[k].near = "queued" => conn[k].taken = 0

\* What the round of a thread still looks at is there: a connection that waits,
\* and clients of the map, each once.
RoundIsSound(p) ==
    LET t == thread[p] IN
        /\ t.new => Queued(p) # {}
        /\ \A i \in t.i .. Len(t.fds) :
            /\ t.fds[i].fd \in Held(p)
            /\ \A j \in i + 1 .. Len(t.fds) : t.fds[i].fd # t.fds[j].fd

\* Between the two closes the client is in the map, and the one that is killed is
\* somebody's prey.
AgainIsSound(p) ==
    LET t == thread[p] IN
        /\ t.pc \in {"closing", "killing"} => t.fd \in Held(p)
        /\ t.pc = "closing" => t.i <= Len(t.fds) /\ t.fd = t.fds[t.i].fd
        /\ t.pc = "killing" => m_prey[p] # NoPrey

ThreadIsSound(p) ==
    /\ \A fd \in Held(p) : m_clients[p][fd].conn # 0
    /\ RoundIsSound(p) /\ AgainIsSound(p)

\* Only the port whose user waits has a prey, and until the user goes on, the prey
\* and the connection that was closed for it tell the same.
KillIsKept ==
    /\ \A p \in Ports : m_prey[p] # NoPrey => user.at \in {"waits", "woken"} /\ user.port = p
    /\ user.at \in {"waits", "woken"} =>
        IF thread[user.port].pc = "killing" THEN hit # 0
        ELSE IF user.at = "waits" THEN hit = 0
        ELSE m_prey[user.port] = NoPrey <=> hit # 0

\* ClientsAreTheirOwn of one port, with the port of the connection.
IsOwn(p, fd) ==
    /\ table[fd] = m_clients[p][fd].conn
    /\ m_clients[p][fd].counter = conn[table[fd]].taken
    /\ conn[table[fd]].port = p

IsClosing(p, fd) == thread[p].pc \in {"closing", "killing"} /\ thread[p].fd = fd

ClientsOf(p) ==
    /\ \A fd \in Held(p) : IsOwn(p, fd) \/ IsClosing(p, fd)
    /\ \A fd \in Fds : table[fd] # 0 /\ conn[table[fd]].port = p => fd \in Held(p)

SocketsInv ==
    /\ ConnsTypeOK /\ ThreadsTypeOK /\ UserTypeOK
    /\ TableIsSound
    /\ \A p \in Ports : ThreadIsSound(p)
    /\ KillIsKept
    /\ ~ stolen => \A p \in Ports : ClientsOf(p)

-----------------------------------------------------------------------------
(***************************************************************************)
(* Connections and descriptors.                                            *)
(***************************************************************************)

\* A set of naturals that is not empty has a least element.
LEMMA LeastIs ==
    ASSUME NEW S, S \subseteq Nat, S # {}
    PROVE  Least(S) \in S
<1>. DEFINE R == {p \in Nat \X Nat : p[1] < p[2]}
<1>1. IsWellFoundedOn(R, Nat)
  BY NatLessThanWellFounded DEF OpToRel
<1>2. \A i, j \in Nat : i < j => <<i, j>> \in R
  OBVIOUS
<1>. HIDE DEF R
<1>3. PICK m \in S : \A j \in S : ~ (<<j, m>> \in R)
  BY <1>1, WFMin
<1>4. ASSUME NEW j \in S
      PROVE  m <= j
  <2>1. ~ (j < m)
    BY <1>2, <1>3
  <2>. QED  BY <2>1
<1>. QED  BY <1>4 DEF Least

\* The connections that there were stay those of their ports, with what was read.
Evolves ==
    /\ conn' \in Seq(Conn) /\ Len(conn) <= Len(conn')
    /\ \A k \in DOMAIN conn : conn'[k].port = conn[k].port /\ conn'[k].taken = conn[k].taken

\* Those that wait still do.
NoneIsAccepted == \A k \in DOMAIN conn : conn[k].near = "queued" => conn'[k].near = "queued"

\* What is in the table is a connection.
LEMMA TableIs ==
    ASSUME ConnsTypeOK
    PROVE  /\ Len(conn) \in Nat /\ DOMAIN conn = 1 .. Len(conn)
           /\ Fds \subseteq Nat \ {0} /\ Fds \subseteq 0 .. MaxFd
           /\ \A f \in Fds : table[f] \in Nat /\ (table[f] # 0 => table[f] \in DOMAIN conn)
           /\ \A k \in DOMAIN conn : conn[k] \in Conn
<1>1. Len(conn) \in Nat /\ DOMAIN conn = 1 .. Len(conn)
  BY DEF ConnsTypeOK
<1>2. \A k \in DOMAIN conn : conn[k] \in Conn
  BY DEF ConnsTypeOK
<1>. QED  BY <1>1, <1>2, ConnsAssumption DEF ConnsTypeOK, Fds

\* A queue that nobody accepts from does not become empty.
LEMMA QueuedStays ==
    ASSUME ConnsTypeOK, Evolves, NoneIsAccepted, NEW p, Queued(p) # {}
    PROVE  Queued(p)' # {}
<1>1. PICK k \in DOMAIN conn : conn[k].port = p /\ conn[k].near = "queued"
  BY DEF Queued
<1>2. conn'[k].port = p /\ conn'[k].near = "queued"
  BY <1>1 DEF Evolves, NoneIsAccepted
<1>3. k \in DOMAIN conn'
  BY DEF ConnsTypeOK, Evolves
<1>. QED  BY <1>2, <1>3 DEF Queued

\* A close ends one connection, if the descriptor is that of one, and frees it.
LEMMA CloseFdIs ==
    ASSUME ConnsTypeOK, TableIsSound, NEW fd \in Fds, CloseFd(fd)
    PROVE  /\ ConnsTypeOK' /\ TableIsSound' /\ Evolves /\ NoneIsAccepted
           /\ table' = [table EXCEPT ![fd] = 0]
<1>. USE TableIs
<1>1. CASE table[fd] = 0
  <2>1. UNCHANGED <<conn, table>>
    BY <1>1 DEF CloseFd, connVars
  <2>2. table' = [table EXCEPT ![fd] = 0]
    BY <1>1, <2>1 DEF ConnsTypeOK
  <2>3. ConnsTypeOK' /\ TableIsSound' /\ Evolves /\ NoneIsAccepted
    BY <2>1 DEF ConnsTypeOK, TableIsSound, Evolves, NoneIsAccepted
  <2>. QED  BY <2>2, <2>3
<1>2. CASE table[fd] # 0
  <2>. DEFINE n == table[fd]
              c == [conn[n] EXCEPT !.near = "closed", !.unread = 0]
  <2>1. table' = [table EXCEPT ![fd] = 0] /\ conn' = [conn EXCEPT ![n] = c]
    BY <1>2 DEF CloseFd, NearCloses
  <2>2. n \in DOMAIN conn /\ conn[n] \in Conn
    BY <1>2
  <2>3. c \in Conn /\ c.port = conn[n].port /\ c.taken = conn[n].taken /\ c.near = "closed"
    BY <2>2 DEF Conn
  <2>. HIDE DEF c
  <2>4. /\ conn' \in Seq(Conn) /\ Len(conn') = Len(conn) /\ DOMAIN conn' = DOMAIN conn
        /\ conn'[n] = c /\ \A k \in DOMAIN conn : k # n => conn'[k] = conn[k]
    BY <2>1, <2>2, <2>3 DEF ConnsTypeOK
  <2>5. ConnsTypeOK'
    BY <2>1, <2>4 DEF ConnsTypeOK
  <2>6. Evolves /\ NoneIsAccepted
    BY <1>2, <2>2, <2>3, <2>4 DEF Evolves, NoneIsAccepted, TableIsSound
  <2>7. \A f \in Fds : table'[f] = IF f = fd THEN 0 ELSE table[f]
    BY <2>1 DEF ConnsTypeOK
  <2>8. \A f \in Fds : table'[f] # 0 => table'[f] \in DOMAIN conn /\ table'[f] # n
    BY <1>2, <2>7 DEF TableIsSound
  <2>9. TableIsSound'
    BY <2>3, <2>4, <2>7, <2>8 DEF TableIsSound
  <2>. QED  BY <2>1, <2>5, <2>6, <2>9
<1>. QED  BY <1>1, <1>2

-----------------------------------------------------------------------------
(***************************************************************************)
(* The ports that a step is not about.                                     *)
(***************************************************************************)
PortStays(p) == thread'[p] = thread[p] /\ m_clients'[p] = m_clients[p] /\ m_prey'[p] = m_prey[p]

LEMMA ThreadStays ==
    ASSUME NEW p \in Ports, ThreadIsSound(p), PortStays(p), Queued(p) # {} => Queued(p)' # {}
    PROVE  ThreadIsSound(p)'
<1>1. Held(p)' = Held(p)
  BY DEF Held, PortStays
<1>2. (\A fd \in Held(p) : m_clients[p][fd].conn # 0)'
  BY <1>1 DEF ThreadIsSound, PortStays
<1>3. RoundIsSound(p)'
  BY <1>1 DEF ThreadIsSound, RoundIsSound, PortStays
<1>4. AgainIsSound(p)'
  BY <1>1 DEF ThreadIsSound, AgainIsSound, PortStays
<1>. QED  BY <1>2, <1>3, <1>4 DEF ThreadIsSound

\* The descriptor is free, or of another port.
IsForeign(p, fd) == table[fd] = 0 \/ conn[table[fd]].port # p

LEMMA ClientsStay ==
    ASSUME ConnsTypeOK, NEW p \in Ports, ThreadIsSound(p), ClientsOf(p), PortStays(p),
           \A k \in DOMAIN conn : /\ conn'[k].port = conn[k].port
                                  /\ conn[k].port = p => conn'[k].taken = conn[k].taken,
           \A fd \in Fds : table'[fd] = table[fd] \/ (IsForeign(p, fd) /\ IsForeign(p, fd)')
    PROVE  ClientsOf(p)'
<1>. USE TableIs
<1>1. Held(p)' = Held(p) /\ Held(p) \subseteq Fds
  BY DEF Held, PortStays
<1>2. ASSUME NEW fd \in Held(p)
      PROVE  IsOwn(p, fd)' \/ IsClosing(p, fd)'
  <2>1. CASE IsClosing(p, fd)
    BY <2>1 DEF IsClosing, PortStays
  <2>2. CASE IsOwn(p, fd)
    <3>1. table[fd] # 0 /\ table[fd] \in DOMAIN conn /\ conn[table[fd]].port = p
      BY <1>1, <2>2 DEF IsOwn, ThreadIsSound
    <3>2. table'[fd] = table[fd]
      BY <1>1, <3>1 DEF IsForeign
    <3>. QED  BY <2>2, <3>1, <3>2 DEF IsOwn, PortStays
  <2>. QED  BY <2>1, <2>2 DEF ClientsOf
<1>3. ASSUME NEW fd \in Fds, table'[fd] # 0, conn'[table'[fd]].port = p
      PROVE  fd \in Held(p)
  <2>1. table'[fd] = table[fd]
    BY <1>3 DEF IsForeign
  <2>2. table[fd] # 0 /\ conn[table[fd]].port = p
    BY <1>3, <2>1
  <2>. QED  BY <2>2 DEF ClientsOf
<1>. QED  BY <1>1, <1>2, <1>3 DEF ClientsOf

-----------------------------------------------------------------------------
(***************************************************************************)
(* The client tool.                                                        *)
(***************************************************************************)

\* What the client tool does to the connections: the ends of the server stay.
LEMMA FarClosesIs ==
    ASSUME ConnsTypeOK, NEW ks, FarCloses(ks)
    PROVE  /\ conn' \in Seq(Conn) /\ Len(conn') = Len(conn)
           /\ \A k \in DOMAIN conn : /\ conn'[k].port = conn[k].port
                                    /\ conn'[k].near = conn[k].near
                                    /\ conn'[k].taken = conn[k].taken
<1>. USE TableIs
<1>. DEFINE c(k) == IF k \in ks THEN [conn[k] EXCEPT !.far = FALSE] ELSE conn[k]
<1>1. conn' = [k \in 1 .. Len(conn) |-> c(k)]
  BY DEF FarCloses
<1>2. \A k \in DOMAIN conn : /\ c(k) \in Conn /\ c(k).port = conn[k].port
                            /\ c(k).near = conn[k].near /\ c(k).taken = conn[k].taken
  BY DEF Conn
<1>. HIDE DEF c
<1>. QED  BY <1>1, <1>2

\* A connection that the client adds waits to be accepted.
LEMMA ClientConns ==
    ASSUME ConnsTypeOK, ClientNext
    PROVE  /\ table' = table
           /\ conn' \in Seq(Conn) /\ Len(conn) <= Len(conn')
           /\ \A k \in DOMAIN conn : /\ conn'[k].port = conn[k].port
                                    /\ conn'[k].near = conn[k].near
                                    /\ conn'[k].taken = conn[k].taken
           /\ \A k \in DOMAIN conn' \ DOMAIN conn :
                conn'[k].near = "queued" /\ conn'[k].taken = 0
<1>. USE TableIs
<1>1. ASSUME NEW p \in Ports, ClientConnects(p)
      PROVE  /\ conn' \in Seq(Conn) /\ Len(conn') = Len(conn) + 1
             /\ \A k \in DOMAIN conn : conn'[k] = conn[k]
             /\ conn'[Len(conn) + 1] = NewConn(p)
  <2>1. NewConn(p) \in Conn
    BY DEF NewConn, Conn
  <2>2. conn \in Seq(Conn) /\ conn' = Append(conn, NewConn(p))
    BY <1>1 DEF ConnsTypeOK, ClientConnects
  <2>. QED  BY <2>1, <2>2, AppendProperties
<1>2. ASSUME NEW k \in DOMAIN conn, ClientWrites(k)
      PROVE  /\ conn' \in Seq(Conn) /\ Len(conn') = Len(conn)
             /\ \A j \in DOMAIN conn : /\ conn'[j].port = conn[j].port
                                      /\ conn'[j].near = conn[j].near
                                      /\ conn'[j].taken = conn[j].taken
  <2>1. \/ conn' = [conn EXCEPT ![k].unread = @ + 1]
        \/ conn' = [conn EXCEPT ![k].reset = TRUE]
        \/ FarCloses(connections)
    BY <1>2 DEF ClientWrites
  <2>2. conn[k] \in Conn /\ conn \in Seq(Conn)
    BY <1>2 DEF ConnsTypeOK
  <2>3. ASSUME NEW c \in Conn, conn' = [conn EXCEPT ![k] = c], c.port = conn[k].port,
               c.near = conn[k].near, c.taken = conn[k].taken
        PROVE  /\ conn' \in Seq(Conn) /\ Len(conn') = Len(conn)
               /\ \A j \in DOMAIN conn : /\ conn'[j].port = conn[j].port
                                        /\ conn'[j].near = conn[j].near
                                        /\ conn'[j].taken = conn[j].taken
    BY <2>2, <2>3
  <2>4. CASE conn' = [conn EXCEPT ![k].unread = @ + 1]
    <3>. DEFINE n == conn[k].unread + 1
                c == [conn[k] EXCEPT !.unread = n]
    <3>1. n \in Nat
      BY <2>2 DEF Conn
    <3>2. conn' = [conn EXCEPT ![k] = c]
      BY <2>4
    <3>. HIDE DEF n
    <3>3. /\ c \in Conn /\ c.port = conn[k].port /\ c.near = conn[k].near
          /\ c.taken = conn[k].taken
      BY <2>2, <3>1 DEF Conn
    <3>. HIDE DEF c
    <3>. QED  BY <2>3, <3>2, <3>3
  <2>5. CASE conn' = [conn EXCEPT ![k].reset = TRUE]
    <3>. DEFINE c == [conn[k] EXCEPT !.reset = TRUE]
    <3>1. /\ c \in Conn /\ c.port = conn[k].port /\ c.near = conn[k].near
          /\ c.taken = conn[k].taken
      BY <2>2 DEF Conn
    <3>2. conn' = [conn EXCEPT ![k] = c]
      BY <2>5
    <3>. QED  BY <2>3, <3>1, <3>2
  <2>. QED  BY <2>1, <2>4, <2>5, FarClosesIs
<1>3. table' = table
  BY DEF ClientNext, ClientConnects, ClientCloses, ClientWrites, ClientClears
<1>4. CASE \E p \in Ports : m_run[p] /\ ClientConnects(p)
  <2>1. PICK p \in Ports : ClientConnects(p)
    BY <1>4
  <2>2. NewConn(p).near = "queued" /\ NewConn(p).taken = 0
    BY DEF NewConn
  <2>. QED  BY <1>1, <1>3, <2>1, <2>2
<1>5. CASE \E k \in DOMAIN conn : ClientWrites(k)
  BY <1>2, <1>3, <1>5
<1>6. CASE ClientClears \/ \E k \in DOMAIN conn : ClientCloses(k)
  <2>1. PICK ks : FarCloses(ks)
    BY <1>6 DEF ClientClears, ClientCloses
  <2>. QED  BY <1>3, <2>1, FarClosesIs
<1>. QED  BY <1>4, <1>5, <1>6 DEF ClientNext

\* None of it is any of the listener's business.
LEMMA ClientKeeps ==
    ASSUME SocketsInv, ClientNext, UNCHANGED listenerVars
    PROVE  SocketsInv'
<1>1. ConnsTypeOK /\ TableIsSound
  BY DEF SocketsInv
<1>2. ConnsTypeOK'
  BY <1>1, ClientConns, TableIs DEF ConnsTypeOK
<1>3. Evolves /\ NoneIsAccepted
  BY <1>1, ClientConns DEF Evolves, NoneIsAccepted
<1>4. TableIsSound'
  <2>1. \A f \in Fds : table'[f] = table[f] /\ (table[f] # 0 => table[f] \in DOMAIN conn)
    BY <1>1, ClientConns, TableIs
  <2>2. \A f \in Fds : table'[f] # 0 => conn'[table'[f]].near = "open"
    BY <1>1, <2>1, ClientConns DEF TableIsSound
  <2>3. \A k \in DOMAIN conn' : conn'[k].near = "queued" => conn'[k].taken = 0
    BY <1>1, ClientConns DEF TableIsSound
  <2>. QED  BY <1>1, <2>1, <2>2, <2>3 DEF TableIsSound
<1>5. ASSUME NEW p \in Ports
      PROVE  ThreadIsSound(p)' /\ (~ stolen => ClientsOf(p)')
  <2>1. PortStays(p)
    BY DEF PortStays, listenerVars
  <2>2. ThreadIsSound(p)'
    BY <1>1, <1>3, <2>1, ThreadStays, QueuedStays DEF SocketsInv
  <2>3. \A fd \in Fds : table'[fd] = table[fd]
    BY <1>1, ClientConns
  <2>4. ASSUME ~ stolen
        PROVE  ClientsOf(p)'
    BY <1>1, <1>3, <2>1, <2>3, <2>4, ClientsStay DEF SocketsInv, Evolves
  <2>. QED  BY <2>2, <2>4
<1>6. ThreadsTypeOK' /\ UserTypeOK' /\ KillIsKept'
  BY DEF SocketsInv, listenerVars, ThreadsTypeOK, UserTypeOK, KillIsKept
<1>. QED  BY <1>2, <1>4, <1>5, <1>6 DEF SocketsInv, listenerVars

-----------------------------------------------------------------------------
(***************************************************************************)
(* The thread of the user.                                                 *)
(***************************************************************************)

\* A step that leaves the connections alone.
LEMMA QuietConns ==
    ASSUME SocketsInv, UNCHANGED connVars
    PROVE  ConnsTypeOK' /\ TableIsSound' /\ Evolves /\ NoneIsAccepted
<1>1. conn' = conn /\ table' = table
  BY DEF connVars
<1>. QED  BY <1>1, TableIs DEF SocketsInv, ConnsTypeOK, TableIsSound, Evolves, NoneIsAccepted

\* And, of the ports, all but one.
LEMMA OthersStay ==
    ASSUME SocketsInv, UNCHANGED connVars, NEW p \in Ports,
           \A q \in Ports \ {p} : PortStays(q)
    PROVE  \A q \in Ports \ {p} : ThreadIsSound(q)' /\ (~ stolen => ClientsOf(q)')
<1>. SUFFICES ASSUME NEW q \in Ports \ {p}
              PROVE  ThreadIsSound(q)' /\ (~ stolen => ClientsOf(q)')
  OBVIOUS
<1>1. PortStays(q) /\ ThreadIsSound(q) /\ ConnsTypeOK
  BY DEF SocketsInv
<1>2. ThreadIsSound(q)'
  BY <1>1, QuietConns, QueuedStays, ThreadStays
<1>3. ASSUME ~ stolen
      PROVE  ClientsOf(q)'
  <2>1. ClientsOf(q)
    BY <1>3 DEF SocketsInv
  <2>. QED  BY <1>1, <2>1, ClientsStay DEF connVars
<1>. QED  BY <1>2, <1>3

\* A thread that begins anew: nothing of the last round matters.
LEMMA GoesOn ==
    ASSUME NEW p \in Ports, ThreadIsSound(p), UNCHANGED connVars, m_clients'[p] = m_clients[p],
           thread[p].pc \notin {"closing", "killing"},
           NEW there \in Pcs, there \notin {"closing", "killing"},
           thread'[p] = At(there)
    PROVE  ThreadIsSound(p)' /\ (ClientsOf(p) => ClientsOf(p)')
<1>1. Held(p)' = Held(p) /\ conn' = conn /\ table' = table
  BY DEF Held, connVars
<1>2. /\ thread'[p].pc = there /\ thread'[p].fds = <<>> /\ thread'[p].i = 1
      /\ thread'[p].new = FALSE /\ Len(thread'[p].fds) = 0
  BY DEF At, Round
<1>3. (\A fd \in Held(p) : m_clients[p][fd].conn # 0)'
  BY <1>1 DEF ThreadIsSound
<1>4. RoundIsSound(p)'
  <2>1. \A i : i \notin thread'[p].i .. Len(thread'[p].fds)
    BY <1>2
  <2>. QED  BY <1>2, <2>1 DEF RoundIsSound
<1>5. AgainIsSound(p)'
  BY <1>2 DEF AgainIsSound
<1>6. ASSUME ClientsOf(p)
      PROVE  ClientsOf(p)'
  <2>1. \A fd \in Held(p) : IsOwn(p, fd)
    BY <1>6 DEF ClientsOf, IsClosing
  <2>2. \A fd \in Held(p) : IsOwn(p, fd)'
    BY <1>1, <2>1 DEF IsOwn
  <2>. QED  BY <1>1, <1>6, <2>2 DEF ClientsOf
<1>. QED  BY <1>3, <1>4, <1>5, <1>6 DEF ThreadIsSound

LEMMA AtIs ==
    ASSUME NEW there \in Pcs
    PROVE  At(there) \in Thread
<1>1. <<>> \in Seq(Polls)
  BY EmptySeq
<1>2. 0 \in 0 .. MaxFd /\ 1 \in Nat \ {0} /\ FALSE \in BOOLEAN
  BY ConnsAssumption
<1>. QED  BY <1>1, <1>2 DEF Thread, At, Round

LEMMA OpensKeeps ==
    ASSUME SocketsInv, NEW p \in Ports, Opens(p)
    PROVE  SocketsInv'
<1>1. ConnsTypeOK' /\ TableIsSound'
  BY QuietConns DEF Opens
<1>2. Started \in Thread
  BY AtIs DEF Started, Pcs
<1>3. ThreadsTypeOK' /\ UserTypeOK'
  BY <1>2 DEF SocketsInv, ThreadsTypeOK, UserTypeOK, Opens
<1>4. \A q \in Ports \ {p} : PortStays(q)
  BY DEF SocketsInv, ThreadsTypeOK, UserTypeOK, PortStays, Opens
<1>5. thread'[p] = At("poll")
  BY DEF SocketsInv, ThreadsTypeOK, Opens, Started
<1>6. ThreadIsSound(p)' /\ (~ stolen => ClientsOf(p)')
  BY <1>5, GoesOn DEF SocketsInv, Opens, Pcs
<1>7. KillIsKept'
  BY DEF SocketsInv, UserTypeOK, KillIsKept, Opens
<1>. QED  BY <1>1, <1>3, <1>4, <1>6, <1>7, OthersStay DEF SocketsInv, Opens

LEMMA ClosesKeeps ==
    ASSUME SocketsInv, NEW p \in Ports, Closes(p)
    PROVE  SocketsInv'
<1>1. ConnsTypeOK' /\ TableIsSound' /\ Evolves /\ NoneIsAccepted
  BY QuietConns DEF Closes
<1>2. ThreadsTypeOK' /\ UserTypeOK'
  BY DEF SocketsInv, ThreadsTypeOK, UserTypeOK, Closes
<1>3. \A q \in Ports : PortStays(q)
  BY DEF PortStays, Closes
<1>4. ThreadIsSound(p)' /\ (~ stolen => ClientsOf(p)')
  <2>1. ThreadIsSound(p)'
    BY <1>1, <1>3, QueuedStays, ThreadStays DEF SocketsInv
  <2>2. ASSUME ~ stolen
        PROVE  ClientsOf(p)'
    BY <1>3, <2>2, ClientsStay DEF SocketsInv, Closes, connVars
  <2>. QED  BY <2>1, <2>2
<1>5. KillIsKept'
  BY DEF SocketsInv, KillIsKept, Closes
<1>. QED  BY <1>1, <1>2, <1>3, <1>4, <1>5, OthersStay DEF SocketsInv, Closes

LEMMA KillsKeeps ==
    ASSUME SocketsInv, NEW p \in Ports, Kills(p)
    PROVE  SocketsInv'
<1>1. ConnsTypeOK' /\ TableIsSound' /\ Evolves /\ NoneIsAccepted
  BY QuietConns DEF Kills
<1>2. PICK prey \in Preys : m_prey' = [m_prey EXCEPT ![p] = prey]
  BY DEF Kills
<1>3. ThreadsTypeOK' /\ UserTypeOK'
  BY <1>2 DEF SocketsInv, ThreadsTypeOK, UserTypeOK, Kills
<1>4. \A q \in Ports \ {p} : PortStays(q)
  BY <1>2 DEF SocketsInv, UserTypeOK, PortStays, Kills
<1>5. thread[p].pc # "killing"
  BY DEF SocketsInv, KillIsKept, ThreadIsSound, AgainIsSound, Kills
<1>6. ThreadIsSound(p)'
  <2>1. Held(p)' = Held(p) /\ Queued(p)' = Queued(p)
    BY DEF Held, Queued, Kills, connVars
  <2>2. (\A fd \in Held(p) : m_clients[p][fd].conn # 0)' /\ RoundIsSound(p)'
    BY <2>1 DEF SocketsInv, ThreadIsSound, RoundIsSound, Kills
  <2>3. AgainIsSound(p)'
    BY <1>5, <2>1 DEF SocketsInv, ThreadIsSound, AgainIsSound, Kills
  <2>. QED  BY <2>2, <2>3 DEF ThreadIsSound
<1>7. ASSUME ~ stolen
      PROVE  ClientsOf(p)'
  BY <1>7 DEF SocketsInv, ClientsOf, Held, IsOwn, IsClosing, Kills, connVars
<1>8. KillIsKept'
  BY <1>2, <1>5 DEF SocketsInv, UserTypeOK, KillIsKept, Kills
<1>. QED  BY <1>1, <1>3, <1>4, <1>6, <1>7, <1>8, OthersStay DEF SocketsInv, Kills

LEMMA KillReturnsKeeps ==
    ASSUME SocketsInv, KillReturns
    PROVE  SocketsInv'
<1>. PICK p \in Ports : p = user.port
  BY DEF SocketsInv, UserTypeOK, KillReturns, CanReturn
<1>1. ConnsTypeOK' /\ TableIsSound' /\ Evolves /\ NoneIsAccepted
  BY QuietConns DEF KillReturns
<1>2. thread[p].pc # "killing" /\ user.at = "woken"
  BY DEF KillReturns, CanReturn
<1>3. m_prey' = [m_prey EXCEPT ![p] = NoPrey] /\ user' = Idle /\ user'.at = "idle"
  BY DEF KillReturns, Idle
<1>4. ThreadsTypeOK' /\ UserTypeOK'
  <2>1. Idle \in [at : {"idle", "joins", "waits", "woken"}, port : Ports \cup {Idle.port}]
    BY DEF Idle
  <2>. QED  BY <1>3, <2>1 DEF SocketsInv, ThreadsTypeOK, UserTypeOK, KillReturns
<1>5. \A q \in Ports \ {p} : PortStays(q)
  BY <1>3 DEF SocketsInv, UserTypeOK, PortStays, KillReturns
<1>6. ThreadIsSound(p)'
  <2>1. Held(p)' = Held(p) /\ Queued(p)' = Queued(p) /\ thread' = thread
    BY DEF Held, Queued, KillReturns, connVars
  <2>2. ThreadIsSound(p)
    BY <1>2 DEF SocketsInv
  <2>3. (\A fd \in Held(p) : m_clients[p][fd].conn # 0)' /\ RoundIsSound(p)'
    BY <2>1, <2>2 DEF ThreadIsSound, RoundIsSound, KillReturns
  <2>4. AgainIsSound(p)'
    BY <1>2, <2>1, <2>2 DEF ThreadIsSound, AgainIsSound
  <2>. QED  BY <2>3, <2>4 DEF ThreadIsSound
<1>7. ASSUME ~ stolen
      PROVE  ClientsOf(p)'
  BY <1>2, <1>7 DEF SocketsInv, ClientsOf, Held, IsOwn, IsClosing, KillReturns, connVars
<1>8. KillIsKept'
  BY <1>2, <1>3 DEF SocketsInv, UserTypeOK, KillIsKept
<1>. QED  BY <1>1, <1>2, <1>4, <1>5, <1>6, <1>7, <1>8, OthersStay DEF SocketsInv, KillReturns

\* The port is closed, with its clients and those that wait.
LEMMA JoinsConns ==
    ASSUME SocketsInv, NEW p \in Ports, p = user.port, Joins
    PROVE  /\ ConnsTypeOK' /\ TableIsSound' /\ Evolves
           /\ \A fd \in Fds : table'[fd] = IF fd \in Held(p) THEN 0 ELSE table[fd]
           /\ \A k \in DOMAIN conn :
                conn[k].near = "queued" /\ conn[k].port # p => conn'[k].near = "queued"
<1>. USE TableIs
<1>. DEFINE ks == {table[fd] : fd \in Held(p)} \cup Queued(p)
            c(k) == IF k \in ks THEN [conn[k] EXCEPT !.near = "closed", !.unread = 0]
                                ELSE conn[k]
<1>1. ConnsTypeOK /\ TableIsSound /\ Held(p) \subseteq Fds
  BY DEF SocketsInv, Held
<1>2. /\ table' = [fd \in Fds |-> IF fd \in Held(p) THEN 0 ELSE table[fd]]
      /\ conn' = [k \in DOMAIN conn |-> c(k)]
  BY DEF Joins
<1>3. \A k \in DOMAIN conn : /\ c(k) \in Conn /\ c(k).port = conn[k].port
                            /\ c(k).taken = conn[k].taken
                            /\ c(k).near = IF k \in ks THEN "closed" ELSE conn[k].near
  BY <1>1 DEF Conn
<1>. HIDE DEF c
<1>4. /\ conn' \in Seq(Conn) /\ Len(conn') = Len(conn) /\ DOMAIN conn' = DOMAIN conn
      /\ \A k \in DOMAIN conn : conn'[k] = c(k)
  BY <1>1, <1>2, <1>3
<1>5. ConnsTypeOK'
  BY <1>1, <1>2, <1>4 DEF ConnsTypeOK
<1>6. Evolves
  BY <1>1, <1>3, <1>4 DEF Evolves
<1>7. TableIsSound'
  <2>1. ASSUME NEW f \in Fds, table'[f] # 0
        PROVE  table'[f] = table[f] /\ table[f] \in DOMAIN conn /\ table[f] \notin ks
    BY <1>1, <1>2, <2>1 DEF TableIsSound, Queued
  <2>2. \A f \in Fds : table'[f] # 0 => conn'[table'[f]].near = "open"
    BY <1>1, <1>3, <1>4, <2>1 DEF TableIsSound
  <2>3. \A f, g \in Fds : table'[f] # 0 /\ table'[f] = table'[g] => f = g
    BY <1>1, <2>1 DEF TableIsSound
  <2>4. \A k \in DOMAIN conn' : conn'[k].near = "queued" => conn'[k].taken = 0
    BY <1>1, <1>3, <1>4 DEF TableIsSound
  <2>. QED  BY <2>2, <2>3, <2>4 DEF TableIsSound
<1>8. ASSUME NEW k \in DOMAIN conn, conn[k].near = "queued", conn[k].port # p
      PROVE  conn'[k].near = "queued"
  <2>1. k \notin ks
    BY <1>1, <1>8 DEF Queued, TableIsSound
  <2>. QED  BY <1>3, <1>4, <1>8, <2>1
<1>. QED  BY <1>2, <1>5, <1>6, <1>7, <1>8

LEMMA JoinsKeeps ==
    ASSUME SocketsInv, Joins
    PROVE  SocketsInv'
<1>. PICK p \in Ports : p = user.port
  BY DEF SocketsInv, UserTypeOK, Joins
<1>1. /\ ConnsTypeOK /\ ConnsTypeOK' /\ TableIsSound' /\ Evolves
      /\ \A fd \in Fds : table'[fd] = IF fd \in Held(p) THEN 0 ELSE table[fd]
  BY JoinsConns DEF SocketsInv
<1>2. /\ m_clients' = [m_clients EXCEPT ![p] = NoClients]
      /\ thread' = [thread EXCEPT ![p] = Stopped]
      /\ user.at = "joins" /\ user' = Idle /\ user'.at = "idle"
      /\ UNCHANGED <<m_prey, m_run, hit>> /\ thread[p].pc = "ended"
  BY DEF Joins, Idle
<1>3. stolen' \in BOOLEAN
        /\ (~ stolen' => /\ ~ stolen
                         /\ \A fd \in Held(p) : table[fd] # 0 => conn[table[fd]].port = p)
  BY DEF Joins, SocketsInv, ThreadsTypeOK
<1>4. ThreadsTypeOK'
  <2>1. NoClients \in [Fds -> [conn : Nat, counter : Nat]]
    BY DEF NoClients, NoClient
  <2>2. Stopped \in Thread
    BY AtIs DEF Stopped, Pcs
  <2>. QED  BY <1>2, <1>3, <2>1, <2>2 DEF SocketsInv, ThreadsTypeOK
<1>5. UserTypeOK'
  <2>1. Idle \in [at : {"idle", "joins", "waits", "woken"}, port : Ports \cup {Idle.port}]
    BY DEF Idle
  <2>. QED  BY <1>2, <2>1 DEF SocketsInv, UserTypeOK
<1>6. ASSUME NEW q \in Ports \ {p}
      PROVE  ThreadIsSound(q)' /\ (~ stolen' => ClientsOf(q)')
  <2>1. PortStays(q)
    BY <1>2 DEF PortStays, SocketsInv, ThreadsTypeOK
  <2>2. ASSUME Queued(q) # {}
        PROVE  Queued(q)' # {}
    <3>1. PICK k \in DOMAIN conn : conn[k].port = q /\ conn[k].near = "queued"
      BY <2>2 DEF Queued
    <3>2. conn'[k].port = q /\ conn'[k].near = "queued"
      BY <1>1, <3>1, JoinsConns DEF Evolves
    <3>3. k \in DOMAIN conn'
      BY <1>1, TableIs DEF Evolves
    <3>. QED  BY <3>2, <3>3 DEF Queued
  <2>3. ThreadIsSound(q)'
    BY <2>1, <2>2, ThreadStays DEF SocketsInv
  <2>4. ASSUME ~ stolen'
        PROVE  ClientsOf(q)'
    <3>1. ClientsOf(q) /\ ThreadIsSound(q)
      BY <1>3, <2>4 DEF SocketsInv
    <3>2. \A fd \in Fds : table'[fd] = table[fd] \/ (IsForeign(q, fd) /\ IsForeign(q, fd)')
      BY <1>1, <1>3, <2>4 DEF IsForeign
    <3>. QED  BY <1>1, <2>1, <3>1, <3>2, ClientsStay DEF Evolves
  <2>. QED  BY <2>3, <2>4
<1>7. Held(p)' = {}
  BY <1>2 DEF Held, NoClients, SocketsInv, ThreadsTypeOK
<1>8. ThreadIsSound(p)'
  <2>1. /\ thread'[p].pc = "none" /\ thread'[p].fds = <<>> /\ thread'[p].i = 1
        /\ thread'[p].new = FALSE /\ Len(thread'[p].fds) = 0
    BY <1>2 DEF Stopped, At, Round, SocketsInv, ThreadsTypeOK
  <2>2. \A i : i \notin thread'[p].i .. Len(thread'[p].fds)
    BY <2>1
  <2>. QED  BY <1>7, <2>1, <2>2 DEF ThreadIsSound, RoundIsSound, AgainIsSound
<1>9. ASSUME ~ stolen'
      PROVE  ClientsOf(p)'
  <2>1. ClientsOf(p)
    BY <1>3, <1>9 DEF SocketsInv
  <2>2. ASSUME NEW fd \in Fds, table'[fd] # 0
        PROVE  conn'[table'[fd]].port # p
    <3>1. fd \notin Held(p) /\ table'[fd] = table[fd] /\ table[fd] \in DOMAIN conn
      BY <1>1, <2>2, TableIs
    <3>2. conn[table[fd]].port # p
      BY <2>1, <2>2, <3>1 DEF ClientsOf
    <3>. QED  BY <1>1, <3>1, <3>2 DEF Evolves
  <2>. QED  BY <1>7, <2>2 DEF ClientsOf
<1>10. KillIsKept'
  BY <1>2 DEF SocketsInv, UserTypeOK, KillIsKept
<1>. QED  BY <1>1, <1>4, <1>5, <1>6, <1>8, <1>9, <1>10 DEF SocketsInv

-----------------------------------------------------------------------------
(***************************************************************************)
(* The thread of a port.                                                   *)
(***************************************************************************)

\* What kill() is answered with does not change while no thread enters or leaves
\* dokill() between its closes.
LEMMA KillStays ==
    ASSUME UserTypeOK, KillIsKept, UNCHANGED <<user, m_prey, hit>>,
           \A q \in Ports : thread'[q].pc = "killing" <=> thread[q].pc = "killing"
    PROVE  KillIsKept'
BY DEF UserTypeOK, KillIsKept

\* A step to another place at which nothing of the round is known.
LEMMA GoesKeeps ==
    ASSUME SocketsInv, NEW p \in Ports, NEW there \in {"poll", "kill", "ended"},
           Goes(p, there), thread[p].pc \notin {"closing", "killing"},
           UNCHANGED <<connVars, m_clients, m_prey, m_run, stolen, hit>>,
           UserTypeOK', user' = user \/ m_prey[p] # NoPrey,
           user'.port = user.port,
           user.at = user'.at \/ (user.at = "waits" /\ user'.at = "woken")
    PROVE  SocketsInv'
<1>1. ConnsTypeOK' /\ TableIsSound'
  BY QuietConns
<1>2. there \in Pcs /\ At(there) \in Thread
  BY AtIs DEF Pcs
<1>3. ThreadsTypeOK'
  BY <1>2 DEF SocketsInv, ThreadsTypeOK, Goes
<1>4. /\ thread'[p] = At(there) /\ thread'[p].pc = there
      /\ \A q \in Ports \ {p} : PortStays(q) /\ thread'[q] = thread[q]
  BY DEF SocketsInv, ThreadsTypeOK, PortStays, Goes, At, Round
<1>5. ThreadIsSound(p)' /\ (~ stolen => ClientsOf(p)')
  BY <1>2, <1>4, GoesOn DEF SocketsInv
<1>6. KillIsKept'
  BY <1>4 DEF SocketsInv, UserTypeOK, KillIsKept
<1>. QED  BY <1>1, <1>3, <1>4, <1>5, <1>6, OthersStay DEF SocketsInv

LEMMA SparesKeeps ==
    ASSUME SocketsInv, NEW p \in Ports, Spares(p)
    PROVE  SocketsInv'
<1>1. user' = IF user.at = "waits" /\ user.port = p THEN [user EXCEPT !.at = "woken"] ELSE user
  BY DEF Spares, Wake
<1>2. /\ user' \in [at : {"idle", "joins", "waits", "woken"}, port : Ports \cup {Idle.port}]
      /\ user'.port = user.port
      /\ user.at = user'.at \/ (user.at = "waits" /\ user'.at = "woken")
  <2>1. user \in [at : {"idle", "joins", "waits", "woken"}, port : Ports \cup {Idle.port}]
    BY DEF SocketsInv, UserTypeOK
  <2>. QED  BY <1>1, <2>1
<1>3. UserTypeOK'
  BY <1>2, Zenon DEF SocketsInv, UserTypeOK, Spares
<1>. QED  BY <1>2, <1>3, GoesKeeps DEF Spares

LEMMA PollKeeps ==
    ASSUME SocketsInv, NEW p \in Ports, Poll(p)
    PROVE  SocketsInv'
<1>1. /\ thread[p].pc = "poll"
      /\ UNCHANGED <<connVars, m_clients, m_prey, m_run, user, stolen, hit>>
  BY DEF Poll
<1>2. CASE Goes(p, "kill")
  <2>1. UserTypeOK'
    BY <1>1 DEF SocketsInv, UserTypeOK
  <2>. QED  BY <1>1, <1>2, <2>1, GoesKeeps
<1>3. CASE ~ Goes(p, "kill")
  <2>. DEFINE n == Cardinality(Held(p))
  <2>1. PICK s \in InOrder(p) :
            thread' = [thread EXCEPT ![p] = Round("clients", Polled(s), Queued(p) # {})]
    BY <1>3 DEF Poll
  <2>2. Held(p) \subseteq Fds /\ Fds \subseteq Nat
    BY DEF Held, Fds
  <2>3. n \in Nat
    <3>1. IsFiniteSet(Fds)
      BY ConnsAssumption, FS_Interval DEF Fds
    <3>. QED  BY <2>2, <3>1, FS_Subset, FS_CardinalityType
  <2>4. s \in [1 .. n -> Held(p)] /\ \A i, j \in 1 .. n : i < j => s[i] # s[j]
    <3>1. s \in [1 .. n -> Held(p)] /\ \A i, j \in 1 .. n : i < j => s[i] < s[j]
      BY DEF InOrder
    <3>. HIDE DEF n
    <3>2. \A i \in 1 .. n : s[i] \in Nat
      BY <2>2, <3>1
    <3>. QED  BY <3>1, <3>2
  <2>. HIDE DEF n
  <2>. DEFINE fds == Polled(s)
              new == Queued(p) # {}
  <2>5. /\ fds \in Seq(Polls) /\ Len(fds) = n
        /\ \A i \in 1 .. n : fds[i].fd = s[i]
    <3>1. fds = [i \in 1 .. n |-> [fd |-> s[i], in |-> Readable(s[i])]]
      BY <2>4 DEF Polled
    <3>2. \A i \in 1 .. n : [fd |-> s[i], in |-> Readable(s[i])] \in Polls
      <4>1. \A f : Readable(f) \in BOOLEAN
        BY DEF Readable
      <4>. QED  BY <2>2, <2>4, <4>1 DEF Polls
    <3>. HIDE DEF fds
    <3>. QED  BY <2>3, <3>1, <3>2
  <2>. HIDE DEF fds
  <2>6. /\ thread'[p].pc = "clients" /\ thread'[p].fds = fds /\ thread'[p].i = 1
        /\ thread'[p].new = new
        /\ \A q \in Ports \ {p} : thread'[q] = thread[q] /\ PortStays(q)
    BY <1>1, <2>1 DEF SocketsInv, ThreadsTypeOK, Round, PortStays, fds
  <2>7. ThreadsTypeOK'
    <3>1. 0 \in 0 .. MaxFd /\ 1 \in Nat \ {0} /\ "clients" \in Pcs /\ new \in BOOLEAN
      BY ConnsAssumption DEF Pcs
    <3>. HIDE DEF new
    <3>2. Round("clients", fds, new) \in Thread
      BY <2>5, <3>1 DEF Thread, Round
    <3>3. /\ thread' = [thread EXCEPT ![p] = Round("clients", fds, new)]
          /\ thread \in [Ports -> Thread] /\ UNCHANGED <<m_clients, stolen>>
      BY <1>1, <2>1 DEF SocketsInv, ThreadsTypeOK, new, fds
    <3>4. thread' \in [Ports -> Thread]
      BY <3>2, <3>3
    <3>. QED  BY <3>3, <3>4 DEF SocketsInv, ThreadsTypeOK
  <2>8. Held(p)' = Held(p) /\ Queued(p)' = Queued(p)
    BY <1>1 DEF Held, Queued, connVars
  <2>9. RoundIsSound(p)'
    <3>1. \A i \in 1 .. n : fds[i].fd \in Held(p) /\ \A j \in i + 1 .. n : fds[i].fd # fds[j].fd
      BY <2>3, <2>4, <2>5
    <3>2. new => (Queued(p) # {})'
      BY <2>8
    <3>. HIDE DEF new
    <3>3. /\ thread'[p].new = new /\ thread'[p].i = 1 /\ Len(thread'[p].fds) = n
          /\ \A i \in 1 .. n : thread'[p].fds[i] = fds[i]
      BY <2>5, <2>6
    <3>. QED  BY <2>8, <3>1, <3>2, <3>3 DEF RoundIsSound
  <2>10. ThreadIsSound(p)'
    <3>1. (\A fd \in Held(p) : m_clients[p][fd].conn # 0)'
      BY <1>1, <2>8 DEF SocketsInv, ThreadIsSound
    <3>. QED  BY <2>6, <2>9, <3>1 DEF ThreadIsSound, AgainIsSound
  <2>11. ASSUME ~ stolen
         PROVE  ClientsOf(p)'
    <3>1. ClientsOf(p) /\ conn' = conn /\ table' = table
      BY <1>1, <2>11 DEF SocketsInv, connVars
    <3>2. \A fd \in Held(p) : IsOwn(p, fd)
      BY <1>1, <3>1 DEF ClientsOf, IsClosing
    <3>3. \A fd \in Held(p) : IsOwn(p, fd)'
      BY <1>1, <3>1, <3>2 DEF IsOwn
    <3>. QED  BY <2>8, <3>1, <3>3 DEF ClientsOf
  <2>12. UserTypeOK' /\ KillIsKept'
    <3>1. KillIsKept'
      BY <1>1, <2>6, KillStays DEF SocketsInv
    <3>. QED  BY <1>1, <3>1 DEF SocketsInv, UserTypeOK
  <2>13. ConnsTypeOK' /\ TableIsSound'
    BY <1>1, QuietConns
  <2>. QED  BY <1>1, <2>6, <2>7, <2>10, <2>11, <2>12, <2>13, OthersStay DEF SocketsInv
<1>. QED  BY <1>2, <1>3

\* The entry that a thread looks at next is a client of its map.
LEMMA EntryIs ==
    ASSUME SocketsInv, NEW p \in Ports, thread[p].pc = "clients", InRange(p)
    PROVE  /\ Entry(p) = thread[p].fds[thread[p].i] /\ Entry(p).fd \in Held(p)
           /\ thread[p].i \in Nat \ {0} /\ thread[p].i <= Len(thread[p].fds)
           /\ Len(thread[p].fds) \in Nat
<1>1. thread[p].fds \in Seq(Polls) /\ thread[p].i \in Nat \ {0}
  BY DEF SocketsInv, ThreadsTypeOK, Thread
<1>2. Len(thread[p].fds) \in Nat
  BY <1>1
<1>3. thread[p].i \in thread[p].i .. Len(thread[p].fds)
  BY <1>1, <1>2 DEF InRange
<1>. QED  BY <1>1, <1>2, <1>3 DEF SocketsInv, ThreadIsSound, RoundIsSound, Entry, InRange

\* The round of a thread, from the next entry on.
LEMMA NextEntryIs ==
    ASSUME SocketsInv, NEW p \in Ports, InRange(p), NextEntry(p), thread[p].pc = "clients",
           Held(p)' = Held(p), Queued(p) # {} => Queued(p)' # {}
    PROVE  /\ thread' \in [Ports -> Thread]
           /\ RoundIsSound(p)' /\ AgainIsSound(p)'
           /\ thread'[p].pc = thread[p].pc
           /\ \A q \in Ports \ {p} : thread'[q] = thread[q]
<1>. DEFINE t == thread[p]
<1>1. t \in Thread /\ t.i \in Nat \ {0} /\ t.fds \in Seq(Polls)
  BY DEF SocketsInv, ThreadsTypeOK, Thread
<1>2. Len(t.fds) \in Nat
  BY <1>1
<1>3. t.i + 1 \in Nat \ {0}
  BY <1>1
<1>4. [t EXCEPT !.i = t.i + 1] \in Thread
  BY <1>1, <1>3 DEF Thread
<1>5. thread' = [thread EXCEPT ![p] = [t EXCEPT !.i = t.i + 1]]
  BY DEF NextEntry
<1>6. /\ thread' \in [Ports -> Thread]
      /\ thread'[p].pc = t.pc /\ thread'[p].fds = t.fds /\ thread'[p].i = t.i + 1
      /\ thread'[p].new = t.new
      /\ \A q \in Ports \ {p} : thread'[q] = thread[q]
  BY <1>1, <1>4, <1>5 DEF SocketsInv, ThreadsTypeOK, Thread
<1>7. \A i \in t.i + 1 .. Len(t.fds) : i \in t.i .. Len(t.fds)
  BY <1>1, <1>2
<1>8. RoundIsSound(p)'
  BY <1>6, <1>7 DEF SocketsInv, ThreadIsSound, RoundIsSound
<1>9. AgainIsSound(p)'
  BY <1>6 DEF AgainIsSound
<1>. QED  BY <1>6, <1>8, <1>9

LEMMA SkipsKeeps ==
    ASSUME SocketsInv, NEW p \in Ports, Skips(p)
    PROVE  SocketsInv'
<1>1. /\ thread[p].pc = "clients" /\ InRange(p) /\ NextEntry(p)
      /\ UNCHANGED <<conn, table, m_clients, m_prey, m_run, user, stolen, hit>>
      /\ UNCHANGED connVars
  BY DEF Skips, connVars
<1>2. Held(p)' = Held(p) /\ Queued(p)' = Queued(p)
  BY <1>1 DEF Held, Queued
<1>3. /\ thread' \in [Ports -> Thread] /\ RoundIsSound(p)' /\ AgainIsSound(p)'
      /\ thread'[p].pc = thread[p].pc /\ \A q \in Ports \ {p} : thread'[q] = thread[q]
  BY <1>1, <1>2, NextEntryIs
<1>4. ThreadsTypeOK' /\ UserTypeOK'
  BY <1>1, <1>3 DEF SocketsInv, ThreadsTypeOK, UserTypeOK
<1>5. ThreadIsSound(p)'
  BY <1>1, <1>2, <1>3 DEF SocketsInv, ThreadIsSound
<1>6. ASSUME ~ stolen
      PROVE  ClientsOf(p)'
  BY <1>1, <1>2, <1>6 DEF SocketsInv, ClientsOf, IsOwn, IsClosing
<1>7. \A q \in Ports \ {p} : PortStays(q)
  BY <1>1, <1>3 DEF PortStays
<1>8. KillIsKept'
  BY <1>1, <1>3, KillStays DEF SocketsInv
<1>9. ConnsTypeOK' /\ TableIsSound'
  BY <1>1, QuietConns
<1>. QED  BY <1>1, <1>4, <1>5, <1>6, <1>7, <1>8, <1>9, OthersStay DEF SocketsInv

\* What is read is counted once for the connection and once for its client.
LEMMA ReadsKeeps ==
    ASSUME SocketsInv, NEW p \in Ports, Reads(p)
    PROVE  SocketsInv'
<1>. USE TableIs
<1>. PICK fd \in Held(p) : fd = Entry(p).fd
  BY EntryIs DEF Reads
<1>. DEFINE k == table[fd]
            n == conn[k].unread
            c == [conn[k] EXCEPT !.unread = 0, !.taken = conn[k].taken + n]
<1>1. /\ thread[p].pc = "clients" /\ InRange(p) /\ NextEntry(p)
      /\ UNCHANGED <<table, m_prey, m_run, user, stolen, hit>>
      /\ ConnsTypeOK /\ TableIsSound
  BY DEF Reads, SocketsInv
<1>2. fd \in Held(p) /\ fd \in Fds /\ Held(p) \subseteq Fds
  BY DEF Held
<1>3. k # 0 /\ k \in DOMAIN conn /\ conn[k] \in Conn /\ conn[k].near = "open"
  BY <1>1, <1>2 DEF Reads, TableIsSound
<1>4. /\ conn' = [conn EXCEPT ![k] = c]
      /\ m_clients' = [m_clients EXCEPT ![p][fd].counter = @ + n]
  BY <1>3 DEF Reads
<1>5. n \in Nat /\ conn[k].taken \in Nat /\ conn[k].taken + n \in Nat
  BY <1>3 DEF Conn
<1>6. c \in Conn /\ c.port = conn[k].port /\ c.near = "open" /\ c.taken = conn[k].taken + n
  BY <1>3, <1>5 DEF Conn
<1>. HIDE DEF c, n, k
<1>7. /\ conn' \in Seq(Conn) /\ Len(conn') = Len(conn) /\ DOMAIN conn' = DOMAIN conn
      /\ conn'[k] = c /\ \A j \in DOMAIN conn : j # k => conn'[j] = conn[j]
  BY <1>1, <1>3, <1>4, <1>6 DEF ConnsTypeOK
<1>8. ConnsTypeOK' /\ NoneIsAccepted
  BY <1>1, <1>3, <1>7 DEF ConnsTypeOK, NoneIsAccepted
<1>9. TableIsSound'
  <2>1. \A f \in Fds : table[f] # 0 => conn'[table[f]].near = "open"
    BY <1>1, <1>6, <1>7 DEF TableIsSound
  <2>2. \A j \in DOMAIN conn' : conn'[j].near = "queued" => conn'[j].taken = 0
    BY <1>1, <1>6, <1>7 DEF TableIsSound
  <2>. QED  BY <1>1, <2>1, <2>2 DEF TableIsSound
<1>10. ASSUME NEW q \in Ports, Queued(q) # {}
       PROVE  Queued(q)' # {}
  <2>1. PICK j \in DOMAIN conn : conn[j].port = q /\ conn[j].near = "queued"
    BY <1>10 DEF Queued
  <2>2. j # k
    BY <1>3, <2>1
  <2>. QED  BY <1>7, <2>1, <2>2 DEF Queued
<1>11. /\ m_clients' \in [Ports -> [Fds -> [conn : Nat, counter : Nat]]]
       /\ m_clients'[p][fd].conn = m_clients[p][fd].conn
       /\ m_clients'[p][fd].counter = m_clients[p][fd].counter + n
       /\ \A f \in Fds : f # fd => m_clients'[p][f] = m_clients[p][f]
       /\ \A q \in Ports \ {p} : m_clients'[q] = m_clients[q]
  <2>1. /\ m_clients[p] \in [Fds -> [conn : Nat, counter : Nat]]
        /\ m_clients \in [Ports -> [Fds -> [conn : Nat, counter : Nat]]]
    BY DEF SocketsInv, ThreadsTypeOK
  <2>. DEFINE e == [m_clients[p][fd] EXCEPT !.counter = m_clients[p][fd].counter + n]
              m == [m_clients[p] EXCEPT ![fd] = e]
  <2>2. m_clients[p][fd] \in [conn : Nat, counter : Nat]
    BY <1>2, <2>1
  <2>3. /\ e \in [conn : Nat, counter : Nat]
        /\ e.conn = m_clients[p][fd].conn /\ e.counter = m_clients[p][fd].counter + n
    BY <1>5, <2>2
  <2>4. m_clients' = [m_clients EXCEPT ![p] = m]
    BY <1>4
  <2>. HIDE DEF e
  <2>5. /\ m \in [Fds -> [conn : Nat, counter : Nat]] /\ m[fd] = e
        /\ \A f \in Fds : f # fd => m[f] = m_clients[p][f]
    BY <1>2, <2>1, <2>3
  <2>. HIDE DEF m
  <2>. QED  BY <2>1, <2>3, <2>4, <2>5
<1>12. m_clients[p][fd].conn # 0 /\ Held(p)' = Held(p)
  <2>1. m_clients[p][fd].conn # 0
    BY <1>2 DEF SocketsInv, ThreadIsSound
  <2>2. m_clients[p][fd] # NoClient /\ m_clients'[p][fd] # NoClient
    BY <1>11, <2>1 DEF NoClient
  <2>. QED  BY <1>11, <2>1, <2>2 DEF Held
<1>13. /\ thread' \in [Ports -> Thread] /\ RoundIsSound(p)' /\ AgainIsSound(p)'
       /\ thread'[p].pc = thread[p].pc /\ \A q \in Ports \ {p} : thread'[q] = thread[q]
  BY <1>1, <1>10, <1>12, NextEntryIs
<1>14. ThreadsTypeOK' /\ UserTypeOK'
  BY <1>1, <1>11, <1>13 DEF SocketsInv, ThreadsTypeOK, UserTypeOK
<1>15. ThreadIsSound(p)'
  <2>1. (\A f \in Held(p) : m_clients[p][f].conn # 0)'
    BY <1>2, <1>11, <1>12 DEF SocketsInv, ThreadIsSound
  <2>. QED  BY <1>13, <2>1 DEF ThreadIsSound
<1>16. ASSUME ~ stolen
       PROVE  ClientsOf(p)' /\ conn[k].port = p
  <2>1. ClientsOf(p) /\ \A f \in Held(p) : IsOwn(p, f)
    BY <1>1, <1>16 DEF SocketsInv, ClientsOf, IsClosing
  <2>2. IsOwn(p, fd)'
    BY <1>1, <1>2, <1>6, <1>7, <1>11, <2>1 DEF IsOwn, k
  <2>3. ASSUME NEW f \in Held(p), f # fd
        PROVE  IsOwn(p, f)'
    <3>1. table[f] # 0 /\ table[f] \in DOMAIN conn
      BY <1>2, <2>1 DEF IsOwn, SocketsInv, ThreadIsSound
    <3>2. table[f] # k
      BY <1>1, <1>2, <2>3, <3>1 DEF TableIsSound, k
    <3>. QED  BY <1>1, <1>2, <1>7, <1>11, <2>1, <2>3, <3>1, <3>2 DEF IsOwn
  <2>4. \A f \in Fds : table[f] # 0 => conn'[table[f]].port = conn[table[f]].port
    BY <1>1, <1>6, <1>7
  <2>5. ClientsOf(p)'
    BY <1>1, <1>12, <2>1, <2>2, <2>3, <2>4 DEF ClientsOf
  <2>. QED  BY <1>2, <2>1, <2>5 DEF IsOwn, k
<1>17. ASSUME NEW q \in Ports \ {p}
       PROVE  ThreadIsSound(q)' /\ (~ stolen => ClientsOf(q)')
  <2>1. PortStays(q)
    BY <1>1, <1>11, <1>13 DEF PortStays
  <2>2. ThreadIsSound(q)'
    BY <1>10, <2>1, ThreadStays DEF SocketsInv
  <2>3. ASSUME ~ stolen
        PROVE  ClientsOf(q)'
    <3>1. \A j \in DOMAIN conn : /\ conn'[j].port = conn[j].port
                                 /\ conn[j].port = q => conn'[j].taken = conn[j].taken
      BY <1>6, <1>7, <1>16, <2>3
    <3>2. ClientsOf(q) /\ ThreadIsSound(q) /\ \A f \in Fds : table'[f] = table[f]
      BY <1>1, <2>3 DEF SocketsInv
    <3>3. \A f \in Fds : table'[f] = table[f] \/ (IsForeign(q, f) /\ IsForeign(q, f)')
      BY <3>2
    <3>. QED  BY <1>1, <2>1, <3>1, <3>2, <3>3, ClientsStay
  <2>. QED  BY <2>2, <2>3
<1>18. KillIsKept'
  BY <1>1, <1>13, KillStays DEF SocketsInv
<1>. QED  BY <1>1, <1>8, <1>9, <1>14, <1>15, <1>16, <1>17, <1>18 DEF SocketsInv

\* What a close of a descriptor by the thread of p leaves of the other ports.
LEMMA OthersAfterClose ==
    ASSUME SocketsInv, NEW p \in Ports, NEW fd \in Fds, CloseFd(fd), stolen \in BOOLEAN,
           NEW q \in Ports, q # p, PortStays(q)
    PROVE  /\ ThreadIsSound(q)'
           /\ ~ stolen /\ IsForeign(q, fd) => ClientsOf(q)'
<1>1. /\ ConnsTypeOK /\ Evolves /\ NoneIsAccepted
      /\ table' = [table EXCEPT ![fd] = 0] /\ table \in [Fds -> 0 .. Len(conn)]
  BY CloseFdIs DEF SocketsInv, ConnsTypeOK
<1>2. ThreadIsSound(q)'
  BY <1>1, QueuedStays, ThreadStays DEF SocketsInv
<1>3. ASSUME ~ stolen, IsForeign(q, fd)
      PROVE  ClientsOf(q)'
  <2>1. ClientsOf(q) /\ ThreadIsSound(q)
    BY <1>3 DEF SocketsInv
  <2>2. \A f \in Fds : table'[f] = table[f] \/ (IsForeign(q, f) /\ IsForeign(q, f)')
    BY <1>1, <1>3 DEF IsForeign
  <2>. QED  BY <1>1, <2>1, <2>2, ClientsStay DEF Evolves
<1>. QED  BY <1>2, <1>3

\* The first close of a client: it stays in the map until the second one.
LEMMA ClosesOnceKeeps ==
    ASSUME SocketsInv, NEW p \in Ports, NEW fd \in Held(p),
           NEW then \in {"closing", "killing"}, ClosesOnce(p, fd, then),
           thread[p].pc \in {"clients", "kill"}, UNCHANGED <<m_clients, m_prey>>,
           then = "closing" => /\ thread[p].i <= Len(thread[p].fds)
                               /\ fd = thread[p].fds[thread[p].i].fd,
           then = "killing" => m_prey[p] # NoPrey
    PROVE  /\ ConnsTypeOK' /\ TableIsSound' /\ ThreadsTypeOK'
           /\ \A q \in Ports : ThreadIsSound(q)' /\ (~ stolen' => ClientsOf(q)')
           /\ thread'[p].pc = then
           /\ \A q \in Ports \ {p} : thread'[q] = thread[q]
<1>. USE TableIs
<1>1. /\ fd \in Fds /\ ConnsTypeOK /\ TableIsSound /\ CloseFd(fd)
      /\ thread[p] \in Thread /\ thread \in [Ports -> Thread]
  BY DEF SocketsInv, Held, ClosesOnce, ThreadsTypeOK
<1>2. /\ ConnsTypeOK' /\ TableIsSound' /\ Evolves /\ NoneIsAccepted
      /\ \A f \in Fds : table'[f] = IF f = fd THEN 0 ELSE table[f]
  BY <1>1, CloseFdIs DEF ConnsTypeOK
<1>3. stolen' \in BOOLEAN /\ (~ stolen' => ~ stolen /\ (table[fd] # 0 => conn[table[fd]].port = p))
  BY DEF ClosesOnce, SocketsInv, ThreadsTypeOK
<1>. DEFINE t == [thread[p] EXCEPT !.pc = then, !.fd = fd]
<1>4. /\ t \in Thread /\ t.pc = then /\ t.fd = fd /\ t.i = thread[p].i
      /\ t.fds = thread[p].fds /\ t.new = thread[p].new
  <2>1. fd \in 0 .. MaxFd /\ then \in Pcs
    BY <1>1 DEF Pcs
  <2>. QED  BY <1>1, <2>1 DEF Thread
<1>5. thread' = [thread EXCEPT ![p] = t]
  BY DEF ClosesOnce
<1>. HIDE DEF t
<1>6. thread'[p] = t /\ \A q \in Ports \ {p} : thread'[q] = thread[q]
  BY <1>1, <1>5
<1>7. ThreadsTypeOK'
  BY <1>1, <1>3, <1>4, <1>5 DEF SocketsInv, ThreadsTypeOK
<1>8. Held(p)' = Held(p) /\ (Queued(p) # {} => Queued(p)' # {})
  BY <1>1, <1>2, QueuedStays DEF Held
<1>9. ThreadIsSound(p)'
  <2>1. (\A f \in Held(p) : m_clients[p][f].conn # 0)' /\ RoundIsSound(p)'
    BY <1>4, <1>6, <1>8 DEF SocketsInv, ThreadIsSound, RoundIsSound
  <2>2. AgainIsSound(p)'
    BY <1>4, <1>6, <1>8 DEF AgainIsSound
  <2>. QED  BY <2>1, <2>2 DEF ThreadIsSound
<1>10. ASSUME ~ stolen'
       PROVE  ClientsOf(p)'
  <2>1. ClientsOf(p) /\ \A f \in Held(p) : IsOwn(p, f) /\ m_clients[p][f].conn # 0
    BY <1>3, <1>10 DEF SocketsInv, ClientsOf, IsClosing, ThreadIsSound
  <2>2. IsClosing(p, fd)'
    BY <1>4, <1>6 DEF IsClosing
  <2>3. ASSUME NEW f \in Held(p), f # fd
        PROVE  IsOwn(p, f)'
    <3>1. f \in Fds /\ table[f] # 0 /\ table[f] \in DOMAIN conn /\ table'[f] = table[f]
      BY <1>1, <1>2, <2>1, <2>3 DEF IsOwn, Held
    <3>. QED  BY <1>2, <2>1, <3>1 DEF IsOwn, Evolves
  <2>4. ASSUME NEW f \in Fds, table'[f] # 0, conn'[table'[f]].port = p
        PROVE  f \in Held(p)
    <3>1. table'[f] = table[f] /\ table[f] # 0 /\ table[f] \in DOMAIN conn
      BY <1>1, <1>2, <2>4
    <3>2. conn[table[f]].port = p
      BY <1>2, <2>4, <3>1 DEF Evolves
    <3>. QED  BY <2>1, <3>1, <3>2 DEF ClientsOf
  <2>. QED  BY <1>8, <2>2, <2>3, <2>4 DEF ClientsOf
<1>11. ASSUME NEW q \in Ports \ {p}
       PROVE  ThreadIsSound(q)' /\ (~ stolen' => ClientsOf(q)')
  <2>1. PortStays(q) /\ stolen \in BOOLEAN
    BY <1>6 DEF PortStays, SocketsInv, ThreadsTypeOK
  <2>2. ~ stolen' => ~ stolen /\ IsForeign(q, fd)
    BY <1>3 DEF IsForeign
  <2>. QED  BY <1>1, <2>1, <2>2, OthersAfterClose
<1>. QED  BY <1>2, <1>4, <1>6, <1>7, <1>9, <1>10, <1>11

LEMMA ReadsEndKeeps ==
    ASSUME SocketsInv, NEW p \in Ports, ReadsEnd(p)
    PROVE  SocketsInv'
<1>. PICK fd \in Held(p) : fd = Entry(p).fd
  BY EntryIs DEF ReadsEnd
<1>1. /\ ClosesOnce(p, fd, "closing") /\ thread[p].pc = "clients"
      /\ UNCHANGED <<m_clients, m_prey, m_run, user, hit>>
      /\ thread[p].i <= Len(thread[p].fds) /\ fd = thread[p].fds[thread[p].i].fd
  BY EntryIs DEF ReadsEnd
<1>2. /\ ConnsTypeOK' /\ TableIsSound' /\ ThreadsTypeOK'
      /\ \A q \in Ports : ThreadIsSound(q)' /\ (~ stolen' => ClientsOf(q)')
      /\ thread'[p].pc = "closing"
      /\ \A q \in Ports \ {p} : thread'[q] = thread[q]
  BY <1>1, ClosesOnceKeeps
<1>3. UserTypeOK'
  BY <1>1 DEF SocketsInv, UserTypeOK
<1>4. KillIsKept'
  BY <1>1, <1>2, KillStays DEF SocketsInv
<1>. QED  BY <1>2, <1>3, <1>4 DEF SocketsInv

\* The connection that is closed is the one whose user waits for an answer.
LEMMA TakesKeeps ==
    ASSUME SocketsInv, NEW p \in Ports, Takes(p)
    PROVE  SocketsInv'
<1>. PICK fd \in Held(p) : fd = m_prey[p]
  BY DEF Takes
<1>1. /\ ClosesOnce(p, fd, "killing") /\ thread[p].pc = "kill" /\ m_prey[p] # NoPrey
      /\ UNCHANGED <<m_clients, m_prey, m_run, user>>
      /\ hit' = m_clients[p][fd].conn
  BY DEF Takes
<1>2. /\ ConnsTypeOK' /\ TableIsSound' /\ ThreadsTypeOK'
      /\ \A q \in Ports : ThreadIsSound(q)' /\ (~ stolen' => ClientsOf(q)')
      /\ thread'[p].pc = "killing"
      /\ \A q \in Ports \ {p} : thread'[q] = thread[q]
  BY <1>1, ClosesOnceKeeps
<1>3. hit' \in Nat /\ hit' # 0
  <2>1. fd \in Fds /\ m_clients[p] \in [Fds -> [conn : Nat, counter : Nat]]
    BY DEF SocketsInv, ThreadsTypeOK, Held
  <2>. QED  BY <1>1, <2>1 DEF SocketsInv, ThreadIsSound
<1>4. UserTypeOK'
  BY <1>1, <1>3 DEF SocketsInv, UserTypeOK
<1>5. KillIsKept'
  BY <1>1, <1>2, <1>3 DEF SocketsInv, KillIsKept
<1>. QED  BY <1>2, <1>4, <1>5 DEF SocketsInv

\* The second close, with the client: it hits a descriptor that is free, or one
\* that is not the client's any more.
LEMMA ErasesKeeps ==
    ASSUME SocketsInv, NEW p \in Ports, NEW fd \in Held(p),
           thread[p].pc \in {"closing", "killing"}, thread[p].fd = fd,
           CloseFd(fd), stolen' = (stolen \/ table[fd] # 0), Erase(p, fd),
           \A q \in Ports \ {p} : thread'[q] = thread[q] /\ m_prey'[q] = m_prey[q]
    PROVE  /\ ConnsTypeOK' /\ TableIsSound' /\ stolen' \in BOOLEAN
           /\ m_clients' \in [Ports -> [Fds -> [conn : Nat, counter : Nat]]]
           /\ Held(p)' = Held(p) \ {fd}
           /\ (\A f \in Held(p) : m_clients[p][f].conn # 0)'
           /\ Queued(p) # {} => Queued(p)' # {}
           /\ ~ stolen' => ClientsOf(p)'
           /\ \A q \in Ports \ {p} : ThreadIsSound(q)' /\ (~ stolen' => ClientsOf(q)')
<1>. USE TableIs
<1>1. /\ fd \in Fds /\ Held(p) \subseteq Fds /\ ConnsTypeOK /\ TableIsSound
      /\ m_clients \in [Ports -> [Fds -> [conn : Nat, counter : Nat]]]
      /\ stolen \in BOOLEAN
  BY DEF SocketsInv, Held, ThreadsTypeOK
<1>2. /\ ConnsTypeOK' /\ TableIsSound' /\ Evolves /\ NoneIsAccepted
      /\ \A f \in Fds : table'[f] = IF f = fd THEN 0 ELSE table[f]
  BY <1>1, CloseFdIs DEF ConnsTypeOK
<1>3. stolen' \in BOOLEAN /\ (~ stolen' => ~ stolen /\ table[fd] = 0)
  BY <1>1
<1>4. /\ m_clients' \in [Ports -> [Fds -> [conn : Nat, counter : Nat]]]
      /\ m_clients'[p][fd] = NoClient
      /\ \A f \in Fds : f # fd => m_clients'[p][f] = m_clients[p][f]
      /\ \A q \in Ports \ {p} : m_clients'[q] = m_clients[q]
  <2>1. NoClient \in [conn : Nat, counter : Nat]
    BY DEF NoClient
  <2>. QED  BY <1>1, <2>1 DEF Erase
<1>5. Held(p)' = Held(p) \ {fd}
  BY <1>1, <1>4 DEF Held
<1>6. (\A f \in Held(p) : m_clients[p][f].conn # 0)'
  BY <1>1, <1>4, <1>5 DEF SocketsInv, ThreadIsSound
<1>7. ASSUME ~ stolen'
      PROVE  ClientsOf(p)'
  <2>1. /\ ClientsOf(p) /\ ~ stolen /\ table[fd] = 0
        /\ \A f \in Held(p) : f # fd => IsOwn(p, f) /\ m_clients[p][f].conn # 0
    BY <1>3, <1>7 DEF SocketsInv, ClientsOf, IsClosing, ThreadIsSound
  <2>2. ASSUME NEW f \in Held(p), f # fd
        PROVE  IsOwn(p, f)'
    <3>1. f \in Fds /\ table[f] # 0 /\ table[f] \in DOMAIN conn /\ table'[f] = table[f]
      BY <1>1, <1>2, <2>1, <2>2 DEF IsOwn
    <3>. QED  BY <1>2, <1>4, <2>1, <2>2, <3>1 DEF IsOwn, Evolves
  <2>3. ASSUME NEW f \in Fds, table'[f] # 0, conn'[table'[f]].port = p
        PROVE  f \in Held(p) \ {fd}
    <3>1. f # fd /\ table'[f] = table[f] /\ table[f] # 0 /\ table[f] \in DOMAIN conn
      BY <1>1, <1>2, <2>3
    <3>2. conn[table[f]].port = p
      BY <1>2, <2>3, <3>1 DEF Evolves
    <3>. QED  BY <2>1, <3>1, <3>2 DEF ClientsOf
  <2>. QED  BY <1>5, <2>2, <2>3 DEF ClientsOf
<1>8. ASSUME NEW q \in Ports \ {p}
      PROVE  ThreadIsSound(q)' /\ (~ stolen' => ClientsOf(q)')
  <2>1. PortStays(q)
    BY <1>4 DEF PortStays
  <2>2. ~ stolen' => ~ stolen /\ IsForeign(q, fd)
    BY <1>3 DEF IsForeign
  <2>. QED  BY <1>1, <2>1, <2>2, OthersAfterClose
<1>. QED  BY <1>1, <1>2, <1>3, <1>4, <1>5, <1>6, <1>7, <1>8, QueuedStays

LEMMA ClosesTwiceKeeps ==
    ASSUME SocketsInv, NEW p \in Ports, ClosesTwice(p)
    PROVE  SocketsInv'
<1>. PICK fd \in Held(p) : fd = thread[p].fd
  BY DEF ClosesTwice, SocketsInv, ThreadIsSound, AgainIsSound
<1>. DEFINE t == thread[p]
            n == [t EXCEPT !.pc = "clients", !.i = t.i + 1, !.fd = 0]
<1>1. /\ t \in Thread /\ thread \in [Ports -> Thread] /\ t.pc = "closing"
      /\ t.i \in Nat \ {0} /\ Len(t.fds) \in Nat
      /\ UNCHANGED <<m_prey, m_run, user, hit>>
      /\ t.i <= Len(t.fds) /\ fd = t.fds[t.i].fd
  BY DEF ClosesTwice, SocketsInv, ThreadsTypeOK, Thread, ThreadIsSound, AgainIsSound
<1>2. /\ n \in Thread /\ n.pc = "clients" /\ n.i = t.i + 1 /\ n.fds = t.fds
      /\ n.new = t.new
  <2>1. "clients" \in Pcs /\ t.i + 1 \in Nat \ {0} /\ 0 \in 0 .. MaxFd
    BY <1>1, ConnsAssumption DEF Pcs
  <2>. QED  BY <1>1, <2>1 DEF Thread
<1>3. thread' = [thread EXCEPT ![p] = n]
  BY DEF ClosesTwice
<1>. HIDE DEF n
<1>4. thread'[p] = n /\ \A q \in Ports \ {p} : thread'[q] = thread[q] /\ m_prey'[q] = m_prey[q]
  BY <1>1, <1>3
<1>5. /\ ConnsTypeOK' /\ TableIsSound' /\ stolen' \in BOOLEAN
      /\ m_clients' \in [Ports -> [Fds -> [conn : Nat, counter : Nat]]]
      /\ Held(p)' = Held(p) \ {fd}
      /\ (\A f \in Held(p) : m_clients[p][f].conn # 0)'
      /\ Queued(p) # {} => Queued(p)' # {}
      /\ ~ stolen' => ClientsOf(p)'
      /\ \A q \in Ports \ {p} : ThreadIsSound(q)' /\ (~ stolen' => ClientsOf(q)')
  <2>1. /\ CloseFd(fd) /\ stolen' = (stolen \/ table[fd] # 0)
        /\ Erase(p, fd) /\ UNCHANGED <<m_prey, m_run, user, hit>>
    BY <1>1 DEF ClosesTwice
  <2>. QED  BY <1>1, <1>4, <2>1, ErasesKeeps
<1>6. ThreadsTypeOK' /\ UserTypeOK'
  BY <1>1, <1>2, <1>3, <1>5 DEF SocketsInv, ThreadsTypeOK, UserTypeOK
<1>7. RoundIsSound(p)'
  <2>1. RoundIsSound(p)
    BY DEF SocketsInv, ThreadIsSound
  <2>2. t.i \in t.i .. Len(t.fds) /\ \A i \in t.i + 1 .. Len(t.fds) : i \in t.i .. Len(t.fds)
    BY <1>1
  <2>3. \A i \in t.i + 1 .. Len(t.fds) :
            /\ t.fds[i].fd \in Held(p) \ {fd}
            /\ \A j \in i + 1 .. Len(t.fds) : t.fds[i].fd # t.fds[j].fd
    BY <1>1, <2>1, <2>2 DEF RoundIsSound
  <2>. QED  BY <1>2, <1>4, <1>5, <2>1, <2>3 DEF RoundIsSound
<1>8. ThreadIsSound(p)'
  BY <1>2, <1>4, <1>5, <1>7 DEF ThreadIsSound, AgainIsSound
<1>9. KillIsKept'
  BY <1>1, <1>2, <1>4, KillStays DEF SocketsInv
<1>. QED  BY <1>5, <1>6, <1>8, <1>9 DEF SocketsInv

LEMMA TakesTwiceKeeps ==
    ASSUME SocketsInv, NEW p \in Ports, TakesTwice(p)
    PROVE  SocketsInv'
<1>. PICK fd \in Held(p) : fd = thread[p].fd
  BY DEF TakesTwice, SocketsInv, ThreadIsSound, AgainIsSound
<1>1. /\ thread \in [Ports -> Thread] /\ thread[p].pc = "killing"
      /\ m_prey \in [Ports -> Preys \cup {NoPrey}]
      /\ thread' = [thread EXCEPT ![p] = At("poll")]
      /\ m_prey' = [m_prey EXCEPT ![p] = NoPrey]
      /\ UNCHANGED <<m_run, hit>>
      /\ m_prey[p] # NoPrey
  BY DEF TakesTwice, Goes, SocketsInv, ThreadsTypeOK, UserTypeOK, ThreadIsSound, AgainIsSound
<1>2. /\ thread'[p] = At("poll") /\ m_prey'[p] = NoPrey
      /\ \A q \in Ports \ {p} : thread'[q] = thread[q] /\ m_prey'[q] = m_prey[q]
  BY <1>1
<1>3. /\ ConnsTypeOK' /\ TableIsSound' /\ stolen' \in BOOLEAN
      /\ m_clients' \in [Ports -> [Fds -> [conn : Nat, counter : Nat]]]
      /\ Held(p)' = Held(p) \ {fd}
      /\ (\A f \in Held(p) : m_clients[p][f].conn # 0)'
      /\ ~ stolen' => ClientsOf(p)'
      /\ \A q \in Ports \ {p} : ThreadIsSound(q)' /\ (~ stolen' => ClientsOf(q)')
  BY <1>1, <1>2, ErasesKeeps DEF TakesTwice
<1>4. /\ thread'[p].pc = "poll" /\ thread'[p].fds = <<>> /\ thread'[p].i = 1
      /\ thread'[p].new = FALSE /\ Len(thread'[p].fds) = 0
  BY <1>2 DEF At, Round
<1>5. ThreadIsSound(p)'
  <2>1. \A i : i \notin thread'[p].i .. Len(thread'[p].fds)
    BY <1>4
  <2>. QED  BY <1>3, <1>4, <2>1 DEF ThreadIsSound, RoundIsSound, AgainIsSound
<1>6. ThreadsTypeOK'
  <2>1. At("poll") \in Thread
    BY AtIs DEF Pcs
  <2>. QED  BY <1>1, <1>3, <2>1 DEF ThreadsTypeOK
<1>7. user.at \in {"waits", "woken"} /\ user.port = p /\ hit # 0
  BY <1>1 DEF SocketsInv, KillIsKept
<1>8. user' = [user EXCEPT !.at = "woken"] /\ user'.at = "woken" /\ user'.port = p
  <2>1. user \in [at : {"idle", "joins", "waits", "woken"}, port : Ports \cup {Idle.port}]
    BY DEF SocketsInv, UserTypeOK
  <2>2. user = [at |-> user.at, port |-> user.port]
    BY <2>1
  <2>3. user' = IF user.at = "waits" /\ user.port = p THEN [user EXCEPT !.at = "woken"] ELSE user
    BY DEF TakesTwice, Wake
  <2>. QED  BY <1>7, <2>1, <2>2, <2>3
<1>9. UserTypeOK'
  <2>1. user' \in [at : {"idle", "joins", "waits", "woken"}, port : Ports \cup {Idle.port}]
    BY <1>8 DEF SocketsInv, UserTypeOK
  <2>. QED  BY <1>1, <1>8, <2>1 DEF SocketsInv, UserTypeOK
<1>10. KillIsKept'
  BY <1>1, <1>2, <1>4, <1>7, <1>8 DEF SocketsInv, KillIsKept
<1>. QED  BY <1>3, <1>5, <1>6, <1>9, <1>10 DEF SocketsInv

\* accept(): the connection that waits the longest gets the lowest descriptor,
\* which no client of the port has.
LEMMA AcceptsOne ==
    ASSUME SocketsInv, NEW p \in Ports, thread[p].pc = "clients",
           NEW k \in Queued(p), NEW fd \in FreeFds,
           NEW c \in Conn, c.near = "open", c.port = conn[k].port, c.taken = conn[k].taken,
           conn' = [conn EXCEPT ![k] = c],
           table' = [table EXCEPT ![fd] = k],
           NEW e \in [conn : Nat, counter : Nat],
           e.conn = k, e.counter = m_clients[p][fd].counter,
           NEW m, m = [m_clients[p] EXCEPT ![fd] = e],
           m_clients' = [m_clients EXCEPT ![p] = m],
           Goes(p, "kill"), UNCHANGED <<m_prey, m_run, user, stolen, hit>>
    PROVE  SocketsInv'
<1>0. ConnsTypeOK /\ TableIsSound
  BY DEF SocketsInv
<1>1. /\ Len(conn) \in Nat /\ DOMAIN conn = 1 .. Len(conn)
      /\ \A f \in Fds : table[f] \in Nat /\ (table[f] # 0 => table[f] \in DOMAIN conn)
      /\ \A j \in DOMAIN conn : conn[j] \in Conn
      /\ k \in DOMAIN conn /\ conn[k].near = "queued" /\ conn[k].port = p
      /\ fd \in Fds /\ table[fd] = 0
      /\ thread \in [Ports -> Thread]
      /\ m_clients \in [Ports -> [Fds -> [conn : Nat, counter : Nat]]]
  BY <1>0, TableIs DEF SocketsInv, Queued, FreeFds, ThreadsTypeOK
<1>2. conn[k].taken = 0 /\ k # 0 /\ k \in Nat /\ c.port = p /\ c.taken = 0
  BY <1>0, <1>1 DEF TableIsSound
<1>4. /\ conn' \in Seq(Conn) /\ Len(conn') = Len(conn) /\ DOMAIN conn' = DOMAIN conn
      /\ conn'[k] = c /\ \A j \in DOMAIN conn : j # k => conn'[j] = conn[j]
  BY <1>0, <1>1, <1>2 DEF ConnsTypeOK
<1>5. table'[fd] = k /\ \A f \in Fds : f # fd => table'[f] = table[f] /\ table[f] # k
  <2>1. \A f \in Fds : table[f] # k
    BY <1>0, <1>1, <1>2 DEF TableIsSound
  <2>2. table \in [Fds -> 0 .. Len(conn)]
    BY <1>0 DEF ConnsTypeOK
  <2>. QED  BY <1>1, <2>1, <2>2
<1>6. ConnsTypeOK'
  BY <1>0, <1>1, <1>4 DEF ConnsTypeOK
<1>7. TableIsSound'
  <2>1. \A f \in Fds : table'[f] # 0 => conn'[table'[f]].near = "open"
    BY <1>0, <1>1, <1>2, <1>4, <1>5 DEF TableIsSound
  <2>2. \A f, g \in Fds : table'[f] # 0 /\ table'[f] = table'[g] => f = g
    BY <1>0, <1>1, <1>5 DEF TableIsSound
  <2>3. \A j \in DOMAIN conn' : conn'[j].near = "queued" => conn'[j].taken = 0
    BY <1>0, <1>1, <1>2, <1>4 DEF TableIsSound
  <2>. QED  BY <2>1, <2>2, <2>3 DEF TableIsSound
<1>8. /\ m_clients' \in [Ports -> [Fds -> [conn : Nat, counter : Nat]]]
      /\ m_clients'[p][fd].conn = k
      /\ m_clients'[p][fd].counter = m_clients[p][fd].counter
      /\ \A f \in Fds : f # fd => m_clients'[p][f] = m_clients[p][f]
      /\ \A q \in Ports \ {p} : m_clients'[q] = m_clients[q]
  <2>1. m_clients[p] \in [Fds -> [conn : Nat, counter : Nat]]
    BY <1>1
  <2>2. /\ m \in [Fds -> [conn : Nat, counter : Nat]] /\ m[fd] = e
        /\ \A f \in Fds : f # fd => m[f] = m_clients[p][f]
    BY <1>1, <2>1
  <2>. QED  BY <1>1, <2>2
<1>9. Held(p)' = Held(p) \cup {fd} /\ Held(p) \subseteq Fds
  <2>1. m_clients'[p][fd] # NoClient
    BY <1>2, <1>8 DEF NoClient
  <2>. QED  BY <1>1, <1>8, <2>1 DEF Held
<1>10. /\ thread' = [thread EXCEPT ![p] = At("kill")] /\ thread'[p] = At("kill")
       /\ \A q \in Ports \ {p} : thread'[q] = thread[q]
  BY <1>1 DEF Goes
<1>11. /\ thread'[p].pc = "kill" /\ thread'[p].fds = <<>> /\ thread'[p].i = 1
       /\ thread'[p].new = FALSE /\ Len(thread'[p].fds) = 0
  BY <1>10 DEF At, Round
<1>12. ThreadsTypeOK' /\ UserTypeOK'
  <2>1. At("kill") \in Thread
    BY AtIs DEF Pcs
  <2>. QED  BY <1>8, <1>10, <2>1 DEF SocketsInv, ThreadsTypeOK, UserTypeOK
<1>13. ThreadIsSound(p)'
  <2>1. \A i : i \notin thread'[p].i .. Len(thread'[p].fds)
    BY <1>11
  <2>2. (\A f \in Held(p) : m_clients[p][f].conn # 0)'
    BY <1>2, <1>8, <1>9 DEF SocketsInv, ThreadIsSound
  <2>. QED  BY <1>11, <2>1, <2>2 DEF ThreadIsSound, RoundIsSound, AgainIsSound
<1>14. ASSUME ~ stolen
       PROVE  ClientsOf(p)'
  <2>1. /\ ClientsOf(p)
        /\ \A f \in Held(p) : IsOwn(p, f) /\ m_clients[p][f].conn # 0
    BY <1>1, <1>14 DEF SocketsInv, ClientsOf, IsClosing, ThreadIsSound
  <2>2. fd \notin Held(p)
    BY <1>1, <2>1 DEF IsOwn
  <2>3. m_clients[p][fd].counter = 0
    BY <1>1, <2>2 DEF Held, NoClient
  <2>4. IsOwn(p, fd)'
    <3>1. table'[fd] = m_clients'[p][fd].conn
      BY <1>5, <1>8
    <3>2. conn'[table'[fd]] = c
      BY <1>4, <1>5
    <3>3. m_clients'[p][fd].counter = 0
      BY <1>8, <2>3
    <3>. QED  BY <1>2, <3>1, <3>2, <3>3 DEF IsOwn
  <2>5. ASSUME NEW f \in Held(p)
        PROVE  IsOwn(p, f)'
    <3>1. f \in Fds /\ f # fd /\ IsOwn(p, f) /\ table[f] # 0
      BY <1>9, <2>1, <2>2 DEF IsOwn
    <3>2. table'[f] = table[f] /\ conn'[table[f]] = conn[table[f]]
      BY <1>1, <1>4, <1>5, <3>1
    <3>. QED  BY <1>8, <3>1, <3>2 DEF IsOwn
  <2>6. ASSUME NEW f \in Fds, table'[f] # 0, conn'[table'[f]].port = p
        PROVE  f \in Held(p) \cup {fd}
    <3>1. CASE f # fd
      <4>1. table'[f] = table[f] /\ conn'[table[f]] = conn[table[f]]
        BY <1>1, <1>4, <1>5, <2>6, <3>1
      <4>. QED  BY <2>1, <2>6, <4>1 DEF ClientsOf
    <3>. QED  BY <3>1
  <2>. QED  BY <1>9, <2>4, <2>5, <2>6 DEF ClientsOf
<1>15. ASSUME NEW q \in Ports \ {p}
       PROVE  ThreadIsSound(q)' /\ (~ stolen => ClientsOf(q)')
  <2>1. PortStays(q)
    BY <1>8, <1>10 DEF PortStays
  <2>2. ASSUME Queued(q) # {}
        PROVE  Queued(q)' # {}
    <3>1. PICK j \in DOMAIN conn : conn[j].port = q /\ conn[j].near = "queued"
      BY <2>2 DEF Queued
    <3>2. conn'[j] = conn[j]
      BY <1>1, <1>4, <3>1
    <3>. QED  BY <1>4, <3>1, <3>2 DEF Queued
  <2>3. ThreadIsSound(q)'
    BY <2>1, <2>2, ThreadStays DEF SocketsInv
  <2>4. ASSUME ~ stolen
        PROVE  ClientsOf(q)'
    <3>1. \A j \in DOMAIN conn : conn'[j].port = conn[j].port /\ conn'[j].taken = conn[j].taken
      BY <1>1, <1>2, <1>4
    <3>2. \A f \in Fds : table'[f] = table[f] \/ (IsForeign(q, f) /\ IsForeign(q, f)')
      BY <1>1, <1>2, <1>4, <1>5 DEF IsForeign
    <3>3. ClientsOf(q) /\ ThreadIsSound(q)
      BY <2>4 DEF SocketsInv
    <3>. QED  BY <1>0, <2>1, <3>1, <3>2, <3>3, ClientsStay
  <2>. QED  BY <2>3, <2>4
<1>16. KillIsKept'
  BY <1>1, <1>10, <1>11, KillStays DEF SocketsInv
<1>. QED  BY <1>6, <1>7, <1>12, <1>13, <1>14, <1>15, <1>16 DEF SocketsInv

LEMMA AcceptsKeeps ==
    ASSUME SocketsInv, NEW p \in Ports, Accepts(p)
    PROVE  SocketsInv'
<1>1. /\ thread[p].pc = "clients" /\ Goes(p, "kill")
      /\ UNCHANGED <<m_prey, m_run, user, stolen, hit>>
  BY DEF Accepts
<1>2. CASE thread[p].new /\ FreeFds # {}
  <2>1. Queued(p) # {} /\ Queued(p) \subseteq Nat
    BY <1>2, TableIs DEF SocketsInv, ThreadIsSound, RoundIsSound, Queued
  <2>2. FreeFds \subseteq Nat
    BY TableIs DEF SocketsInv, FreeFds
  <2>3. Least(Queued(p)) \in Queued(p) /\ Least(FreeFds) \in FreeFds
    BY <1>2, <2>1, <2>2, LeastIs
  <2>. PICK k \in Queued(p), fd \in FreeFds : k = Least(Queued(p)) /\ fd = Least(FreeFds)
    BY <2>3
  <2>. DEFINE c == [conn[k] EXCEPT !.near = "open"]
              e == [m_clients[p][fd] EXCEPT !.conn = k]
              m == [m_clients[p] EXCEPT ![fd] = e]
  <2>4. /\ conn' = [conn EXCEPT ![k] = c]
        /\ table' = [table EXCEPT ![fd] = k]
        /\ m_clients' = [m_clients EXCEPT ![p] = m]
    BY <1>2 DEF Accepts
  <2>5. /\ conn[k] \in Conn /\ k \in Nat /\ fd \in Fds
        /\ m_clients[p][fd] \in [conn : Nat, counter : Nat]
    BY <2>1, TableIs DEF SocketsInv, ThreadsTypeOK, Queued, FreeFds
  <2>6. c \in Conn /\ c.near = "open" /\ c.port = conn[k].port /\ c.taken = conn[k].taken
    BY <2>5 DEF Conn
  <2>7. /\ e \in [conn : Nat, counter : Nat]
        /\ e.conn = k /\ e.counter = m_clients[p][fd].counter
    BY <2>5
  <2>8. m = [m_clients[p] EXCEPT ![fd] = e]
    OBVIOUS
  <2>. HIDE DEF c, e, m
  <2>. QED  BY <1>1, <2>4, <2>6, <2>7, <2>8, AcceptsOne
<1>3. CASE ~ (thread[p].new /\ FreeFds # {})
  <2>1. UNCHANGED <<connVars, m_clients>>
    BY <1>3 DEF Accepts
  <2>2. UserTypeOK'
    BY <1>1 DEF SocketsInv, UserTypeOK
  <2>. QED  BY <1>1, <2>1, <2>2, GoesKeeps
<1>. QED  BY <1>2, <1>3

LEMMA ThreadRunsKeeps ==
    ASSUME SocketsInv, NEW p \in Ports, ThreadRuns(p)
    PROVE  SocketsInv'
<1>1. ASSUME Ends(p) \/ SeesNoPrey(p)
      PROVE  SocketsInv'
  <2>1. /\ UNCHANGED <<connVars, m_clients, m_prey, m_run, user, stolen, hit>>
        /\ thread[p].pc \in {"poll", "kill"} /\ (Goes(p, "ended") \/ Goes(p, "poll"))
    BY <1>1 DEF Ends, SeesNoPrey
  <2>2. UserTypeOK'
    BY <2>1 DEF SocketsInv, UserTypeOK
  <2>. QED  BY <2>1, <2>2, GoesKeeps
<1>. QED  BY <1>1, PollKeeps, ReadsKeeps, ReadsEndKeeps, SkipsKeeps, ClosesTwiceKeeps,
             AcceptsKeeps, SparesKeeps, TakesKeeps, TakesTwiceKeeps DEF ThreadRuns

-----------------------------------------------------------------------------
(***************************************************************************)
(* Theorems.                                                               *)
(***************************************************************************)

LEMMA SocketsStart ==
    ASSUME Init
    PROVE  SocketsInv
<1>. USE DEF Init, ConnsInit, ListenerInit
<1>1. conn = <<>> /\ Len(conn) = 0 /\ conn \in Seq(Conn) /\ DOMAIN conn = {}
  BY EmptySeq
<1>2. ConnsTypeOK /\ \A fd \in Fds : table[fd] = 0
  BY <1>1 DEF ConnsTypeOK
<1>3. TableIsSound
  BY <1>1, <1>2 DEF TableIsSound
<1>4. \A p \in Ports : Held(p) = {}
  BY DEF Held, NoClients
<1>5. ThreadsTypeOK
  <2>1. NoClients \in [Fds -> [conn : Nat, counter : Nat]]
    BY DEF NoClients, NoClient
  <2>2. Stopped \in Thread
    BY AtIs DEF Stopped, Pcs
  <2>. QED  BY <2>1, <2>2 DEF ThreadsTypeOK
<1>6. UserTypeOK
  <2>1. /\ Idle \in [at : {"idle", "joins", "waits", "woken"}, port : Ports \cup {Idle.port}]
        /\ Idle.at = "idle"
    BY DEF Idle
  <2>. QED  BY <2>1 DEF UserTypeOK
<1>7. ASSUME NEW p \in Ports
      PROVE  ThreadIsSound(p)
  <2>1. /\ thread[p].pc = "none" /\ thread[p].fds = <<>> /\ thread[p].i = 1
        /\ thread[p].new = FALSE /\ Len(thread[p].fds) = 0
    BY DEF Stopped, At, Round
  <2>2. \A i : i \notin thread[p].i .. Len(thread[p].fds)
    BY <2>1
  <2>. QED  BY <1>4, <2>1, <2>2 DEF ThreadIsSound, RoundIsSound, AgainIsSound
<1>8. \A p \in Ports : ClientsOf(p)
  BY <1>2, <1>4 DEF ClientsOf
<1>9. KillIsKept
  BY DEF KillIsKept, Idle
<1>. QED  BY <1>2, <1>3, <1>5, <1>6, <1>7, <1>8, <1>9 DEF SocketsInv

\* Whatever the threads of the ports, their user and the client tool do, and in
\* whatever order, the table of descriptors is sound, and what a thread found in a
\* round is still there when it comes to it.
THEOREM SocketsInvariant == Spec => []SocketsInv
<1>1. Init => SocketsInv
  BY SocketsStart
<1>2. SocketsInv /\ [Next]_vars => SocketsInv'
  <2>1. SUFFICES ASSUME SocketsInv, [Next]_vars
                 PROVE  SocketsInv'
    OBVIOUS
  <2>2. CASE ClientNext /\ UNCHANGED listenerVars
    BY <2>1, <2>2, ClientKeeps
  <2>3. CASE ListenerNext
    BY <2>1, <2>3, OpensKeeps, ClosesKeeps, JoinsKeeps, KillsKeeps, KillReturnsKeeps,
       ThreadRunsKeeps DEF ListenerNext, UserRuns
  <2>4. CASE UNCHANGED vars
    <3>1. UNCHANGED <<conn, table, m_clients, m_prey, m_run, thread, user, stolen, hit>>
      BY <2>4 DEF vars, connVars, listenerVars
    <3>2. ConnsTypeOK' /\ ThreadsTypeOK' /\ UserTypeOK' /\ TableIsSound' /\ KillIsKept'
      BY <2>1, <3>1
         DEF SocketsInv, ConnsTypeOK, ThreadsTypeOK, UserTypeOK, TableIsSound, KillIsKept
    <3>3. \A p \in Ports : Held(p)' = Held(p) /\ Queued(p)' = Queued(p)
      BY <3>1 DEF Held, Queued
    <3>4. \A p \in Ports : ThreadIsSound(p)'
      BY <2>1, <3>1, <3>3 DEF SocketsInv, ThreadIsSound, RoundIsSound, AgainIsSound
    <3>5. ~ stolen => \A p \in Ports : ClientsOf(p)'
      BY <2>1, <3>1, <3>3 DEF SocketsInv, ClientsOf, IsOwn, IsClosing
    <3>. QED  BY <3>1, <3>2, <3>4, <3>5 DEF SocketsInv
  <2>. QED  BY <2>1, <2>2, <2>3, <2>4 DEF Next
<1>. QED  BY <1>1, <1>2, PTL DEF Spec

\* As long as no thread closed a descriptor of another one, a client in the map of
\* a port has the descriptor of its connection, and the counter of what was read of
\* it, however the rounds of the threads interleave.
THEOREM ClientsStayTheirOwn == Spec => []ClientsAreTheirOwn
<1>1. SocketsInv => ClientsAreTheirOwn
  BY DEF SocketsInv, ClientsAreTheirOwn, ClientsOf, IsOwn, IsClosing
<1>. QED  BY <1>1, SocketsInvariant, PTL

\* kill() tells the truth about the descriptor it was asked to close, also after a
\* thread closed one of another.
THEOREM KillAlwaysTrue == Spec => []KillIsTrue
<1>1. SocketsInv => KillIsTrue
  BY DEF SocketsInv, UserTypeOK, KillIsKept, KillIsTrue, CanReturn, Result
<1>. QED  BY <1>1, SocketsInvariant, PTL
=============================================================================
