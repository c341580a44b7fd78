------------------------------ MODULE Listener ------------------------------
(***************************************************************************)
(* The socket server tool.  Each open port has a thread that polls its     *)
(* socket and its clients; the user opens and closes ports and kills       *)
(* clients from a thread of his own.  m_lock protects m_prey; m_clients is *)
(* the thread's.                                                           *)
(***************************************************************************)
EXTENDS SocketConns

CONSTANTS
    Preys           \* the numbers that the user may ask to kill, also NoPrey

VARIABLES
    m_clients,      \* of each port: the client of each descriptor
    m_prey,
    m_run,
    thread,         \* where the thread of each port is
    user,           \* what the thread of the user waits for
    stolen,         \* history: did a thread close a descriptor of another one?
    hit             \* history: the connection that the last kill closed

listenerVars == <<m_clients, m_prey, m_run, thread, user, stolen, hit>>

NoPrey == 0

\* conn is history: the connection that accept() returned the descriptor for.
NoClient == [conn |-> 0, counter |-> 0]
NoClients == [fd \in Fds |-> NoClient]

\* A thread that begins a round, with what poll() found, or none.
Round(there, polls, queued) ==
    [pc |-> there, fds |-> polls, i |-> 1, new |-> queued, fd |-> 0]

At(there) == Round(there, <<>>, FALSE)

Stopped == At("none")

Idle == [at |-> "idle", port |-> CHOOSE p \in Ports : TRUE]

\* What the constructor of a listener leaves behind.
Started == At("poll")

ListenerInit ==
    /\ m_clients = [p \in Ports |-> NoClients]
    /\ m_prey = [p \in Ports |-> NoPrey]
    /\ m_run = [p \in Ports |-> FALSE]
    /\ thread = [p \in Ports |-> Stopped]
    /\ user = Idle
    /\ stolen = FALSE
    /\ hit = 0

Held(p) == {fd \in Fds : m_clients[p][fd] # NoClient}

-----------------------------------------------------------------------------
(***************************************************************************)
(* The thread of the user.                                                 *)
(***************************************************************************)
Opens(p) ==
    /\ user.at = "idle" /\ thread[p].pc = "none"
    /\ m_run' = [m_run EXCEPT ![p] = TRUE]
    /\ m_prey' = [m_prey EXCEPT ![p] = NoPrey]
    /\ thread' = [thread EXCEPT ![p] = Started]
    /\ UNCHANGED <<connVars, m_clients, user, stolen, hit>>

\* The destructor tells the thread to end, and waits for it.
Closes(p) ==
    /\ user.at = "idle" /\ m_run[p]
    /\ m_run' = [m_run EXCEPT ![p] = FALSE]
    /\ user' = [at |-> "joins", port |-> p]
    /\ UNCHANGED <<connVars, m_clients, m_prey, thread, stolen, hit>>

\* Then the clients go, with their descriptors, and the socket of the port, with
\* those that wait there.
Joins ==
    /\ user.at = "joins" /\ thread[user.port].pc = "ended"
    /\ LET p == user.port
           fds == Held(p)
           ks == {table[fd] : fd \in fds} \cup Queued(p)
       IN  /\ table' = [fd \in Fds |-> IF fd \in fds THEN 0 ELSE table[fd]]
           /\ conn' = [k \in DOMAIN conn |->
                        IF k \in ks THEN [conn[k] EXCEPT !.near = "closed", !.unread = 0]
                                    ELSE conn[k]]
           /\ stolen' = (stolen \/ \E k \in ks \ {0} : conn[k].port # p)
           /\ m_clients' = [m_clients EXCEPT ![p] = NoClients]
           /\ thread' = [thread EXCEPT ![p] = Stopped]
    /\ user' = Idle
    /\ UNCHANGED <<m_prey, m_run, hit>>

Kills(p) ==
    /\ user.at = "idle" /\ m_run[p]
    /\ \E prey \in Preys : m_prey' = [m_prey EXCEPT ![p] = prey]
    /\ user' = [at |-> "waits", port |-> p]
    /\ hit' = 0
    /\ UNCHANGED <<connVars, m_clients, m_run, thread, stolen>>

\* The thread of the port holds m_lock between the two closes of dokill().
CanReturn == user.at = "woken" /\ thread[user.port].pc # "killing"

\* kill() takes a prey that is gone for one that was killed.
Result == m_prey[user.port] = NoPrey

KillReturns ==
    /\ CanReturn
    /\ user' = Idle
    /\ m_prey' = [m_prey EXCEPT ![user.port] = NoPrey]
    /\ hit' = 0
    /\ UNCHANGED <<connVars, m_clients, m_run, thread, stolen>>

-----------------------------------------------------------------------------
(***************************************************************************)
(* The thread of a port.                                                   *)
(***************************************************************************)
\* What the last round found is of no use to the next step.
Goes(p, there) == thread' = [thread EXCEPT ![p] = At(there)]

\* The descriptors in the order of the map: there is one such sequence.
InOrder(p) ==
    {s \in [1 .. Cardinality(Held(p)) -> Held(p)] : \A i, j \in DOMAIN s : i < j => s[i] < s[j]}

\* With what poll() says of each.
Polled(s) == [i \in DOMAIN s |-> [fd |-> s[i], in |-> Readable(s[i])]]

Poll(p) ==
    /\ thread[p].pc = "poll" /\ m_run[p]
    /\ \E s \in InOrder(p) :
        LET new == Queued(p) # {}
        IN  IF new \/ \E i \in DOMAIN s : Readable(s[i])
            THEN thread' = [thread EXCEPT ![p] = Round("clients", Polled(s), new)]
            ELSE Goes(p, "kill")
    /\ UNCHANGED <<connVars, m_clients, m_prey, m_run, user, stolen, hit>>

Ends(p) ==
    /\ thread[p].pc = "poll" /\ ~ m_run[p]
    /\ Goes(p, "ended")
    /\ UNCHANGED <<connVars, m_clients, m_prey, m_run, user, stolen, hit>>

\* close() and then erase(), whose destructor of the client closes the descriptor
\* again: another thread may have got it in between.
ClosesOnce(p, fd, then) ==
    /\ CloseFd(fd)
    /\ stolen' = (stolen \/ (table[fd] # 0 /\ conn[table[fd]].port # p))
    /\ thread' = [thread EXCEPT ![p].pc = then, ![p].fd = fd]

\* Mutation: the client stays in the map.
EraseKeeps(p, fd) == UNCHANGED m_clients

Erase(p, fd) == m_clients' = [m_clients EXCEPT ![p][fd] = NoClient]

ClosesTwice(p) ==
    /\ thread[p].pc = "closing"
    /\ CloseFd(thread[p].fd)
    /\ stolen' = (stolen \/ table[thread[p].fd] # 0)
    /\ Erase(p, thread[p].fd)
    /\ thread' = [thread EXCEPT ![p].pc = "clients", ![p].i = @ + 1, ![p].fd = 0]
    /\ UNCHANGED <<m_prey, m_run, user, hit>>

\* The bound of the loop follows the size of the map, which shrinks under it.
InRange(p) ==
    thread[p].i <= Len(thread[p].fds) /\ thread[p].i <= Cardinality(Held(p))

Entry(p) == thread[p].fds[thread[p].i]

NextEntry(p) == thread' = [thread EXCEPT ![p].i = @ + 1]

Reads(p) ==
    /\ thread[p].pc = "clients" /\ InRange(p) /\ Entry(p).in
    /\ LET fd == Entry(p).fd
           k == table[fd]
           n == IF k = 0 THEN 0 ELSE conn[k].unread
       IN  /\ n > 0
           /\ conn' = [conn EXCEPT ![k].unread = 0, ![k].taken = @ + n]
           /\ m_clients' = [m_clients EXCEPT ![p][fd].counter = @ + n]
    /\ NextEntry(p)
    /\ UNCHANGED <<table, m_prey, m_run, user, stolen, hit>>

\* read() returns 0 at the end of the data, and an error without a connection.
\* The sockets block: on a connection that has neither it would wait.
ReadsEnd(p) ==
    /\ thread[p].pc = "clients" /\ InRange(p) /\ Entry(p).in
    /\ LET fd == Entry(p).fd IN
        /\ table[fd] # 0 => conn[table[fd]].unread = 0 /\ ~ conn[table[fd]].far
        /\ ClosesOnce(p, fd, "closing")
    /\ UNCHANGED <<m_clients, m_prey, m_run, user, hit>>

Skips(p) ==
    /\ thread[p].pc = "clients" /\ InRange(p) /\ ~ Entry(p).in
    /\ NextEntry(p)
    /\ UNCHANGED <<connVars, m_clients, m_prey, m_run, user, stolen, hit>>

\* The client of the descriptor, if the map has one already, keeps its counter.
Accepts(p) ==
    /\ thread[p].pc = "clients" /\ ~ InRange(p)
    /\ IF thread[p].new /\ FreeFds # {}
       THEN LET k == Least(Queued(p))
                fd == Least(FreeFds)
            IN  /\ conn' = [conn EXCEPT ![k].near = "open"]
                /\ table' = [table EXCEPT ![fd] = k]
                /\ m_clients' = [m_clients EXCEPT ![p][fd].conn = k]
       ELSE UNCHANGED <<connVars, m_clients>>
    /\ Goes(p, "kill")
    /\ UNCHANGED <<m_prey, m_run, user, stolen, hit>>

Wake(p) == user' = IF user.at = "waits" /\ user.port = p THEN [user EXCEPT !.at = "woken"] ELSE user

\* Mutation: the prey is gone, whether it was there or not.
SparesNobody(p) ==
    /\ thread[p].pc = "kill" /\ m_prey[p] # NoPrey /\ m_prey[p] \notin Held(p)
    /\ Wake(p)
    /\ Goes(p, "poll")
    /\ m_prey' = [m_prey EXCEPT ![p] = NoPrey]
    /\ UNCHANGED <<connVars, m_clients, m_run, stolen, hit>>

\* dokill() without a client of that number: m_prey stays for kill() to see.
Spares(p) ==
    /\ thread[p].pc = "kill" /\ m_prey[p] # NoPrey /\ m_prey[p] \notin Held(p)
    /\ Wake(p)
    /\ Goes(p, "poll")
    /\ UNCHANGED <<connVars, m_clients, m_prey, m_run, stolen, hit>>

SeesNoPrey(p) ==
    /\ thread[p].pc = "kill" /\ m_prey[p] = NoPrey
    /\ Goes(p, "poll")
    /\ UNCHANGED <<connVars, m_clients, m_prey, m_run, user, stolen, hit>>

\* dokill() of a client that is there, and once it is erased.
Takes(p) ==
    /\ thread[p].pc = "kill" /\ m_prey[p] # NoPrey /\ m_prey[p] \in Held(p)
    /\ ClosesOnce(p, m_prey[p], "killing")
    /\ hit' = m_clients[p][m_prey[p]].conn
    /\ UNCHANGED <<m_clients, m_prey, m_run, user>>

\* Mutation: nobody is told of a client that was killed.
TakesQuietly(p) ==
    /\ thread[p].pc = "killing"
    /\ CloseFd(thread[p].fd)
    /\ stolen' = (stolen \/ table[thread[p].fd] # 0)
    /\ Erase(p, thread[p].fd)
    /\ m_prey' = [m_prey EXCEPT ![p] = NoPrey]
    /\ Goes(p, "poll")
    /\ UNCHANGED <<m_run, user, hit>>

TakesTwice(p) ==
    /\ thread[p].pc = "killing"
    /\ CloseFd(thread[p].fd)
    /\ stolen' = (stolen \/ table[thread[p].fd] # 0)
    /\ Erase(p, thread[p].fd)
    /\ m_prey' = [m_prey EXCEPT ![p] = NoPrey]
    /\ Wake(p)
    /\ Goes(p, "poll")
    /\ UNCHANGED <<m_run, hit>>

ThreadRuns(p) ==
    \/ Poll(p) \/ Ends(p) \/ Reads(p) \/ ReadsEnd(p) \/ Skips(p) \/ ClosesTwice(p)
    \/ Accepts(p) \/ Spares(p) \/ SeesNoPrey(p) \/ Takes(p) \/ TakesTwice(p)

UserRuns == Joins \/ KillReturns

ListenerNext ==
    \/ UserRuns
    \/ \E p \in Ports : Opens(p) \/ Closes(p) \/ Kills(p) \/ ThreadRuns(p)
=============================================================================
