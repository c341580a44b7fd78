------------------------------ MODULE Sockets ------------------------------
(***************************************************************************)
(* The socket client tool and the socket server tool, each with its user.  *)
(***************************************************************************)
EXTENDS SocketClient, Listener

vars == <<connVars, clientVars, listenerVars>>

Init == ConnsInit /\ ClientInit /\ ListenerInit

\* A port that is not open refuses.
ClientNext ==
    \/ \E p \in Ports : m_run[p] /\ ClientConnects(p)
    \/ \E k \in DOMAIN conn : ClientCloses(k) \/ ClientWrites(k)
    \/ ClientClears

Next ==
    \/ ClientNext /\ UNCHANGED listenerVars
    \/ ListenerNext /\ UNCHANGED clientVars

Spec == Init /\ [][Next]_vars

\* poll() returns after 100 ms at the latest, so the threads of the ports go on;
\* the thread of the user goes on when it is woken.
FairSpec ==
    /\ Spec
    /\ \A p \in Ports : WF_vars(ThreadRuns(p) /\ UNCHANGED clientVars)
    /\ WF_vars(UserRuns /\ UNCHANGED clientVars)

-----------------------------------------------------------------------------
(***************************************************************************)
(* Properties.                                                             *)
(***************************************************************************)

\* The map of a port and the descriptors of the process agree, while no thread
\* closed a descriptor of another one: a client in the map has the descriptor of
\* the connection that was accepted for it, except between the two closes that
\* end it; its counter is what was read of this connection; and every connection
\* that is open is in the map of its port.
ClientsAreTheirOwn ==
    ~ stolen =>
        \A p \in Ports :
            /\ \A fd \in Held(p) :
                \/ /\ table[fd] = m_clients[p][fd].conn
                   /\ m_clients[p][fd].counter = conn[table[fd]].taken
                \/ thread[p].pc \in {"closing", "killing"} /\ thread[p].fd = fd
            /\ \A fd \in Fds :
                table[fd] # 0 /\ conn[table[fd]].port = p => fd \in Held(p)

\* No thread closes a descriptor of another one.  It does not hold: a client is
\* closed, and then closed again by its destructor.
NothingIsStolen == ~ stolen

\* kill() returns true if it closed the connection of a client, and false only
\* if it closed none.
KillIsTrue == CanReturn => (Result <=> hit # 0)

\* And it returns, whether there is such a client or not.  Asked for NoPrey it
\* does not: dokill() has nothing to do, and tells nobody.
KillsReturn ==
    user.at = "waits" /\ m_prey[user.port] # NoPrey ~> (user.at = "idle" \/ stolen)

\* A write of the client tool does not end it.  It does not hold: nothing in the
\* tool ignores SIGPIPE.
ClientSurvives == alive
=============================================================================
