---------------------------- MODULE SocketConns ----------------------------
(***************************************************************************)
(* What the socket tools use of the operating system: connections between  *)
(* the process of the client tool and the process of the server tool, and  *)
(* the descriptors of the latter, which all its threads share and the      *)
(* system hands out lowest first.                                          *)
(***************************************************************************)
EXTENDS Naturals, FiniteSets, Sequences

CONSTANTS
    Ports,          \* the ports of the server tool
    MaxConns,       \* bound: the number of connections
    MaxFd           \* bound: the descriptors of the server

ASSUME ConnsAssumption == MaxConns \in Nat /\ MaxFd \in Nat

VARIABLES
    conn,           \* the connections that were begun
    table           \* the connection of each descriptor of the server, 0 if it is free

connVars == <<conn, table>>

Fds == 1 .. MaxFd

ConnsInit == conn = <<>> /\ table = [fd \in Fds |-> 0]

\* A connection that waits for accept() at a port.  far and near: are the ends of
\* the client and of the server open?  taken: the bytes the server has read.
NewConn(p) ==
    [port |-> p, far |-> TRUE, near |-> "queued", unread |-> 0, taken |-> 0, reset |-> FALSE]

Queued(p) == {k \in DOMAIN conn : conn[k].port = p /\ conn[k].near = "queued"}

FreeFds == {fd \in Fds : table[fd] = 0}

\* Connections are accepted in their order, descriptors handed out lowest first.
Least(S) == CHOOSE k \in S : \A j \in S : k <= j

\* read() has something to return: data, or the end of it.
Readable(fd) ==
    table[fd] # 0 /\ (conn[table[fd]].unread > 0 \/ ~ conn[table[fd]].far)

NearCloses(k) == conn' = [conn EXCEPT ![k].near = "closed", ![k].unread = 0]

\* close() of a descriptor; one that is free already is an error, EBADF.
CloseFd(fd) ==
    IF table[fd] = 0 THEN UNCHANGED connVars
    ELSE table' = [table EXCEPT ![fd] = 0] /\ NearCloses(table[fd])
=============================================================================
