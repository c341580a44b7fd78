---------------------------- MODULE SocketClient ----------------------------
(***************************************************************************)
(* The socket client tool: one thread that carries out the commands of the *)
(* user one after the other on blocking sockets.                           *)
(***************************************************************************)
EXTENDS SocketConns

CONSTANTS
    MaxWrites       \* bound: writes of one byte

VARIABLES
    alive,          \* the process of the tool
    connections,    \* State::connections
    writes

clientVars == <<alive, connections, writes>>

ClientInit == alive = TRUE /\ connections = {} /\ writes = 0

\* The backlog of a listening socket completes the connection.
ClientConnects(p) ==
    /\ alive /\ Len(conn) < MaxConns
    /\ conn' = Append(conn, NewConn(p))
    /\ connections' = connections \cup {Len(conn) + 1}
    /\ UNCHANGED <<table, alive, writes>>

FarCloses(ks) == conn' = [k \in DOMAIN conn |-> IF k \in ks THEN [conn[k] EXCEPT !.far = FALSE] ELSE conn[k]]

ClientCloses(k) ==
    /\ alive /\ k \in connections
    /\ FarCloses({k})
    /\ connections' = connections \ {k}
    /\ UNCHANGED <<table, alive, writes>>

ClientClears ==
    /\ alive /\ connections # {}
    /\ FarCloses(connections)
    /\ connections' = {}
    /\ UNCHANGED <<table, alive, writes>>

\* The first write after the server closed is answered by a reset; the next one
\* raises SIGPIPE, which nothing in the tool handles.
ClientWrites(k) ==
    /\ alive /\ k \in connections /\ writes < MaxWrites
    /\ writes' = writes + 1
    /\ CASE conn[k].near # "closed" ->
              /\ conn' = [conn EXCEPT ![k].unread = @ + 1]
              /\ UNCHANGED <<alive, connections>>
         [] conn[k].near = "closed" /\ ~ conn[k].reset ->
              /\ conn' = [conn EXCEPT ![k].reset = TRUE]
              /\ UNCHANGED <<alive, connections>>
         [] OTHER ->
              /\ FarCloses(connections)
              /\ alive' = FALSE /\ connections' = {}
    /\ UNCHANGED table
=============================================================================
