----------------------------- MODULE TCPv4Slots -----------------------------
(***************************************************************************)
(* The table of connections of the TCPv4 processor, as the client and the  *)
(* server API see it: the state and the cookie of each slot, and which     *)
(* changes of state are reported by which event.  What makes a connection  *)
(* change its state (frames, timers) is the matter of TCPv4Host.           *)
(***************************************************************************)
EXTENDS Naturals, FiniteSets

CONSTANTS
    NConn,          \* nconn: the number of slots, and of handles of a client
    MaxConns        \* bound: connections that are begun

ASSUME SlotsAssumption == NConn \in Nat \ {0} /\ MaxConns \in Nat

VARIABLES
    slot,           \* m_conns
    serial,         \* history: the number of connections begun
    out,            \* history: the cookies the delegate returned and still waits for
    vanished,       \* history: did a connection go away without an event?
    act             \* history: the last call or callback that reached a slot

SlotIds == 0 .. NConn - 1

SlotStates == {"CLOSED", "SYN_SENT", "SYN_RCVD", "ESTABLISHED", "CLOSE", "LAST_ACK",
               "FIN_WAIT_1", "FIN_WAIT_2", "CLOSING", "TIME_WAIT"}

\* owner numbers the connections, and the cookie that the delegate returns for
\* a connection is that number; 0 is none.
NewSlot == [state |-> "CLOSED", owner |-> 0, cookie |-> 0]

NoAct == [what |-> "none", conn |-> 0, mine |-> 0, cookie |-> 0]

SlotsInit ==
    /\ slot = [s \in SlotIds |-> NewSlot]
    /\ serial = 0
    /\ out = {}
    /\ vanished = FALSE
    /\ act = NoAct

\* Mutation: a slot in FIN_WAIT_2 is taken too.
TakesEarly(s) == slot[s].state \in {"CLOSED", "FIN_WAIT_2", "TIME_WAIT"}

\* The first CLOSED slot, or else one in TIME_WAIT.  Which one its timer says.
Takes(s) ==
    LET closed == {i \in SlotIds : slot[i].state = "CLOSED"} IN
    IF closed # {} THEN s \in closed /\ \A i \in closed : s <= i
                   ELSE slot[s].state = "TIME_WAIT"

\* Changes of state that are not reported.  When TIME_WAIT expires the end of
\* the connection was reported before; when FIN_WAIT_2 does it was not.
QuietMoves ==
    {<<"ESTABLISHED", "LAST_ACK">>, <<"CLOSE", "FIN_WAIT_1">>,
     <<"FIN_WAIT_1", "FIN_WAIT_2">>, <<"CLOSING", "TIME_WAIT">>,
     <<"TIME_WAIT", "CLOSED">>, <<"FIN_WAIT_2", "CLOSED">>}

ClosedMoves ==
    {<<"LAST_ACK", "CLOSED">>, <<"FIN_WAIT_1", "TIME_WAIT">>,
     <<"FIN_WAIT_1", "CLOSING">>, <<"FIN_WAIT_2", "TIME_WAIT">>}

\* onAborted(): a RST in any state, or an answer to the SYN that is none.
\* onTimedOut(): where something is retransmitted.
AbortedMoves == {<<st, "CLOSED">> : st \in SlotStates \ {"CLOSED"}}

TimedOutMoves ==
    {<<st, "CLOSED">> : st \in SlotStates \ {"CLOSED", "TIME_WAIT", "FIN_WAIT_2"}}

\* A connection may be aborted or time out after it was reported as closed.
EndMoves == ClosedMoves \cup AbortedMoves \cup TimedOutMoves

\* What the reaction of a callback on data makes of the connection.  After an
\* Abort no event follows.
Reacted == {<<"Continue", "ESTABLISHED">>, <<"Close", "FIN_WAIT_1">>, <<"Abort", "CLOSED">>}

Enter(s, st) == [slot EXCEPT ![s].state = st]

\* Mutation: the cookie stays.
EndsWithCookie(s, st) == Enter(s, st)

\* Every event that ends a connection passes its cookie to the delegate, which
\* disposes of it, and clears it.
EndsWith(s, st) == [slot EXCEPT ![s].state = st, ![s].cookie = 0]

QuietMove(s) ==
    /\ \E m \in QuietMoves :
        /\ slot[s].state = m[1]
        /\ slot' = Enter(s, m[2])
        /\ vanished' = (vanished \/ m = <<"FIN_WAIT_2", "CLOSED">>)
    /\ act' = NoAct
    /\ UNCHANGED <<serial, out>>

\* A callback on data, and what the delegate has done of it.
React(s) ==
    \E r \in Reacted :
        slot' = Enter(s, r[2]) /\ vanished' = (vanished \/ r[1] = "Abort")

\* The delegate returns a cookie when a connection is up.
Announced(s) ==
    /\ slot' = [slot EXCEPT ![s].state = "ESTABLISHED", ![s].cookie = slot[s].owner]
    /\ out' = out \cup {slot[s].owner}
=============================================================================
