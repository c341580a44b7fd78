------------------------------ MODULE ApiServer ------------------------------
(***************************************************************************)
(* The server API: the ports that are listened to, and the events of the   *)
(* connections, whose handles are the slots themselves.                    *)
(***************************************************************************)
EXTENDS TCPv4Slots

CONSTANTS
    Ports           \* the ports

VARIABLES
    listening       \* m_listenports, with m_cookies: the same keys

ServerInit == listening = {}

Listen(p) ==
    /\ listening' = listening \cup {p}
    /\ act' = NoAct
    /\ UNCHANGED <<slot, serial, out, vanished>>

Unlisten(p) ==
    /\ listening' = listening \ {p}
    /\ act' = NoAct
    /\ UNCHANGED <<slot, serial, out, vanished>>

\* A SYN for a port that is listened to takes a slot.  The cookie that the slot
\* had, if any, stays.
Accept(p) ==
    /\ p \in listening /\ serial < MaxConns
    /\ serial' = serial + 1
    /\ \E s \in SlotIds :
        /\ Takes(s)
        /\ slot' = [slot EXCEPT ![s].state = "SYN_RCVD", ![s].owner = serial']
    /\ act' = NoAct
    /\ UNCHANGED <<out, vanished, listening>>

ServerCallback(what, s) ==
    act' = [what |-> what, conn |-> slot[s].owner, mine |-> slot[s].owner,
            cookie |-> slot[s].cookie]

\* onConnected(), when the handshake is over.
ServerConnected(s) ==
    /\ slot[s].state = "SYN_RCVD"
    /\ Announced(s)
    /\ act' = NoAct
    /\ UNCHANGED <<serial, vanished, listening>>

ServerEnd(s) ==
    /\ \E m \in EndMoves : slot[s].state = m[1] /\ slot' = EndsWith(s, m[2])
    /\ out' = out \ {slot[s].cookie}
    /\ ServerCallback("closed", s)
    /\ UNCHANGED <<serial, vanished, listening>>

ServerData(s) ==
    /\ slot[s].state = "ESTABLISHED"
    /\ React(s)
    /\ ServerCallback("data", s)
    /\ UNCHANGED <<serial, out, listening>>

\* close(), and send() which changes nothing here.
ServerClose(s) ==
    /\ slot[s].state = "ESTABLISHED"
    /\ \E st \in {"CLOSE", "FIN_WAIT_1"} : slot' = Enter(s, st)
    /\ act' = NoAct
    /\ UNCHANGED <<serial, out, vanished, listening>>

ServerNext ==
    \/ \E p \in Ports : Listen(p) \/ Unlisten(p) \/ Accept(p)
    \/ \E s \in SlotIds : ServerConnected(s) \/ ServerEnd(s) \/ ServerData(s) \/ ServerClose(s)
                            \/ (QuietMove(s) /\ UNCHANGED listening)
=============================================================================
