------------------------------ MODULE ApiClient ------------------------------
(***************************************************************************)
(* The client API: handles that the application opens and connects, and    *)
(* the index from the slots of the processor back to them.                 *)
(***************************************************************************)
EXTENDS TCPv4Slots

CONSTANTS
    MaxRefused      \* bound: SYN segments that the device refuses to send

ASSUME ClientAssumption == MaxRefused \in Nat

VARIABLES
    handle,         \* m_cns
    idx,            \* m_idx, where a key that is missing reads as handle 0
    arp,            \* was the library built with ARP?
    known,          \* does the ARP table know the address of the peer?
    refused,        \* how many SYN segments the device refused
    app             \* history: what the application knows of each handle

clientVars == <<handle, idx, known, refused, app>>

\* The conn of a handle that never was connected, -1.
NoSlot == NConn

HandleStates == {"Closed", "Opened", "Resolving", "Connecting", "Connected"}

\* mine is the connection that the handle was last connected to.
NoApp == [view |-> "none", mine |-> 0]

ClientInit ==
    /\ handle = [h \in SlotIds |-> [state |-> "Closed", conn |-> NoSlot]]
    /\ idx = [s \in SlotIds \cup {NoSlot} |-> 0]
    /\ arp \in BOOLEAN
    /\ known \in BOOLEAN
    /\ refused = 0
    /\ app = [h \in SlotIds |-> NoApp]

Tell(h, view) == app' = [app EXCEPT ![h].view = view]

Open(h) ==
    /\ handle[h].state = "Closed"
    /\ \A i \in SlotIds : i < h => handle[i].state # "Closed"
    /\ handle' = [handle EXCEPT ![h].state = "Opened"]
    /\ app' = [app EXCEPT ![h] = [view |-> "open", mine |-> 0]]
    /\ act' = NoAct
    /\ UNCHANGED <<slot, serial, out, vanished, idx, known, refused>>

\* Without a translation an ARP request is sent; connect() is called again.
Discover(h) ==
    /\ arp /\ ~ known /\ handle[h].state = "Opened"
    /\ handle' = [handle EXCEPT ![h].state = "Resolving"]
    /\ act' = NoAct
    /\ UNCHANGED <<slot, serial, out, vanished, idx, known, refused, app>>

\* Mutation: the index still points where it did.
ConnectUnindexed(h) ==
    /\ known /\ serial < MaxConns
    /\ handle[h].state = "Opened" \/ handle[h].state = "Resolving"
    /\ \E s \in SlotIds :
        /\ Takes(s)
        /\ serial' = serial + 1
        /\ slot' = [slot EXCEPT ![s] = [NewSlot EXCEPT !.state = "SYN_SENT", !.owner = serial']]
        /\ handle' = [handle EXCEPT ![h] = [state |-> "Connecting", conn |-> s]]
        /\ app' = [app EXCEPT ![h].mine = serial']
        /\ UNCHANGED <<idx, refused>>
    /\ act' = NoAct
    /\ UNCHANGED <<out, vanished, known>>

\* connect() with a translation, from Opened or from Resolving.  When the SYN is
\* not sent the slot is CLOSED again and connect() of the processor returns Ok
\* without a connection: the handle keeps the one it had.
Connect(h) ==
    /\ known /\ serial < MaxConns
    /\ handle[h].state = "Opened" \/ handle[h].state = "Resolving"
    /\ \E s \in SlotIds :
        /\ Takes(s)
        /\ serial' = serial + 1
        /\ \/ /\ slot' = [slot EXCEPT ![s] = [NewSlot EXCEPT !.state = "SYN_SENT", !.owner = serial']]
              /\ handle' = [handle EXCEPT ![h] = [state |-> "Connecting", conn |-> s]]
              /\ idx' = [idx EXCEPT ![s] = h]
              /\ app' = [app EXCEPT ![h].mine = serial']
              /\ UNCHANGED refused
           \/ /\ refused < MaxRefused
              /\ refused' = refused + 1
              /\ slot' = [slot EXCEPT ![s] = [NewSlot EXCEPT !.owner = serial']]
              /\ handle' = [handle EXCEPT ![h].state = "Connecting"]
              /\ idx' = [idx EXCEPT ![handle[h].conn] = h]
              /\ UNCHANGED app
    /\ act' = NoAct
    /\ UNCHANGED <<out, vanished, known>>

Did(what, h, s) ==
    act' = [what |-> what, conn |-> slot[s].owner, mine |-> app[h].mine, cookie |-> 0]

\* send() and close() go to the slot, which does nothing unless ESTABLISHED.
\* The application calls them while it takes the handle for connected.
Send(h) ==
    /\ app[h].view = "up" /\ handle[h].conn # NoSlot
    /\ slot[handle[h].conn].state = "ESTABLISHED"
    /\ Did("send", h, handle[h].conn)
    /\ UNCHANGED <<slot, serial, out, vanished, clientVars>>

Close(h) ==
    /\ app[h].view = "up" /\ handle[h].state = "Connected"
    /\ slot[handle[h].conn].state = "ESTABLISHED"
    /\ \E st \in {"CLOSE", "FIN_WAIT_1"} : slot' = Enter(handle[h].conn, st)
    /\ Did("close", h, handle[h].conn)
    /\ UNCHANGED <<serial, out, vanished, clientVars>>

\* Mutation: whatever handle the index says.
IsCurrentAlways(s) == TRUE

\* The handle an event on slot s is passed to, if it still is that of the slot.
HandleOf(s) == idx[s]
IsCurrent(s) == handle[idx[s]].conn = s

OnConnected(s) ==
    LET h == HandleOf(s) IN
    /\ slot[s].state = "SYN_SENT"
    /\ IF IsCurrent(s)
       THEN /\ Announced(s)
            /\ handle' = [handle EXCEPT ![h].state = "Connected"]
            /\ Tell(h, "up")
            /\ act' = [what |-> "connected", conn |-> slot[s].owner, mine |-> app[h].mine,
                       cookie |-> 0]
       ELSE slot' = Enter(s, "ESTABLISHED") /\ act' = NoAct /\ UNCHANGED <<out, handle, app>>
    /\ UNCHANGED <<serial, vanished, idx, known, refused>>

\* onAborted(), onTimedOut() and onClosed() do the same.
Ended(s, st) ==
    LET h == HandleOf(s) IN
    /\ IF IsCurrent(s)
       THEN /\ slot' = EndsWith(s, st)
            /\ out' = out \ {slot[s].cookie}
            /\ handle' = [handle EXCEPT ![h].state = "Closed"]
            /\ Tell(h, "none")
            /\ act' = [what |-> "closed", conn |-> slot[s].owner, mine |-> app[h].mine,
                       cookie |-> slot[s].cookie]
       ELSE slot' = Enter(s, st) /\ act' = NoAct /\ UNCHANGED <<out, handle, app>>
    /\ UNCHANGED <<serial, vanished, idx, known, refused>>

OnEnd(s) == \E m \in EndMoves : slot[s].state = m[1] /\ Ended(s, m[2])

\* abort() of a connected handle ends its connection through onAborted().
Abort(h) ==
    /\ app[h].view = "up" /\ handle[h].state = "Connected"
    /\ Ended(handle[h].conn, "CLOSED")

\* onAcked() and onNewData(): data of a slot without a current handle is
\* answered by Abort.
OnData(s) ==
    LET h == HandleOf(s) IN
    /\ slot[s].state = "ESTABLISHED"
    /\ IF IsCurrent(s)
       THEN /\ React(s)
            /\ act' = [what |-> "data", conn |-> slot[s].owner, mine |-> app[h].mine,
                       cookie |-> slot[s].cookie]
       ELSE slot' = Enter(s, "CLOSED") /\ act' = NoAct /\ UNCHANGED vanished
    /\ UNCHANGED <<serial, out, clientVars>>

\* The table learns an address from the wire and forgets the oldest.
ArpChanges ==
    /\ known' = ~ known
    /\ act' = NoAct
    /\ UNCHANGED <<slot, serial, out, vanished, handle, idx, refused, app>>

ClientNext ==
    /\ \/ \E h \in SlotIds :
            Open(h) \/ Discover(h) \/ Connect(h) \/ Send(h) \/ Close(h) \/ Abort(h)
       \/ \E s \in SlotIds : OnConnected(s) \/ OnEnd(s) \/ OnData(s)
                                \/ (QuietMove(s) /\ UNCHANGED clientVars)
       \/ ArpChanges
    /\ UNCHANGED arp

\* An attempt to connect is answered, or times out.
Answered(s) ==
    /\ slot[s].state = "SYN_SENT"
    /\ OnConnected(s) \/ OnEnd(s)
    /\ UNCHANGED arp
=============================================================================
