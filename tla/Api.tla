--------------------------------- MODULE Api ---------------------------------
(***************************************************************************)
(* An application of the library, that is a client or a server, above the  *)
(* connections of one TCPv4 processor.                                     *)
(***************************************************************************)
EXTENDS ApiClient, ApiServer

CONSTANTS
    Roles           \* a subset of {"client", "server"}

ASSUME ApiAssumption == Roles \subseteq {"client", "server"}

VARIABLES
    role            \* what the application is

vars == <<role, slot, serial, out, vanished, act, arp, clientVars, listening>>

Init == role \in Roles /\ SlotsInit /\ ClientInit /\ ServerInit

Next ==
    \/ role = "client" /\ ClientNext /\ UNCHANGED <<role, listening>>
    \/ role = "server" /\ ServerNext /\ UNCHANGED <<role, arp, clientVars>>

Spec == Init /\ [][Next]_vars

\* The processor answers every attempt to connect: a frame of the peer comes,
\* or run() is called until the attempt times out.
FairSpec ==
    Spec /\ \A s \in SlotIds : WF_vars(role = "client" /\ Answered(s) /\ UNCHANGED <<role, listening>>)

-----------------------------------------------------------------------------
(***************************************************************************)
(* Properties.                                                             *)
(***************************************************************************)

\* Type invariant.
TypeOK ==
    /\ slot \in [SlotIds -> [state : SlotStates, owner : 0 .. MaxConns, cookie : 0 .. MaxConns]]
    /\ serial \in 0 .. MaxConns
    /\ handle \in [SlotIds -> [state : HandleStates, conn : SlotIds \cup {NoSlot}]]
    /\ idx \in [SlotIds \cup {NoSlot} -> SlotIds]
    /\ app \in [SlotIds -> [view : {"none", "open", "up"}, mine : 0 .. MaxConns]]
    /\ listening \subseteq Ports
    /\ refused \in 0 .. MaxRefused

\* Neither of the two failures happened that part the tables: a connection that
\* goes away without an event, and a SYN that the device refuses to send.
Undisturbed == ~ vanished /\ refused = 0

\* The two tables agree on every connected handle: the slot it names is in use
\* by the connection that this handle began, the index leads from the slot back
\* to the handle, and the application was told.  So no two handles share a slot.
TablesAgree ==
    Undisturbed =>
        \A h \in SlotIds : handle[h].state = "Connected" =>
            LET s == handle[h].conn IN
            /\ s # NoSlot /\ slot[s].state # "CLOSED"
            /\ slot[s].owner = app[h].mine
            /\ idx[s] = h
            /\ app[h].view = "up"

\* onConnected(), onAcked() and onNewData() reach the handle whose connect()
\* began the connection, whichever slots were reused since, and even when
\* connections went away without an event.
EventsReachTheirHandle ==
    refused = 0 /\ act.what \in {"connected", "data"} => act.conn = act.mine

\* send() and close() on a handle that the application was told is connected act
\* on the connection of this handle and on no other.  The interface promises it
\* without the condition (CallsReachTheirConnection).
CallsReachTheirConnection ==
    act.what \in {"send", "close"} => act.conn = act.mine

UndisturbedCallsReachTheirConnection == Undisturbed => CallsReachTheirConnection

\* The state that onConnected() returned for a connection is passed back with
\* the events of this connection only...
CookieIsOfItsConnection ==
    ~ vanished /\ act.cookie # 0 => act.cookie = act.conn

\* ...and to onClosed() at last: while the delegate waits for it, a slot that is
\* in use keeps it.
NoCookieIsLost ==
    Undisturbed =>
        \A k \in out : \E s \in SlotIds :
            slot[s].cookie = k /\ slot[s].owner = k /\ slot[s].state # "CLOSED"

\* ...and once it was passed to onClosed(), to no callback again.
NoCookieAfterClosed ==
    \A s \in SlotIds : slot[s].cookie # 0 => slot[s].cookie \in out

\* The three together: whatever happens to a connection, and whoever has its slot
\* next, the delegate has its state back for it, once, and for no other.
CookiesAreIntact == CookieIsOfItsConnection /\ NoCookieIsLost /\ NoCookieAfterClosed

\* connect() on a handle is answered: it is connected, or closed again.
ConnectIsAnswered ==
    \A h \in SlotIds :
        (handle[h].state = "Connecting" /\ refused = 0)
            ~> (handle[h].state # "Connecting" \/ refused > 0)
=============================================================================
