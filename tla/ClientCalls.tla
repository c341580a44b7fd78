---------------------------- MODULE ClientCalls ----------------------------
(***************************************************************************)
(* The calls of the client API as its applications see them: what a call   *)
(* does to the handle and its slot, and the status it returns.  What the   *)
(* processor does between the calls is the second half.                    *)
(***************************************************************************)
EXTENDS ApiClient

apiVars == <<slot, serial, out, vanished, act, arp, clientVars>>

\* The library is built with ARP, its default.
CallsInit == SlotsInit /\ ClientInit /\ arp = TRUE

\* Every slot is in use: the handle stays as it is.
NoneToTake == \A s \in SlotIds : ~ Takes(s)

ConnectReturns(h, st) ==
    \/ /\ st = "InvalidConnection"
       /\ handle[h].state = "Closed"
       /\ UNCHANGED apiVars
    \/ /\ st = "OperationInProgress"
       /\ \/ Discover(h) /\ UNCHANGED arp
          \/ Connect(h) /\ UNCHANGED arp
          \/ /\ handle[h].state = "Connecting" \/ (handle[h].state = "Resolving" /\ ~ known)
             /\ UNCHANGED apiVars
    \/ /\ st = "NoMoreResources"
       /\ handle[h].state \in {"Opened", "Resolving"} /\ known /\ NoneToTake
       /\ UNCHANGED apiVars
    \/ /\ st = "Ok"
       /\ handle[h].state = "Connected"
       /\ UNCHANGED apiVars

\* The slot that a handle names, whatever became of either of them.
SlotOf(h) == handle[h].conn
IsEstablished(h) == SlotOf(h) # NoSlot /\ slot[SlotOf(h)].state = "ESTABLISHED"

CloseReturns(h, st) ==
    \/ /\ st = "Ok"
       /\ Close(h) /\ UNCHANGED arp
    \/ /\ st = "NotConnected"
       /\ handle[h].state # "Connected" \/ ~ IsEstablished(h)
       /\ UNCHANGED apiVars

IsClosed(h) == handle[h].state = "Closed"

\* send() and get() look at the slot alone, not at the state of the handle.
Owner(h) == slot[SlotOf(h)].owner

(***************************************************************************)
(* The events that poll(), wait() and run() bring.  No callback of these   *)
(* applications aborts or closes a connection.                             *)
(***************************************************************************)
TableLearns == ~ known /\ ArpChanges

SlotMoves(s) ==
    OnConnected(s) \/ OnEnd(s) \/ (QuietMove(s) /\ UNCHANGED clientVars)

CallsNext ==
    (TableLearns \/ \E s \in SlotIds : SlotMoves(s)) /\ UNCHANGED arp

\* The peer answers, or run() is called until the timers of the connection
\* expire: a connection that is neither up nor gone is one of the two at last.
Settles(s) ==
    /\ slot[s].state \notin {"CLOSED", "ESTABLISHED"}
    /\ SlotMoves(s)
    /\ UNCHANGED arp
=============================================================================
