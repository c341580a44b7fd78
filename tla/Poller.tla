------------------------------- MODULE Poller -------------------------------
(***************************************************************************)
(* The poller of the user-space client tool.  The thread of the user hands *)
(* it one command at a time under m_mutex and waits for m_cond; the thread *)
(* of the poller runs the stack, takes the mutex, carries the command out, *)
(* in as many rounds as it needs, and signals.  What is done while a       *)
(* thread holds the mutex is one step.                                     *)
(***************************************************************************)
EXTENDS ClientCalls, Sequences

CONSTANTS
    MaxLen,         \* bound: the length of what is written
    Spurious        \* may pthread_cond_wait() return without a signal?

ASSUME PollerAssumption == MaxLen \in Nat /\ Spurious \in BOOLEAN

VARIABLES
    m_action,
    m_id,
    m_status,
    length,         \* the length of m_data
    off,            \* of run(), like closing
    closing,
    user,           \* where the thread of the user is
    call,           \* the command that it waits for
    ids,            \* State::ids: the connections of the tool
    given           \* history: what the stack took of m_data, and for which connection

pollerVars == <<m_action, m_id, m_status, length, off, closing, user, call, ids, given>>

PollerInit ==
    /\ m_action = "None" /\ m_id = 0 /\ m_status = "Ok"
    /\ length = 0 /\ off = 0 /\ closing = FALSE
    /\ user = "idle" /\ call = "None"
    /\ ids = {} /\ given = <<>>

-----------------------------------------------------------------------------
(***************************************************************************)
(* The thread of the user.                                                 *)
(***************************************************************************)
Ask(action, h) ==
    /\ user = "idle"
    /\ m_action' = action /\ call' = action
    /\ m_id' = h
    /\ user' = "waiting"
    /\ given' = <<>>
    /\ UNCHANGED <<m_status, off, closing, ids>>

\* connect() opens a handle in the thread of the user.
UserConnects ==
    /\ serial < MaxConns
    /\ \E h \in SlotIds : Open(h) /\ Ask("Connect", h)
    /\ UNCHANGED <<arp, length>>

UserCloses ==
    /\ \E h \in ids : Ask("Close", h)
    /\ UNCHANGED <<apiVars, length>>

\* The list command asks for each connection.
UserLists ==
    /\ \E h \in ids : Ask("Info", h)
    /\ UNCHANGED <<apiVars, length>>

UserWrites ==
    /\ \E h \in ids : Ask("Write", h)
    /\ length' \in 1 .. MaxLen
    /\ UNCHANGED apiVars

\* pthread_cond_wait() returned.  connect() asks again while it is in progress;
\* the others take m_status for their answer, whoever wrote it.
UserReturns ==
    /\ user = "woken" \/ (Spurious /\ user = "waiting")
    /\ IF call = "Connect" /\ m_status = "OperationInProgress"
       THEN /\ m_action' = "Connect" /\ user' = "waiting"
            /\ UNCHANGED <<ids, call>>
       ELSE /\ user' = "idle" /\ call' = "None"
            /\ ids' = IF m_status # "Ok" THEN ids
                      ELSE CASE call = "Connect" -> ids \cup {m_id}
                             [] call = "Close" -> ids \ {m_id}
                             [] OTHER -> ids
            /\ UNCHANGED m_action
    /\ UNCHANGED <<apiVars, m_id, m_status, length, off, closing, given>>

-----------------------------------------------------------------------------
(***************************************************************************)
(* The thread of the poller.                                               *)
(***************************************************************************)
Signal(st) ==
    /\ m_action' = "None" /\ m_status' = st
    /\ user' = IF user = "waiting" THEN "woken" ELSE user

DoConnect ==
    /\ m_action = "Connect"
    /\ \E st \in {"Ok", "OperationInProgress", "NoMoreResources", "InvalidConnection"} :
        ConnectReturns(m_id, st) /\ Signal(st)
    /\ UNCHANGED <<m_id, length, off, closing, call, ids, given>>

\* Mutation: closing is not reset.
DoCloseStays ==
    /\ m_action = "Close"
    /\ \/ /\ closing /\ IsClosed(m_id)
          /\ Signal("Ok")
          /\ UNCHANGED <<apiVars, closing>>
       \/ /\ ~ closing
          /\ CloseReturns(m_id, "Ok")
          /\ m_status' = "Ok" /\ closing' = TRUE
          /\ UNCHANGED <<m_action, user>>
       \/ /\ ~ closing
          /\ CloseReturns(m_id, "NotConnected") /\ Signal("NotConnected")
          /\ UNCHANGED closing
    /\ UNCHANGED <<m_id, length, off, call, ids, given>>

\* The command stays until the connection is closed.
DoClose ==
    /\ m_action = "Close"
    /\ \/ /\ closing /\ IsClosed(m_id)
          /\ closing' = FALSE
          /\ Signal("Ok")
          /\ UNCHANGED apiVars
       \/ /\ ~ closing
          /\ CloseReturns(m_id, "Ok")
          /\ m_status' = "Ok" /\ closing' = TRUE
          /\ UNCHANGED <<m_action, user>>
       \/ /\ ~ closing
          /\ CloseReturns(m_id, "NotConnected") /\ Signal("NotConnected")
          /\ UNCHANGED closing
    /\ UNCHANGED <<m_id, length, off, call, ids, given>>

DoInfo ==
    /\ m_action = "Info"
    /\ Signal(IF IsEstablished(m_id) THEN "Ok" ELSE "NotConnected")
    /\ UNCHANGED <<apiVars, m_id, length, off, closing, call, ids, given>>

Took(n) == given' = Append(given, [conn |-> Owner(m_id), from |-> off, to |-> off + n])

\* Mutation: the offset survives a write that failed.
FailsHalfway ==
    /\ ~ IsEstablished(m_id)
    /\ Signal("NotConnected")
    /\ UNCHANGED <<off, given>>

\* The connection went away, before the write or in the middle of it.
Fails ==
    /\ ~ IsEstablished(m_id)
    /\ off' = 0
    /\ Signal("NotConnected")
    /\ UNCHANGED given

\* The stack takes what there is room for.  It may refuse what it took, when
\* the device does: then the write fails with a part of it in the send buffer.
DoWrite ==
    /\ m_action = "Write"
    /\ \/ Fails
       \/ /\ IsEstablished(m_id)
          /\ \E n \in 1 .. length - off :
                /\ Took(n)
                /\ \/ off + n < length /\ off' = off + n
                                       /\ m_status' = "Ok" /\ UNCHANGED <<m_action, user>>
                   \/ off + n = length /\ off' = 0 /\ Signal("Ok")
                   \/ off' = 0 /\ Signal("HardwareError")
    /\ UNCHANGED <<apiVars, m_id, length, closing, call, ids>>

Checks == DoConnect \/ DoClose \/ DoInfo \/ DoWrite

PollerNext ==
    \/ UserConnects \/ UserCloses \/ UserLists \/ UserWrites
    \/ UserReturns
    \/ Checks
    \/ CallsNext /\ UNCHANGED pollerVars
=============================================================================
