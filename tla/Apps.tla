-------------------------------- MODULE Apps --------------------------------
(***************************************************************************)
(* Two programs above the client API that carry one thing through many     *)
(* rounds of a loop: the poller of the client tool and the latency test.   *)
(***************************************************************************)
EXTENDS Poller, Latency

CONSTANTS
    Programs        \* a subset of {"poller", "latency"}

ASSUME AppsAssumption == Programs \subseteq {"poller", "latency"}

VARIABLES
    program

appsVars == <<program, apiVars, pollerVars, latencyVars>>

AppsInit == program \in Programs /\ CallsInit /\ PollerInit /\ LatencyInit

AppsNext ==
    /\ \/ program = "poller" /\ PollerNext /\ UNCHANGED latencyVars
       \/ program = "latency" /\ LatencyNext /\ UNCHANGED pollerVars
    /\ UNCHANGED program

AppsSpec == AppsInit /\ [][AppsNext]_appsVars

PollerTurn == (Checks \/ UserReturns) /\ UNCHANGED latencyVars
PollerEvent(s) == Settles(s) /\ UNCHANGED <<pollerVars, latencyVars>>
PollerTable == TableLearns /\ UNCHANGED <<arp, pollerVars, latencyVars>>
LatencyTurn == Turn /\ UNCHANGED pollerVars

\* Both loops run until they are told to stop, the user reads his answers, a
\* host that is asked for its address answers, and the stack settles what it
\* began.
AppsFairSpec ==
    /\ AppsSpec
    /\ WF_appsVars(program = "poller" /\ PollerTurn /\ UNCHANGED program)
    /\ WF_appsVars(program = "latency" /\ LatencyTurn /\ UNCHANGED program)
    /\ WF_appsVars(PollerTable /\ UNCHANGED program)
    /\ \A s \in SlotIds : WF_appsVars(PollerEvent(s) /\ UNCHANGED program)

-----------------------------------------------------------------------------
(***************************************************************************)
(* Properties.                                                             *)
(***************************************************************************)
Says(what) == user = "woken" /\ call = what /\ m_status = "Ok"

\* A write that is answered with Ok handed all of the data to the stack, from
\* its beginning, each byte once, and to one connection: no offset is left over
\* from a write that failed in the middle, and no connection is replaced under
\* a write.
WriteIsWhole ==
    Says("Write") =>
        /\ given # <<>>
        /\ given[1].from = 0 /\ given[Len(given)].to = length
        /\ \A i \in 2 .. Len(given) :
            /\ given[i].from = given[i - 1].to
            /\ given[i].conn = given[i - 1].conn

\* A close that is answered with Ok left the handle closed, and its connection
\* past its end.
CloseIsDone ==
    Says("Close") =>
        /\ handle[m_id].state = "Closed"
        /\ \A s \in SlotIds :
            slot[s].owner = app[m_id].mine =>
                slot[s].state \notin {"ESTABLISHED", "CLOSE", "FIN_WAIT_1", "FIN_WAIT_2"}

AnswersAreTrue == WriteIsWhole /\ CloseIsDone

\* Every command returns to the user, unless a connection went away without an
\* event (FIN_WAIT_2 expired), which close() waits for in vain.
CommandsReturn == user # "idle" ~> (user = "idle" \/ vanished)

\* The data of a write goes to the connection that the handle was connected to.
\* It does not hold: send() does not look at the state of the handle, so a write
\* on a connection that the peer closed reaches the next one in its slot.
WriteReachesItsConnection ==
    \A i \in DOMAIN given : given[i].conn = app[m_id].mine

\* The server is given the messages in order, each whole and once, however the
\* stack cuts them: the client resumes at the offset it stopped at, under the
\* number it began with.
DataInOrder ==
    \A i \in DOMAIN server.data :
        server.data[i] = <<(i - 1) \div opts.length, (i - 1) % opts.length>>

\* onNewData() counts a message for each segment.  That is right for a client
\* without delay whose messages fit in a segment, and for no other.
HeadersMatch ==
    opts.nodelay /\ opts.length <= MSS => server.errors = 0

MessagesInOrder == DataInOrder /\ HeadersMatch

\* Once it is told to stop, the client does, unless a connection went away
\* without an event.
ClientStops ==
    (program = "latency" /\ ~ keep_running) ~> (~ local \/ vanished)
=============================================================================
