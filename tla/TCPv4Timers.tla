---------------------------- MODULE TCPv4Timers ----------------------------
(***************************************************************************)
(* The timer that all connections share: run() visits the slots in their   *)
(* order and returns at the first one that retransmits or times out.  Of a *)
(* connection there are the fields that run() reads and writes, and what   *)
(* the peer and the application do to them.  The timeouts are any that the *)
(* estimation may give.                                                    *)
(***************************************************************************)
EXTENDS RttEstimator

CONSTANTS
    NSlots,         \* the number of connections
    Rto,            \* RTO, the first timeout
    WaitTimeout,    \* TIME_WAIT_TIMEOUT
    MaxRtx,         \* MAXRTX, and MAXSYNRTX which is the same
    Rtos,           \* bound: the timeouts that are tried
    FinBehindData   \* whether a FIN is sent while data is in flight

ASSUME TimersAssumption ==
    /\ NSlots \in Nat \ {0} /\ MaxRtx \in Nat
    /\ Rto \in Nat \ {0} /\ WaitTimeout \in Nat
    /\ Rtos \subseteq Rto .. WaitTimeout - 2
    /\ FinBehindData \in BOOLEAN

VARIABLES
    slots           \* the slots

Slots == 1 .. NSlots

\* SYN stands for SYN_SENT and SYN_RCVD; OPEN for the states from ESTABLISHED on
\* that are not listed.  out is whether a segment is in flight; age, history, how
\* many scans there were since the slot came into TIME_WAIT.
SlotType ==
    [state : {"CLOSED", "SYN", "OPEN", "FIN_WAIT_2", "TIME_WAIT"}, out : BOOLEAN,
     nrtx : 0 .. MaxRtx, rto : Rtos \cup {0, Rto}, timer : 0 .. Byte - 1, age : 0 .. WaitTimeout]

TimersInit ==
    slots = [i \in Slots |->
        [state |-> "CLOSED", out |-> FALSE, nrtx |-> 0, rto |-> 0, timer |-> 0, age |-> 0]]

Becomes(i, s) == slots' = [slots EXCEPT ![i] = s]

-----------------------------------------------------------------------------
(***************************************************************************)
(* run().                                                                  *)
(***************************************************************************)
WaitStates == {"TIME_WAIT", "FIN_WAIT_2"}

Waits(s) == s.state \in WaitStates

\* The visit of a slot that waits, up to the look at its segments.
Counted(s) ==
    LET timer == Unsigned(s.timer + 1) IN
    IF ~ Waits(s) THEN s
    ELSE IF timer = WaitTimeout THEN [s EXCEPT !.timer = timer, !.state = "CLOSED"]
    ELSE [s EXCEPT !.timer = timer]

\* The slot has a segment in flight whose timer runs.
Runs(s) == Counted(s).state # "CLOSED" /\ s.out

Decreased(s) == Unsigned(Counted(s).timer - 1)

Fires(s) == Runs(s) /\ Decreased(s) = 0

\* Mutation: run() returns at the first connection that has segments in flight.
StopsAtOutstanding(s) == Runs(s)

\* run() returns after this slot, and the later ones are not visited.
Stops(s) == Fires(s)

Backoff(nrtx) == Unsigned(Rto * 2 ^ (IF nrtx > 4 THEN 4 ELSE nrtx))

\* A slot after its visit.
Visited(s) ==
    IF ~ Runs(s) THEN Counted(s)
    ELSE IF ~ Fires(s) THEN [Counted(s) EXCEPT !.timer = Decreased(s)]
    ELSE IF s.nrtx = MaxRtx THEN [s EXCEPT !.state = "CLOSED", !.timer = 0]
    ELSE [s EXCEPT !.timer = Backoff(s.nrtx), !.nrtx = s.nrtx + 1]

Older(s) ==
    [s EXCEPT !.age = IF s.state = "TIME_WAIT" /\ s.age < WaitTimeout THEN s.age + 1 ELSE s.age]

Scan ==
    slots' = [i \in Slots |->
        IF \E j \in 1 .. i - 1 : Stops(slots[j])
        THEN Older(slots[i]) ELSE Older(Visited(slots[i]))]

-----------------------------------------------------------------------------
(***************************************************************************)
(* The peers and the application.                                          *)
(***************************************************************************)

\* The slot for a new connection: the first that is closed, or else the one in
\* TIME_WAIT with the highest timer.
Candidates ==
    LET closed == {i \in Slots : slots[i].state = "CLOSED"}
        waiting == {i \in Slots : slots[i].state = "TIME_WAIT"}
    IN IF closed # {} THEN closed
       ELSE {i \in waiting : \A j \in waiting : slots[j].timer <= slots[i].timer}

\* The slot gets a SYN, the first of connect() being counted as a retransmission.
Takes(i, nrtx) ==
    /\ i \in Candidates /\ \A j \in Candidates : i <= j
    /\ Becomes(i, [state |-> "SYN", out |-> TRUE, nrtx |-> nrtx,
                   rto |-> Rto, timer |-> Rto, age |-> 0])

\* send() and the FIN: the timer goes on from where it stood.
Sends(i) ==
    /\ slots[i].state = "OPEN"
    /\ Becomes(i, [slots[i] EXCEPT !.out = TRUE])

\* The state, after a segment of it was acknowledged, of a connection in state s:
\* it may have been the SYN, or a FIN, of either side first.
AfterAck(s) ==
    CASE s = "SYN" -> {"OPEN"}
      [] s = "OPEN" -> {"OPEN", "FIN_WAIT_2", "TIME_WAIT", "CLOSED"}
      [] s = "FIN_WAIT_2" -> {"FIN_WAIT_2", "TIME_WAIT"}
      [] OTHER -> {s}

\* Entering TIME_WAIT starts the timer again, from 0.
Enters(s, state) ==
    IF state = "TIME_WAIT" /\ s.state # "TIME_WAIT"
    THEN [s EXCEPT !.state = state, !.timer = 0, !.age = 0] ELSE [s EXCEPT !.state = state]

\* Segments are acknowledged, and maybe not all of them; the time is measured
\* unless there were retransmissions.  A FIN behind data in flight (sendClose() of
\* a callback) is taken for acknowledged when the data is.
Acknowledged(i) ==
    LET s == slots[i] IN
    /\ s.state # "CLOSED" /\ s.out
    /\ \E rto \in IF s.nrtx = 0 THEN Rtos ELSE {s.rto}, out \in BOOLEAN, state \in AfterAck(s.state) :
        /\ out => FinBehindData \/ state \notin WaitStates
        /\ Becomes(i, Enters([s EXCEPT !.out = out, !.nrtx = 0, !.rto = rto, !.timer = rto], state))

\* A window that changes is measured, too.
WindowChanges(i) ==
    LET s == slots[i] IN
    /\ s.state # "CLOSED" /\ s.out /\ s.nrtx = 0
    /\ \E rto \in Rtos : Becomes(i, [s EXCEPT !.rto = rto, !.timer = rto])

Hears(i) == Acknowledged(i) \/ WindowChanges(i)

\* The FIN of the peer after ours was acknowledged.
PeerCloses(i) ==
    /\ slots[i].state = "FIN_WAIT_2"
    /\ Becomes(i, Enters(slots[i], "TIME_WAIT"))

\* A RST of either side.
Resets(i) ==
    /\ slots[i].state # "CLOSED"
    /\ Becomes(i, [slots[i] EXCEPT !.state = "CLOSED"])

TimersNext ==
    \/ Scan
    \/ \E i \in Slots : Takes(i, 0) \/ Takes(i, 1) \/ Sends(i) \/ Hears(i) \/ PeerCloses(i) \/ Resets(i)

-----------------------------------------------------------------------------
(***************************************************************************)
(* Properties.                                                             *)
(***************************************************************************)
TimersTypeOK == slots \in [Slots -> SlotType]

\* A connection is not busy with segments that its peer does not acknowledge, for
\* ever: it is given up.
Busy(i) == slots[i].state \in {"SYN", "OPEN"} /\ slots[i].out

GivesUp(i) == []<>(~ Busy(i)) \/ []<><<Hears(i)>>_slots

\* A slot that only waits comes to its end.
StopsWaiting(i) == Waits(slots[i]) /\ ~ slots[i].out ~> ~ Waits(slots[i])

\* The timer of every slot goes on, however often the slots before it retransmit,
\* and whatever their peers do ("only guarantees that at least the period amount
\* has been exhausted", Processor.cpp:88-91).
TimersExpire == \A i \in Slots : GivesUp(i) /\ StopsWaiting(i)

\* "we'll use the oldest one if no CLOSED connections are found": it does not hold,
\* for the timer of a slot stands still in the scans that end before it.
OldestIsTaken ==
    [][\A i, j \in Slots :
        /\ slots[i].state = "TIME_WAIT" /\ slots'[i].state = "SYN"
        /\ slots[j].state = "TIME_WAIT"
        => slots[j].age <= slots[i].age]_slots
=============================================================================
