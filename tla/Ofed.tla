-------------------------------- MODULE Ofed --------------------------------
(***************************************************************************)
(* The device over the queues of an OFED adapter.  The host thread posts   *)
(* buffers to two work queues; the adapter, on its own, takes the posted   *)
(* buffers in order, and puts a completion in the completion queue of each *)
(* when it is done with them.  A post fails when its queue is full, which  *)
(* BuffersAreWhole excludes.                                               *)
(***************************************************************************)
EXTENDS Naturals, FiniteSets, SequencesExt

CONSTANTS
    NBuf,           \* m_nbuf
    PostThreshold,  \* POST_RECV_THRESHOLD
    EventThreshold, \* EVENT_CLEANUP_THRESHOLD
    Calls,          \* what the application calls: "poll", "wait" or both
    MaxFrames,      \* bound: frames that arrive
    MaxSends        \* bound: frames committed

ASSUME OfedAssumption ==
    /\ NBuf \in Nat \ {0} /\ PostThreshold \in Nat \ {0} /\ EventThreshold \in Nat \ {0}
    /\ Calls \subseteq {"poll", "wait"} /\ MaxFrames \in Nat /\ MaxSends \in Nat

Bufs == 1 .. NBuf

VARIABLES
    posted,         \* receive buffers posted to m_qp
    rcq,            \* m_recvcq: the buffers that hold a frame
    data,           \* the frames in the receive buffers
    armed,          \* whether a notification was requested
    channel,        \* events in m_comp
    call,           \* what the host thread is in
    wc,             \* the completions taken by poll()
    done,           \* how many of them were processed
    pre,            \* and how many of them posted again
    pending,        \* m_pending
    events,         \* m_events
    unacked,        \* events that the adapter waits to be acknowledged
    good,           \* history: the frames that arrived with a right checksum
    taken,          \* history: the frames processed
    arrived         \* history: how many frames arrived

rx == <<posted, rcq, data, armed, channel, call, wc, done, pre, pending, events,
        unacked, good, taken, arrived>>

VARIABLES
    free,           \* m_fifo
    held,           \* send buffers that were prepared
    sq,             \* send buffers posted to m_qp
    scq,            \* m_sendcq
    out,            \* the frames in the send buffers
    wire,           \* history: the frames that the adapter sent
    commits         \* history: how many frames were committed

tx == <<free, held, sq, scq, out, wire, commits>>

vars == <<rx, tx>>

Init ==
    /\ posted = [i \in Bufs |-> i] /\ rcq = <<>> /\ data = [b \in Bufs |-> 0]
    /\ armed = FALSE /\ channel = 0 /\ events = 0 /\ unacked = 0
    /\ call = "none" /\ wc = <<>> /\ done = 0 /\ pre = 0 /\ pending = 0
    /\ good = <<>> /\ taken = <<>> /\ arrived = 0
    /\ free = [i \in Bufs |-> i] /\ held = {} /\ sq = <<>> /\ scq = <<>>
    /\ out = [b \in Bufs |-> 0] /\ wire = <<>> /\ commits = 0

-----------------------------------------------------------------------------
(***************************************************************************)
(* Receive.                                                                *)
(***************************************************************************)

\* A frame arrives, with a right checksum or not.  Without a posted buffer the
\* adapter has nowhere to put it, and it is as if it had not arrived.
Arrive(ok) ==
    /\ arrived < MaxFrames /\ posted # <<>>
    /\ arrived' = arrived + 1
    /\ good' = IF ok THEN Append(good, arrived') ELSE good
    /\ data' = [data EXCEPT ![Head(posted)] = arrived']
    /\ rcq' = Append(rcq, [id |-> Head(posted), ok |-> ok])
    /\ posted' = Tail(posted)
    /\ armed' = FALSE /\ channel' = IF armed THEN channel + 1 ELSE channel
    /\ UNCHANGED <<call, wc, done, pre, pending, events, unacked, taken, tx>>

Ids(completions) == [i \in DOMAIN completions |-> completions[i].id]

\* poll() takes every completion, or returns NoDataAvailable.
TakeCompletions ==
    IF rcq = <<>>
    THEN call' = "none" /\ UNCHANGED <<posted, rcq, wc, done, pre, pending>>
    ELSE /\ call' = "busy" /\ wc' = rcq /\ rcq' = <<>> /\ done' = 0 /\ pre' = 0
         /\ pending' = Len(rcq)
         /\ UNCHANGED posted

StartPoll ==
    /\ call = "none" /\ "poll" \in Calls
    /\ TakeCompletions
    /\ UNCHANGED <<data, armed, channel, events, unacked, good, taken, arrived, tx>>

\* Mutation: a wrong checksum ends poll().
SkipStops ==
    /\ ~ wc[done + 1].ok
    /\ call' = "none" /\ posted' = posted \o Ids(SubSeq(wc, pre + 1, Len(wc))) /\ pending' = 0
    /\ UNCHANGED <<pre, taken>>

\* A completion with a wrong checksum is skipped, with its turn to post buffers.
Skip ==
    /\ ~ wc[done + 1].ok
    /\ UNCHANGED <<posted, pre, pending, taken, call>>

\* Mutation: the buffer is found by the place of the completion.
TakeByIndex ==
    /\ wc[done + 1].ok
    /\ taken' = Append(taken, data[done + 1])
    /\ IF done > 0 /\ done % PostThreshold = 0
       THEN /\ posted' = posted \o Ids(SubSeq(wc, pre + 1, pre + PostThreshold))
            /\ pre' = pre + PostThreshold /\ pending' = pending - PostThreshold
       ELSE UNCHANGED <<posted, pre, pending>>
    /\ UNCHANGED call

\* Mutation: what was posted again is not counted.
TakeAgain ==
    /\ wc[done + 1].ok
    /\ taken' = Append(taken, data[wc[done + 1].id])
    /\ IF done > 0 /\ done % PostThreshold = 0
       THEN /\ posted' = posted \o Ids(SubSeq(wc, pre + 1, pre + PostThreshold))
            /\ pending' = pending - PostThreshold /\ UNCHANGED pre
       ELSE UNCHANGED <<posted, pre, pending>>
    /\ UNCHANGED call

\* The frame is processed; every PostThreshold completions, as many buffers are
\* posted again.
Take ==
    /\ wc[done + 1].ok
    /\ taken' = Append(taken, data[wc[done + 1].id])
    /\ IF done > 0 /\ done % PostThreshold = 0
       THEN /\ posted' = posted \o Ids(SubSeq(wc, pre + 1, pre + PostThreshold))
            /\ pre' = pre + PostThreshold /\ pending' = pending - PostThreshold
       ELSE UNCHANGED <<posted, pre, pending>>
    /\ UNCHANGED call

Process ==
    /\ call = "busy" /\ done < Len(wc)
    /\ done' = done + 1
    /\ Skip \/ Take
    /\ UNCHANGED <<rcq, data, armed, channel, wc, events, unacked, good, arrived, tx>>

\* The end of poll(): the other buffers are posted again.
Finish ==
    /\ call = "busy" /\ done = Len(wc)
    /\ posted' = posted \o Ids(SubSeq(wc, pre + 1, Len(wc)))
    /\ pending' = 0
    /\ wc' = <<>> /\ done' = 0 /\ pre' = 0 /\ call' = "none"
    /\ UNCHANGED <<rcq, data, armed, channel, events, unacked, good, taken, arrived, tx>>

\* wait(): acknowledge the events if there are many, request a notification for
\* the next completion - not for the ones already in the queue - and sleep.
StartWait ==
    /\ call = "none" /\ "wait" \in Calls
    /\ IF events = EventThreshold
       THEN unacked' = unacked - events /\ events' = 0
       ELSE UNCHANGED <<unacked, events>>
    /\ armed' = TRUE /\ call' = "asleep"
    /\ UNCHANGED <<posted, rcq, data, channel, wc, done, pre, pending, good, taken, arrived, tx>>

\* The timeout: NoDataAvailable, without a look at the completion queue.
Timeout ==
    /\ call = "asleep" /\ channel = 0
    /\ call' = "none"
    /\ UNCHANGED <<posted, rcq, data, armed, channel, wc, done, pre, pending, events,
                   unacked, good, taken, arrived, tx>>


\* ppoll() found an event: take it, and poll().
Wake ==
    /\ call = "asleep" /\ channel > 0
    /\ channel' = channel - 1 /\ events' = events + 1 /\ unacked' = unacked + 1
    /\ TakeCompletions
    /\ UNCHANGED <<data, armed, good, taken, arrived, tx>>

\* A signal ends ppoll().
Interrupted ==
    /\ call = "asleep"
    /\ TakeCompletions
    /\ UNCHANGED <<data, armed, channel, events, unacked, good, taken, arrived, tx>>

\* Mutation: the events are acknowledged before the last one is taken.
CloseAcksFirst ==
    /\ call = "none"
    /\ unacked' = unacked - events + (IF channel > 0 THEN 1 ELSE 0)
    /\ channel' = IF channel > 0 THEN channel - 1 ELSE channel
    /\ events' = 0
    /\ call' = "closed"
    /\ UNCHANGED <<posted, rcq, data, armed, wc, done, pre, pending, good, taken, arrived, tx>>

\* The destructor: takes an event if there is one, and acknowledges all.
Close ==
    /\ call = "none"
    /\ channel' = IF channel > 0 THEN channel - 1 ELSE channel
    /\ LET gotten == channel - channel' IN
        /\ unacked' = unacked + gotten - (events + gotten)
        /\ events' = events + gotten
    /\ call' = "closed"
    /\ UNCHANGED <<posted, rcq, data, armed, wc, done, pre, pending, good, taken, arrived, tx>>

-----------------------------------------------------------------------------
(***************************************************************************)
(* Send: by the application between its calls, or by the stack while a     *)
(* frame is processed.                                                     *)
(***************************************************************************)

MaySend == call \in {"none", "busy"}

\* Mutation: the buffer stays in m_fifo.
PrepareKeeps ==
    /\ MaySend
    /\ scq' = <<>>
    /\ free' = free \o scq
    /\ IF free' = <<>> THEN UNCHANGED <<held, out>>
       ELSE held' = held \cup {Head(free')} /\ out' = [out EXCEPT ![Head(free')] = 0]
    /\ UNCHANGED <<sq, wire, commits, rx>>

\* prepare(): the buffers that were sent are free again, and the first one that is
\* free is given, for the caller to write in.
Prepare ==
    /\ MaySend
    /\ scq' = <<>>
    /\ LET avail == free \o scq IN
        IF avail = <<>>
        THEN UNCHANGED <<free, held, out>>
        ELSE /\ held' = held \cup {Head(avail)} /\ free' = Tail(avail)
             /\ out' = [out EXCEPT ![Head(avail)] = 0]
    /\ UNCHANGED <<sq, wire, commits, rx>>

Commit(b) ==
    /\ MaySend /\ b \in held /\ commits < MaxSends
    /\ commits' = commits + 1
    /\ out' = [out EXCEPT ![b] = commits']
    /\ held' = held \ {b} /\ sq' = Append(sq, b)
    /\ UNCHANGED <<free, scq, wire, rx>>

\* The adapter sends the frame, and completes the request.
Transmit ==
    /\ sq # <<>>
    /\ wire' = Append(wire, out[Head(sq)])
    /\ sq' = Tail(sq) /\ scq' = Append(scq, Head(sq))
    /\ UNCHANGED <<free, held, out, commits, rx>>

-----------------------------------------------------------------------------

Host == StartPoll \/ Process \/ Finish \/ StartWait \/ Timeout \/ Wake \/ Interrupted

Next ==
    \/ \E ok \in BOOLEAN : Arrive(ok)
    \/ Host
    \/ Close
    \/ Prepare
    \/ \E b \in Bufs : Commit(b)
    \/ Transmit

Spec == Init /\ [][Next]_vars

\* The thread goes on with its call and makes a next one of those in Calls.  The loops
\* of the programs call poll() only, or wait() only, so that nothing is assumed of
\* which one it is.
FairSpec == Spec /\ WF_rx(Host)

-----------------------------------------------------------------------------
(***************************************************************************)
(* Properties.                                                             *)
(***************************************************************************)

Completion == [id : Bufs, ok : BOOLEAN]

\* Type invariant.
TypeOK ==
    /\ posted \in Seq(Bufs) /\ rcq \in Seq(Completion) /\ wc \in Seq(Completion)
    /\ call \in {"none", "busy", "asleep", "closed"}
    /\ done \in 0 .. Len(wc) /\ pre \in 0 .. Len(wc) /\ pending \in 0 .. NBuf
    /\ events \in 0 .. EventThreshold + 1 /\ channel \in Nat /\ unacked \in Nat
    /\ free \in Seq(Bufs) /\ sq \in Seq(Bufs) /\ scq \in Seq(Bufs) /\ held \subseteq Bufs
    /\ data \in [Bufs -> 0 .. MaxFrames] /\ out \in [Bufs -> 0 .. MaxSends]

EachOnce(seq) == Len(seq) = NBuf /\ ToSet(seq) = Bufs

\* receiveBuffersAvailable(), the window that the TCP layer advertises, counts the
\* buffers that poll() does not hold, in the callbacks too.
WindowIsWhatIsNotHeld == NBuf - pending = Len(posted) + Len(rcq)

\* No buffer is lost and none is in two places, so that no queue is ever too full
\* to post to: a receive buffer is posted, completed or not yet posted again, and
\* the window says so; a send buffer is free, prepared, posted or completed.
BuffersAreWhole ==
    /\ EachOnce(posted \o Ids(rcq) \o Ids(SubSeq(wc, pre + 1, Len(wc))))
    /\ EachOnce(free \o SetToSeq(held) \o sq \o scq)
    /\ WindowIsWhatIsNotHeld

\* The adapter sends what was committed, in the order of the commits: a buffer is
\* not given to write in again before the adapter is done with it.
SentAsCommitted == wire = [i \in 1 .. Len(wire) |-> i]

\* The destructor acknowledges all events that were taken from the channel:
\* ibv_destroy_cq() would wait for the others for ever.
DestroyReturns == call = "closed" => unacked = 0

\* The frames with a right checksum are processed in order, once, and as they
\* arrived: a buffer is not posted again before its frame was processed.
Received == INSTANCE Link WITH Frames <- 1 .. MaxFrames, sent <- good, taken <- taken

ImplementsLink == Received!Spec

\* The n-th frame was processed, unless the device was destroyed before.
Taken(n) == Len(taken) >= n \/ call = "closed"

\* "Call upon the rcv processor when data is available" (poll() and wait() of
\* transport/Device.h): a frame that arrived is processed.  It does not hold of a
\* thread that only waits, for a frame that came before the request for a notification
\* and after which no other comes.
EverythingIsTaken == \A n \in 1 .. MaxFrames : Len(good) >= n ~> Taken(n)

\* What holds of wait() is that an event makes the thread process all that came
\* before it ("Poll the CQ if there is an event on the CQ"), which includes what an
\* earlier call left behind.
NotifiedIsTaken == \A n \in 1 .. MaxFrames : channel > 0 /\ Len(good) >= n ~> Taken(n)

=============================================================================
