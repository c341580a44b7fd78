-------------------------- MODULE TCPv4Connection --------------------------
(***************************************************************************)
(* One slot of the connection table of tcpv4::Processor: the fields of     *)
(* class Connection, the frames it exchanges, and the functions of         *)
(* Send.cpp that build a frame and update the connection.                  *)
(*                                                                         *)
(* The payload of a frame is a sequence of bytes.  A byte is its position  *)
(* in the stream of the application that sent it, from 1 on, or Garbage    *)
(* when it never came from an application.                                 *)
(*                                                                         *)
(* Left out: the PSH flag (it only tells the application how the peer      *)
(* wrote the data), URG (the stack never sends it), the MSS and the window *)
(* scale (windows are byte counts here), and failures of the device.       *)
(***************************************************************************)
EXTENDS Segments, FiniteSets

CONSTANTS
    MSS,            \* Processor::m_mss, the most bytes in a segment
    HeaderLen,      \* HEADER_LEN, 20 in the code
    MaxRtx,         \* MAXRTX and MAXSYNRTX, 5 in the code
    StaleFlags      \* flags that a reused send buffer may hold

\* m_mss has 16 bits and there are 16 segments: 16 * 2^16 < 2^32.
ASSUME ConnectionAssumption ==
    /\ MSS \in Nat \ {0}
    /\ SegmentCount * MSS < SeqSpace
    /\ HeaderLen \in Nat \ {0}
    /\ MaxRtx \in Nat \ {0}
    /\ StaleFlags \subseteq SUBSET {"SYN", "ACK", "FIN", "RST"}
    /\ StaleFlags # {}

Garbage == 0

States == {"CLOSED", "SYN_SENT", "SYN_RCVD", "ESTABLISHED", "CLOSE",
           "FIN_WAIT_1", "FIN_WAIT_2", "CLOSING", "TIME_WAIT", "LAST_ACK"}

(***************************************************************************)
(* Frames.                                                                 *)
(***************************************************************************)
SYN    == {"SYN"}
SYNACK == {"SYN", "ACK"}
ACK    == {"ACK"}
FINACK == {"FIN", "ACK"}
RST    == {"RST"}

\* port is the client's port: it is what tells the connections of a client
\* and a server apart.
Frame(c, flags, seq, dat, wnd) ==
    [port |-> c.port, flags |-> flags, seq |-> seq, ack |-> c.rcv_nxt,
     dat |-> dat, wnd |-> wnd]

(***************************************************************************)
(* The connection.  buf is the payload of the send buffer m_sdat, and its  *)
(* length is m_slen.                                                       *)
(***************************************************************************)
Connection ==
    [state : States, port : Nat, rcv_nxt : SeqNos, snd_nxt : SeqNos,
     wnd : Nat, nrtx : 0 .. MaxRtx, buf : Seq(Nat),
     segidx : Slots, segs : [Slots -> Segment]]

NoConnection ==
    [state |-> "CLOSED", port |-> 0, rcv_nxt |-> 0, snd_nxt |-> 0,
     wnd |-> 0, nrtx |-> 0, buf |-> <<>>,
     segidx |-> 0, segs |-> [i \in Slots |-> FreeSegment]]

\* The fields that connect() and process() set when they take a slot.  The
\* segments are not among them.
Opened(c, state, port, iss, rcv_nxt, wnd, nrtx) ==
    [c EXCEPT !.state = state, !.port = port, !.snd_nxt = iss,
              !.rcv_nxt = rcv_nxt, !.wnd = wnd, !.nrtx = nrtx,
              !.segidx = 0, !.buf = <<>>]

HasPendingSendData(c) == c.buf # <<>>

\* The most that may be in the send buffer.
Bound(c) == IF c.wnd < MSS THEN c.wnd ELSE MSS

CanSend(c) == HasAvailableSegments(c) /\ c.wnd > Len(c.buf)

(***************************************************************************)
(* The functions of Send.cpp.  Each returns the connection it leaves and   *)
(* the frames it transmits, advertising the window wnd.                    *)
(***************************************************************************)
Result(c, frames) == [c |-> c, out |-> frames]

\* Mutation: resetSendBuffer() is missing.
SendSegmentKeepsBuffer(c, len, flags, dat, wnd) ==
    Result(PushSegment(c, len, dat), <<Frame(c, flags, c.snd_nxt, dat, wnd)>>)

\* send(e, seg, flags) of a new segment, which takes the send buffer.
SendSegment(c, len, flags, dat, wnd) ==
    Result([PushSegment(c, len, dat) EXCEPT !.buf = <<>>],
           <<Frame(c, flags, c.snd_nxt, dat, wnd)>>)

SendSyn(c, wnd) == SendSegment(c, 1, SYN, <<>>, wnd)

SendSynAck(c, wnd) == SendSegment(c, 1, SYNACK, <<>>, wnd)

SendFinAck(c, wnd) == SendSegment(c, 1, FINACK, <<>>, wnd)

SendNoDelay(c, wnd) == SendSegment(c, Len(c.buf), ACK, c.buf, wnd)

\* Mutation: a short segment waits even when nothing is in flight.
SendNagleFull(c, wnd) ==
    IF Len(c.buf) = Bound(c) THEN SendNoDelay(c, wnd) ELSE Result(c, <<>>)

SendNagle(c, wnd) ==
    IF Len(c.buf) = Bound(c) \/ ~ HasOutstandingSegments(c)
    THEN SendNoDelay(c, wnd)
    ELSE Result(c, <<>>)

SendAbort(c, wnd) ==
    Result([c EXCEPT !.state = "CLOSED"],
           <<Frame(c, RST, c.snd_nxt, <<>>, wnd)>>)

SendClose(c, wnd) ==
    IF HasAvailableSegments(c)
    THEN SendFinAck([c EXCEPT !.state = "FIN_WAIT_1"], wnd)
    ELSE Result(c, <<>>)

\* The set of the results sendAck may have.  With data in the send buffer the
\* ACK is written into a new frame, but send(e) transmits the send buffer, whose
\* flags are what its last use left there, and replaces it by an empty one
\* without changing m_slen.
SendAcks(c, wnd) ==
    IF HasPendingSendData(c)
    THEN {Result([c EXCEPT !.buf = [p \in DOMAIN c.buf |-> Garbage]],
                 <<Frame(c, flags, c.snd_nxt, <<>>, wnd)>>) :
             flags \in StaleFlags}
    ELSE {Result(c, <<Frame(c, ACK, c.snd_nxt, <<>>, wnd)>>)}

(***************************************************************************)
(* Retransmission.  Segment::swap copies m_len bytes from the start of the *)
(* old frame, which begins with the header, to the send buffer: what       *)
(* follows there is the pending data, if any.                              *)
(***************************************************************************)
Swapped(seg, buf) ==
    [p \in 1 .. seg.len |->
        IF p + HeaderLen <= seg.len THEN seg.dat[p]
        ELSE IF p <= Len(buf) THEN buf[p] ELSE Garbage]

RexmitFlags ==
    [state \in {"SYN_RCVD", "SYN_SENT", "ESTABLISHED",
                "FIN_WAIT_1", "CLOSING", "LAST_ACK"} |->
        CASE state = "SYN_RCVD"    -> SYNACK
          [] state = "SYN_SENT"    -> SYN
          [] state = "ESTABLISHED" -> ACK
          [] OTHER                 -> FINACK]

\* A data segment is sent again in ESTABLISHED only.  In the other states the
\* frame is a header, whatever the oldest segment holds.
RexmitPayload(c) ==
    IF c.state = "ESTABLISHED" THEN Swapped(Oldest(c), c.buf) ELSE Oldest(c).dat

\* Mutation: every retransmission moves snd_nxt.
RexmitAdvances(c, wnd) ==
    IF c.state \in DOMAIN RexmitFlags
    THEN LET seg == Oldest(c)
             dat == RexmitPayload(c)
         IN  Result([c EXCEPT !.segs[c.segidx].dat = dat,
                              !.buf = <<>>,
                              !.snd_nxt = SeqAdd(@, seg.len)],
                    <<Frame(c, RexmitFlags[c.state], seg.seq,
                            IF c.state = "ESTABLISHED" THEN dat ELSE <<>>, wnd)>>)
    ELSE Result(c, <<>>)

\* snd_nxt moves if the segment looks like a new one: seg.m_seq = m_snd_nxt.
Rexmit(c, wnd) ==
    IF c.state \in DOMAIN RexmitFlags
    THEN LET seg == Oldest(c)
             dat == RexmitPayload(c)
         IN  Result([c EXCEPT !.segs[c.segidx].dat = dat,
                              !.buf = <<>>,
                              !.snd_nxt = IF seg.seq = @ THEN SeqAdd(@, seg.len)
                                                         ELSE @],
                    <<Frame(c, RexmitFlags[c.state], seg.seq,
                            IF c.state = "ESTABLISHED" THEN dat ELSE <<>>, wnd)>>)
    ELSE Result(c, <<>>)

\* Processor::reset, the answer to a frame that belongs to no connection.
ResetFrame(f) ==
    [port |-> f.port, flags |-> RST, seq |-> f.ack, ack |-> SeqAdd(f.seq, 1),
     dat |-> <<>>, wnd |-> 0]

(***************************************************************************)
(* The first part of process(e, ...): the checks and the ACK scan that all *)
(* states share.                                                           *)
(***************************************************************************)

\* Mutation: data is not checked.
IsExpectedAnyData(c, f) ==
    \/ c.state = "SYN_SENT" /\ f.flags = SYNACK
    \/ f.flags \cap {"SYN", "FIN"} = {}
    \/ f.seq = c.rcv_nxt

\* The sequence number is checked for a frame that occupies sequence space,
\* except for the SYN/ACK that a SYN_SENT connection waits for.
IsExpected(c, f) ==
    \/ c.state = "SYN_SENT" /\ f.flags = SYNACK
    \/ f.dat = <<>> /\ f.flags \cap {"SYN", "FIN"} = {}
    \/ f.seq = c.rcv_nxt

Scans(c, f) == "ACK" \in f.flags /\ HasOutstandingSegments(c)

\* m_ackdata
AckData(c, f) == Scans(c, f) /\ Cleared(c, f.ack) > 0

\* The scan ended in the branch for a segment out of order or a new window.
AsksRexmit(c, f) == Scans(c, f) /\ ScanEndsOnDuplicate(c, f.ack)

Scanned(c, f) ==
    IF AckData(c, f) THEN [AckScan(c, f.ack) EXCEPT !.nrtx = 0] ELSE c
=============================================================================
