----------------------------- MODULE Segments ------------------------------
(***************************************************************************)
(* The in-flight segments of one TCPv4 connection: the array m_segments    *)
(* and the indices m_segidx and m_snd_nxt of class Connection, the         *)
(* operations of class Segment on them, and the loop of                    *)
(* Processor::process that matches an incoming ackno with them.            *)
(*                                                                         *)
(* Every operator takes a record c with (at least) the fields              *)
(*   segs     the segments, a function from Slots to records with the      *)
(*            length, the sequence number and the payload of a segment     *)
(*   segidx   the slot of the oldest segment (a 4-bit field in the code)   *)
(*   snd_nxt  the next sequence number to send (uint32_t in the code)      *)
(* so that the connection records of other modules can be used as rings.   *)
(*                                                                         *)
(* There is no recursion and no modulo here: the scan is given in closed   *)
(* form, by the first slot that stops it.                                  *)
(***************************************************************************)
EXTENDS Naturals, Sequences

CONSTANTS
    SegmentCount,   \* Connection::SEGMENT_COUNT, 16 in the code
    SeqSpace          \* the number of sequence numbers, 2^32 in the code

ASSUME RingAssumption ==
    /\ SegmentCount \in Nat \ {0}
    /\ SeqSpace \in Nat \ {0, 1}

Slots == 0 .. SegmentCount - 1
SeqNos == 0 .. SeqSpace - 1

(***************************************************************************)
(* Arithmetic.  The two additions wrap around: the first because segidx    *)
(* has SEGM_B bits, the second because sequence numbers have 32.           *)
(***************************************************************************)
Slot(i, k) == IF i + k < SegmentCount THEN i + k ELSE i + k - SegmentCount

\* Mutation: the sequence number does not wrap around.
SeqAddUnbounded(s, n) == s + n

SeqAdd(s, n) == IF s + n < SeqSpace THEN s + n ELSE s + n - SeqSpace

(***************************************************************************)
(* Segments.  A segment with len = 0 is free.  dat is the payload in the   *)
(* frame m_dat points to: it is shorter than len for a SYN or a FIN, which *)
(* count for one, and empty for them.                                      *)
(***************************************************************************)
Segment == [len : 0 .. SeqSpace - 1, seq : SeqNos, dat : Seq(Nat)]

FreeSegment == [len |-> 0, seq |-> 0, dat |-> <<>>]

(***************************************************************************)
(* What the operators take, without the fields of other modules.           *)
(***************************************************************************)
Ring == [segs : [Slots -> Segment], segidx : Slots, snd_nxt : SeqNos]

\* The k-th slot counting from the oldest one.
Nth(c, k) == c.segs[Slot(c.segidx, k)]

Oldest(c) == c.segs[c.segidx]

HasAvailableSegments(c) == \E i \in Slots : c.segs[i].len = 0

HasOutstandingSegments(c) == \E i \in Slots : c.segs[i].len # 0

IsNextAvailable(c, i) ==
    \E k \in Slots :
        /\ i = Slot(c.segidx, k)
        /\ Nth(c, k).len = 0
        /\ \A j \in 0 .. k - 1 : Nth(c, j).len # 0

\* Mutation: the search starts at the first slot, not at segidx.
FirstAvailableSegment(c) ==
    CHOOSE i \in Slots : c.segs[i].len = 0 /\ \A j \in 0 .. i - 1 : c.segs[j].len # 0

NextAvailableSegment(c) == CHOOSE i \in Slots : IsNextAvailable(c, i)

(***************************************************************************)
(* Sending a new segment: Segment::set(len, m_snd_nxt, ...) on the next    *)
(* available one, and the m_snd_nxt += m_len of Processor::send.           *)
(***************************************************************************)
PushSegment(c, len, dat) ==
    [c EXCEPT !.segs[NextAvailableSegment(c)] =
                 [len |-> len, seq |-> c.snd_nxt, dat |-> dat],
              !.snd_nxt = SeqAdd(c.snd_nxt, len)]

(***************************************************************************)
(* The ACK scan.  The code compares 64-bit values: acklm is ackno, raised  *)
(* by 2^32 when ackno < m_seq, and explm is m_seq + m_len.  Only their     *)
(* distance to m_seq matters.                                              *)
(***************************************************************************)
AckDistance(ackno, seg) ==
    IF ackno < seg.seq THEN ackno + SeqSpace - seg.seq ELSE ackno - seg.seq

IsDuplicateAck(ackno, seg) == ackno = seg.seq

\* Mutation: no test for an ackno within the segment.
IsPartialAckIgnored(ackno, seg) == FALSE

IsPartialAck(ackno, seg) == AckDistance(ackno, seg) < seg.len

IsExactAck(ackno, seg) == AckDistance(ackno, seg) = seg.len

StopsScan(ackno, seg) ==
    \/ IsDuplicateAck(ackno, seg)
    \/ IsPartialAck(ackno, seg)
    \/ IsExactAck(ackno, seg)

\* The number of segments the scan goes past before one stops it.
IsScanLength(c, ackno, n) ==
    /\ \A j \in 0 .. n - 1 : ~ StopsScan(ackno, Nth(c, j))
    /\ n < SegmentCount => StopsScan(ackno, Nth(c, n))

ScanLength(c, ackno) ==
    CHOOSE n \in 0 .. SegmentCount : IsScanLength(c, ackno, n)

ScanEndsOnDuplicate(c, ackno) ==
    LET n == ScanLength(c, ackno)
    IN  n < SegmentCount /\ IsDuplicateAck(ackno, Nth(c, n))

\* The number of segments the scan clears.
Cleared(c, ackno) ==
    LET n == ScanLength(c, ackno)
    IN  IF /\ n < SegmentCount
           /\ ~ IsDuplicateAck(ackno, Nth(c, n))
           /\ IsExactAck(ackno, Nth(c, n))
        THEN n + 1 ELSE n

\* Segment::clear on the first n slots, and m_segidx += n.
ClearSegments(c, n) ==
    [c EXCEPT !.segs = [i \in Slots |->
                           IF \E k \in 0 .. n - 1 : i = Slot(c.segidx, k)
                           THEN FreeSegment ELSE c.segs[i]],
              !.segidx = Slot(c.segidx, n)]

AckScan(c, ackno) == ClearSegments(c, Cleared(c, ackno))

(***************************************************************************)
(* The shape of a ring: the first k slots from segidx are in flight, the   *)
(* others are free, and the segments in flight cover the sequence numbers  *)
(* up to snd_nxt without a hole.                                           *)
(***************************************************************************)
SegEnd(seg) == SeqAdd(seg.seq, seg.len)

IsLevel(c, k) ==
    /\ \A j \in Slots : Nth(c, j).len # 0 <=> j < k
    /\ \A j \in 0 .. k - 1 :
          SegEnd(Nth(c, j)) = IF j + 1 < k THEN Nth(c, j + 1).seq ELSE c.snd_nxt

RingShape(c) == \E k \in 0 .. SegmentCount : IsLevel(c, k)
=============================================================================
