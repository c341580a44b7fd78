------------------------- MODULE SegmentRing_proofs -------------------------
(***************************************************************************)
(* Proofs about the ring of segments, for every number of segments, every  *)
(* sequence space and every environment.  First come lemmas about the      *)
(* operators on a ring: what a push, an ACK scan and the opening of a slot *)
(* do to the level and to the span of the segments in flight; TCPv4_proofs *)
(* cites them too.  Then the ring as a component: its shape, and that it   *)
(* implements the queue of unacknowledged segments.                        *)
(***************************************************************************)
EXTENDS SegmentRing, SequenceTheorems, FiniteSetTheorems, WellFoundedInduction, TLAPS

(***************************************************************************)
(* Arithmetic of the wrapping index.                                       *)
(***************************************************************************)

\* The wrapping index stays within the array (m_segidx has SEGM_B bits).
LEMMA SlotType ==
    ASSUME NEW i \in Slots, NEW k \in 0 .. SegmentCount
    PROVE  Slot(i, k) \in Slots
BY RingAssumption DEF Slots, Slot

\* Going less than once round the array never visits a slot twice.
LEMMA SlotInjective ==
    ASSUME NEW i \in Slots, NEW j \in Slots, NEW k \in Slots,
           Slot(i, j) = Slot(i, k)
    PROVE  j = k
BY RingAssumption DEF Slots, Slot

\* Going once round the array visits every slot.
LEMMA SlotSurjective ==
    ASSUME NEW i \in Slots, NEW s \in Slots
    PROVE  \E k \in Slots : s = Slot(i, k)
<1>1. CASE s >= i
  <2>1. s - i \in Slots /\ s = Slot(i, s - i)
    BY <1>1, RingAssumption DEF Slots, Slot
  <2>. QED  BY <2>1
<1>2. CASE s < i
  <2>1. s - i + SegmentCount \in Slots /\ s = Slot(i, s - i + SegmentCount)
    BY <1>2, RingAssumption DEF Slots, Slot
  <2>. QED  BY <2>1
<1>. QED  BY <1>1, <1>2, RingAssumption DEF Slots

\* Two moves of the index are one, less a round when they make more than one.
LEMMA SlotOfSlot ==
    ASSUME NEW i \in Slots, NEW n \in 0 .. SegmentCount, NEW j \in Slots
    PROVE  Slot(Slot(i, n), j) = IF n + j < SegmentCount
                                 THEN Slot(i, n + j)
                                 ELSE Slot(i, n + j - SegmentCount)
BY RingAssumption DEF Slots, Slot

\* Sequence numbers wrap around within their space.
LEMMA SeqAddType ==
    ASSUME NEW s \in SeqNos, NEW n \in SeqNos
    PROVE  SeqAdd(s, n) \in SeqNos
BY RingAssumption DEF SeqNos, SeqAdd

\* A non-empty set of naturals has a least element.
LEMMA LeastElement ==
    ASSUME NEW T, T \subseteq Nat, T # {}
    PROVE  \E m \in T : \A k \in T : m <= k
<1>1. \E m \in T : \A k \in T : ~ (<<k, m>> \in OpToRel(<, Nat))
  BY WFMin, NatLessThanWellFounded
<1>2. PICK m \in T : \A k \in T : ~ (<<k, m>> \in OpToRel(<, Nat))
  BY <1>1
<1>3. \A k \in T : ~ (k < m)
  BY <1>2 DEF OpToRel
<1>. QED  BY <1>3

-----------------------------------------------------------------------------
(***************************************************************************)
(* Sending.                                                                *)
(***************************************************************************)

\* A pushed segment leaves a ring a ring.
LEMMA PushType ==
    ASSUME NEW c \in Ring, NEW len \in SeqNos, NEW dat \in Seq(Nat)
    PROVE  PushSegment(c, len, dat) \in Ring
<1>1. [len |-> len, seq |-> c.snd_nxt, dat |-> dat] \in Segment
  BY DEF Ring, Segment, SeqNos
<1>2. SeqAdd(c.snd_nxt, len) \in SeqNos
  BY SeqAddType DEF Ring
<1>. QED  BY <1>1, <1>2 DEF PushSegment, Ring

\* nextAvailableSegment() is the slot after the newest segment in flight.
LEMMA NextAvailableIsNext ==
    ASSUME NEW c \in Ring, NEW k \in 0 .. SegmentCount, IsLevel(c, k),
           HasAvailableSegments(c)
    PROVE  k \in Slots /\ NextAvailableSegment(c) = Slot(c.segidx, k)
<1>1. c.segidx \in Slots
  BY DEF Ring
<1>2. PICK j \in Slots : Nth(c, j).len = 0
  <2>1. PICK i \in Slots : c.segs[i].len = 0
    BY DEF HasAvailableSegments
  <2>2. PICK j \in Slots : i = Slot(c.segidx, j)
    BY <1>1, SlotSurjective
  <2>. QED  BY <2>1, <2>2 DEF Nth
<1>3. k \in Slots
  BY <1>2, RingAssumption DEF IsLevel, Slots
<1>4. IsNextAvailable(c, Slot(c.segidx, k))
  <2>1. Nth(c, k).len = 0
    BY <1>3 DEF IsLevel, Slots
  <2>2. \A m \in 0 .. k - 1 : Nth(c, m).len # 0
    BY <1>3, RingAssumption DEF IsLevel, Slots
  <2>. QED  BY <1>3, <2>1, <2>2 DEF IsNextAvailable
<1>5. ASSUME NEW i \in Slots, IsNextAvailable(c, i)
      PROVE  i = Slot(c.segidx, k)
  <2>1. PICK m \in Slots : /\ i = Slot(c.segidx, m)
                           /\ Nth(c, m).len = 0
                           /\ \A h \in 0 .. m - 1 : Nth(c, h).len # 0
    BY <1>5 DEF IsNextAvailable
  <2>2. ~ (m < k)
    BY <2>1 DEF IsLevel
  <2>3. ~ (k < m)
    BY <1>3, <2>1, RingAssumption DEF IsLevel, Slots
  <2>4. m = k
    BY <1>3, <2>2, <2>3, RingAssumption DEF Slots
  <2>. QED  BY <2>1, <2>4
<1>6. Slot(c.segidx, k) \in Slots
  BY <1>1, SlotType
<1>7. NextAvailableSegment(c) = Slot(c.segidx, k)
  BY <1>4, <1>5, <1>6 DEF NextAvailableSegment
<1>. QED  BY <1>3, <1>7

\* The slots of a ring after a segment was pushed.
LEMMA NthOfPushed ==
    ASSUME NEW c \in Ring, NEW k \in 0 .. SegmentCount, IsLevel(c, k),
           HasAvailableSegments(c),
           NEW len \in SeqNos, NEW dat \in Seq(Nat)
    PROVE  LET d == PushSegment(c, len, dat)
               new == [len |-> len, seq |-> c.snd_nxt, dat |-> dat]
           IN  /\ k \in Slots
               /\ d.snd_nxt = SeqAdd(c.snd_nxt, len)
               /\ \A j \in Slots : Nth(d, j) = IF j = k THEN new ELSE Nth(c, j)
<1>. DEFINE d == PushSegment(c, len, dat)
            new == [len |-> len, seq |-> c.snd_nxt, dat |-> dat]
<1>2. k \in Slots /\ NextAvailableSegment(c) = Slot(c.segidx, k)
  BY NextAvailableIsNext
<1>3. /\ d.segidx = c.segidx
      /\ d.segs = [c.segs EXCEPT ![Slot(c.segidx, k)] = new]
      /\ d.snd_nxt = SeqAdd(c.snd_nxt, len)
  BY <1>2 DEF PushSegment, Ring
<1>4. \A j \in Slots : Nth(d, j) = IF j = k THEN new ELSE Nth(c, j)
  <2>1. c.segidx \in Slots /\ c.segs \in [Slots -> Segment]
    BY DEF Ring
  <2>2. SUFFICES ASSUME NEW j \in Slots
                 PROVE  Nth(d, j) = IF j = k THEN new ELSE Nth(c, j)
    OBVIOUS
  <2>3. Slot(c.segidx, j) \in Slots
    <3>1. j \in 0 .. SegmentCount
      BY RingAssumption DEF Slots
    <3>. QED  BY <2>1, <3>1, SlotType
  <2>4. j # k => Slot(c.segidx, j) # Slot(c.segidx, k)
    BY <1>2, <2>1, SlotInjective
  <2>. QED  BY <1>3, <2>1, <2>3, <2>4 DEF Nth
<1>. QED  BY <1>2, <1>3, <1>4

\* A pushed segment continues the sequence of those in flight; one of length 0
\* leaves them as they are.
LEMMA PushedLevel ==
    ASSUME NEW c \in Ring, NEW k \in 0 .. SegmentCount, IsLevel(c, k),
           HasAvailableSegments(c),
           NEW len \in SeqNos, NEW dat \in Seq(Nat)
    PROVE  IsLevel(PushSegment(c, len, dat), IF len = 0 THEN k ELSE k + 1)
<1>. DEFINE d == PushSegment(c, len, dat)
            new == [len |-> len, seq |-> c.snd_nxt, dat |-> dat]
<1>1. IsLevel(c, k)
  OBVIOUS
<1>2. k \in Slots
  BY NthOfPushed
<1>3. d.snd_nxt = SeqAdd(c.snd_nxt, len)
  BY NthOfPushed
<1>4. \A j \in Slots : Nth(d, j) = IF j = k THEN new ELSE Nth(c, j)
  BY NthOfPushed
<1>5. new.len = len /\ new.seq = c.snd_nxt
  OBVIOUS
<1>6. CASE len = 0
  <2>1. d.snd_nxt = c.snd_nxt
    BY <1>3, <1>6, RingAssumption DEF SeqAdd, SeqNos, Ring
  <2>2. \A j \in Slots : Nth(d, j).len # 0 <=> j < k
    BY <1>1, <1>2, <1>4, <1>5, <1>6, RingAssumption DEF IsLevel, Slots
  <2>3. \A j \in 0 .. k - 1 : Nth(d, j) = Nth(c, j)
    BY <1>2, <1>4, RingAssumption DEF Slots
  <2>4. \A j \in 0 .. k - 1 : j + 1 < k => Nth(d, j + 1) = Nth(c, j + 1)
    BY <2>3, <1>2, RingAssumption DEF Slots
  <2>5. IsLevel(d, k)
    BY <1>1, <2>1, <2>2, <2>3, <2>4 DEF IsLevel
  <2>. QED  BY <1>6, <2>5
<1>7. CASE len # 0
  <2>1. \A j \in Slots : Nth(d, j).len # 0 <=> j < k + 1
    BY <1>1, <1>2, <1>4, <1>5, <1>7, RingAssumption DEF IsLevel, Slots
  <2>2. SUFFICES ASSUME NEW j \in 0 .. k
                 PROVE  SegEnd(Nth(d, j)) =
                          IF j + 1 < k + 1 THEN Nth(d, j + 1).seq ELSE d.snd_nxt
    <3>1. IsLevel(d, k + 1)
      BY <1>2, <2>1, <2>2, RingAssumption DEF IsLevel, Slots
    <3>. QED  BY <1>7, <3>1
  <2>3. CASE j = k
    BY <1>2, <1>3, <1>4, <1>5, <2>3, RingAssumption DEF SegEnd, Slots
  <2>4. CASE j < k
    <3>1. Nth(d, j) = Nth(c, j)
      BY <1>2, <1>4, <2>4, RingAssumption DEF Slots
    <3>2. SegEnd(Nth(c, j)) = IF j + 1 < k THEN Nth(c, j + 1).seq ELSE c.snd_nxt
      BY <1>1, <1>2, <2>4, RingAssumption DEF IsLevel, Slots
    <3>3. CASE j + 1 < k
      BY <1>2, <1>4, <3>1, <3>2, <3>3, RingAssumption DEF Slots
    <3>4. CASE j + 1 = k
      BY <1>2, <1>4, <1>5, <3>1, <3>2, <3>4, RingAssumption DEF Slots
    <3>. QED  BY <1>2, <2>4, <3>3, <3>4, RingAssumption DEF Slots
  <2>. QED  BY <1>2, <2>3, <2>4, RingAssumption DEF Slots
<1>. QED  BY <1>6, <1>7

\* A pushed segment leaves the ring in shape.
LEMMA PushKeepsShape ==
    ASSUME NEW c \in Ring, RingShape(c), HasAvailableSegments(c),
           NEW len \in SeqNos, NEW dat \in Seq(Nat)
    PROVE  RingShape(PushSegment(c, len, dat))
<1>1. PICK k \in 0 .. SegmentCount : IsLevel(c, k)
  BY DEF RingShape
<1>2. k \in Slots
  BY <1>1, NthOfPushed
<1>3. k \in 0 .. SegmentCount /\ k + 1 \in 0 .. SegmentCount
  BY <1>2, RingAssumption DEF Slots
<1>. QED  BY <1>1, <1>3, PushedLevel DEF RingShape

-----------------------------------------------------------------------------
(***************************************************************************)
(* Acknowledging.                                                          *)
(***************************************************************************)

\* The loop over the segments ends, after at most SEGMENT_COUNT of them.
LEMMA ScanEnds ==
    ASSUME NEW c, NEW ackno
    PROVE  /\ ScanLength(c, ackno) \in 0 .. SegmentCount
           /\ IsScanLength(c, ackno, ScanLength(c, ackno))
<1>. DEFINE T == {n \in 0 .. SegmentCount :
                     n < SegmentCount => StopsScan(ackno, Nth(c, n))}
<1>1. SegmentCount \in T
  BY RingAssumption
<1>2. T \subseteq Nat
  BY RingAssumption
<1>3. PICK m \in T : \A n \in T : m <= n
  <2>. HIDE DEF T
  <2>. QED  BY <1>1, <1>2, LeastElement
<1>4. \A j \in 0 .. m - 1 : ~ StopsScan(ackno, Nth(c, j))
  <2>1. SUFFICES ASSUME NEW j \in 0 .. m - 1
                 PROVE  ~ StopsScan(ackno, Nth(c, j))
    OBVIOUS
  <2>2. j \in 0 .. SegmentCount /\ j < SegmentCount /\ ~ (m <= j)
    BY RingAssumption
  <2>3. j \notin T
    BY <1>3, <2>2
  <2>. QED  BY <2>2, <2>3
<1>5. m \in 0 .. SegmentCount /\ IsScanLength(c, ackno, m)
  BY <1>4 DEF IsScanLength
<1>. QED  BY <1>5 DEF ScanLength

\* It clears at most SEGMENT_COUNT segments.
LEMMA ClearedType ==
    ASSUME NEW c, NEW ackno
    PROVE  Cleared(c, ackno) \in 0 .. SegmentCount
<1>1. ScanLength(c, ackno) \in 0 .. SegmentCount
  BY ScanEnds
<1>. QED  BY <1>1, RingAssumption DEF Cleared

\* Clearing segments leaves a ring a ring.
LEMMA ClearType ==
    ASSUME NEW c \in Ring, NEW n \in 0 .. SegmentCount
    PROVE  ClearSegments(c, n) \in Ring
<1>1. FreeSegment \in Segment
  <2>1. <<>> \in Seq(Nat)
    OBVIOUS
  <2>. QED  BY <2>1, RingAssumption DEF FreeSegment, Segment, SeqNos
<1>2. c.segidx \in Slots /\ c.segs \in [Slots -> Segment] /\ c.snd_nxt \in SeqNos
  BY DEF Ring
<1>3. Slot(c.segidx, n) \in Slots
  BY <1>2, SlotType
<1>. QED  BY <1>1, <1>2, <1>3 DEF ClearSegments, Ring

\* The slots of a ring after the first n were cleared.
LEMMA NthOfCleared ==
    ASSUME NEW c \in Ring, NEW n \in 0 .. SegmentCount, NEW j \in Slots
    PROVE  Nth(ClearSegments(c, n), j) = IF n + j < SegmentCount
                                         THEN Nth(c, n + j) ELSE FreeSegment
<1>. DEFINE d == ClearSegments(c, n)
            s == Slot(d.segidx, j)
<1>1. c.segidx \in Slots /\ c.segs \in [Slots -> Segment]
  BY DEF Ring
<1>2. /\ d.segidx = Slot(c.segidx, n)
      /\ d.segs = [i \in Slots |-> IF \E k \in 0 .. n - 1 : i = Slot(c.segidx, k)
                                   THEN FreeSegment ELSE c.segs[i]]
  BY DEF ClearSegments, Ring
<1>3. s = IF n + j < SegmentCount THEN Slot(c.segidx, n + j)
                                  ELSE Slot(c.segidx, n + j - SegmentCount)
  BY <1>1, <1>2, SlotOfSlot
<1>4. CASE n + j < SegmentCount
  <2>1. n + j \in Slots /\ n + j \in 0 .. SegmentCount
    BY <1>4, RingAssumption DEF Slots
  <2>2. s \in Slots
    BY <1>1, <1>3, <1>4, <2>1, SlotType
  <2>3. ASSUME NEW k \in 0 .. n - 1, s = Slot(c.segidx, k)
        PROVE  FALSE
    <3>1. k \in Slots
      BY <2>3, RingAssumption DEF Slots
    <3>2. k = n + j
      BY <1>1, <1>3, <1>4, <2>1, <2>3, <3>1, SlotInjective
    <3>. QED  BY <3>2, RingAssumption DEF Slots
  <2>4. d.segs[s] = c.segs[s]
    BY <1>2, <2>2, <2>3
  <2>. QED  BY <1>3, <1>4, <2>4 DEF Nth
<1>5. CASE ~ (n + j < SegmentCount)
  <2>1. /\ n + j - SegmentCount \in 0 .. n - 1
        /\ n + j - SegmentCount \in 0 .. SegmentCount
    BY <1>5, RingAssumption DEF Slots
  <2>2. s = Slot(c.segidx, n + j - SegmentCount)
    BY <1>3, <1>5
  <2>3. s \in Slots
    BY <1>1, <2>1, <2>2, SlotType
  <2>4. d.segs[s] = FreeSegment
    BY <1>2, <2>1, <2>2, <2>3
  <2>. QED  BY <1>5, <2>4 DEF Nth
<1>. QED  BY <1>4, <1>5

\* Clearing from the oldest segment on leaves the rest in sequence.
LEMMA ClearedLevel ==
    ASSUME NEW c \in Ring, NEW k \in 0 .. SegmentCount, IsLevel(c, k),
           NEW n \in 0 .. SegmentCount
    PROVE  IsLevel(ClearSegments(c, n), IF n < k THEN k - n ELSE 0)
<1>. DEFINE d == ClearSegments(c, n)
<1>1. IsLevel(c, k)
  OBVIOUS
<1>2. \A j \in Slots : Nth(d, j) = IF n + j < SegmentCount
                                   THEN Nth(c, n + j) ELSE FreeSegment
  BY NthOfCleared
<1>3. FreeSegment.len = 0
  BY DEF FreeSegment
<1>4. d.snd_nxt = c.snd_nxt
  BY DEF ClearSegments, Ring
<1>5. \A j \in Slots : n + j < SegmentCount => n + j \in Slots
  BY RingAssumption DEF Slots
<1>. HIDE DEF d
<1>6. CASE n < k
  <2>1. \A j \in Slots : Nth(d, j).len # 0 <=> j < k - n
    BY <1>1, <1>2, <1>3, <1>5, <1>6, RingAssumption DEF IsLevel, Slots
  <2>2. ASSUME NEW j \in 0 .. k - n - 1
        PROVE  SegEnd(Nth(d, j)) =
                 IF j + 1 < k - n THEN Nth(d, j + 1).seq ELSE d.snd_nxt
    <3>1. j \in Slots /\ n + j \in 0 .. k - 1 /\ n + j < SegmentCount
      BY <1>6, RingAssumption DEF Slots
    <3>2. SegEnd(Nth(c, n + j)) = IF n + j + 1 < k THEN Nth(c, n + j + 1).seq
                                                  ELSE c.snd_nxt
      BY <1>1, <3>1 DEF IsLevel
    <3>3. Nth(d, j) = Nth(c, n + j)
      BY <1>2, <3>1
    <3>4. CASE j + 1 < k - n
      <4>1. j + 1 \in Slots /\ n + (j + 1) < SegmentCount /\ n + j + 1 < k
        BY <1>6, <3>4, RingAssumption DEF Slots
      <4>2. Nth(d, j + 1) = Nth(c, n + (j + 1)) /\ n + (j + 1) = n + j + 1
        BY <1>2, <4>1
      <4>. QED  BY <3>2, <3>3, <3>4, <4>1, <4>2
    <3>5. CASE ~ (j + 1 < k - n)
      <4>1. ~ (n + j + 1 < k)
        BY <1>6, <3>5, RingAssumption
      <4>. QED  BY <1>4, <3>2, <3>3, <3>5, <4>1
    <3>. QED  BY <3>4, <3>5
  <2>3. IsLevel(d, k - n)
    BY <2>1, <2>2 DEF IsLevel
  <2>. QED  BY <1>6, <2>3 DEF d
<1>7. CASE ~ (n < k)
  <2>1. \A j \in Slots : Nth(d, j).len # 0 <=> j < 0
    BY <1>1, <1>2, <1>3, <1>5, <1>7, RingAssumption DEF IsLevel, Slots
  <2>2. 0 \in 0 .. SegmentCount /\ \A j \in 0 .. 0 - 1 : FALSE
    BY RingAssumption
  <2>3. IsLevel(d, 0)
    BY <2>1, <2>2 DEF IsLevel
  <2>. QED  BY <1>7, <2>3 DEF d
<1>. QED  BY <1>6, <1>7

\* Clearing leaves the ring in shape.
LEMMA ClearKeepsShape ==
    ASSUME NEW c \in Ring, RingShape(c), NEW n \in 0 .. SegmentCount
    PROVE  RingShape(ClearSegments(c, n))
<1>1. PICK k \in 0 .. SegmentCount : IsLevel(c, k)
  BY DEF RingShape
<1>2. (IF n < k THEN k - n ELSE 0) \in 0 .. SegmentCount
  BY RingAssumption
<1>. QED  BY <1>1, <1>2, ClearedLevel DEF RingShape

-----------------------------------------------------------------------------
(***************************************************************************)
(* Opening.                                                                *)
(***************************************************************************)

\* Taking over a slot leaves a ring a ring.
LEMMA OpenedType ==
    ASSUME NEW c \in Ring, NEW iss \in SeqNos
    PROVE  [c EXCEPT !.segidx = 0, !.snd_nxt = iss] \in Ring
<1>1. 0 \in Slots
  BY RingAssumption DEF Slots
<1>. QED  BY <1>1 DEF Ring

\* A slot that is opened with nothing in flight starts with its SYN alone, at
\* the slot segidx was reset to.
LEMMA OpenedShape ==
    ASSUME NEW c \in Ring, NEW iss \in SeqNos, ~ HasOutstandingSegments(c)
    PROVE  LET o == [c EXCEPT !.segidx = 0, !.snd_nxt = iss]
           IN  IsLevel(o, 0) /\ RingShape(o) /\ HasAvailableSegments(o)
<1>. DEFINE o == [c EXCEPT !.segidx = 0, !.snd_nxt = iss]
<1>1. o.segs = c.segs /\ o.segidx = 0 /\ o.snd_nxt = iss
  BY DEF Ring
<1>2. \A i \in Slots : c.segs[i].len = 0
  BY DEF HasOutstandingSegments
<1>3. 0 \in Slots /\ 0 \in 0 .. SegmentCount
  BY RingAssumption DEF Slots
<1>4. \A j \in Slots : Slot(0, j) \in Slots
  BY RingAssumption DEF Slots, Slot
<1>5. \A j \in Slots : Nth(o, j).len = 0
  BY <1>1, <1>2, <1>4 DEF Nth
<1>6. IsLevel(o, 0)
  BY <1>5, RingAssumption DEF IsLevel, Slots
<1>7. HasAvailableSegments(o)
  BY <1>1, <1>2, <1>3 DEF HasAvailableSegments
<1>. QED  BY <1>3, <1>6, <1>7 DEF RingShape

-----------------------------------------------------------------------------
(***************************************************************************)
(* What is in flight is shorter than the sequence space.                   *)
(***************************************************************************)

\* The most that a segment has is such that no number of segments wraps.
Fits(most) == most \in Nat \ {0} /\ SegmentCount * most < SeqSpace

\* How far the j-th segment begins before snd_nxt.
Behind(c, j) == AckDistance(c.snd_nxt, Nth(c, j))

\* The k segments in flight follow each other on the way to snd_nxt, and are
\* no longer than k segments can be.
IsSpan(c, k, most) ==
    /\ \A j \in 0 .. k - 1 :
          /\ Nth(c, j).len <= most
          /\ Nth(c, j).len <= Behind(c, j)
          /\ Behind(c, j) <= (k - j) * most
    /\ \A i, j \in 0 .. k - 1 :
          i < j => Behind(c, j) + Nth(c, i).len <= Behind(c, i)

\* The lengths send() and Open use are lengths a segment may have.
LEMMA LengthsAreSeqNos ==
    ASSUME NEW most, Fits(most), NEW len \in 0 .. most
    PROVE  len \in SeqNos
<1>1. most < SeqSpace
  <2>1. SegmentCount * most >= most
    BY RingAssumption DEF Fits
  <2>. QED  BY <2>1, RingAssumption DEF Fits
<1>. QED  BY <1>1, RingAssumption DEF Fits, SeqNos

\* The number of segments in flight is one number.
LEMMA LevelIsUnique ==
    ASSUME NEW c, NEW k \in 0 .. SegmentCount, NEW m \in 0 .. SegmentCount,
           IsLevel(c, k), IsLevel(c, m)
    PROVE  k = m
<1>1. \A j \in Slots : j < k <=> j < m
  BY DEF IsLevel
<1>2. ~ (k < m)
  BY <1>1, RingAssumption DEF Slots
<1>3. ~ (m < k)
  BY <1>1, RingAssumption DEF Slots
<1>. QED  BY <1>2, <1>3

LEMMA LevelIs ==
    ASSUME NEW c, NEW k \in 0 .. SegmentCount, IsLevel(c, k)
    PROVE  (CHOOSE m \in 0 .. SegmentCount : IsLevel(c, m)) = k
BY LevelIsUnique

\* The segments in a ring are segments.
LEMMA NthType ==
    ASSUME NEW c \in Ring, NEW j \in Slots
    PROVE  /\ Nth(c, j) \in Segment
           /\ Nth(c, j).seq \in SeqNos
           /\ Nth(c, j).len \in SeqNos
<1>1. c.segidx \in Slots /\ c.segs \in [Slots -> Segment] /\ j \in 0 .. SegmentCount
  BY RingAssumption DEF Ring, Slots
<1>2. Slot(c.segidx, j) \in Slots
  BY <1>1, SlotType
<1>. QED  BY <1>1, <1>2 DEF Nth, Segment, SeqNos

\* k + 1 segments are as long as k and one.
LEMMA OneMore ==
    ASSUME NEW most \in Nat, NEW a \in Nat
    PROVE  (a + 1) * most = a * most + most /\ a * most \in Nat
OBVIOUS

LEMMA MoreIsLonger ==
    ASSUME NEW most \in Nat, NEW a \in Nat, NEW b \in Nat, a <= b
    PROVE  a * most <= b * most
OBVIOUS

\* Going on from a sequence number adds to the distance, unless that makes a
\* round of the sequence space.
LEMMA DistanceAdds ==
    ASSUME NEW seg, seg.seq \in SeqNos, NEW s \in SeqNos, NEW n \in SeqNos,
           AckDistance(s, seg) + n < SeqSpace
    PROVE  AckDistance(SeqAdd(s, n), seg) = AckDistance(s, seg) + n
<1>. DEFINE f == seg.seq
<1>1. f \in SeqNos
  OBVIOUS
<1>2. AckDistance(s, seg) = IF s < f THEN s + SeqSpace - f ELSE s - f
  BY DEF AckDistance
<1>3. AckDistance(SeqAdd(s, n), seg) =
        IF SeqAdd(s, n) < f THEN SeqAdd(s, n) + SeqSpace - f ELSE SeqAdd(s, n) - f
  BY DEF AckDistance
<1>. HIDE DEF f
<1>4. CASE s < f
  BY <1>1, <1>2, <1>3, <1>4, RingAssumption DEF SeqAdd, SeqNos
<1>5. CASE ~ (s < f)
  BY <1>1, <1>2, <1>3, <1>5, RingAssumption DEF SeqAdd, SeqNos
<1>. QED  BY <1>4, <1>5

\* What is in flight is shorter than the sequence space: nothing wraps past
\* the oldest segment.
LEMMA SpanIsShort ==
    ASSUME NEW most, Fits(most),
           NEW c \in Ring, NEW k \in 0 .. SegmentCount, IsSpan(c, k, most),
           NEW j \in 0 .. k - 1
    PROVE  /\ Behind(c, j) \in SeqNos
           /\ k < SegmentCount => Behind(c, j) + most < SeqSpace
<1>1. j \in Slots
  BY RingAssumption DEF Slots
<1>2. Nth(c, j).seq \in SeqNos /\ c.snd_nxt \in SeqNos
  BY <1>1, NthType DEF Ring
<1>3. Behind(c, j) \in SeqNos
  BY <1>2, RingAssumption DEF Behind, AckDistance, SeqNos
<1>4. CASE k < SegmentCount
  <2>1. k - j \in Nat /\ k - j + 1 <= SegmentCount
    BY <1>4, RingAssumption
  <2>2. /\ (k - j + 1) * most = (k - j) * most + most
        /\ (k - j) * most \in Nat
    BY <2>1, OneMore DEF Fits
  <2>3. (k - j + 1) * most <= SegmentCount * most
    BY <2>1, MoreIsLonger, RingAssumption DEF Fits
  <2>4. SegmentCount * most \in Nat
    BY RingAssumption DEF Fits
  <2>5. Behind(c, j) <= (k - j) * most
    BY DEF IsSpan
  <2>. HIDE DEF Behind
  <2>6. Behind(c, j) + most <= (k - j + 1) * most
    BY <1>3, <2>2, <2>5, RingAssumption DEF Fits, SeqNos
  <2>7. Behind(c, j) + most < SeqSpace
    BY <1>3, <2>2, <2>3, <2>4, <2>6, RingAssumption DEF Fits, SeqNos
  <2>. QED  BY <1>3, <2>7
<1>. QED  BY <1>3, <1>4

\* A segment that is sent puts the others further behind, by its length.
LEMMA PushedSpan ==
    ASSUME NEW most, Fits(most),
           NEW c \in Ring, NEW k \in 0 .. SegmentCount, IsLevel(c, k), IsSpan(c, k, most),
           HasAvailableSegments(c),
           NEW len \in 1 .. most, NEW dat \in Seq(Nat)
    PROVE  IsSpan(PushSegment(c, len, dat), k + 1, most)
<1>. DEFINE d == PushSegment(c, len, dat)
            new == [len |-> len, seq |-> c.snd_nxt, dat |-> dat]
<1>1. len \in SeqNos /\ most \in Nat
  BY LengthsAreSeqNos DEF Fits
<1>2. /\ k \in Slots
      /\ d.snd_nxt = SeqAdd(c.snd_nxt, len)
      /\ \A j \in Slots : Nth(d, j) = IF j = k THEN new ELSE Nth(c, j)
  BY <1>1, NthOfPushed
<1>3. c.snd_nxt \in SeqNos
  BY DEF Ring
<1>. HIDE DEF d
<1>4. ASSUME NEW j \in 0 .. k - 1
      PROVE  /\ Nth(d, j) = Nth(c, j)
             /\ Behind(d, j) = Behind(c, j) + len
             /\ Behind(c, j) \in SeqNos
             /\ Nth(c, j).len \in SeqNos
  <2>1. j \in Slots /\ j # k /\ k < SegmentCount
    BY <1>2, RingAssumption DEF Slots
  <2>2. Nth(d, j) = Nth(c, j)
    BY <1>2, <2>1
  <2>3. Behind(c, j) \in SeqNos /\ Behind(c, j) + most < SeqSpace
    BY <2>1, SpanIsShort
  <2>4. Nth(c, j).seq \in SeqNos /\ Nth(c, j).len \in SeqNos
    BY <2>1, NthType
  <2>5. Behind(d, j) = AckDistance(SeqAdd(c.snd_nxt, len), Nth(c, j))
    BY <1>2, <2>2 DEF Behind
  <2>6. AckDistance(c.snd_nxt, Nth(c, j)) + len < SeqSpace
    BY <1>1, <2>3, RingAssumption DEF Behind, SeqNos
  <2>7. Behind(d, j) = Behind(c, j) + len
    BY <1>1, <1>3, <2>4, <2>5, <2>6, DistanceAdds DEF Behind
  <2>. QED  BY <2>2, <2>3, <2>4, <2>7
<1>5. Nth(d, k) = new /\ Behind(d, k) = len
  <2>1. Nth(d, k) = new /\ new.seq = c.snd_nxt
    BY <1>2
  <2>. QED  BY <1>1, <1>2, <1>3, <2>1, RingAssumption
            DEF Behind, AckDistance, SeqAdd, SeqNos
<1>6. ASSUME NEW j \in 0 .. k
      PROVE  /\ Nth(d, j).len <= most
             /\ Nth(d, j).len <= Behind(d, j)
             /\ Behind(d, j) <= (k + 1 - j) * most
  <2>1. CASE j = k
    <3>1. (k + 1 - j) * most = most
      <4>1. k + 1 - j = 1
        BY <2>1, <1>2 DEF Slots
      <4>. QED  BY <1>1, <4>1
    <3>2. Nth(d, j).len = len
      BY <1>5, <2>1
    <3>. QED  BY <1>1, <1>5, <2>1, <3>1, <3>2
  <2>2. CASE j # k
    <3>1. j \in 0 .. k - 1 /\ k - j \in Nat /\ k + 1 - j = k - j + 1
      BY <1>2, <2>2, RingAssumption DEF Slots
    <3>2. (k + 1 - j) * most = (k - j) * most + most /\ (k - j) * most \in Nat
      BY <3>1, OneMore DEF Fits
    <3>3. /\ Nth(c, j).len <= most
          /\ Nth(c, j).len <= Behind(c, j)
          /\ Behind(c, j) <= (k - j) * most
      BY <3>1 DEF IsSpan
    <3>4. /\ Nth(d, j) = Nth(c, j) /\ Behind(d, j) = Behind(c, j) + len
          /\ Behind(c, j) \in Nat /\ Nth(c, j).len \in Nat
      BY <1>4, <3>1 DEF SeqNos
    <3>. QED  BY <1>1, <3>2, <3>3, <3>4
  <2>. QED  BY <2>1, <2>2
<1>7. ASSUME NEW i \in 0 .. k, NEW j \in 0 .. k, i < j
      PROVE  Behind(d, j) + Nth(d, i).len <= Behind(d, i)
  <2>1. i \in 0 .. k - 1
    BY <1>2, <1>7, RingAssumption DEF Slots
  <2>2. /\ Nth(d, i) = Nth(c, i) /\ Behind(d, i) = Behind(c, i) + len
        /\ Behind(c, i) \in Nat /\ Nth(c, i).len \in Nat
    BY <1>4, <2>1 DEF SeqNos
  <2>3. CASE j = k
    <3>1. Nth(c, i).len <= Behind(c, i)
      BY <2>1 DEF IsSpan
    <3>. QED  BY <1>5, <2>2, <2>3, <3>1
  <2>4. CASE j # k
    <3>1. j \in 0 .. k - 1
      BY <1>2, <2>4, RingAssumption DEF Slots
    <3>2. Behind(d, j) = Behind(c, j) + len /\ Behind(c, j) \in Nat
      BY <1>4, <3>1 DEF SeqNos
    <3>3. Behind(c, j) + Nth(c, i).len <= Behind(c, i)
      BY <1>7, <2>1, <3>1 DEF IsSpan
    <3>. QED  BY <2>2, <3>2, <3>3
  <2>. QED  BY <2>3, <2>4
<1>8. k + 1 - 1 = k
  BY <1>2 DEF Slots
<1>. QED  BY <1>6, <1>7, <1>8 DEF IsSpan, d

\* A segment of length 0 is none.
LEMMA PushedNothing ==
    ASSUME NEW most,
           NEW c \in Ring, NEW k \in 0 .. SegmentCount, IsLevel(c, k),
           HasAvailableSegments(c), NEW dat \in Seq(Nat)
    PROVE  LET d == PushSegment(c, 0, dat)
           IN  /\ d.snd_nxt = c.snd_nxt
               /\ \A j \in 0 .. k - 1 : Nth(d, j) = Nth(c, j)
               /\ IsSpan(c, k, most) => IsSpan(d, k, most)
<1>. DEFINE d == PushSegment(c, 0, dat)
<1>1. 0 \in SeqNos /\ c.snd_nxt \in SeqNos
  BY RingAssumption DEF SeqNos, Ring
<1>2. /\ d.snd_nxt = SeqAdd(c.snd_nxt, 0)
      /\ \A j \in Slots : j # k => Nth(d, j) = Nth(c, j)
  BY <1>1, NthOfPushed
<1>. HIDE DEF d
<1>3. d.snd_nxt = c.snd_nxt
  BY <1>1, <1>2, RingAssumption DEF SeqAdd, SeqNos
<1>4. \A j \in 0 .. k - 1 : Nth(d, j) = Nth(c, j)
  BY <1>2, RingAssumption DEF Slots
<1>5. \A j \in 0 .. k - 1 : Behind(d, j) = Behind(c, j)
  BY <1>3, <1>4 DEF Behind
<1>6. IsSpan(c, k, most) => IsSpan(d, k, most)
  BY <1>4, <1>5 DEF IsSpan
<1>. QED  BY <1>3, <1>4, <1>6 DEF d

\* A slot that is taken over clean has the SYN in flight and nothing else.
LEMMA OpenedSpan ==
    ASSUME NEW most, Fits(most),
           NEW c \in Ring, NEW iss \in SeqNos, ~ HasOutstandingSegments(c)
    PROVE  LET d == PushSegment([c EXCEPT !.segidx = 0, !.snd_nxt = iss], 1, <<>>)
           IN  /\ IsLevel(d, 1) /\ IsSpan(d, 1, most)
               /\ Nth(d, 0).len = 1 /\ Nth(d, 0).seq = iss
               /\ d.snd_nxt = SeqAdd(iss, 1)
<1>. DEFINE o == [c EXCEPT !.segidx = 0, !.snd_nxt = iss]
            d == PushSegment(o, 1, <<>>)
<1>1. o \in Ring /\ IsLevel(o, 0) /\ HasAvailableSegments(o)
  BY OpenedType, OpenedShape
<1>2. /\ 1 \in 1 .. most /\ 1 \in SeqNos /\ <<>> \in Seq(Nat)
      /\ 0 \in 0 .. SegmentCount /\ 0 \in Slots
  BY RingAssumption DEF Fits, SeqNos, Slots
<1>3. IsSpan(o, 0, most)
  BY DEF IsSpan
<1>4. o.snd_nxt = iss
  BY DEF Ring
<1>. HIDE DEF o
<1>5. IsLevel(d, IF 1 = 0 THEN 0 ELSE 0 + 1)
  BY <1>1, <1>2, PushedLevel
<1>6. IsSpan(d, 0 + 1, most)
  BY <1>1, <1>2, <1>3, PushedSpan
<1>7. /\ d.snd_nxt = SeqAdd(o.snd_nxt, 1)
      /\ \A j \in Slots : Nth(d, j) =
            IF j = 0 THEN [len |-> 1, seq |-> o.snd_nxt, dat |-> <<>>] ELSE Nth(o, j)
  <2>1. ASSUME NEW len \in SeqNos, NEW dat \in Seq(Nat)
        PROVE  /\ PushSegment(o, len, dat).snd_nxt = SeqAdd(o.snd_nxt, len)
               /\ \A j \in Slots : Nth(PushSegment(o, len, dat), j) =
                     IF j = 0 THEN [len |-> len, seq |-> o.snd_nxt, dat |-> dat]
                              ELSE Nth(o, j)
    BY <1>1, <1>2, NthOfPushed
  <2>. QED  BY <1>2, <2>1
<1>8. Nth(d, 0) = [len |-> 1, seq |-> iss, dat |-> <<>>]
  BY <1>2, <1>4, <1>7
<1>9. IsLevel(d, 1) /\ IsSpan(d, 1, most)
  <2>1. (IF 1 = 0 THEN 0 ELSE 0 + 1) = 1 /\ 0 + 1 = 1
    OBVIOUS
  <2>. HIDE DEF d
  <2>. QED  BY <1>5, <1>6, <2>1
<1>10. Nth(d, 0).len = 1 /\ Nth(d, 0).seq = iss /\ d.snd_nxt = SeqAdd(iss, 1)
  BY <1>4, <1>7, <1>8
<1>. QED  BY <1>9, <1>10 DEF o

\* The segments that stay keep their distance to snd_nxt.
LEMMA ClearedSpan ==
    ASSUME NEW most,
           NEW c \in Ring, NEW k \in 0 .. SegmentCount, IsSpan(c, k, most),
           NEW n \in 0 .. k
    PROVE  IsSpan(ClearSegments(c, n), k - n, most)
<1>. DEFINE d == ClearSegments(c, n)
<1>1. d.snd_nxt = c.snd_nxt
  BY DEF ClearSegments, Ring
<1>2. ASSUME NEW j \in 0 .. k - n - 1
      PROVE  /\ Nth(d, j) = Nth(c, n + j)
             /\ Behind(d, j) = Behind(c, n + j)
             /\ n + j \in 0 .. k - 1
             /\ k - (n + j) = k - n - j
  <2>1. n \in 0 .. SegmentCount /\ j \in Slots /\ n + j < SegmentCount
    BY RingAssumption DEF Slots
  <2>2. Nth(d, j) = Nth(c, n + j)
    BY <2>1, NthOfCleared
  <2>3. n + j \in 0 .. k - 1 /\ k - (n + j) = k - n - j
    BY RingAssumption
  <2>. QED  BY <1>1, <2>2, <2>3 DEF Behind
<1>. HIDE DEF d
<1>3. ASSUME NEW j \in 0 .. k - n - 1
      PROVE  /\ Nth(d, j).len <= most
             /\ Nth(d, j).len <= Behind(d, j)
             /\ Behind(d, j) <= (k - n - j) * most
  BY <1>2 DEF IsSpan
<1>4. ASSUME NEW i \in 0 .. k - n - 1, NEW j \in 0 .. k - n - 1, i < j
      PROVE  Behind(d, j) + Nth(d, i).len <= Behind(d, i)
  <2>1. n + i < n + j /\ n + i \in 0 .. k - 1 /\ n + j \in 0 .. k - 1
    BY <1>2, <1>4, RingAssumption
  <2>. QED  BY <1>2, <2>1 DEF IsSpan
<1>. QED  BY <1>3, <1>4 DEF IsSpan, d

-----------------------------------------------------------------------------
(***************************************************************************)
(* The ring as a component.                                                *)
(***************************************************************************)

\* No number of segments wraps.
LEMMA MaxLenFits == Fits(MaxLen)
BY EnvironmentAssumption DEF Fits

\* The segment index and the sequence numbers stay within their bit fields
\* whatever is sent and whatever ACKs come in.
THEOREM RingIsTyped == RingSpec => []RingTypeOK
<1>1. RingInit => RingTypeOK
  <2>1. FreeSegment \in Segment
    <3>1. <<>> \in Seq(Nat)
      OBVIOUS
    <3>. QED  BY <3>1, RingAssumption DEF FreeSegment, Segment, SeqNos
  <2>2. 0 \in Slots
    BY RingAssumption DEF Slots
  <2>. QED  BY <2>1, <2>2 DEF RingInit, RingTypeOK, Ring
<1>2. RingTypeOK /\ [RingNext]_ringVars => RingTypeOK'
  <2>1. SUFFICES ASSUME RingTypeOK, [RingNext]_ringVars
                 PROVE  RingTypeOK'
    OBVIOUS
  <2>2. <<>> \in Seq(Nat)
    OBVIOUS
  <2>3. ASSUME NEW len \in 0 .. MaxLen, RingSend(len)
        PROVE  RingTypeOK'
    BY <2>1, <2>2, <2>3, LengthsAreSeqNos, MaxLenFits, PushType DEF RingTypeOK, RingSend
  <2>4. ASSUME NEW ackno \in SeqNos, ReceiveAck(ackno)
        PROVE  RingTypeOK'
    BY <2>1, <2>4, ClearedType, ClearType DEF RingTypeOK, ReceiveAck, AckScan
  <2>5. ASSUME NEW iss \in SeqNos, Open(iss)
        PROVE  RingTypeOK'
    <3>1. [ring EXCEPT !.segidx = 0, !.snd_nxt = iss] \in Ring
      BY <2>1, OpenedType DEF RingTypeOK
    <3>2. 1 \in SeqNos
      BY RingAssumption DEF SeqNos
    <3>3. ring' \in Ring
      BY <2>2, <2>5, <3>1, <3>2, PushType DEF Open
    <3>. QED  BY <2>5, <3>3 DEF RingTypeOK, Open, HasOutstandingSegments
  <2>6. CASE UNCHANGED ringVars
    BY <2>1, <2>6 DEF RingTypeOK, ringVars
  <2>. QED  BY <2>1, <2>3, <2>4, <2>5, <2>6 DEF RingNext
<1>. QED  BY <1>1, <1>2, PTL DEF RingSpec

\* Whatever ACKs come in, the segments of a connection that took a clean slot
\* stay contiguous, in the array and in sequence space.
THEOREM RingStaysContiguous == RingSpec => []RingIsContiguous
<1>1. RingInit => RingIsContiguous
  <2>1. SUFFICES ASSUME RingInit PROVE RingShape(ring)
    BY DEF RingIsContiguous
  <2>2. \A j \in Slots : Nth(ring, j).len = 0
    <3>1. ring.segs = [i \in Slots |-> FreeSegment] /\ ring.segidx = 0
      BY <2>1 DEF RingInit
    <3>2. \A j \in Slots : Slot(0, j) \in Slots
      BY RingAssumption DEF Slots, Slot
    <3>. QED  BY <3>1, <3>2 DEF Nth, FreeSegment
  <2>3. IsLevel(ring, 0) /\ 0 \in 0 .. SegmentCount
    BY <2>2, RingAssumption DEF IsLevel, Slots
  <2>. QED  BY <2>3 DEF RingShape
<1>2. RingTypeOK /\ RingIsContiguous /\ [RingNext]_ringVars => RingIsContiguous'
  <2>1. SUFFICES ASSUME RingTypeOK, RingIsContiguous, [RingNext]_ringVars
                 PROVE  RingIsContiguous'
    OBVIOUS
  <2>2. <<>> \in Seq(Nat)
    OBVIOUS
  <2>3. ASSUME NEW len \in 0 .. MaxLen, RingSend(len)
        PROVE  RingIsContiguous'
    BY <2>1, <2>2, <2>3, LengthsAreSeqNos, MaxLenFits, PushKeepsShape
       DEF RingTypeOK, RingIsContiguous, RingSend
  <2>4. ASSUME NEW ackno \in SeqNos, ReceiveAck(ackno)
        PROVE  RingIsContiguous'
    BY <2>1, <2>4, ClearedType, ClearKeepsShape
       DEF RingTypeOK, RingIsContiguous, ReceiveAck, AckScan
  <2>5. ASSUME NEW iss \in SeqNos, Open(iss)
        PROVE  RingIsContiguous'
    <3>. DEFINE o == [ring EXCEPT !.segidx = 0, !.snd_nxt = iss]
    <3>1. CASE HasOutstandingSegments(ring)
      BY <2>5, <3>1 DEF Open, RingIsContiguous
    <3>2. CASE ~ HasOutstandingSegments(ring)
      <4>1. o \in Ring
        BY <2>1, OpenedType DEF RingTypeOK
      <4>2. RingShape(o) /\ HasAvailableSegments(o)
        BY <2>1, <3>2, OpenedShape DEF RingTypeOK
      <4>3. 1 \in SeqNos
        BY RingAssumption DEF SeqNos
      <4>4. ring' = PushSegment(o, 1, <<>>)
        BY <2>5 DEF Open
      <4>5. RingShape(ring')
        BY <2>2, <4>1, <4>2, <4>3, <4>4, PushKeepsShape
      <4>. QED  BY <4>5 DEF RingIsContiguous
    <3>. QED  BY <3>1, <3>2
  <2>6. CASE UNCHANGED ringVars
    BY <2>1, <2>6 DEF RingIsContiguous, ringVars
  <2>. QED  BY <2>1, <2>3, <2>4, <2>5, <2>6 DEF RingNext
<1>. QED  BY <1>1, <1>2, RingIsTyped, PTL DEF RingSpec

-----------------------------------------------------------------------------
(***************************************************************************)
(* The ring implements the queue, with a peer that acknowledges what is in *)
(* flight and slots that are taken over clean.                             *)
(*                                                                         *)
(* Contiguity does not suffice for it: sequence numbers are only known     *)
(* modulo SeqSpace, and the scan stops at the right segment because what   *)
(* is in flight is shorter than the sequence space.  The inductive         *)
(* invariant adds how far each segment is behind snd_nxt.                  *)
(***************************************************************************)

\* The segments in flight follow each other, and nothing wraps past the oldest one.
Spans == \E k \in 0 .. SegmentCount : IsLevel(ring, k) /\ IsSpan(ring, k, MaxLen)

\* What the queue is mapped to.
QueueOf(c, k) ==
    [i \in 1 .. k |-> [len |-> Nth(c, i - 1).len, seq |-> Nth(c, i - 1).seq]]

-----------------------------------------------------------------------------
(***************************************************************************)
(* Facts about distances.                                                  *)
(***************************************************************************)

\* Sequence numbers wrap in the queue by modulo, in the ring by comparison.
LEMMA WrapIsModulo ==
    ASSUME NEW s \in SeqNos, NEW n \in SeqNos
    PROVE  SeqAdd(s, n) = (s + n) % SeqSpace
<1>1. \A x \in 0 .. SeqSpace - 1 : x % SeqSpace = x
  BY RingAssumption
<1>2. \A x \in Nat : SeqSpace <= x /\ x < 2 * SeqSpace => x % SeqSpace = x - SeqSpace
  BY RingAssumption
<1>. QED  BY <1>1, <1>2, RingAssumption DEF SeqAdd, SeqNos

\* The queue measures the distance that the scan compares.
LEMMA DistanceIsAckDistance ==
    ASSUME NEW seg, NEW ackno
    PROVE  Queue!Distance(seg.seq, ackno) = AckDistance(ackno, seg)
BY DEF Queue!Distance, AckDistance

-----------------------------------------------------------------------------
(***************************************************************************)
(* The scan.                                                               *)
(***************************************************************************)

\* What a sequence number that lies on the way from f to x has behind it is the
\* rest of the way.
LEMMA DistanceSplits ==
    ASSUME NEW f, f.seq \in SeqNos, NEW g, g.seq \in SeqNos,
           NEW x \in SeqNos, NEW a \in SeqNos,
           AckDistance(x, g) <= AckDistance(x, f),
           AckDistance(x, f) - AckDistance(x, g) <= AckDistance(a, f)
    PROVE  AckDistance(a, g) = AckDistance(a, f) - (AckDistance(x, f) - AckDistance(x, g))
<1>. DEFINE u == f.seq
            v == g.seq
<1>1. u \in SeqNos /\ v \in SeqNos
  OBVIOUS
<1>2. \A y : /\ AckDistance(y, f) = IF y < u THEN y + SeqSpace - u ELSE y - u
             /\ AckDistance(y, g) = IF y < v THEN y + SeqSpace - v ELSE y - v
  BY DEF AckDistance
<1>. HIDE DEF u, v
<1>. QED  BY <1>1, <1>2, RingAssumption DEF SeqNos

\* A segment that ends where the next one begins is further behind by its length.
LEMMA NextIsCloser ==
    ASSUME NEW f, f.seq \in SeqNos, NEW g, g.seq \in SeqNos,
           f.len \in SeqNos, SegEnd(f) = g.seq,
           NEW x \in SeqNos, f.len <= AckDistance(x, f)
    PROVE  AckDistance(x, g) = AckDistance(x, f) - f.len
<1>. DEFINE u == f.seq
            v == g.seq
            n == f.len
<1>1. u \in SeqNos /\ v \in SeqNos /\ n \in SeqNos
  OBVIOUS
<1>2. v = SeqAdd(u, n)
  BY DEF SegEnd
<1>3. /\ AckDistance(x, f) = IF x < u THEN x + SeqSpace - u ELSE x - u
      /\ AckDistance(x, g) = IF x < v THEN x + SeqSpace - v ELSE x - v
      /\ n <= AckDistance(x, f)
  BY DEF AckDistance
<1>. HIDE DEF u, v, n
<1>4. AckDistance(x, g) = AckDistance(x, f) - n
  BY <1>1, <1>2, <1>3, RingAssumption DEF SeqNos, SeqAdd
<1>. QED  BY <1>4 DEF n

\* The same of the newest segment, which ends at snd_nxt.
LEMMA NewestIsClosest ==
    ASSUME NEW f, f.seq \in SeqNos, f.len \in SeqNos
    PROVE  AckDistance(SegEnd(f), f) = f.len
<1>. DEFINE u == f.seq
            n == f.len
<1>1. u \in SeqNos /\ n \in SeqNos
  OBVIOUS
<1>2. SegEnd(f) = SeqAdd(u, n)
  BY DEF SegEnd
<1>3. AckDistance(SeqAdd(u, n), f) =
        IF SeqAdd(u, n) < u THEN SeqAdd(u, n) + SeqSpace - u ELSE SeqAdd(u, n) - u
  BY DEF AckDistance
<1>. HIDE DEF u, n
<1>4. AckDistance(SeqAdd(u, n), f) = n
  BY <1>1, <1>3, RingAssumption DEF SeqNos, SeqAdd
<1>. QED  BY <1>2, <1>4 DEF u, n

\* Where the j-th segment begins and ends, counted from the oldest one.
Begins(c, j) == Behind(c, 0) - Behind(c, j)
Ends(c, j) == Begins(c, j) + Nth(c, j).len

\* The segments in flight begin where the one before ends, the first one at 0
\* and the last one so that it ends at snd_nxt.
LEMMA SpanIsOrdered ==
    ASSUME NEW c \in Ring, NEW k \in 0 .. SegmentCount, IsLevel(c, k), IsSpan(c, k, MaxLen),
           NEW j \in 0 .. k - 1
    PROVE  /\ Begins(c, j) \in SeqNos
           /\ Nth(c, j).len \in SeqNos \ {0}
           /\ Begins(c, 0) = 0
           /\ j + 1 < k => Begins(c, j + 1) = Ends(c, j)
           /\ j + 1 = k => Ends(c, j) = Behind(c, 0)
           /\ \A i \in 0 .. j - 1 : Ends(c, i) <= Begins(c, j)
<1>1. k >= 1 /\ 0 \in 0 .. k - 1
  BY RingAssumption
<1>2. /\ j \in Slots /\ 0 \in Slots
      /\ Behind(c, j) \in SeqNos /\ Behind(c, 0) \in SeqNos
  BY <1>1, SpanIsShort, MaxLenFits, RingAssumption DEF Slots
<1>3. /\ Nth(c, j).seq \in SeqNos /\ Nth(c, j).len \in SeqNos
      /\ c.snd_nxt \in SeqNos
  BY <1>2, NthType DEF Ring
<1>4. Nth(c, j).len # 0
  BY <1>2 DEF IsLevel
<1>5. \A i \in 0 .. j - 1 : Behind(c, j) + Nth(c, i).len <= Behind(c, i)
  BY DEF IsSpan
<1>6. Begins(c, 0) = 0
  BY <1>2 DEF Begins, SeqNos
<1>7. Begins(c, j) \in SeqNos
  <2>1. CASE j = 0
    BY <1>6, <2>1, RingAssumption DEF SeqNos
  <2>2. CASE j # 0
    <3>1. 0 \in 0 .. j - 1 /\ Nth(c, 0).len \in Nat
      BY <1>2, <2>2, NthType DEF SeqNos
    <3>2. Behind(c, j) + Nth(c, 0).len <= Behind(c, 0)
      BY <1>5, <3>1
    <3>. QED  BY <1>2, <3>1, <3>2, RingAssumption DEF Begins, SeqNos
  <2>. QED  BY <2>1, <2>2
<1>8. ASSUME j + 1 < k PROVE Begins(c, j + 1) = Ends(c, j)
  <2>1. j + 1 \in Slots /\ j + 1 \in 0 .. k - 1
    BY <1>8, RingAssumption DEF Slots
  <2>2. SegEnd(Nth(c, j)) = Nth(c, j + 1).seq
    BY <1>8 DEF IsLevel
  <2>3. Nth(c, j + 1).seq \in SeqNos /\ Nth(c, j).len <= Behind(c, j)
    BY <2>1, NthType DEF IsSpan
  <2>4. Behind(c, j + 1) = Behind(c, j) - Nth(c, j).len
    BY <1>3, <2>2, <2>3, NextIsCloser DEF Behind
  <2>. QED  BY <1>2, <1>3, <2>4 DEF Begins, Ends, SeqNos
<1>9. ASSUME j + 1 = k PROVE Ends(c, j) = Behind(c, 0)
  <2>1. SegEnd(Nth(c, j)) = c.snd_nxt
    BY <1>9 DEF IsLevel
  <2>2. Behind(c, j) = Nth(c, j).len
    BY <1>3, <2>1, NewestIsClosest DEF Behind
  <2>. QED  BY <1>2, <1>3, <2>2 DEF Begins, Ends, SeqNos
<1>10. ASSUME NEW i \in 0 .. j - 1 PROVE Ends(c, i) <= Begins(c, j)
  <2>1. i \in Slots /\ i \in 0 .. k - 1
    BY RingAssumption DEF Slots
  <2>2. Behind(c, i) \in SeqNos /\ Nth(c, i).len \in SeqNos
    BY <2>1, SpanIsShort, MaxLenFits, NthType
  <2>3. Behind(c, j) + Nth(c, i).len <= Behind(c, i)
    BY <1>5
  <2>. QED  BY <1>2, <2>2, <2>3 DEF Begins, Ends, SeqNos
<1>. QED  BY <1>3, <1>4, <1>6, <1>7, <1>8, <1>9, <1>10

\* A segment that begins at or before ackno sees it at the rest of the distance.
LEMMA AckSeenFrom ==
    ASSUME NEW c \in Ring, NEW k \in 0 .. SegmentCount, IsLevel(c, k), IsSpan(c, k, MaxLen),
           NEW j \in 0 .. k - 1, NEW ackno \in SeqNos,
           Begins(c, j) <= AckDistance(ackno, Nth(c, 0))
    PROVE  AckDistance(ackno, Nth(c, j)) = AckDistance(ackno, Nth(c, 0)) - Begins(c, j)
<1>1. 0 \in 0 .. k - 1 /\ 0 \in Slots /\ j \in Slots
  BY RingAssumption DEF Slots
<1>2. /\ Nth(c, 0).seq \in SeqNos /\ Nth(c, j).seq \in SeqNos
      /\ c.snd_nxt \in SeqNos
  BY <1>1, NthType DEF Ring
<1>3. Behind(c, j) \in SeqNos /\ Behind(c, 0) \in SeqNos
  BY <1>1, SpanIsShort, MaxLenFits
<1>4. Begins(c, j) \in SeqNos
  BY SpanIsOrdered
<1>5. Behind(c, j) <= Behind(c, 0)
  BY <1>3, <1>4 DEF Begins, SeqNos
<1>. QED  BY <1>2, <1>5, DistanceSplits DEF Begins, Behind

\* A segment begins as far from the oldest one as the distances to snd_nxt say.
LEMMA BeginsAtDistance ==
    ASSUME NEW c \in Ring, NEW k \in 0 .. SegmentCount, IsLevel(c, k), IsSpan(c, k, MaxLen),
           NEW j \in 0 .. k - 1
    PROVE  AckDistance(Nth(c, j).seq, Nth(c, 0)) = Begins(c, j)
<1>. DEFINE u == Nth(c, 0).seq
            v == Nth(c, j).seq
            x == c.snd_nxt
<1>1. 0 \in 0 .. k - 1 /\ 0 \in Slots /\ j \in Slots
  BY RingAssumption DEF Slots
<1>2. u \in SeqNos /\ v \in SeqNos /\ x \in SeqNos
  BY <1>1, NthType DEF Ring
<1>3. Begins(c, j) \in SeqNos
  BY SpanIsOrdered
<1>4. /\ Begins(c, j) = (IF x < u THEN x + SeqSpace - u ELSE x - u)
                         - (IF x < v THEN x + SeqSpace - v ELSE x - v)
      /\ AckDistance(v, Nth(c, 0)) = IF v < u THEN v + SeqSpace - u ELSE v - u
  BY DEF Begins, Behind, AckDistance
<1>. HIDE DEF u, v, x
<1>5. AckDistance(v, Nth(c, 0)) = Begins(c, j)
  BY <1>2, <1>3, <1>4, RingAssumption DEF SeqNos
<1>. QED  BY <1>5 DEF v

\* With a segment in flight the level is not 0.
LEMMA OutstandingLevel ==
    ASSUME NEW c \in Ring, NEW k \in 0 .. SegmentCount, IsLevel(c, k),
           HasOutstandingSegments(c)
    PROVE  k \in 1 .. SegmentCount
<1>1. PICK i \in Slots : c.segs[i].len # 0
  BY DEF HasOutstandingSegments
<1>2. c.segidx \in Slots
  BY DEF Ring
<1>3. PICK j \in Slots : i = Slot(c.segidx, j)
  BY <1>2, SlotSurjective
<1>4. j < k
  BY <1>1, <1>3 DEF IsLevel, Nth
<1>. QED  BY <1>4, RingAssumption DEF Slots

\* The scan of the code, which compares the ackno with each segment on its own,
\* clears the segments that end at or before the ackno, as counted from the
\* oldest one, and no others.
LEMMA ScanClearsTheCovered ==
    ASSUME NEW c \in Ring, NEW k \in 1 .. SegmentCount, IsLevel(c, k), IsSpan(c, k, MaxLen),
           NEW ackno \in SeqNos, AckDistance(ackno, Nth(c, 0)) <= Behind(c, 0)
    PROVE  /\ Cleared(c, ackno) \in 0 .. k
           /\ \A i \in 0 .. k - 1 :
                 Ends(c, i) <= AckDistance(ackno, Nth(c, 0)) <=> i < Cleared(c, ackno)
<1>. DEFINE a == AckDistance(ackno, Nth(c, 0))
            n == ScanLength(c, ackno)
            T == {j \in 0 .. n - 1 : j < k /\ ~ (Ends(c, j) < a)}
<1>1. /\ k \in 0 .. SegmentCount
      /\ n \in 0 .. SegmentCount
      /\ \A j \in 0 .. n - 1 : ~ StopsScan(ackno, Nth(c, j))
      /\ n < SegmentCount => StopsScan(ackno, Nth(c, n))
  BY ScanEnds DEF IsScanLength
<1>2. 0 \in 0 .. k - 1 /\ 0 \in Slots /\ Nth(c, 0).seq \in SeqNos
  BY NthType, RingAssumption DEF Slots
<1>3. a \in SeqNos
  BY <1>2, RingAssumption DEF AckDistance, SeqNos
<1>4. \A j \in 0 .. k - 1 :
         /\ Begins(c, j) \in SeqNos
         /\ Nth(c, j).len \in SeqNos \ {0}
         /\ j + 1 < k => Begins(c, j + 1) = Ends(c, j)
         /\ j + 1 = k => Ends(c, j) = Behind(c, 0)
         /\ \A i \in 0 .. j - 1 : Ends(c, i) <= Begins(c, j)
  BY <1>1, SpanIsOrdered
<1>5. Begins(c, 0) = 0
  BY <1>1, <1>2, SpanIsOrdered
<1>6. \A j \in 0 .. k - 1 :
         Begins(c, j) <= a => AckDistance(ackno, Nth(c, j)) = a - Begins(c, j)
  BY <1>1, AckSeenFrom
<1>. HIDE DEF a, n
<1>7. T = {}
  <2>1. SUFFICES ASSUME T # {} PROVE FALSE
    OBVIOUS
  <2>2. T \subseteq Nat
    BY <1>1
  <2>3. PICK j \in T : \A i \in T : j <= i
    <3>. HIDE DEF T
    <3>. QED  BY <2>1, <2>2, LeastElement
  <2>4. j \in 0 .. n - 1 /\ j \in 0 .. k - 1 /\ ~ (Ends(c, j) < a)
    BY <1>1
  <2>5. Begins(c, j) <= a
    <3>1. CASE j = 0
      BY <1>3, <1>5, <3>1 DEF SeqNos
    <3>2. CASE j # 0
      <4>1. j - 1 \in 0 .. n - 1 /\ j - 1 \in 0 .. k - 1 /\ j - 1 + 1 = j
            /\ j < k /\ ~ (j <= j - 1)
        BY <1>1, <2>4, <3>2
      <4>2. j - 1 \notin T
        BY <2>3, <4>1
      <4>3. Ends(c, j - 1) < a
        BY <4>1, <4>2
      <4>4. Begins(c, j) = Ends(c, j - 1)
        BY <1>4, <4>1
      <4>5. Begins(c, j) \in SeqNos
        BY <1>4, <2>4
      <4>. QED  BY <1>3, <4>3, <4>4, <4>5 DEF SeqNos
    <3>. QED  BY <3>1, <3>2
  <2>6. AckDistance(ackno, Nth(c, j)) = a - Begins(c, j)
    BY <1>6, <2>4, <2>5
  <2>7. ~ (AckDistance(ackno, Nth(c, j)) < Nth(c, j).len)
        /\ AckDistance(ackno, Nth(c, j)) # Nth(c, j).len
    BY <1>1, <2>4 DEF StopsScan, IsPartialAck, IsExactAck
  <2>8. Begins(c, j) \in SeqNos /\ Nth(c, j).len \in SeqNos
    BY <1>4, <2>4
  <2>. QED  BY <1>3, <2>4, <2>6, <2>7, <2>8 DEF Ends, SeqNos
<1>8. n < k
  <2>1. SUFFICES ASSUME ~ (n < k) PROVE FALSE
    OBVIOUS
  <2>2. k - 1 \in 0 .. k - 1 /\ k - 1 \in 0 .. n - 1 /\ k - 1 < k /\ k - 1 + 1 = k
    BY <1>1, <2>1
  <2>3. Ends(c, k - 1) < a
    BY <1>7, <2>2
  <2>4. Ends(c, k - 1) = Behind(c, 0)
    BY <1>4, <2>2
  <2>5. Behind(c, 0) \in SeqNos
    BY <1>1, <1>2, SpanIsShort, MaxLenFits
  <2>. QED  BY <1>3, <2>3, <2>4, <2>5 DEF SeqNos, a
<1>9. n \in 0 .. k - 1 /\ n < SegmentCount /\ n \in Slots
  BY <1>1, <1>8, RingAssumption DEF Slots
<1>10. \A i \in 0 .. n - 1 : i \in 0 .. k - 1 /\ Ends(c, i) < a
  BY <1>7, <1>9
<1>11. Begins(c, n) <= a
  <2>1. CASE n = 0
    BY <1>3, <1>5, <2>1 DEF SeqNos
  <2>2. CASE n # 0
    <3>1. n - 1 \in 0 .. n - 1 /\ n - 1 \in 0 .. k - 1 /\ n - 1 + 1 = n /\ n - 1 + 1 < k
      BY <1>9, <2>2
    <3>2. Begins(c, n) = Ends(c, n - 1) /\ Ends(c, n - 1) < a
      BY <1>4, <1>10, <3>1
    <3>3. Begins(c, n) \in SeqNos
      BY <1>4, <1>9
    <3>. QED  BY <1>3, <3>2, <3>3 DEF SeqNos
  <2>. QED  BY <2>1, <2>2
<1>12. /\ Begins(c, n) \in SeqNos
       /\ Nth(c, n).len \in SeqNos \ {0}
       /\ AckDistance(ackno, Nth(c, n)) = a - Begins(c, n)
  BY <1>4, <1>6, <1>9, <1>11
<1>13. \A i \in n + 1 .. k - 1 : Ends(c, i) > Ends(c, n)
  <2>1. SUFFICES ASSUME NEW i \in n + 1 .. k - 1 PROVE Ends(c, i) > Ends(c, n)
    OBVIOUS
  <2>2. i \in 0 .. k - 1 /\ n \in 0 .. i - 1
    BY <1>9
  <2>3. /\ Ends(c, n) <= Begins(c, i)
        /\ Begins(c, i) \in SeqNos /\ Nth(c, i).len \in SeqNos \ {0}
    BY <1>4, <2>2
  <2>. QED  BY <1>12, <2>3 DEF Ends, SeqNos
<1>14. Ends(c, n) = Begins(c, n) + Nth(c, n).len /\ Ends(c, n) \in Nat
  BY <1>12 DEF Ends, SeqNos
<1>15. CASE IsExactAck(ackno, Nth(c, n))
  <2>1. a = Ends(c, n)
    BY <1>3, <1>12, <1>14, <1>15 DEF IsExactAck, SeqNos
  <2>2. ~ IsDuplicateAck(ackno, Nth(c, n))
    <3>1. Nth(c, n).seq \in SeqNos
      BY <1>9, NthType
    <3>. QED  BY <1>12, <1>15, <3>1, RingAssumption
              DEF IsDuplicateAck, IsExactAck, AckDistance, SeqNos
  <2>3. Cleared(c, ackno) = n + 1
    BY <1>9, <1>15, <2>2 DEF Cleared, n
  <2>4. ASSUME NEW i \in 0 .. k - 1
        PROVE  Ends(c, i) <= a <=> i < n + 1
    <3>1. CASE i < n
      <4>1. i \in 0 .. n - 1
        BY <1>9, <3>1
      <4>2. Ends(c, i) < a /\ Ends(c, i) \in Nat
        BY <1>4, <1>10, <4>1 DEF Ends, SeqNos
      <4>. QED  BY <1>3, <1>9, <3>1, <4>2 DEF SeqNos
    <3>2. CASE i = n
      BY <1>9, <1>14, <2>1, <3>2
    <3>3. CASE i > n
      <4>1. i \in n + 1 .. k - 1
        BY <1>9, <3>3
      <4>2. Ends(c, i) > Ends(c, n) /\ Ends(c, i) \in Nat
        BY <1>4, <1>13, <4>1 DEF Ends, SeqNos
      <4>. QED  BY <1>9, <1>14, <2>1, <3>3, <4>2
    <3>. QED  BY <1>9, <3>1, <3>2, <3>3
  <2>. QED  BY <1>9, <2>3, <2>4 DEF a
<1>16. CASE ~ IsExactAck(ackno, Nth(c, n))
  <2>1. a < Ends(c, n)
    <3>1. IsDuplicateAck(ackno, Nth(c, n)) => AckDistance(ackno, Nth(c, n)) = 0
      <4>1. Nth(c, n).seq \in SeqNos
        BY <1>9, NthType
      <4>. QED  BY <4>1 DEF IsDuplicateAck, AckDistance, SeqNos
    <3>2. AckDistance(ackno, Nth(c, n)) < Nth(c, n).len
      BY <1>1, <1>9, <1>12, <1>16, <3>1 DEF StopsScan, IsPartialAck, SeqNos
    <3>. QED  BY <1>3, <1>12, <1>14, <3>2 DEF SeqNos
  <2>2. Cleared(c, ackno) = n
    BY <1>16 DEF Cleared, n
  <2>3. ASSUME NEW i \in 0 .. k - 1
        PROVE  Ends(c, i) <= a <=> i < n
    <3>1. CASE i < n
      <4>1. i \in 0 .. n - 1
        BY <1>9, <3>1
      <4>2. Ends(c, i) < a /\ Ends(c, i) \in Nat
        BY <1>4, <1>10, <4>1 DEF Ends, SeqNos
      <4>. QED  BY <1>3, <3>1, <4>2 DEF SeqNos
    <3>2. CASE i = n
      BY <1>3, <1>9, <1>14, <2>1, <3>2 DEF SeqNos
    <3>3. CASE i > n
      <4>1. i \in n + 1 .. k - 1
        BY <1>9, <3>3
      <4>2. Ends(c, i) > Ends(c, n) /\ Ends(c, i) \in Nat
        BY <1>4, <1>13, <4>1 DEF Ends, SeqNos
      <4>. QED  BY <1>3, <1>9, <1>14, <2>1, <3>3, <4>2 DEF SeqNos
    <3>. QED  BY <1>9, <3>1, <3>2, <3>3
  <2>. QED  BY <1>9, <2>2, <2>3 DEF a
<1>. QED  BY <1>15, <1>16

-----------------------------------------------------------------------------
(***************************************************************************)
(* The queue that the ring is mapped to, and what the steps do to it.      *)
(***************************************************************************)
Entry == [len : SeqNos, seq : SeqNos]

\* The segments in flight make a queue as long as they are many.
LEMMA QueueOfType ==
    ASSUME NEW c \in Ring, NEW k \in 0 .. SegmentCount
    PROVE  /\ QueueOf(c, k) \in Seq(Entry)
           /\ Len(QueueOf(c, k)) = k
           /\ DOMAIN QueueOf(c, k) = 1 .. k
           /\ \A i \in 1 .. k : QueueOf(c, k)[i] =
                 [len |-> Nth(c, i - 1).len, seq |-> Nth(c, i - 1).seq]
<1>1. \A i \in 1 .. k : i - 1 \in Slots
  BY RingAssumption DEF Slots
<1>2. \A i \in 1 .. k : [len |-> Nth(c, i - 1).len, seq |-> Nth(c, i - 1).seq] \in Entry
  BY <1>1, NthType DEF Entry
<1>3. k \in Nat
  BY RingAssumption
<1>. QED  BY <1>2, <1>3 DEF QueueOf

\* Pushing a segment appends it.
LEMMA PushAppends ==
    ASSUME NEW c \in Ring, NEW k \in 0 .. SegmentCount, IsLevel(c, k),
           HasAvailableSegments(c),
           NEW len \in SeqNos, NEW dat \in Seq(Nat)
    PROVE  /\ k < SegmentCount
           /\ QueueOf(PushSegment(c, len, dat), k + 1) =
                Append(QueueOf(c, k), [len |-> len, seq |-> c.snd_nxt])
<1>. DEFINE d == PushSegment(c, len, dat)
            q == QueueOf(c, k)
            r == QueueOf(d, k + 1)
            e == [len |-> len, seq |-> c.snd_nxt]
<1>1. /\ k \in Slots
      /\ \A j \in Slots : Nth(d, j) =
            IF j = k THEN [len |-> len, seq |-> c.snd_nxt, dat |-> dat] ELSE Nth(c, j)
  BY NthOfPushed
<1>2. k < SegmentCount /\ k + 1 \in 0 .. SegmentCount /\ k \in Nat
  BY <1>1, RingAssumption DEF Slots
<1>3. d \in Ring /\ e \in Entry
  BY PushType DEF Entry, Ring
<1>4. /\ q \in Seq(Entry) /\ Len(q) = k
      /\ \A i \in 1 .. k : q[i] = [len |-> Nth(c, i - 1).len, seq |-> Nth(c, i - 1).seq]
  BY QueueOfType
<1>. HIDE DEF d
<1>5. /\ r \in Seq(Entry) /\ Len(r) = k + 1
      /\ \A i \in 1 .. k + 1 : r[i] = [len |-> Nth(d, i - 1).len, seq |-> Nth(d, i - 1).seq]
  BY <1>2, <1>3, QueueOfType
<1>. HIDE DEF q, r
<1>6. /\ Append(q, e) \in Seq(Entry) /\ Len(Append(q, e)) = k + 1
      /\ \A i \in 1 .. k : Append(q, e)[i] = q[i]
      /\ Append(q, e)[k + 1] = e
  <2>. HIDE DEF e
  <2>. QED  BY <1>3, <1>4, AppendProperties
<1>7. ASSUME NEW i \in 1 .. k + 1 PROVE r[i] = Append(q, e)[i]
  <2>1. i - 1 \in Slots /\ (i - 1 = k <=> i = k + 1)
    BY <1>1, <1>2, RingAssumption DEF Slots
  <2>2. CASE i = k + 1
    BY <1>1, <1>2, <1>5, <1>6, <2>1, <2>2
  <2>3. CASE i # k + 1
    <3>1. i \in 1 .. k
      BY <1>2, <2>3
    <3>. QED  BY <1>1, <1>4, <1>5, <1>6, <2>1, <2>3, <3>1
  <2>. QED  BY <2>2, <2>3
<1>8. r = Append(q, e)
  <2>. HIDE DEF e
  <2>. QED  BY <1>5, <1>6, <1>7, SeqEqual
<1>. QED  BY <1>2, <1>8 DEF q, r, d

\* Clearing the first n segments removes them from the head.
LEMMA ClearRemoves ==
    ASSUME NEW c \in Ring, NEW k \in 0 .. SegmentCount, NEW n \in 0 .. k
    PROVE  QueueOf(ClearSegments(c, n), k - n) =
             SubSeq(QueueOf(c, k), n + 1, Len(QueueOf(c, k)))
<1>. DEFINE d == ClearSegments(c, n)
            q == QueueOf(c, k)
            r == QueueOf(d, k - n)
            t == SubSeq(q, n + 1, k)
<1>1. k \in Nat /\ n \in Nat /\ n \in 0 .. SegmentCount /\ k - n \in 0 .. SegmentCount
  BY RingAssumption
<1>2. d \in Ring /\ \A j \in Slots : n + j < SegmentCount => Nth(d, j) = Nth(c, n + j)
  BY <1>1, ClearType, NthOfCleared
<1>3. /\ q \in Seq(Entry) /\ Len(q) = k
      /\ \A i \in 1 .. k : q[i] = [len |-> Nth(c, i - 1).len, seq |-> Nth(c, i - 1).seq]
  BY QueueOfType
<1>. HIDE DEF d
<1>4. /\ r \in Seq(Entry) /\ Len(r) = k - n
      /\ \A i \in 1 .. k - n : r[i] = [len |-> Nth(d, i - 1).len, seq |-> Nth(d, i - 1).seq]
  BY <1>1, <1>2, QueueOfType
<1>. HIDE DEF q, r
<1>5. /\ t \in Seq(Entry) /\ Len(t) = k - n
      /\ \A i \in 1 .. k - n : t[i] = q[n + i]
  <2>1. \A i \in n + 1 .. k : q[i] \in Entry
    BY <1>1, <1>3, ElementOfSeq
  <2>2. /\ SubSeq(q, n + 1, k) \in Seq(Entry)
        /\ Len(SubSeq(q, n + 1, k)) = IF n + 1 <= k THEN k - (n + 1) + 1 ELSE 0
        /\ \A i \in 1 .. k - (n + 1) + 1 : SubSeq(q, n + 1, k)[i] = q[n + 1 + i - 1]
    BY <1>1, <2>1, SubSeqProperties
  <2>. QED  BY <1>1, <2>2
<1>6. ASSUME NEW i \in 1 .. k - n PROVE r[i] = t[i]
  <2>1. /\ i - 1 \in Slots /\ n + (i - 1) < SegmentCount
        /\ n + i \in 1 .. k /\ n + i - 1 = n + (i - 1)
    BY <1>1, RingAssumption DEF Slots
  <2>2. Nth(d, i - 1) = Nth(c, n + i - 1)
    BY <1>2, <2>1
  <2>3. q[n + i] = [len |-> Nth(c, n + i - 1).len, seq |-> Nth(c, n + i - 1).seq]
    BY <1>3, <2>1
  <2>. QED  BY <1>4, <1>5, <2>2, <2>3
<1>7. r = t
  <2>. HIDE DEF t
  <2>. QED  BY <1>4, <1>5, <1>6, SeqEqual
<1>. QED  BY <1>3, <1>7 DEF q, r, d

-----------------------------------------------------------------------------
(***************************************************************************)
(* The theorems.                                                           *)
(***************************************************************************)

\* In a ring that was opened over no segment in flight nothing wraps past the
\* oldest segment, whatever ACKs come in.
THEOREM NothingWraps == RingSpec => [](clean => Spans)
<1>1. RingInit => Spans
  <2>1. SUFFICES ASSUME RingInit PROVE Spans
    OBVIOUS
  <2>2. \A j \in Slots : Nth(ring, j).len = 0
    <3>1. ring.segs = [i \in Slots |-> FreeSegment] /\ ring.segidx = 0
      BY <2>1 DEF RingInit
    <3>2. \A j \in Slots : Slot(0, j) \in Slots
      BY RingAssumption DEF Slots, Slot
    <3>. QED  BY <3>1, <3>2 DEF Nth, FreeSegment
  <2>3. 0 \in 0 .. SegmentCount /\ IsLevel(ring, 0) /\ IsSpan(ring, 0, MaxLen)
    BY <2>2, RingAssumption DEF IsLevel, IsSpan, Slots
  <2>. QED  BY <2>3 DEF Spans
<1>2. RingTypeOK /\ (clean => Spans) /\ [RingNext]_ringVars => (clean => Spans)'
  <2>1. SUFFICES ASSUME RingTypeOK, clean => Spans, [RingNext]_ringVars, clean'
                 PROVE  Spans'
    OBVIOUS
  <2>2. ring \in Ring /\ <<>> \in Seq(Nat)
    BY <2>1 DEF RingTypeOK
  <2>3. ASSUME NEW len \in 0 .. MaxLen, RingSend(len)
        PROVE  Spans'
    <3>1. PICK k \in 0 .. SegmentCount : IsLevel(ring, k) /\ IsSpan(ring, k, MaxLen)
      BY <2>1, <2>3 DEF RingSend, Spans
    <3>2. HasAvailableSegments(ring) /\ ring' = PushSegment(ring, len, <<>>)
      BY <2>3 DEF RingSend
    <3>3. len \in SeqNos
      BY LengthsAreSeqNos, MaxLenFits
    <3>4. IsLevel(ring', IF len = 0 THEN k ELSE k + 1)
      BY <2>2, <3>1, <3>2, <3>3, PushedLevel
    <3>5. CASE len = 0
      <4>1. IsSpan(ring', k, MaxLen)
        BY <2>2, <3>1, <3>2, <3>5, PushedNothing
      <4>. QED  BY <3>4, <3>5, <4>1 DEF Spans
    <3>6. CASE len # 0
      <4>1. len \in 1 .. MaxLen
        BY <2>3, <3>6, EnvironmentAssumption
      <4>2. IsSpan(ring', k + 1, MaxLen)
        BY <2>2, <3>1, <3>2, <4>1, PushedSpan, MaxLenFits
      <4>3. k + 1 \in 0 .. SegmentCount
        <5>1. k < SegmentCount
          BY <2>2, <3>1, <3>2, <3>3, PushAppends
        <5>. QED  BY <5>1, RingAssumption
      <4>. QED  BY <3>4, <3>6, <4>2, <4>3 DEF Spans
    <3>. QED  BY <3>5, <3>6
  <2>4. ASSUME NEW ackno \in SeqNos, ReceiveAck(ackno)
        PROVE  Spans'
    <3>. DEFINE n == Cleared(ring, ackno)
    <3>1. PICK k \in 0 .. SegmentCount : IsLevel(ring, k) /\ IsSpan(ring, k, MaxLen)
      BY <2>1, <2>4 DEF ReceiveAck, Spans
    <3>2. n \in 0 .. SegmentCount /\ ring' = ClearSegments(ring, n)
      BY <2>4, ClearedType DEF ReceiveAck, AckScan
    <3>. HIDE DEF n
    <3>3. IsLevel(ring', IF n < k THEN k - n ELSE 0)
      BY <2>2, <3>1, <3>2, ClearedLevel
    <3>4. CASE n < k
      <4>1. n \in 0 .. k /\ k - n \in 0 .. SegmentCount
        BY <3>2, <3>4, RingAssumption
      <4>2. IsSpan(ring', k - n, MaxLen)
        BY <2>2, <3>1, <3>2, <4>1, ClearedSpan
      <4>. QED  BY <3>3, <3>4, <4>1, <4>2 DEF Spans
    <3>5. CASE ~ (n < k)
      <4>1. 0 \in 0 .. SegmentCount /\ IsSpan(ring', 0, MaxLen)
        BY RingAssumption DEF IsSpan
      <4>. QED  BY <3>3, <3>5, <4>1 DEF Spans
    <3>. QED  BY <3>4, <3>5
  <2>5. ASSUME NEW iss \in SeqNos, Open(iss)
        PROVE  Spans'
    <3>1. ~ HasOutstandingSegments(ring)
      BY <2>1, <2>5 DEF Open
    <3>2. IsLevel(ring', 1) /\ IsSpan(ring', 1, MaxLen)
      BY <2>2, <2>5, <3>1, OpenedSpan, MaxLenFits DEF Open
    <3>3. 1 \in 0 .. SegmentCount
      BY RingAssumption
    <3>. QED  BY <3>2, <3>3 DEF Spans
  <2>6. CASE UNCHANGED ringVars
    <3>1. ring' = ring /\ clean' = clean
      BY <2>6 DEF ringVars
    <3>. QED  BY <2>1, <3>1 DEF Spans
  <2>. QED  BY <2>1, <2>3, <2>4, <2>5, <2>6 DEF RingNext
<1>. QED  BY <1>1, <1>2, RingIsTyped, PTL DEF RingSpec

\* A slot that is never taken over with segments in flight stays clean.
LEMMA StaysClean ==
    ASSUME ~ DirtyReuse
    PROVE  RingSpec => []clean
<1>1. RingInit => clean
  BY DEF RingInit
<1>2. clean /\ [RingNext]_ringVars => clean'
  BY DEF RingNext, RingSend, ReceiveAck, Open, ringVars
<1>. QED  BY <1>1, <1>2, PTL DEF RingSpec

\* The queue counts as everyone does.
LEMMA QueueCounts ==
    ASSUME NEW S
    PROVE  Queue!Cardinality(S) = Cardinality(S)
BY DEF Queue!Cardinality, Cardinality

\* What the ring is mapped to, when its level is known.
LEMMA MappedQueue ==
    ASSUME NEW k \in 0 .. SegmentCount, IsLevel(ring, k)
    PROVE  /\ Level = k
           /\ QueueOf(ring, Level) = QueueOf(ring, k)
BY LevelIs DEF Level

\* The queue removes what the scan clears.
LEMMA CoveredIsCleared ==
    ASSUME ring \in Ring, NEW k \in 1 .. SegmentCount, IsLevel(ring, k), IsSpan(ring, k, MaxLen),
           NEW ackno \in SeqNos, AckDistance(ackno, Oldest(ring)) <= InFlight(ring)
    PROVE  /\ Cleared(ring, ackno) \in 0 .. k
           /\ Cardinality(Queue!Covered(ackno)) = Cleared(ring, ackno)
           /\ Queue!Distance(Queue!Una, ackno) <= Queue!Distance(Queue!Una, ring.snd_nxt)
<1>. DEFINE q == QueueOf(ring, k)
            n == Cleared(ring, ackno)
<1>1. k \in 0 .. SegmentCount /\ 0 \in 0 .. k - 1 /\ 0 \in Slots /\ k >= 1
  BY RingAssumption DEF Slots
<1>2. Level = k
  BY <1>1, MappedQueue
<1>3. /\ q \in Seq(Entry) /\ Len(q) = k /\ DOMAIN q = 1 .. k
      /\ \A i \in 1 .. k : q[i] = [len |-> Nth(ring, i - 1).len, seq |-> Nth(ring, i - 1).seq]
  BY <1>1, QueueOfType
<1>4. Queue!Una = IF q = <<>> THEN ring.snd_nxt ELSE Head(q).seq
  BY <1>2 DEF Queue!Una, QueueOf
<1>5. Queue!Covered(ackno) =
        {i \in DOMAIN q : Queue!Distance(Queue!Una, q[i].seq) + q[i].len
                            <= Queue!Distance(Queue!Una, ackno)}
  BY <1>2 DEF Queue!Covered, QueueOf
<1>6. Queue!Una = Nth(ring, 0).seq
  <2>1. q # <<>> /\ Head(q) = q[1]
    <3>. HIDE DEF q
    <3>. QED  BY <1>1, <1>3
  <2>2. q[1].seq = Nth(ring, 0).seq
    BY <1>1, <1>3
  <2>. QED  BY <1>4, <2>1, <2>2
<1>. HIDE DEF q
<1>7. Oldest(ring) = Nth(ring, 0)
  BY RingAssumption DEF Oldest, Nth, Slot, Slots, Ring
<1>8. \A x : Queue!Distance(Queue!Una, x) = AckDistance(x, Nth(ring, 0))
  BY <1>6, DistanceIsAckDistance
<1>9. AckDistance(ackno, Nth(ring, 0)) <= Behind(ring, 0)
  BY <1>7 DEF InFlight, Behind
<1>10. /\ n \in 0 .. k
       /\ \A i \in 0 .. k - 1 :
             Ends(ring, i) <= AckDistance(ackno, Nth(ring, 0)) <=> i < n
  BY <1>9, ScanClearsTheCovered
<1>. HIDE DEF n
<1>11. ASSUME NEW i \in 1 .. k
       PROVE  Queue!Distance(Queue!Una, q[i].seq) + q[i].len = Ends(ring, i - 1)
  <2>1. i - 1 \in 0 .. k - 1 /\ i - 1 \in Slots
    BY RingAssumption DEF Slots
  <2>2. q[i].seq = Nth(ring, i - 1).seq /\ q[i].len = Nth(ring, i - 1).len
    BY <1>3
  <2>3. AckDistance(Nth(ring, i - 1).seq, Nth(ring, 0)) = Begins(ring, i - 1)
    BY <1>1, <2>1, BeginsAtDistance
  <2>. QED  BY <1>8, <2>2, <2>3 DEF Ends
<1>12. Queue!Covered(ackno) = 1 .. n
  <2>1. ASSUME NEW i \in 1 .. k
        PROVE  Queue!Distance(Queue!Una, q[i].seq) + q[i].len
                 <= Queue!Distance(Queue!Una, ackno) <=> i <= n
    <3>1. i - 1 \in 0 .. k - 1 /\ (i - 1 < n <=> i <= n)
      BY <1>1, <1>10
    <3>2. Queue!Distance(Queue!Una, ackno) = AckDistance(ackno, Nth(ring, 0))
      BY <1>8
    <3>. QED  BY <1>10, <1>11, <3>1, <3>2
  <2>2. 1 .. n = {i \in 1 .. k : i <= n}
    BY <1>1, <1>10
  <2>. QED  BY <1>3, <1>5, <2>1, <2>2
<1>13. Cardinality(1 .. n) = n
  BY <1>1, <1>10, FS_Interval
<1>14. Queue!Distance(Queue!Una, ackno) <= Queue!Distance(Queue!Una, ring.snd_nxt)
  BY <1>8, <1>9 DEF Behind
<1>. QED  BY <1>10, <1>12, <1>13, <1>14 DEF n

\* The ring implements the queue of unacknowledged segments: the wrapping index,
\* the slots that are cleared and the scan that compares each segment with the
\* ackno keep and lose the same segments as the queue does.
THEOREM RingImplementsQueue ==
    ASSUME ~ StaleAcks, ~ DirtyReuse
    PROVE  RingSpec => ImplementsQueue
<1>. DEFINE queue == QueueOf(ring, Level)
<1>1. RingInit /\ RingTypeOK /\ Spans => Queue!Init
  <2>1. SUFFICES ASSUME RingInit, RingTypeOK, Spans PROVE Queue!Init
    OBVIOUS
  <2>2. \A j \in Slots : Nth(ring, j).len = 0
    <3>1. ring.segs = [i \in Slots |-> FreeSegment] /\ ring.segidx = 0
      BY <2>1 DEF RingInit
    <3>2. \A j \in Slots : Slot(0, j) \in Slots
      BY RingAssumption DEF Slots, Slot
    <3>. QED  BY <3>1, <3>2 DEF Nth, FreeSegment
  <2>3. 0 \in 0 .. SegmentCount /\ IsLevel(ring, 0)
    BY <2>2, RingAssumption DEF IsLevel, Slots
  <2>4. queue = <<>>
    <3>1. queue = QueueOf(ring, 0)
      BY <2>3, MappedQueue
    <3>. QED  BY <3>1 DEF QueueOf
  <2>5. ring.snd_nxt \in 0 .. SeqSpace - 1 /\ acked = ring.snd_nxt
    BY <2>1 DEF RingInit, RingTypeOK, Ring, SeqNos
  <2>. QED  BY <2>4, <2>5 DEF Queue!Init, QueueOf
<1>2. RingTypeOK /\ clean /\ Spans /\ [RingNext]_ringVars => [Queue!Next]_(Queue!vars)
  <2>1. SUFFICES ASSUME RingTypeOK, clean, Spans, [RingNext]_ringVars
                 PROVE  Queue!Next \/ UNCHANGED <<queue, ring.snd_nxt, acked>>
    BY DEF Queue!vars, QueueOf
  <2>2. ring \in Ring /\ <<>> \in Seq(Nat)
    BY <2>1 DEF RingTypeOK
  <2>3. PICK k \in 0 .. SegmentCount : IsLevel(ring, k) /\ IsSpan(ring, k, MaxLen)
    BY <2>1 DEF Spans
  <2>4. queue = QueueOf(ring, k)
    BY <2>3, MappedQueue
  <2>5. \A m \in 0 .. SegmentCount : IsLevel(ring', m) => Level' = m
    BY LevelIs DEF Level
  <2>6. \A m \in 0 .. SegmentCount : IsLevel(ring', m) => queue' = QueueOf(ring', m)
    BY <2>5
  <2>7. ASSUME NEW len \in 0 .. MaxLen, RingSend(len)
        PROVE  Queue!Next \/ UNCHANGED <<queue, ring.snd_nxt, acked>>
    <3>1. /\ HasAvailableSegments(ring)
          /\ ring' = PushSegment(ring, len, <<>>)
          /\ acked' = acked
      BY <2>7 DEF RingSend
    <3>2. len \in SeqNos
      BY LengthsAreSeqNos, MaxLenFits
    <3>3. IsLevel(ring', IF len = 0 THEN k ELSE k + 1)
      BY <2>2, <2>3, <3>1, <3>2, PushedLevel
    <3>4. CASE len = 0
      <4>1. /\ ring'.snd_nxt = ring.snd_nxt
            /\ \A j \in 0 .. k - 1 : Nth(ring', j) = Nth(ring, j)
        BY <2>2, <2>3, <3>1, <3>4, PushedNothing
      <4>2. queue' = QueueOf(ring', k)
        BY <2>6, <3>3, <3>4
      <4>3. QueueOf(ring', k) = QueueOf(ring, k)
        <5>1. \A i \in 1 .. k : i - 1 \in 0 .. k - 1
          BY RingAssumption
        <5>. QED  BY <4>1, <5>1 DEF QueueOf
      <4>. QED  BY <2>4, <3>1, <4>1, <4>2, <4>3
    <3>5. CASE len # 0
      <4>1. /\ k < SegmentCount
            /\ QueueOf(ring', k + 1) =
                 Append(QueueOf(ring, k), [len |-> len, seq |-> ring.snd_nxt])
        BY <2>2, <2>3, <3>1, <3>2, PushAppends
      <4>2. k + 1 \in 0 .. SegmentCount
        BY <4>1, RingAssumption
      <4>3. queue' = Append(queue, [len |-> len, seq |-> ring.snd_nxt])
        BY <2>4, <2>6, <3>3, <3>5, <4>1, <4>2
      <4>4. Len(queue) < SegmentCount
        BY <2>2, <2>4, <4>1, QueueOfType
      <4>5. ring'.snd_nxt = (ring.snd_nxt + len) % SeqSpace
        <5>1. ring'.snd_nxt = SeqAdd(ring.snd_nxt, len)
          BY <2>2, <2>3, <3>1, <3>2, NthOfPushed
        <5>. QED  BY <2>2, <3>2, <5>1, WrapIsModulo DEF Ring
      <4>6. len \in 1 .. MaxLen
        BY <2>7, <3>5, EnvironmentAssumption
      <4>7. Queue!Send(len)
        BY <3>1, <4>3, <4>4, <4>5 DEF Queue!Send, QueueOf
      <4>. QED  BY <4>6, <4>7 DEF Queue!Next
    <3>. QED  BY <3>4, <3>5
  <2>8. ASSUME NEW ackno \in SeqNos, ReceiveAck(ackno)
        PROVE  Queue!Next
    <3>. DEFINE n == Cleared(ring, ackno)
    <3>1. /\ HasOutstandingSegments(ring)
          /\ AckDistance(ackno, Oldest(ring)) <= InFlight(ring)
          /\ ring' = ClearSegments(ring, n)
          /\ acked' = ackno
      BY <2>8 DEF ReceiveAck, AckScan
    <3>2. k \in 1 .. SegmentCount
      BY <2>2, <2>3, <3>1, OutstandingLevel
    <3>3. /\ n \in 0 .. k
          /\ Cardinality(Queue!Covered(ackno)) = n
          /\ Queue!Distance(Queue!Una, ackno) <= Queue!Distance(Queue!Una, ring.snd_nxt)
      BY <2>2, <2>3, <3>1, <3>2, CoveredIsCleared
    <3>. HIDE DEF n
    <3>4. IsLevel(ring', k - n) /\ k - n \in 0 .. SegmentCount
      <4>1. n \in 0 .. SegmentCount /\ k - n \in 0 .. SegmentCount
        BY <3>3, RingAssumption
      <4>2. (IF n < k THEN k - n ELSE 0) = k - n
        BY <3>3, RingAssumption
      <4>3. IsLevel(ring', IF n < k THEN k - n ELSE 0)
        BY <2>2, <2>3, <3>1, <4>1, ClearedLevel
      <4>. QED  BY <4>1, <4>2, <4>3
    <3>5. queue' = SubSeq(queue, n + 1, Len(queue))
      BY <2>2, <2>4, <2>6, <3>1, <3>3, <3>4, ClearRemoves
    <3>6. ring'.snd_nxt = ring.snd_nxt
      BY <2>2, <3>1 DEF ClearSegments, Ring
    <3>7. Queue!Acknowledge(ackno)
      BY <3>1, <3>3, <3>5, <3>6, QueueCounts DEF Queue!Acknowledge, QueueOf
    <3>. QED  BY <3>7 DEF Queue!Next, SeqNos
  <2>9. ASSUME NEW iss \in SeqNos, Open(iss)
        PROVE  Queue!Next
    <3>1. ~ HasOutstandingSegments(ring) /\ acked' = iss
      BY <2>9 DEF Open
    <3>2. /\ IsLevel(ring', 1)
          /\ Nth(ring', 0).len = 1 /\ Nth(ring', 0).seq = iss
          /\ ring'.snd_nxt = SeqAdd(iss, 1)
      BY <2>2, <2>9, <3>1, OpenedSpan, MaxLenFits DEF Open
    <3>3. queue' = QueueOf(ring', 1)
      <4>1. 1 \in 0 .. SegmentCount
        BY RingAssumption
      <4>. QED  BY <2>6, <3>2, <4>1
    <3>4. queue' = <<[len |-> 1, seq |-> iss]>>
      <4>1. \A i \in 1 .. 1 : i - 1 = 0
        OBVIOUS
      <4>2. QueueOf(ring', 1) = [i \in 1 .. 1 |-> [len |-> 1, seq |-> iss]]
        BY <3>2, <4>1 DEF QueueOf
      <4>. QED  BY <3>3, <4>2
    <3>5. ring'.snd_nxt = (iss + 1) % SeqSpace
      <4>1. 1 \in SeqNos
        BY RingAssumption DEF SeqNos
      <4>. QED  BY <3>2, <4>1, WrapIsModulo
    <3>6. Queue!Restart(iss)
      BY <3>1, <3>4, <3>5 DEF Queue!Restart, QueueOf
    <3>. QED  BY <3>6 DEF Queue!Next, SeqNos
  <2>10. CASE UNCHANGED ringVars
    <3>1. ring' = ring /\ acked' = acked
      BY <2>10 DEF ringVars
    <3>. QED  BY <3>1 DEF Level
  <2>. QED  BY <2>1, <2>7, <2>8, <2>9, <2>10 DEF RingNext
<1>. QED  BY <1>1, <1>2, RingIsTyped, NothingWraps, StaysClean, PTL
          DEF RingSpec, ImplementsQueue, Queue!Spec
=============================================================================
