---------------------------- MODULE SegmentRing ----------------------------
(***************************************************************************)
(* The ring as a component.  Its environment is the rest of the stack:     *)
(* segments are sent whenever one is available, ACKs come in, and the      *)
(* connection's slot is taken over for a new connection, which sets        *)
(* m_segidx and m_snd_nxt but, in the code, leaves the segments as they    *)
(* are.  Payloads are left out here.                                       *)
(***************************************************************************)
EXTENDS Segments

CONSTANTS
    MaxLen,         \* the largest segment
    StaleAcks,      \* may an ackno lie outside of what is in flight?
    DirtyReuse      \* may a slot be taken over with segments in flight?

\* m_slen has 24 bits and there are 16 segments: 16 * 2^24 < 2^32.
ASSUME EnvironmentAssumption ==
    /\ MaxLen \in Nat \ {0}
    /\ SegmentCount * MaxLen < SeqSpace
    /\ StaleAcks \in BOOLEAN
    /\ DirtyReuse \in BOOLEAN

VARIABLES
    ring,           \* the segments and indices
    acked,          \* history: the last ackno that came in
    clean           \* history: no segment was in flight when the slot was taken

ringVars == <<ring, acked, clean>>

\* The sequence numbers from the oldest segment in flight to snd_nxt.
InFlight(c) == AckDistance(c.snd_nxt, Oldest(c))

RingInit ==
    /\ ring \in [segs : {[i \in Slots |-> FreeSegment]},
                 segidx : {0},
                 snd_nxt : SeqNos]
    /\ acked = ring.snd_nxt
    /\ clean = TRUE

\* send(e, seg): data, a FIN, or nothing at all (len = 0 on a closed window).
RingSend(len) ==
    /\ HasAvailableSegments(ring)
    /\ ring' = PushSegment(ring, len, <<>>)
    /\ UNCHANGED <<acked, clean>>

\* process(e): the scan runs when something is in flight.
ReceiveAck(ackno) ==
    /\ HasOutstandingSegments(ring)
    /\ StaleAcks \/ AckDistance(ackno, Oldest(ring)) <= InFlight(ring)
    /\ ring' = AckScan(ring, ackno)
    /\ acked' = ackno
    /\ UNCHANGED clean

\* connect() and process() on a CLOSED or TIME_WAIT slot, with the SYN.  With
\* no segment available the code throws; no guard of its own prevents that.
Open(iss) ==
    /\ HasAvailableSegments(ring)
    /\ DirtyReuse \/ ~ HasOutstandingSegments(ring)
    /\ ring' = PushSegment([ring EXCEPT !.segidx = 0, !.snd_nxt = iss], 1, <<>>)
    /\ acked' = iss
    /\ clean' = ~ HasOutstandingSegments(ring)

RingNext ==
    \/ \E len \in 0 .. MaxLen : RingSend(len)
    \/ \E ackno \in SeqNos : ReceiveAck(ackno)
    \/ \E iss \in SeqNos : Open(iss)

RingSpec == RingInit /\ [][RingNext]_ringVars

-----------------------------------------------------------------------------
(***************************************************************************)
(* Properties.                                                             *)
(***************************************************************************)

\* Type invariant: the indices stay within the array and the sequence space,
\* as the bit fields of Connection make them.
RingTypeOK == ring \in Ring /\ acked \in SeqNos /\ clean \in BOOLEAN

\* Whatever ACKs come in, the segments in flight stay contiguous in the array
\* from segidx on and in sequence space up to snd_nxt, so that segment() is the
\* oldest one, nextAvailableSegment() the one after the newest, and a
\* retransmission never leaves a hole behind it.
RingIsContiguous == clean => RingShape(ring)

-----------------------------------------------------------------------------
(***************************************************************************)
(* What the ring is for: a queue of unacknowledged segments, from which an *)
(* ackno removes those it covers entirely and no others.                   *)
(***************************************************************************)
Level == CHOOSE k \in 0 .. SegmentCount : IsLevel(ring, k)

Queue == INSTANCE RetransmitQueue WITH
            Capacity <- SegmentCount,
            queue <- [k \in 1 .. Level |->
                        [len |-> Nth(ring, k - 1).len, seq |-> Nth(ring, k - 1).seq]],
            nxt <- ring.snd_nxt

\* The ring implements the queue: the wrapping index, the cleared slots and the
\* scan that compares 64-bit values lose and keep the same segments as the
\* queue does, for every ackno the peer may send in order.  acked, an input that
\* both see, makes the queue remove what this very ackno covers.
ImplementsQueue == Queue!Spec
=============================================================================
