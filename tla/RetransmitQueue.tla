-------------------------- MODULE RetransmitQueue --------------------------
(***************************************************************************)
(* What the send segments of a connection are for: the queue of what was   *)
(* sent and not yet acknowledged.  Sending appends to it; a cumulative ACK *)
(* removes from its head the segments it covers entirely, and keeps the    *)
(* one it covers in part.                                                  *)
(***************************************************************************)
EXTENDS Naturals, Sequences, FiniteSets

CONSTANTS
    Capacity,       \* how many segments may be in flight
    SeqSpace,         \* the number of sequence numbers
    MaxLen          \* the largest segment

VARIABLES
    queue,          \* the segments in flight, oldest first
    nxt,            \* the next sequence number to send
    acked           \* the last ackno received

vars == <<queue, nxt, acked>>

Distance(from, to) == IF to < from THEN to + SeqSpace - from ELSE to - from

Una == IF queue = <<>> THEN nxt ELSE Head(queue).seq

\* The segments that end at or before ackno, as seen from the oldest one.
Covered(ackno) ==
    {i \in DOMAIN queue :
        Distance(Una, queue[i].seq) + queue[i].len <= Distance(Una, ackno)}

Init == queue = <<>> /\ nxt \in 0 .. SeqSpace - 1 /\ acked = nxt

Send(len) ==
    /\ Len(queue) < Capacity
    /\ queue' = Append(queue, [len |-> len, seq |-> nxt])
    /\ nxt' = (nxt + len) % SeqSpace
    /\ UNCHANGED acked

Acknowledge(ackno) ==
    /\ Distance(Una, ackno) <= Distance(Una, nxt)
    /\ queue' = SubSeq(queue, Cardinality(Covered(ackno)) + 1, Len(queue))
    /\ acked' = ackno
    /\ UNCHANGED nxt

\* A new connection starts with its SYN in flight and nothing else.
Restart(iss) ==
    /\ queue' = <<[len |-> 1, seq |-> iss]>>
    /\ nxt' = (iss + 1) % SeqSpace
    /\ acked' = iss

Next ==
    \/ \E len \in 1 .. MaxLen : Send(len)
    \/ \E ackno \in 0 .. SeqSpace - 1 : Acknowledge(ackno)
    \/ \E iss \in 0 .. SeqSpace - 1 : Restart(iss)

Spec == Init /\ [][Next]_vars
=============================================================================
