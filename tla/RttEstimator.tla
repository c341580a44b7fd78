---------------------------- MODULE RttEstimator ----------------------------
(***************************************************************************)
(* The estimation of the round-trip time of a connection, in the ticks of  *)
(* run(), as "Van Jacobson's original code" computes it: sa is eight times *)
(* the mean, sv four times the mean deviation.  The fields are bytes, and  *)
(* the measure between them a signed one.                                  *)
(***************************************************************************)
EXTENDS Integers

CONSTANTS
    MaxRtt          \* bound: the longest round trip that is measured

ASSUME RttAssumption == MaxRtt \in Nat

VARIABLES
    rtt             \* m_sa, m_sv and m_rto

Byte == 256

RTO == 3
TIME_WAIT_TIMEOUT == 120

Unsigned(n) == n % Byte
Signed(n) == ((n + Byte \div 2) % Byte) - Byte \div 2

Magnitude(n) == IF n < 0 THEN - n ELSE n

\* A connection that is opened by the peer, and one that we open.
Accepted == [sa |-> 0, sv |-> 4, rto |-> RTO]
Connected == [sa |-> 0, sv |-> 16, rto |-> RTO]

\* The estimation in integers.
Exact(e, ticks) ==
    LET error == ticks - e.sa \div 8
        sa == e.sa + error
        sv == e.sv + Magnitude(error) - e.sv \div 4
    IN [sa |-> sa, sv |-> sv, rto |-> sa \div 8 + sv]

\* Mutation: the measure is an unsigned byte.
UpdateUnsigned(e, ticks) ==
    LET error == Unsigned(Unsigned(ticks) - e.sa \div 8)
        sa == Unsigned(e.sa + error)
        spread == Unsigned(error - e.sv \div 4)
        sv == Unsigned(e.sv + spread)
    IN [sa |-> sa, sv |-> sv, rto |-> Unsigned(sa \div 8 + sv)]

\* updateRttEstimation(), when the timer is ticks below the timeout.
UpdateRtt(e, ticks) ==
    LET error == Signed(Signed(ticks) - e.sa \div 8)
        sa == Unsigned(e.sa + error)
        spread == Signed(Signed(Magnitude(error)) - e.sv \div 4)
        sv == Unsigned(e.sv + spread)
    IN [sa |-> sa, sv |-> sv, rto |-> Unsigned(sa \div 8 + sv)]

RttInit == rtt = Accepted

\* An ACK that comes before the timeout is measured; the slot is opened again.
Measures(ticks) == ticks <= rtt.rto /\ rtt' = UpdateRtt(rtt, ticks)

RttNext ==
    \/ \E ticks \in 0 .. MaxRtt : Measures(ticks)
    \/ rtt' \in {Accepted, Connected}

-----------------------------------------------------------------------------

\* No byte wraps: the estimation is the one in integers, whatever the round trips
\* up to MaxRtt were in the life of the connection.  So the timeout is never less
\* than RTO, which 0 or 1 would make a retransmission at every scan, and never so
\* long that the count of FIN_WAIT_2, which begins at it (Processor.cpp:119-123),
\* is past TIME_WAIT_TIMEOUT already.
RttIsSound ==
    /\ \A ticks \in 0 .. MaxRtt :
        ticks <= rtt.rto => UpdateRtt(rtt, ticks) = Exact(rtt, ticks)
    /\ rtt.rto \in RTO .. TIME_WAIT_TIMEOUT - 2
=============================================================================
