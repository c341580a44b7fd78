--------------------------------- MODULE Arp ---------------------------------
(***************************************************************************)
(* The ARP table.  Times are counted in ticks of its timer, of which the   *)
(* code keeps the last eight bits: Modulus stands for 256, MaxAge for      *)
(* MAX_AGE and Entries for TABLE_SIZE.                                     *)
(***************************************************************************)
EXTENDS Naturals, Integers, FiniteSets

CONSTANTS
    Entries,        \* TABLE_SIZE
    Modulus,        \* the number of values of m_time
    MaxAge,         \* MAX_AGE
    MaxTicks,       \* bound: expiries of the timer
    Macs            \* the hardware addresses

ASSUME ArpAssumption ==
    /\ Entries \in Nat \ {0} /\ Modulus \in Nat \ {0}
    /\ MaxAge \in 1 .. Modulus /\ MaxTicks \in Nat

VARIABLES
    table,          \* m_table
    ticks           \* how many times the timer expired

Places == 1 .. Entries

NoIp == "none"

\* tick is when the entry was written; its last bits are the field time.
EmptyEntry == [ip |-> NoIp, mac |-> "none", tick |-> 0]

InUse(i) == table[i].ip # NoIp

\* m_time and the field time.
Time(tick) == tick % Modulus

ArpInit == table = [i \in Places |-> EmptyEntry] /\ ticks = 0

\* Mutation: an entry that has just the age stays.
RunLate ==
    /\ ticks < MaxTicks
    /\ ticks' = ticks + 1
    /\ table' = [i \in Places |->
                    IF InUse(i) /\ Time(ticks') - Time(table[i].tick) > MaxAge
                    THEN [table[i] EXCEPT !.ip = NoIp] ELSE table[i]]

\* run() when the timer expired.  The difference is one of integers: it is
\* negative for an entry from before m_time wrapped.
Run ==
    /\ ticks < MaxTicks
    /\ ticks' = ticks + 1
    /\ table' = [i \in Places |->
                    IF InUse(i) /\ Time(ticks') - Time(table[i].tick) >= MaxAge
                    THEN [table[i] EXCEPT !.ip = NoIp] ELSE table[i]]

FirstOf(S) == CHOOSE i \in S : \A j \in S : i <= j

\* update(): the entry of the address, or the first that is free, or else the
\* first with the time that the last one has.
Update(ip, mac) ==
    LET old == {i \in Places : InUse(i) /\ table[i].ip = ip}
        free == {i \in Places : ~ InUse(i)}
        victims == {i \in Places : Time(table[i].tick) = Time(table[Entries].tick)}
        i == IF old # {} THEN FirstOf(old)
             ELSE IF free # {} THEN FirstOf(free)
             ELSE FirstOf(victims)
    IN table' = [table EXCEPT ![i] = [ip |-> ip, mac |-> mac, tick |-> ticks]]

\* query() of the address of the next hop: the translations, at most one.
Translations(ip) == {table[i].mac : i \in {j \in Places : InUse(j) /\ table[j].ip = ip}}

-----------------------------------------------------------------------------

ArpTypeOK ==
    /\ table \in [Places -> [ip : Macs \cup {NoIp}, mac : Macs \cup {"none"}, tick : 0 .. MaxTicks]]
    /\ ticks \in 0 .. MaxTicks

\* An address has one translation: an update never leaves an older one behind.
OneTranslation ==
    \A i, j \in Places : InUse(i) /\ InUse(j) /\ table[i].ip = table[j].ip => i = j

\* An entry that was not heard of for MaxAge ticks is gone...
StaleIsCleared == \A i \in Places : InUse(i) => ticks - table[i].tick < MaxAge

\* ...as long as m_time did not wrap since it was written.
StaleIsClearedInLap ==
    \A i \in Places :
        InUse(i) /\ ticks \div Modulus = table[i].tick \div Modulus
            => ticks - table[i].tick < MaxAge

\* The two together: a lookup finds what was heard last of an address, and finds
\* nothing that is too old to be believed.
TableIsSound == OneTranslation /\ StaleIsClearedInLap

\* "Try to find the oldest entry and throw it away": what makes place for another
\* address is the entry that was heard of the longest time ago.
OldestIsEvicted ==
    [][\A i \in Places :
        InUse(i) /\ table'[i].ip # table[i].ip /\ table'[i].ip # NoIp
            => \A j \in Places : table[i].tick <= table[j].tick]_table
=============================================================================
