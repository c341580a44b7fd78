----------------------------- MODULE Ofed_proofs -----------------------------
(***************************************************************************)
(* Proofs about the device over the queues of an OFED adapter, for every   *)
(* number of buffers and both thresholds: no buffer is lost or is in two   *)
(* places, and what the adapter receives and sends goes over in order.     *)
(***************************************************************************)
EXTENDS Ofed, SequenceTheorems, FiniteSetTheorems, TLAPS

\* The two halves of the type invariant.
ReceiveTypeOK ==
    /\ posted \in Seq(Bufs) /\ rcq \in Seq(Completion) /\ wc \in Seq(Completion)
    /\ call \in {"none", "busy", "asleep", "closed"}
    /\ done \in 0 .. Len(wc) /\ pre \in 0 .. Len(wc) /\ pending \in 0 .. NBuf
    /\ events \in 0 .. EventThreshold + 1 /\ channel \in Nat /\ unacked \in Nat
    /\ data \in [Bufs -> 0 .. MaxFrames]

SendTypeOK ==
    /\ free \in Seq(Bufs) /\ sq \in Seq(Bufs) /\ scq \in Seq(Bufs) /\ held \subseteq Bufs
    /\ out \in [Bufs -> 0 .. MaxSends]

\* What poll() has taken is what it has not posted again and what it has; and it
\* never posts a buffer again whose frame it did not process yet.
PollIsRight ==
    /\ call # "busy" => wc = <<>> /\ done = 0 /\ pre = 0
    /\ pending = Len(wc) - pre
    /\ pre % PostThreshold = 0
    /\ done = 0 => pre = 0
    /\ done > 0 => pre < done

\* The receive buffers are posted, completed, or taken and not yet posted again.
ReceiveIsWhole ==
    /\ Len(posted) + Len(rcq) + (Len(wc) - pre) = NBuf
    /\ ToSet(posted) \cup ToSet(Ids(rcq)) \cup {wc[i].id : i \in pre + 1 .. Len(wc)} = Bufs

\* The send buffers are free, prepared, posted or completed.
SendIsWhole ==
    /\ Len(free) + Cardinality(held) + Len(sq) + Len(scq) = NBuf
    /\ ToSet(free) \cup held \cup ToSet(sq) \cup ToSet(scq) = Bufs

\* The posted send buffers have the frames that were committed last.
SentInOrder ==
    /\ wire \in Seq(Nat) /\ SentAsCommitted
    /\ commits = Len(wire) + Len(sq) /\ commits \in 0 .. MaxSends
    /\ \A i \in 1 .. Len(sq) : out[sq[i]] = Len(wire) + i

\* The events that were taken from the channel are counted until they are acknowledged.
EventsAreCounted ==
    /\ unacked = IF call = "closed" THEN 0 ELSE events
    /\ call = "asleep" => events < EventThreshold
    /\ call \in {"none", "busy"} => events <= EventThreshold

OfedInv ==
    /\ TypeOK /\ PollIsRight /\ ReceiveIsWhole /\ SendIsWhole /\ SentInOrder
    /\ EventsAreCounted /\ arrived \in 0 .. MaxFrames

\* A completion that poll() did not process yet: what it took, and what is in the
\* queue behind.
Waiting(c) ==
    \/ \E i \in done + 1 .. Len(wc) : c = wc[i]
    \/ \E i \in 1 .. Len(rcq) : c = rcq[i]

\* The frames that wait are in the order of their arrival...
InOrder ==
    /\ \A i, j \in done + 1 .. Len(wc) : i < j => data[wc[i].id] < data[wc[j].id]
    /\ \A i \in done + 1 .. Len(wc), j \in 1 .. Len(rcq) : data[wc[i].id] < data[rcq[j].id]
    /\ \A i, j \in 1 .. Len(rcq) : i < j => data[rcq[i].id] < data[rcq[j].id]

NoneIsAhead == \A c \in Completion : Waiting(c) => data[c.id] <= arrived

\* ...and those with a right checksum are the ones that were not processed.
WaitingIsTheRest ==
    /\ \A c \in Completion : Waiting(c) /\ c.ok =>
          \E j \in Len(taken) + 1 .. Len(good) : data[c.id] = good[j]
    /\ \A j \in Len(taken) + 1 .. Len(good) :
          \E c \in Completion : Waiting(c) /\ c.ok /\ data[c.id] = good[j]

LinkInv ==
    /\ good \in Seq(1 .. MaxFrames) /\ taken \in Seq(1 .. MaxFrames)
    /\ \A i, j \in 1 .. Len(good) : i < j => good[i] < good[j]
    /\ \A i \in 1 .. Len(good) : good[i] <= arrived
    /\ Len(taken) <= Len(good)
    /\ InOrder /\ NoneIsAhead /\ WaitingIsTheRest

-----------------------------------------------------------------------------
(***************************************************************************)
(* Sequences as sets.                                                      *)
(***************************************************************************)

\* What is in two sequences, one after the other.
LEMMA SetOfConcat ==
    ASSUME NEW S, NEW s \in Seq(S), NEW t \in Seq(S)
    PROVE  ToSet(s \o t) = ToSet(s) \cup ToSet(t)
<1>. DEFINE u == s \o t
<1>1. /\ u \in Seq(S) /\ Len(u) = Len(s) + Len(t)
      /\ \A i \in 1 .. Len(s) : u[i] = s[i]
      /\ \A i \in 1 .. Len(t) : u[Len(s) + i] = t[i]
  OBVIOUS
<1>2. DOMAIN u = 1 .. Len(u) /\ DOMAIN s = 1 .. Len(s) /\ DOMAIN t = 1 .. Len(t)
  BY <1>1
<1>. HIDE DEF u
<1>3. Len(s) \in Nat /\ Len(t) \in Nat
  OBVIOUS
<1>4. ASSUME NEW x \in ToSet(u)
      PROVE  x \in ToSet(s) \cup ToSet(t)
  <2>1. PICK i \in 1 .. Len(u) : x = u[i]
    BY <1>2, <1>4 DEF ToSet
  <2>2. CASE i <= Len(s)
    BY <1>1, <1>2, <1>3, <2>1, <2>2 DEF ToSet
  <2>3. CASE i > Len(s)
    <3>1. i - Len(s) \in 1 .. Len(t) /\ Len(s) + (i - Len(s)) = i
      BY <1>1, <1>3, <2>1, <2>3
    <3>. QED  BY <1>1, <1>2, <2>1, <3>1 DEF ToSet
  <2>. QED  BY <1>1, <1>3, <2>1, <2>2, <2>3
<1>5. ASSUME NEW x \in ToSet(s) \cup ToSet(t)
      PROVE  x \in ToSet(u)
  <2>1. CASE x \in ToSet(s)
    <3>1. PICK i \in 1 .. Len(s) : x = s[i]
      BY <1>2, <2>1 DEF ToSet
    <3>. QED  BY <1>1, <1>2, <1>3, <3>1 DEF ToSet
  <2>2. CASE x \in ToSet(t)
    <3>1. PICK i \in 1 .. Len(t) : x = t[i]
      BY <1>2, <2>2 DEF ToSet
    <3>2. Len(s) + i \in 1 .. Len(u)
      BY <1>1, <1>3, <3>1
    <3>. QED  BY <1>1, <1>2, <3>1, <3>2 DEF ToSet
  <2>. QED  BY <1>5, <2>1, <2>2
<1>6. ToSet(u) = ToSet(s) \cup ToSet(t)
  BY <1>4, <1>5
<1>. QED  BY <1>6 DEF u

\* A sequence of one.
LEMMA SetOfOne ==
    ASSUME NEW S, NEW x \in S
    PROVE  <<x>> \in Seq(S) /\ ToSet(<<x>>) = {x}
<1>1. DOMAIN <<x>> = {1} /\ <<x>>[1] = x
  OBVIOUS
<1>. QED  BY <1>1 DEF ToSet

\* What is in a sequence that something was appended to.
LEMMA SetOfAppend ==
    ASSUME NEW S, NEW s \in Seq(S), NEW x \in S
    PROVE  ToSet(Append(s, x)) = ToSet(s) \cup {x}
<1>1. <<x>> \in Seq(S) /\ ToSet(<<x>>) = {x}
  BY SetOfOne
<1>2. Append(s, x) = s \o <<x>>
  BY AppendIsConcat
<1>3. ASSUME NEW t \in Seq(S), t = <<x>>
      PROVE  ToSet(s \o t) = ToSet(s) \cup ToSet(t)
  BY SetOfConcat
<1>4. ToSet(s \o <<x>>) = ToSet(s) \cup ToSet(<<x>>)
  BY <1>1, <1>3
<1>. QED  BY <1>1, <1>2, <1>4, Zenon

\* The first of a sequence, and the others.
LEMMA SetOfTail ==
    ASSUME NEW S, NEW s \in Seq(S), s # <<>>
    PROVE  /\ Head(s) \in S /\ Head(s) = s[1] /\ Tail(s) \in Seq(S)
           /\ Len(s) \in Nat \ {0} /\ Len(Tail(s)) = Len(s) - 1
           /\ \A i \in 1 .. Len(s) - 1 : Tail(s)[i] = s[i + 1]
           /\ ToSet(s) = {Head(s)} \cup ToSet(Tail(s))
<1>1. /\ Head(s) \in S /\ Head(s) = s[1] /\ Tail(s) \in Seq(S)
      /\ Len(s) \in Nat \ {0} /\ Len(Tail(s)) = Len(s) - 1
      /\ \A i \in 1 .. Len(s) - 1 : Tail(s)[i] = s[i + 1]
  BY EmptySeq, HeadTailProperties
<1>2. <<Head(s)>> \in Seq(S) /\ ToSet(<<Head(s)>>) = {Head(s)}
  BY <1>1, SetOfOne
<1>3. s = <<Head(s)>> \o Tail(s)
  <2>. DEFINE u == <<Head(s)>> \o Tail(s)
  <2>1. /\ u \in Seq(S) /\ Len(u) = 1 + Len(Tail(s))
        /\ \A i \in 1 .. 1 + Len(Tail(s)) :
              u[i] = IF i <= 1 THEN <<Head(s)>>[i] ELSE Tail(s)[i - 1]
    BY <1>1, <1>2, ConcatProperties
  <2>2. \A i \in 1 .. Len(s) : s[i] = u[i]
    BY <1>1, <2>1
  <2>. HIDE DEF u
  <2>3. s = u
    BY <1>1, <2>1, <2>2, SeqEqual
  <2>. QED  BY <2>3 DEF u
<1>4. ToSet(<<Head(s)>> \o Tail(s)) = ToSet(<<Head(s)>>) \cup ToSet(Tail(s))
  <2>1. ASSUME NEW t \in Seq(S), NEW u \in Seq(S)
        PROVE  ToSet(t \o u) = ToSet(t) \cup ToSet(u)
    BY SetOfConcat
  <2>. QED  BY <1>1, <1>2, <2>1, Zenon
<1>5. ToSet(s) = {Head(s)} \cup ToSet(Tail(s))
  BY <1>2, <1>3, <1>4, Zenon
<1>. QED  BY <1>1, <1>5

\* Where each buffer is once, no two places have the same.
LEMMA OnceIsDistinct ==
    ASSUME NEW s \in Seq(Bufs), EachOnce(s)
    PROVE  \A i, j \in 1 .. NBuf : s[i] = s[j] => i = j
<1>1. NBuf \in Nat
  BY OfedAssumption
<1>2. s \in [Bufs -> Bufs] /\ DOMAIN s = Bufs
  BY DEF EachOnce, Bufs
<1>3. s \in Surjection(Bufs, Bufs)
  BY <1>2 DEF EachOnce, ToSet, Surjection
<1>4. IsFiniteSet(Bufs)
  BY <1>1, FS_Interval DEF Bufs
<1>5. s \in Injection(Bufs, Bufs)
  BY <1>3, <1>4, FS_Surjection
<1>. QED  BY <1>5 DEF Injection, IsInjective, Bufs

\* A set in some order is what is in it, once.
LEMMA SetInOrder ==
    ASSUME NEW S, IsFiniteSet(S)
    PROVE  /\ SetToSeq(S) \in Seq(S) /\ Len(SetToSeq(S)) = Cardinality(S)
           /\ ToSet(SetToSeq(S)) = S
<1>1. Cardinality(S) \in Nat /\ ExistsBijection(1 .. Cardinality(S), S)
  BY FS_CardinalityType
<1>2. \E f \in [1 .. Cardinality(S) -> S] : IsInjective(f)
  BY <1>1 DEF ExistsBijection, Bijection, Injection
<1>3. /\ SetToSeq(S) \in [1 .. Cardinality(S) -> S]
      /\ IsInjective(SetToSeq(S))
  BY <1>2 DEF SetToSeq
<1>4. SetToSeq(S) \in Injection(1 .. Cardinality(S), S)
  BY <1>3 DEF Injection
<1>5. Cardinality(1 .. Cardinality(S)) = Cardinality(S)
  BY <1>1, FS_Interval
<1>6. SetToSeq(S) \in Surjection(1 .. Cardinality(S), S)
  BY <1>4, <1>5, FS_Injection
<1>7. ToSet(SetToSeq(S)) = S
  BY <1>3, <1>6 DEF Surjection, ToSet
<1>. QED  BY <1>1, <1>3, <1>7

\* The buffers of some completions.
LEMMA IdsAre ==
    ASSUME NEW s \in Seq(Completion)
    PROVE  /\ Ids(s) \in Seq(Bufs) /\ Len(Ids(s)) = Len(s) /\ Len(s) \in Nat
           /\ \A i \in 1 .. Len(s) : Ids(s)[i] = s[i].id
           /\ ToSet(Ids(s)) = {s[i].id : i \in 1 .. Len(s)}
<1>1. /\ Len(s) \in Nat /\ DOMAIN s = 1 .. Len(s)
      /\ \A i \in 1 .. Len(s) : s[i] \in Completion
  OBVIOUS
<1>2. Ids(s) = [i \in 1 .. Len(s) |-> s[i].id]
  BY <1>1 DEF Ids
<1>3. \A i \in 1 .. Len(s) : s[i].id \in Bufs
  BY <1>1 DEF Completion
<1>4. Ids(s) \in Seq(Bufs) /\ Len(Ids(s)) = Len(s)
  BY <1>1, <1>2, <1>3
<1>5. \A i \in 1 .. Len(s) : Ids(s)[i] = s[i].id
  BY <1>2
<1>6. DOMAIN Ids(s) = 1 .. Len(s)
  BY <1>2
<1>7. ToSet(Ids(s)) = {s[i].id : i \in 1 .. Len(s)}
  BY <1>5, <1>6 DEF ToSet
<1>. QED  BY <1>1, <1>4, <1>5, <1>7

\* The buffers of the completions from the m-th to the n-th.
LEMMA PartIdsAre ==
    ASSUME NEW s \in Seq(Completion), NEW m \in 1 .. Len(s) + 1, NEW n \in m - 1 .. Len(s)
    PROVE  LET part == Ids(SubSeq(s, m, n))
           IN  /\ part \in Seq(Bufs) /\ Len(part) = n - m + 1
               /\ \A i \in 1 .. n - m + 1 : part[i] = s[m + i - 1].id
               /\ ToSet(part) = {s[i].id : i \in m .. n}
<1>. DEFINE u == SubSeq(s, m, n)
<1>1. m \in Int /\ n \in Int /\ Len(s) \in Nat /\ \A i \in m .. n : s[i] \in Completion
  OBVIOUS
<1>2. /\ u \in Seq(Completion) /\ Len(u) = n - m + 1
      /\ \A i \in 1 .. n - m + 1 : u[i] = s[m + i - 1]
  <2>1. /\ u \in Seq(Completion) /\ Len(u) = IF m <= n THEN n - m + 1 ELSE 0
        /\ \A i \in 1 .. n - m + 1 : u[i] = s[m + i - 1]
    BY <1>1, SubSeqProperties
  <2>. QED  BY <1>1, <2>1
<1>. HIDE DEF u
<1>3. /\ Ids(u) \in Seq(Bufs) /\ Len(Ids(u)) = Len(u)
      /\ \A i \in 1 .. Len(u) : Ids(u)[i] = u[i].id
      /\ ToSet(Ids(u)) = {u[i].id : i \in 1 .. Len(u)}
  BY <1>2, IdsAre
<1>4. {u[i].id : i \in 1 .. Len(u)} = {s[i].id : i \in m .. n}
  <2>1. ASSUME NEW i \in m .. n
        PROVE  \E j \in 1 .. Len(u) : u[j].id = s[i].id
    <3>1. i - m + 1 \in 1 .. n - m + 1 /\ m + (i - m + 1) - 1 = i
      BY <1>1
    <3>. QED  BY <1>2, <3>1
  <2>2. ASSUME NEW j \in 1 .. Len(u)
        PROVE  \E i \in m .. n : u[j].id = s[i].id
    <3>1. m + j - 1 \in m .. n
      BY <1>1, <1>2
    <3>. QED  BY <1>2, <3>1
  <2>3. ASSUME NEW x
        PROVE  x \in {u[i].id : i \in 1 .. Len(u)} <=> x \in {s[i].id : i \in m .. n}
    <3>1. x \in {u[i].id : i \in 1 .. Len(u)} <=> \E j \in 1 .. Len(u) : x = u[j].id
      OBVIOUS
    <3>2. x \in {s[i].id : i \in m .. n} <=> \E i \in m .. n : x = s[i].id
      OBVIOUS
    <3>. QED  BY <2>1, <2>2, <3>1, <3>2
  <2>. QED  BY <2>3
<1>5. /\ Ids(u) \in Seq(Bufs) /\ Len(Ids(u)) = n - m + 1
      /\ \A i \in 1 .. n - m + 1 : Ids(u)[i] = s[m + i - 1].id
      /\ ToSet(Ids(u)) = {s[i].id : i \in m .. n}
  BY <1>2, <1>3, <1>4
<1>. QED  BY <1>5 DEF u

-----------------------------------------------------------------------------
(***************************************************************************)
(* The places of the buffers.                                              *)
(***************************************************************************)

\* Two sequences, one after the other, by their places.
LEMMA ConcatIs ==
    ASSUME NEW s \in Seq(Bufs), NEW t \in Seq(Bufs)
    PROVE  /\ s \o t \in Seq(Bufs) /\ Len(s \o t) = Len(s) + Len(t)
           /\ Len(s) \in Nat /\ Len(t) \in Nat
           /\ \A i \in 1 .. Len(s) : (s \o t)[i] = s[i]
           /\ \A i \in 1 .. Len(t) : (s \o t)[Len(s) + i] = t[i]
           /\ ToSet(s \o t) = ToSet(s) \cup ToSet(t)
BY SetOfConcat

\* The list of the receive buffers has each of them once.
LEMMA ReceiveListIs ==
    ASSUME TypeOK, ReceiveIsWhole
    PROVE  LET list == posted \o Ids(rcq) \o Ids(SubSeq(wc, pre + 1, Len(wc)))
           IN  /\ list \in Seq(Bufs) /\ EachOnce(list)
               /\ \A i \in 1 .. Len(posted) : list[i] = posted[i]
               /\ \A i \in 1 .. Len(rcq) : list[Len(posted) + i] = rcq[i].id
               /\ \A i \in pre + 1 .. Len(wc) :
                     list[Len(posted) + Len(rcq) + (i - pre)] = wc[i].id
<1>1. /\ posted \in Seq(Bufs) /\ rcq \in Seq(Completion) /\ wc \in Seq(Completion)
      /\ pre \in 0 .. Len(wc) /\ Len(wc) \in Nat
  BY DEF TypeOK
<1>. DEFINE a == Ids(rcq)
            b == Ids(SubSeq(wc, pre + 1, Len(wc)))
<1>2. /\ a \in Seq(Bufs) /\ Len(a) = Len(rcq)
      /\ \A i \in 1 .. Len(rcq) : a[i] = rcq[i].id
  BY <1>1, IdsAre
<1>3. /\ b \in Seq(Bufs) /\ Len(b) = Len(wc) - pre
      /\ \A i \in 1 .. Len(wc) - pre : b[i] = wc[pre + i].id
      /\ ToSet(b) = {wc[i].id : i \in pre + 1 .. Len(wc)}
  <2>1. pre + 1 \in 1 .. Len(wc) + 1 /\ Len(wc) \in (pre + 1) - 1 .. Len(wc)
    BY <1>1
  <2>2. /\ b \in Seq(Bufs) /\ Len(b) = Len(wc) - (pre + 1) + 1
        /\ \A i \in 1 .. Len(wc) - (pre + 1) + 1 : b[i] = wc[(pre + 1) + i - 1].id
        /\ ToSet(b) = {wc[i].id : i \in pre + 1 .. Len(wc)}
    BY <1>1, <2>1, PartIdsAre
  <2>3. /\ Len(wc) - (pre + 1) + 1 = Len(wc) - pre
        /\ \A i \in 1 .. Len(wc) - pre : (pre + 1) + i - 1 = pre + i
    BY <1>1
  <2>. HIDE DEF b
  <2>. QED  BY <2>2, <2>3
<1>4. /\ Len(posted) + Len(a) + Len(b) = NBuf
      /\ ToSet(posted) \cup ToSet(a) \cup ToSet(b) = Bufs
  BY <1>2, <1>3 DEF ReceiveIsWhole
<1>. HIDE DEF a, b
<1>. DEFINE u == posted \o a
<1>5. /\ u \in Seq(Bufs) /\ Len(u) = Len(posted) + Len(a)
      /\ Len(posted) \in Nat /\ Len(a) \in Nat
      /\ \A i \in 1 .. Len(posted) : u[i] = posted[i]
      /\ \A i \in 1 .. Len(a) : u[Len(posted) + i] = a[i]
      /\ ToSet(u) = ToSet(posted) \cup ToSet(a)
  BY <1>1, <1>2, ConcatIs
<1>. HIDE DEF u
<1>. DEFINE list == u \o b
<1>6. /\ list \in Seq(Bufs) /\ Len(list) = Len(u) + Len(b)
      /\ \A i \in 1 .. Len(u) : list[i] = u[i]
      /\ \A i \in 1 .. Len(b) : list[Len(u) + i] = b[i]
      /\ ToSet(list) = ToSet(u) \cup ToSet(b)
  BY <1>3, <1>5, ConcatIs
<1>. HIDE DEF list
<1>7. EachOnce(list)
  BY <1>4, <1>5, <1>6 DEF EachOnce
<1>8. \A i \in 1 .. Len(posted) : list[i] = posted[i]
  BY <1>2, <1>5, <1>6
<1>9. \A i \in 1 .. Len(rcq) : list[Len(posted) + i] = rcq[i].id
  BY <1>2, <1>5, <1>6
<1>10. \A i \in pre + 1 .. Len(wc) : list[Len(posted) + Len(rcq) + (i - pre)] = wc[i].id
  <2>1. ASSUME NEW i \in pre + 1 .. Len(wc)
        PROVE  list[Len(posted) + Len(rcq) + (i - pre)] = wc[i].id
    <3>1. i - pre \in 1 .. Len(b) /\ pre + (i - pre) = i
      BY <1>1, <1>3
    <3>2. list[Len(u) + (i - pre)] = b[i - pre]
      BY <1>6, <3>1
    <3>. QED  BY <1>2, <1>3, <1>5, <3>1, <3>2
  <2>. QED  BY <2>1
<1>. QED  BY <1>6, <1>7, <1>8, <1>9, <1>10 DEF list, u, a, b

\* A buffer that is posted holds no frame that waits.
LEMMA PostedIsElsewhere ==
    ASSUME TypeOK, PollIsRight, ReceiveIsWhole, posted # <<>>
    PROVE  /\ \A i \in 1 .. Len(rcq) : rcq[i].id # Head(posted)
           /\ \A i \in done + 1 .. Len(wc) : wc[i].id # Head(posted)
<1>. DEFINE list == posted \o Ids(rcq) \o Ids(SubSeq(wc, pre + 1, Len(wc)))
<1>1. /\ list \in Seq(Bufs) /\ EachOnce(list)
      /\ \A i \in 1 .. Len(posted) : list[i] = posted[i]
      /\ \A i \in 1 .. Len(rcq) : list[Len(posted) + i] = rcq[i].id
      /\ \A i \in pre + 1 .. Len(wc) :
            list[Len(posted) + Len(rcq) + (i - pre)] = wc[i].id
  BY ReceiveListIs
<1>. HIDE DEF list
<1>2. \A i, j \in 1 .. NBuf : list[i] = list[j] => i = j
  BY <1>1, OnceIsDistinct
<1>3. /\ Len(posted) \in Nat \ {0} /\ Head(posted) = posted[1] /\ Len(rcq) \in Nat
      /\ Len(wc) \in Nat /\ pre \in 0 .. Len(wc) /\ done \in 0 .. Len(wc)
      /\ pre <= done
  BY EmptySeq DEF TypeOK, PollIsRight
<1>4. Len(posted) + Len(rcq) + (Len(wc) - pre) = NBuf
  BY DEF ReceiveIsWhole
<1>5. list[1] = Head(posted) /\ 1 \in 1 .. NBuf
  BY <1>1, <1>3, <1>4
<1>6. ASSUME NEW i \in 1 .. Len(rcq)
      PROVE  rcq[i].id # Head(posted)
  <2>1. Len(posted) + i \in 1 .. NBuf /\ Len(posted) + i # 1
    BY <1>3, <1>4
  <2>. QED  BY <1>1, <1>2, <1>5, <2>1
<1>7. ASSUME NEW i \in done + 1 .. Len(wc)
      PROVE  wc[i].id # Head(posted)
  <2>1. /\ i \in pre + 1 .. Len(wc)
        /\ Len(posted) + Len(rcq) + (i - pre) \in 1 .. NBuf
        /\ Len(posted) + Len(rcq) + (i - pre) # 1
    BY <1>3, <1>4
  <2>. QED  BY <1>1, <1>2, <1>5, <2>1
<1>. QED  BY <1>6, <1>7

\* The list of the send buffers has each of them once.
LEMMA SendListIs ==
    ASSUME TypeOK, SendIsWhole
    PROVE  LET list == free \o SetToSeq(held) \o sq \o scq
               n == Cardinality(held)
           IN  /\ list \in Seq(Bufs) /\ EachOnce(list) /\ n \in Nat
               /\ ToSet(SetToSeq(held)) = held /\ DOMAIN SetToSeq(held) = 1 .. n
               /\ \A i \in 1 .. Len(free) : list[i] = free[i]
               /\ \A i \in 1 .. n : list[Len(free) + i] = SetToSeq(held)[i]
               /\ \A i \in 1 .. Len(sq) : list[Len(free) + n + i] = sq[i]
               /\ \A i \in 1 .. Len(scq) : list[Len(free) + n + Len(sq) + i] = scq[i]
<1>1. /\ free \in Seq(Bufs) /\ sq \in Seq(Bufs) /\ scq \in Seq(Bufs) /\ held \subseteq Bufs
  BY DEF TypeOK
<1>2. IsFiniteSet(held)
  <2>1. IsFiniteSet(Bufs)
    BY OfedAssumption, FS_Interval DEF Bufs
  <2>. QED  BY <1>1, <2>1, FS_Subset
<1>. DEFINE h == SetToSeq(held)
            n == Cardinality(held)
<1>3. h \in Seq(Bufs) /\ Len(h) = n /\ ToSet(h) = held /\ n \in Nat /\ DOMAIN h = 1 .. n
  <2>1. h \in Seq(held) /\ Len(h) = n /\ ToSet(h) = held
    BY <1>2, SetInOrder
  <2>2. h \in Seq(Bufs)
    BY <1>1, <2>1, SeqMonotonic
  <2>3. n \in Nat
    BY <1>2, FS_CardinalityType
  <2>. QED  BY <2>1, <2>2, <2>3
<1>. HIDE DEF h, n
<1>. DEFINE u == free \o h
<1>4. /\ u \in Seq(Bufs) /\ Len(u) = Len(free) + Len(h) /\ Len(free) \in Nat
      /\ \A i \in 1 .. Len(free) : u[i] = free[i]
      /\ \A i \in 1 .. Len(h) : u[Len(free) + i] = h[i]
      /\ ToSet(u) = ToSet(free) \cup ToSet(h)
  BY <1>1, <1>3, ConcatIs
<1>. HIDE DEF u
<1>. DEFINE v == u \o sq
<1>5. /\ v \in Seq(Bufs) /\ Len(v) = Len(u) + Len(sq) /\ Len(sq) \in Nat
      /\ \A i \in 1 .. Len(u) : v[i] = u[i]
      /\ \A i \in 1 .. Len(sq) : v[Len(u) + i] = sq[i]
      /\ ToSet(v) = ToSet(u) \cup ToSet(sq)
  BY <1>1, <1>4, ConcatIs
<1>. HIDE DEF v
<1>. DEFINE list == v \o scq
<1>6. /\ list \in Seq(Bufs) /\ Len(list) = Len(v) + Len(scq) /\ Len(scq) \in Nat
      /\ \A i \in 1 .. Len(v) : list[i] = v[i]
      /\ \A i \in 1 .. Len(scq) : list[Len(v) + i] = scq[i]
      /\ ToSet(list) = ToSet(v) \cup ToSet(scq)
  BY <1>1, <1>5, ConcatIs
<1>. HIDE DEF list
<1>7. EachOnce(list)
  <2>1. Len(free) + n + Len(sq) + Len(scq) = NBuf
    BY DEF SendIsWhole, n
  <2>2. ToSet(free) \cup held \cup ToSet(sq) \cup ToSet(scq) = Bufs
    BY DEF SendIsWhole
  <2>3. Len(list) = NBuf
    BY <1>3, <1>4, <1>5, <1>6, <2>1
  <2>4. ToSet(list) = Bufs
    BY <1>3, <1>4, <1>5, <1>6, <2>2
  <2>. QED  BY <2>3, <2>4 DEF EachOnce
<1>8. Len(u) = Len(free) + n /\ Len(v) = Len(free) + n + Len(sq)
  BY <1>3, <1>4, <1>5
<1>9. \A i \in 1 .. Len(free) : list[i] = free[i]
  BY <1>3, <1>4, <1>5, <1>6, <1>8
<1>10. ASSUME NEW i \in 1 .. n
       PROVE  list[Len(free) + i] = h[i]
  <2>1. Len(free) + i \in 1 .. Len(u) /\ Len(free) + i \in 1 .. Len(v)
    BY <1>3, <1>4, <1>5, <1>8
  <2>. QED  BY <1>3, <1>4, <1>5, <1>6, <2>1
<1>11. \A i \in 1 .. Len(sq) : list[Len(free) + n + i] = sq[i]
  BY <1>3, <1>4, <1>5, <1>6, <1>8
<1>12. \A i \in 1 .. Len(scq) : list[Len(free) + n + Len(sq) + i] = scq[i]
  BY <1>6, <1>8
<1>. QED  BY <1>3, <1>6, <1>7, <1>9, <1>10, <1>11, <1>12 DEF list, v, u, h, n

\* A prepared buffer is not posted, and one that prepare() gives is neither.
LEMMA SendBuffersAreElsewhere ==
    ASSUME TypeOK, SendIsWhole
    PROVE  /\ held \cap ToSet(sq) = {}
           /\ \A i, j \in 1 .. Len(sq) : sq[i] = sq[j] => i = j
           /\ free \o scq \in Seq(Bufs)
           /\ free \o scq # <<>> => Head(free \o scq) \notin held \cup ToSet(sq)
<1>. DEFINE list == free \o SetToSeq(held) \o sq \o scq
            n == Cardinality(held)
            avail == free \o scq
<1>1. /\ list \in Seq(Bufs) /\ EachOnce(list) /\ n \in Nat
      /\ ToSet(SetToSeq(held)) = held /\ DOMAIN SetToSeq(held) = 1 .. n
      /\ \A i \in 1 .. Len(free) : list[i] = free[i]
      /\ \A i \in 1 .. n : list[Len(free) + i] = SetToSeq(held)[i]
      /\ \A i \in 1 .. Len(sq) : list[Len(free) + n + i] = sq[i]
      /\ \A i \in 1 .. Len(scq) : list[Len(free) + n + Len(sq) + i] = scq[i]
  BY SendListIs
<1>2. /\ free \in Seq(Bufs) /\ sq \in Seq(Bufs) /\ scq \in Seq(Bufs)
      /\ Len(free) \in Nat /\ Len(sq) \in Nat /\ Len(scq) \in Nat
      /\ DOMAIN sq = 1 .. Len(sq)
  BY DEF TypeOK
<1>3. Len(free) + n + Len(sq) + Len(scq) = NBuf
  BY DEF SendIsWhole
<1>. HIDE DEF list, n
<1>4. \A i, j \in 1 .. NBuf : list[i] = list[j] => i = j
  BY <1>1, OnceIsDistinct
<1>5. \A x \in held : \E i \in 1 .. n : x = list[Len(free) + i]
  <2>1. \A x \in held : \E i \in 1 .. n : x = SetToSeq(held)[i]
    BY <1>1 DEF ToSet
  <2>. QED  BY <1>1, <2>1, ZenonT(30)
<1>6. \A x \in ToSet(sq) : \E i \in 1 .. Len(sq) : x = list[Len(free) + n + i]
  <2>1. \A x \in ToSet(sq) : \E i \in 1 .. Len(sq) : x = sq[i]
    BY <1>2 DEF ToSet
  <2>. QED  BY <1>1, <2>1, SMTT(30)
<1>7. held \cap ToSet(sq) = {}
  <2>1. SUFFICES ASSUME NEW i \in 1 .. n, NEW j \in 1 .. Len(sq),
                        list[Len(free) + i] = list[Len(free) + n + j]
                 PROVE  FALSE
    BY <1>5, <1>6
  <2>2. /\ Len(free) + i \in 1 .. NBuf /\ Len(free) + n + j \in 1 .. NBuf
        /\ Len(free) + i # Len(free) + n + j
    BY <1>1, <1>2, <1>3
  <2>. QED  BY <1>4, <2>1, <2>2
<1>8. \A i, j \in 1 .. Len(sq) : sq[i] = sq[j] => i = j
  <2>1. \A i \in 1 .. Len(sq) : Len(free) + n + i \in 1 .. NBuf
    BY <1>1, <1>2, <1>3
  <2>2. \A i, j \in 1 .. Len(sq) : Len(free) + n + i = Len(free) + n + j => i = j
    BY <1>1, <1>2
  <2>. QED  BY <1>1, <1>4, <2>1, <2>2
<1>9. /\ avail \in Seq(Bufs) /\ Len(avail) = Len(free) + Len(scq)
      /\ \A i \in 1 .. Len(free) : avail[i] = free[i]
      /\ \A i \in 1 .. Len(scq) : avail[Len(free) + i] = scq[i]
  BY <1>2, ConcatIs
<1>. HIDE DEF avail
<1>10. ASSUME avail # <<>>
       PROVE  Head(avail) \notin held \cup ToSet(sq)
  <2>1. Head(avail) = avail[1] /\ Len(avail) \in Nat \ {0}
    BY <1>9, <1>10, EmptySeq
  <2>2. PICK k \in 1 .. NBuf :
            /\ Head(avail) = list[k]
            /\ k <= Len(free) \/ k > Len(free) + n + Len(sq)
    <3>1. CASE Len(free) > 0
      <4>1. 1 \in 1 .. Len(free) /\ 1 \in 1 .. NBuf
        BY <1>1, <1>2, <1>3, <3>1
      <4>2. Head(avail) = list[1]
        BY <1>1, <1>9, <2>1, <4>1
      <4>. QED  BY <4>1, <4>2
    <3>2. CASE Len(free) = 0
      <4>1. 1 \in 1 .. Len(scq) /\ Head(avail) = scq[1]
        BY <1>2, <1>9, <2>1, <3>2
      <4>2. /\ Len(free) + n + Len(sq) + 1 \in 1 .. NBuf
            /\ list[Len(free) + n + Len(sq) + 1] = scq[1]
        BY <1>1, <1>2, <1>3, <4>1
      <4>. QED  BY <1>1, <1>2, <4>1, <4>2
    <3>. QED  BY <1>2, <3>1, <3>2
  <2>3. Head(avail) \notin held
    <3>1. \A i \in 1 .. n : Len(free) + i \in 1 .. NBuf /\ Len(free) + i # k
      BY <1>1, <1>2, <1>3, <2>2
    <3>. QED  BY <1>4, <1>5, <2>2, <3>1
  <2>4. Head(avail) \notin ToSet(sq)
    <3>1. \A i \in 1 .. Len(sq) : Len(free) + n + i \in 1 .. NBuf /\ Len(free) + n + i # k
      BY <1>1, <1>2, <1>3, <2>2
    <3>. QED  BY <1>4, <1>6, <2>2, <3>1
  <2>. QED  BY <2>3, <2>4
<1>. QED  BY <1>7, <1>8, <1>9, <1>10 DEF avail

-----------------------------------------------------------------------------
(***************************************************************************)
(* Steps that receive.                                                     *)
(***************************************************************************)

\* What a step that receives has to leave as it should be.
LEMMA ReceiveStep ==
    ASSUME OfedInv, UNCHANGED tx, ReceiveTypeOK', PollIsRight', ReceiveIsWhole',
           EventsAreCounted', arrived' \in 0 .. MaxFrames
    PROVE  OfedInv'
<1>1. UNCHANGED <<free, held, sq, scq, out, wire, commits>>
  BY DEF tx
<1>2. TypeOK'
  BY <1>1 DEF OfedInv, TypeOK, ReceiveTypeOK
<1>3. SendIsWhole' /\ SentInOrder'
  BY <1>1 DEF OfedInv, SendIsWhole, SentInOrder, SentAsCommitted
<1>. QED  BY <1>2, <1>3 DEF OfedInv

\* Nothing is taken, processed or posted.
LEMMA CallMoves ==
    ASSUME OfedInv, UNCHANGED <<posted, rcq, data, wc, done, pre, pending, arrived, tx>>,
           call # "busy", call' \in {"none", "asleep", "closed"},
           events' \in 0 .. EventThreshold + 1, channel' \in Nat, unacked' \in Nat,
           EventsAreCounted'
    PROVE  OfedInv'
<1>1. ReceiveTypeOK'
  BY DEF OfedInv, TypeOK, ReceiveTypeOK
<1>2. PollIsRight' /\ ReceiveIsWhole'
  BY DEF OfedInv, PollIsRight, ReceiveIsWhole
<1>. QED  BY <1>1, <1>2, ReceiveStep DEF OfedInv

\* A frame goes into the first buffer that is posted, and completes it.
LEMMA ArriveKeeps ==
    ASSUME OfedInv, NEW ok \in BOOLEAN, Arrive(ok)
    PROVE  OfedInv'
<1>. USE DEF OfedInv
<1>. DEFINE c == [id |-> Head(posted), ok |-> ok]
<1>1. /\ arrived < MaxFrames /\ posted # <<>> /\ arrived' = arrived + 1
      /\ data' = [data EXCEPT ![Head(posted)] = arrived']
      /\ rcq' = Append(rcq, c) /\ posted' = Tail(posted)
      /\ channel' = IF armed THEN channel + 1 ELSE channel
      /\ UNCHANGED <<call, wc, done, pre, pending, events, unacked, tx>>
  BY DEF Arrive
<1>2. /\ Head(posted) \in Bufs /\ posted' \in Seq(Bufs)
      /\ Len(posted) \in Nat \ {0} /\ Len(posted') = Len(posted) - 1
      /\ ToSet(posted) = {Head(posted)} \cup ToSet(posted')
  BY <1>1, SetOfTail DEF TypeOK
<1>3. c \in Completion
  BY <1>2 DEF Completion
<1>4. rcq' \in Seq(Completion) /\ Len(rcq') = Len(rcq) + 1
  BY <1>1, <1>3 DEF TypeOK
<1>5. ToSet(Ids(rcq')) = ToSet(Ids(rcq)) \cup {Head(posted)}
  <2>1. /\ Ids(rcq) \in Seq(Bufs) /\ Len(Ids(rcq)) = Len(rcq) /\ Len(rcq) \in Nat
        /\ \A i \in 1 .. Len(rcq) : Ids(rcq)[i] = rcq[i].id
    BY IdsAre DEF TypeOK
  <2>2. /\ Ids(rcq') \in Seq(Bufs) /\ Len(Ids(rcq')) = Len(rcq')
        /\ \A i \in 1 .. Len(rcq') : Ids(rcq')[i] = rcq'[i].id
    BY <1>4, IdsAre
  <2>3. /\ \A i \in 1 .. Len(rcq) : rcq'[i] = rcq[i]
        /\ rcq'[Len(rcq) + 1].id = Head(posted)
    BY <1>1, <1>3, AppendProperties DEF TypeOK
  <2>. DEFINE t == Append(Ids(rcq), Head(posted))
  <2>4. /\ t \in Seq(Bufs) /\ Len(t) = Len(rcq) + 1 /\ t[Len(rcq) + 1] = Head(posted)
        /\ \A i \in 1 .. Len(rcq) : t[i] = Ids(rcq)[i]
    BY <1>2, <2>1, AppendProperties
  <2>. HIDE DEF t
  <2>5. \A i \in 1 .. Len(t) : Ids(rcq')[i] = t[i]
    BY <1>4, <2>1, <2>2, <2>3, <2>4
  <2>6. Ids(rcq') = t
    BY <1>4, <2>2, <2>4, <2>5, SeqEqual
  <2>7. ToSet(t) = ToSet(Ids(rcq)) \cup {Head(posted)}
    BY <1>2, <2>1, SetOfAppend DEF t
  <2>. QED  BY <2>6, <2>7
<1>6. arrived' \in 0 .. MaxFrames
  BY <1>1, OfedAssumption
<1>7. ReceiveTypeOK'
  BY <1>1, <1>2, <1>4, <1>6 DEF TypeOK, ReceiveTypeOK
<1>8. PollIsRight' /\ EventsAreCounted'
  BY <1>1 DEF PollIsRight, EventsAreCounted
<1>9. ReceiveIsWhole'
  <2>1. Len(posted') + Len(rcq') + (Len(wc) - pre) = NBuf
    <3>1. Len(rcq) \in Nat /\ Len(wc) - pre \in Int
      BY DEF TypeOK
    <3>. QED  BY <1>2, <1>4, <3>1 DEF ReceiveIsWhole
  <2>2. ToSet(posted') \cup ToSet(Ids(rcq')) = ToSet(posted) \cup ToSet(Ids(rcq))
    BY <1>2, <1>5
  <2>. QED  BY <1>1, <2>1, <2>2 DEF ReceiveIsWhole
<1>. QED  BY <1>1, <1>6, <1>7, <1>8, <1>9, ReceiveStep

\* poll() takes what the queue has, or nothing.
LEMMA TakeKeeps ==
    ASSUME OfedInv, TakeCompletions, call \in {"none", "asleep"},
           UNCHANGED <<data, arrived, tx>>,
           events' \in 0 .. EventThreshold + 1, channel' \in Nat, unacked' \in Nat,
           unacked' = events', events' <= EventThreshold
    PROVE  OfedInv'
<1>. USE DEF OfedInv
<1>1. wc = <<>> /\ done = 0 /\ pre = 0 /\ pending = 0 /\ Len(wc) = 0
  BY DEF PollIsRight
<1>2. CASE rcq = <<>>
  <2>1. call' = "none" /\ UNCHANGED <<posted, rcq, wc, done, pre, pending>>
    BY <1>2 DEF TakeCompletions
  <2>2. EventsAreCounted'
    BY <2>1 DEF EventsAreCounted
  <2>. QED  BY <2>1, <2>2, CallMoves
<1>3. CASE rcq # <<>>
  <2>1. /\ call' = "busy" /\ wc' = rcq /\ rcq' = <<>> /\ done' = 0 /\ pre' = 0
        /\ pending' = Len(rcq) /\ posted' = posted
    BY <1>3 DEF TakeCompletions
  <2>2. /\ Ids(rcq) \in Seq(Bufs) /\ Len(rcq) \in Nat
        /\ ToSet(Ids(rcq)) = {rcq[i].id : i \in 1 .. Len(rcq)}
    BY IdsAre DEF TypeOK
  <2>3. ToSet(Ids(rcq')) = {} /\ Len(rcq') = 0
    <3>1. rcq' \in Seq(Completion) /\ Len(rcq') = 0
      BY <2>1
    <3>2. ToSet(Ids(rcq')) = {rcq'[i].id : i \in 1 .. Len(rcq')}
      BY <3>1, IdsAre
    <3>. QED  BY <3>1, <3>2
  <2>4. {wc[i].id : i \in pre + 1 .. Len(wc)} = {}
    BY <1>1
  <2>5. {wc'[i].id : i \in pre' + 1 .. Len(wc')} = ToSet(Ids(rcq))
    BY <2>1, <2>2
  <2>6. Len(posted) + Len(rcq) = NBuf /\ Len(posted) \in Nat
    BY <1>1, <2>2 DEF ReceiveIsWhole, TypeOK
  <2>7. ReceiveIsWhole'
    <3>1. ToSet(posted) \cup ToSet(Ids(rcq)) = Bufs
      BY <2>4 DEF ReceiveIsWhole
    <3>2. Len(posted') + Len(rcq') + (Len(wc') - pre') = NBuf
      BY <2>1, <2>2, <2>3, <2>6
    <3>. QED  BY <2>1, <2>3, <2>5, <3>1, <3>2 DEF ReceiveIsWhole
  <2>8. PollIsRight' /\ EventsAreCounted'
    BY <2>1, <2>2, OfedAssumption DEF PollIsRight, EventsAreCounted
  <2>9. ReceiveTypeOK'
    BY <2>1, <2>2, <2>6, OfedAssumption DEF ReceiveTypeOK, TypeOK
  <2>. QED  BY <2>7, <2>8, <2>9, ReceiveStep
<1>. QED  BY <1>2, <1>3

\* The buffers from the m-th to the n-th are posted again.
LEMMA PostedAgain ==
    ASSUME OfedInv, NEW n \in pre .. Len(wc),
           posted' = posted \o Ids(SubSeq(wc, pre + 1, n))
    PROVE  /\ posted' \in Seq(Bufs) /\ Len(posted') = Len(posted) + (n - pre)
           /\ Len(posted) \in Nat
           /\ ToSet(posted') \cup {wc[i].id : i \in n + 1 .. Len(wc)} =
                 ToSet(posted) \cup {wc[i].id : i \in pre + 1 .. Len(wc)}
<1>1. /\ posted \in Seq(Bufs) /\ wc \in Seq(Completion) /\ pre \in 0 .. Len(wc)
      /\ Len(wc) \in Nat
  BY DEF OfedInv, TypeOK
<1>. DEFINE part == Ids(SubSeq(wc, pre + 1, n))
<1>2. /\ part \in Seq(Bufs) /\ Len(part) = n - pre
      /\ ToSet(part) = {wc[i].id : i \in pre + 1 .. n}
  <2>1. pre + 1 \in 1 .. Len(wc) + 1 /\ n \in (pre + 1) - 1 .. Len(wc)
    BY <1>1
  <2>2. /\ part \in Seq(Bufs) /\ Len(part) = n - (pre + 1) + 1
        /\ ToSet(part) = {wc[i].id : i \in pre + 1 .. n}
    BY <1>1, <2>1, PartIdsAre
  <2>. HIDE DEF part
  <2>. QED  BY <1>1, <2>2
<1>. HIDE DEF part
<1>3. /\ posted' \in Seq(Bufs) /\ Len(posted') = Len(posted) + Len(part)
      /\ Len(posted) \in Nat
      /\ ToSet(posted') = ToSet(posted) \cup ToSet(part)
  BY <1>1, <1>2, ConcatIs DEF part
<1>4. {wc[i].id : i \in pre + 1 .. n} \cup {wc[i].id : i \in n + 1 .. Len(wc)} =
         {wc[i].id : i \in pre + 1 .. Len(wc)}
  <2>1. pre + 1 .. Len(wc) = (pre + 1 .. n) \cup (n + 1 .. Len(wc))
    BY <1>1
  <2>. QED  BY <2>1
<1>. QED  BY <1>2, <1>3, <1>4

\* What poll() posts again was processed: it posts PostThreshold buffers at a time,
\* and not before it has processed one more than it posted.
LEMMA PostedInTime ==
    ASSUME NEW a \in Nat, NEW b \in Nat, a < b,
           a % PostThreshold = 0, b % PostThreshold = 0
    PROVE  a + PostThreshold <= b /\ (a + PostThreshold) % PostThreshold = 0
<1>. DEFINE m == PostThreshold
            p == a \div m
            q == b \div m
<1>1. m \in Nat \ {0} /\ p \in Nat /\ q \in Nat
  BY OfedAssumption
<1>2. a = m * p /\ b = m * q
  BY <1>1
<1>. HIDE DEF m, p, q
<1>3. p + 1 <= q
  <2>1. SUFFICES ASSUME q <= p
                 PROVE  FALSE
    BY <1>1
  <2>2. m * q <= m * p
    BY <1>1, <2>1
  <2>. QED  BY <1>2, <2>2
<1>4. m * (p + 1) <= m * q /\ m * (p + 1) = m * p + m
  BY <1>1, <1>3
<1>5. (m * (p + 1)) % m = 0
  BY <1>1
<1>. QED  BY <1>1, <1>2, <1>4, <1>5 DEF m

\* One completion is processed: skipped, or taken.
LEMMA ProcessKeeps ==
    ASSUME OfedInv, Process
    PROVE  OfedInv'
<1>. USE DEF OfedInv
<1>1. /\ call = "busy" /\ call' = "busy" /\ done < Len(wc) /\ done' = done + 1
      /\ UNCHANGED <<rcq, data, channel, wc, events, unacked, arrived, tx>>
  BY DEF Process, Skip, Take
<1>2. /\ Len(wc) \in Nat /\ done \in 0 .. Len(wc) /\ pre \in 0 .. Len(wc)
      /\ pending \in 0 .. NBuf
  BY DEF TypeOK
<1>3. PICK n \in pre .. Len(wc) :
          /\ n <= done /\ n % PostThreshold = 0
          /\ pre' = n /\ pending' = Len(wc) - n
          /\ \/ n = pre /\ posted' = posted
             \/ posted' = posted \o Ids(SubSeq(wc, pre + 1, n))
  <2>1. CASE UNCHANGED <<posted, pre, pending>>
    <3>1. pre <= done
      BY <1>2 DEF PollIsRight
    <3>. QED  BY <1>2, <2>1, <3>1 DEF PollIsRight
  <2>2. CASE /\ done > 0 /\ done % PostThreshold = 0
             /\ posted' = posted \o Ids(SubSeq(wc, pre + 1, pre + PostThreshold))
             /\ pre' = pre + PostThreshold /\ pending' = pending - PostThreshold
    <3>1. pre + PostThreshold <= done /\ (pre + PostThreshold) % PostThreshold = 0
      BY <1>2, <2>2, PostedInTime DEF PollIsRight
    <3>2. PostThreshold \in Nat
      BY OfedAssumption
    <3>3. pre + PostThreshold \in pre .. Len(wc)
      BY <1>2, <3>1, <3>2
    <3>4. pending' = Len(wc) - (pre + PostThreshold)
      BY <1>2, <2>2, <3>2 DEF PollIsRight
    <3>. QED  BY <2>2, <3>1, <3>3, <3>4
  <2>. QED  BY <2>1, <2>2 DEF Process, Skip, Take
<1>4. /\ posted' \in Seq(Bufs) /\ Len(posted') = Len(posted) + (n - pre)
      /\ Len(posted) \in Nat
      /\ ToSet(posted') \cup {wc[i].id : i \in n + 1 .. Len(wc)} =
            ToSet(posted) \cup {wc[i].id : i \in pre + 1 .. Len(wc)}
  <2>1. CASE n = pre /\ posted' = posted
    BY <1>2, <2>1 DEF TypeOK
  <2>2. CASE posted' = posted \o Ids(SubSeq(wc, pre + 1, n))
    BY <2>2, PostedAgain
  <2>. QED  BY <1>3, <2>1, <2>2
<1>5. Len(rcq) \in Nat /\ Len(posted') \in Nat /\ NBuf \in Nat
  BY <1>4, OfedAssumption DEF TypeOK
<1>6. ReceiveIsWhole'
  <2>1. Len(posted') + Len(rcq') + (Len(wc') - pre') = NBuf
    BY <1>1, <1>2, <1>3, <1>4, <1>5, SMTT(30) DEF ReceiveIsWhole
  <2>2. ToSet(posted') \cup ToSet(Ids(rcq')) \cup {wc'[i].id : i \in pre' + 1 .. Len(wc')} =
           Bufs
    BY <1>1, <1>3, <1>4 DEF ReceiveIsWhole
  <2>. QED  BY <2>1, <2>2 DEF ReceiveIsWhole
<1>7. PollIsRight'
  BY <1>1, <1>2, <1>3 DEF PollIsRight
<1>8. EventsAreCounted'
  BY <1>1 DEF EventsAreCounted
<1>9. ReceiveTypeOK'
  <2>1. Len(posted') + Len(rcq) + (Len(wc) - n) = NBuf
    BY <1>1, <1>3, <1>6 DEF ReceiveIsWhole
  <2>2. pending' \in 0 .. NBuf
    BY <1>2, <1>3, <1>5, <2>1
  <2>. QED  BY <1>1, <1>2, <1>3, <1>4, <2>2, SMTT(30) DEF ReceiveTypeOK, TypeOK
<1>. QED  BY <1>1, <1>6, <1>7, <1>8, <1>9, ReceiveStep

\* poll() ends: it posts the rest.
LEMMA FinishKeeps ==
    ASSUME OfedInv, Finish
    PROVE  OfedInv'
<1>. USE DEF OfedInv
<1>1. /\ call = "busy" /\ call' = "none" /\ wc' = <<>> /\ done' = 0 /\ pre' = 0
      /\ pending' = 0 /\ posted' = posted \o Ids(SubSeq(wc, pre + 1, Len(wc)))
      /\ UNCHANGED <<rcq, data, channel, events, unacked, arrived, tx>>
  BY DEF Finish
<1>2. Len(wc) \in pre .. Len(wc) /\ Len(wc) \in Nat /\ pre \in 0 .. Len(wc) /\ Len(rcq) \in Nat
  BY DEF TypeOK
<1>3. /\ posted' \in Seq(Bufs) /\ Len(posted') = Len(posted) + (Len(wc) - pre)
      /\ Len(posted) \in Nat
      /\ ToSet(posted') \cup {wc[i].id : i \in Len(wc) + 1 .. Len(wc)} =
            ToSet(posted) \cup {wc[i].id : i \in pre + 1 .. Len(wc)}
  BY <1>1, <1>2, PostedAgain
<1>4. /\ {wc[i].id : i \in Len(wc) + 1 .. Len(wc)} = {}
      /\ {wc'[i].id : i \in pre' + 1 .. Len(wc')} = {}
  BY <1>1, <1>2
<1>5. ReceiveIsWhole'
  <2>1. Len(posted) + Len(rcq) + (Len(wc) - pre) = NBuf
    BY DEF ReceiveIsWhole
  <2>2. Len(posted') + Len(rcq) = NBuf /\ Len(posted') \in Nat
    BY <1>2, <1>3, <2>1
  <2>3. Len(posted') + Len(rcq') + (Len(wc') - pre') = NBuf
    <3>1. Len(wc') = 0 /\ Len(wc') - pre' = 0 /\ Len(rcq') = Len(rcq)
      BY <1>1
    <3>. QED  BY <1>2, <2>2, <3>1
  <2>4. ToSet(posted) \cup ToSet(Ids(rcq)) \cup {wc[i].id : i \in pre + 1 .. Len(wc)} = Bufs
    BY DEF ReceiveIsWhole
  <2>5. ToSet(posted') \cup ToSet(Ids(rcq)) = Bufs
    BY <1>3, <1>4, <2>4
  <2>6. ToSet(posted') \cup ToSet(Ids(rcq')) \cup {wc'[i].id : i \in pre' + 1 .. Len(wc')} =
           Bufs
    BY <1>1, <1>4, <2>5
  <2>. QED  BY <2>3, <2>6 DEF ReceiveIsWhole
<1>6. PollIsRight' /\ EventsAreCounted'
  BY <1>1, OfedAssumption DEF PollIsRight, EventsAreCounted
<1>7. ReceiveTypeOK'
  BY <1>1, <1>3, OfedAssumption DEF ReceiveTypeOK, TypeOK
<1>. QED  BY <1>1, <1>5, <1>6, <1>7, ReceiveStep

\* The calls that take nothing, and the adapter's events.
LEMMA WaitKeeps ==
    ASSUME OfedInv, StartWait \/ Timeout \/ Close
    PROVE  OfedInv'
<1>. USE DEF OfedInv
<1>1. /\ EventThreshold \in Nat \ {0} /\ events \in 0 .. EventThreshold + 1
      /\ channel \in Nat /\ unacked \in Nat
  BY OfedAssumption DEF TypeOK
<1>2. CASE StartWait
  <2>1. /\ call = "none" /\ call' = "asleep"
        /\ UNCHANGED <<posted, rcq, data, channel, wc, done, pre, pending, arrived, tx>>
    BY <1>2 DEF StartWait
  <2>2. unacked = events /\ events <= EventThreshold
    BY <2>1 DEF EventsAreCounted
  <2>3. /\ events' \in 0 .. EventThreshold + 1 /\ unacked' \in Nat
        /\ unacked' = events' /\ events' < EventThreshold
    BY <1>1, <1>2, <2>2 DEF StartWait
  <2>4. EventsAreCounted'
    BY <2>1, <2>3 DEF EventsAreCounted
  <2>. QED  BY <1>1, <2>1, <2>3, <2>4, CallMoves
<1>3. CASE Timeout
  <2>1. /\ call = "asleep" /\ call' = "none"
        /\ UNCHANGED <<posted, rcq, data, channel, wc, done, pre, pending, events, unacked,
                       arrived, tx>>
    BY <1>3 DEF Timeout
  <2>2. EventsAreCounted'
    BY <1>1, <2>1 DEF EventsAreCounted
  <2>. QED  BY <1>1, <2>1, <2>2, CallMoves
<1>4. CASE Close
  <2>1. /\ call = "none" /\ call' = "closed"
        /\ channel' = IF channel > 0 THEN channel - 1 ELSE channel
        /\ unacked' = unacked + (channel - channel') - (events + (channel - channel'))
        /\ events' = events + (channel - channel')
        /\ UNCHANGED <<posted, rcq, data, wc, done, pre, pending, arrived, tx>>
    BY <1>4 DEF Close
  <2>2. unacked = events /\ events <= EventThreshold
    BY <2>1 DEF EventsAreCounted
  <2>3. /\ channel' \in Nat /\ unacked' = 0 /\ events' \in 0 .. EventThreshold + 1
    BY <1>1, <2>1, <2>2
  <2>4. EventsAreCounted'
    BY <2>1, <2>3 DEF EventsAreCounted
  <2>. QED  BY <2>1, <2>3, <2>4, CallMoves
<1>. QED  BY <1>2, <1>3, <1>4

\* poll(), and the ends of wait() that look at the queue.
LEMMA PollKeeps ==
    ASSUME OfedInv, StartPoll \/ Wake \/ Interrupted
    PROVE  OfedInv'
<1>1. /\ TakeCompletions /\ call \in {"none", "asleep"}
      /\ UNCHANGED <<data, arrived, tx>>
  BY DEF StartPoll, Wake, Interrupted
<1>2. /\ EventThreshold \in Nat \ {0} /\ events \in 0 .. EventThreshold + 1
      /\ channel \in Nat /\ unacked \in Nat /\ unacked = events
      /\ call = "asleep" => events < EventThreshold
      /\ call = "none" => events <= EventThreshold
  BY <1>1, OfedAssumption DEF OfedInv, TypeOK, EventsAreCounted
<1>3. /\ events' \in 0 .. EventThreshold + 1 /\ channel' \in Nat /\ unacked' \in Nat
      /\ unacked' = events' /\ events' <= EventThreshold
  BY <1>2 DEF StartPoll, Wake, Interrupted
<1>. QED  BY <1>1, <1>3, TakeKeeps

-----------------------------------------------------------------------------
(***************************************************************************)
(* Steps that send.                                                        *)
(***************************************************************************)

\* What a step that sends has to leave as it should be.
LEMMA SendStep ==
    ASSUME OfedInv, UNCHANGED rx, SendTypeOK', SendIsWhole', SentInOrder'
    PROVE  OfedInv'
<1>1. UNCHANGED <<posted, rcq, data, channel, call, wc, done, pre, pending, events, unacked,
                  arrived>>
  BY DEF rx
<1>2. TypeOK'
  BY <1>1 DEF OfedInv, TypeOK, SendTypeOK
<1>3. PollIsRight' /\ ReceiveIsWhole' /\ EventsAreCounted' /\ arrived' \in 0 .. MaxFrames
  BY <1>1 DEF OfedInv, PollIsRight, ReceiveIsWhole, EventsAreCounted
<1>. QED  BY <1>2, <1>3 DEF OfedInv

\* The number of the prepared buffers, with one more and with one less.
LEMMA HeldIs ==
    ASSUME TypeOK
    PROVE  /\ IsFiniteSet(held) /\ Cardinality(held) \in Nat
           /\ \A b \in Bufs : b \notin held => Cardinality(held \cup {b}) = Cardinality(held) + 1
           /\ \A b \in held : Cardinality(held \ {b}) = Cardinality(held) - 1
<1>1. IsFiniteSet(Bufs)
  BY OfedAssumption, FS_Interval DEF Bufs
<1>2. IsFiniteSet(held)
  BY <1>1, FS_Subset DEF TypeOK
<1>3. Cardinality(held) \in Nat
  BY <1>2, FS_CardinalityType
<1>4. \A b \in Bufs : b \notin held => Cardinality(held \cup {b}) = Cardinality(held) + 1
  BY <1>2, FS_AddElement
<1>5. \A b \in held : Cardinality(held \ {b}) = Cardinality(held) - 1
  BY <1>2, FS_RemoveElement
<1>. QED  BY <1>2, <1>3, <1>4, <1>5

\* prepare() gives the first buffer that is free, which the adapter does not have.
LEMMA PrepareIsSafe ==
    ASSUME OfedInv, Prepare
    PROVE  OfedInv'
<1>. USE DEF OfedInv
<1>. DEFINE avail == free \o scq
<1>1. /\ scq' = <<>> /\ UNCHANGED <<sq, wire, commits, rx>>
      /\ IF avail = <<>> THEN UNCHANGED <<free, held, out>>
         ELSE /\ held' = held \cup {Head(avail)} /\ free' = Tail(avail)
              /\ out' = [out EXCEPT ![Head(avail)] = 0]
  BY DEF Prepare
<1>2. /\ free \in Seq(Bufs) /\ scq \in Seq(Bufs) /\ sq \in Seq(Bufs) /\ held \subseteq Bufs
      /\ Len(free) \in Nat /\ Len(scq) \in Nat /\ Len(sq) \in Nat /\ NBuf \in Nat
      /\ DOMAIN sq = 1 .. Len(sq)
  BY OfedAssumption DEF TypeOK
<1>3. /\ avail \in Seq(Bufs) /\ Len(avail) = Len(free) + Len(scq)
      /\ ToSet(avail) = ToSet(free) \cup ToSet(scq)
  BY <1>2, ConcatIs
<1>4. avail # <<>> => Head(avail) \notin held /\ Head(avail) \notin ToSet(sq)
  BY SendBuffersAreElsewhere
<1>5. /\ Len(free) + Cardinality(held) + Len(sq) + Len(scq) = NBuf
      /\ ToSet(free) \cup held \cup ToSet(sq) \cup ToSet(scq) = Bufs
  BY DEF SendIsWhole
<1>6. ToSet(<<>>) = {} /\ Len(<<>>) = 0 /\ scq' \in Seq(Bufs)
  BY <1>1 DEF ToSet
<1>. HIDE DEF avail
<1>7. CASE avail = <<>>
  <2>1. Len(free) + Len(scq) = 0 /\ ToSet(free) \cup ToSet(scq) = {}
    BY <1>3, <1>6, <1>7
  <2>2. SendIsWhole'
    BY <1>1, <1>2, <1>5, <1>6, <1>7, <2>1 DEF SendIsWhole
  <2>3. SendTypeOK' /\ SentInOrder'
    BY <1>1, <1>6, <1>7 DEF SendTypeOK, TypeOK, SentInOrder, SentAsCommitted
  <2>. QED  BY <1>1, <2>2, <2>3, SendStep
<1>8. CASE avail # <<>>
  <2>1. /\ held' = held \cup {Head(avail)} /\ free' = Tail(avail)
        /\ out' = [out EXCEPT ![Head(avail)] = 0]
    BY <1>1, <1>8
  <2>2. /\ Head(avail) \in Bufs /\ free' \in Seq(Bufs) /\ Len(free') = Len(avail) - 1
        /\ ToSet(avail) = {Head(avail)} \cup ToSet(free')
    BY <1>3, <1>8, <2>1, SetOfTail
  <2>3. Cardinality(held') = Cardinality(held) + 1 /\ Cardinality(held) \in Nat
    BY <1>4, <1>8, <2>1, <2>2, HeldIs
  <2>4. SendIsWhole'
    <3>1. Len(free') + Cardinality(held') + Len(sq') + Len(scq') = NBuf
      <4>1. Len(sq') = Len(sq) /\ Len(scq') = 0
        BY <1>1, <1>6
      <4>. QED  BY <1>2, <1>3, <1>5, <2>2, <2>3, <4>1
    <3>2. ToSet(free') \cup held' \cup ToSet(sq') \cup ToSet(scq') = Bufs
      BY <1>1, <1>3, <1>5, <1>6, <2>1, <2>2
    <3>. QED  BY <3>1, <3>2 DEF SendIsWhole
  <2>5. SendTypeOK'
    BY <1>1, <1>6, <2>1, <2>2, OfedAssumption, SMTT(30) DEF SendTypeOK, TypeOK
  <2>6. SentInOrder'
    <3>1. \A i \in 1 .. Len(sq) : out'[sq[i]] = out[sq[i]]
      <4>1. \A i \in 1 .. Len(sq) : sq[i] \in Bufs /\ sq[i] # Head(avail)
        <5>1. \A i \in 1 .. Len(sq) : sq[i] \in Bufs /\ sq[i] \in ToSet(sq)
          BY <1>2 DEF ToSet
        <5>. QED  BY <1>4, <1>8, <5>1
      <4>2. out \in [Bufs -> 0 .. MaxSends]
        BY DEF TypeOK
      <4>. QED  BY <2>1, <4>1, <4>2
    <3>. QED  BY <1>1, <3>1 DEF SentInOrder, SentAsCommitted
  <2>. QED  BY <1>1, <2>4, <2>5, <2>6, SendStep
<1>. QED  BY <1>7, <1>8

\* A frame is written in a prepared buffer, which is posted.
LEMMA CommitKeeps ==
    ASSUME OfedInv, NEW b \in Bufs, Commit(b)
    PROVE  OfedInv'
<1>. USE DEF OfedInv
<1>1. /\ b \in held /\ commits < MaxSends /\ commits' = commits + 1
      /\ out' = [out EXCEPT ![b] = commits'] /\ held' = held \ {b} /\ sq' = Append(sq, b)
      /\ UNCHANGED <<free, scq, wire, rx>>
  BY DEF Commit
<1>2. /\ sq \in Seq(Bufs) /\ Len(sq) \in Nat /\ Len(free) \in Nat /\ Len(scq) \in Nat
      /\ held \subseteq Bufs /\ DOMAIN sq = 1 .. Len(sq)
  BY DEF TypeOK
<1>3. b \notin ToSet(sq)
  BY <1>1, SendBuffersAreElsewhere
<1>4. /\ sq' \in Seq(Bufs) /\ Len(sq') = Len(sq) + 1 /\ sq'[Len(sq) + 1] = b
      /\ \A i \in 1 .. Len(sq) : sq'[i] = sq[i]
  BY <1>1, <1>2, AppendProperties
<1>5. ToSet(sq') = ToSet(sq) \cup {b}
  BY <1>1, <1>2, SetOfAppend
<1>6. Cardinality(held') = Cardinality(held) - 1 /\ Cardinality(held) \in Nat
  BY <1>1, HeldIs
<1>7. SendIsWhole'
  <2>1. Len(free') + Cardinality(held') + Len(sq') + Len(scq') = NBuf
    <3>1. Len(free') = Len(free) /\ Len(scq') = Len(scq)
      BY <1>1
    <3>2. Len(free) + Cardinality(held) + Len(sq) + Len(scq) = NBuf
      BY DEF SendIsWhole
    <3>3. Len(sq') = Len(sq) + 1
      BY <1>4
    <3>4. Len(free) \in Nat /\ Len(sq) \in Nat /\ Len(scq) \in Nat
      BY <1>2
    <3>5. \A f, c, n, d \in Int : f + (c - 1) + (n + 1) + d = f + c + n + d
      OBVIOUS
    <3>6. Len(free) + (Cardinality(held) - 1) + (Len(sq) + 1) + Len(scq) =
             Len(free) + Cardinality(held) + Len(sq) + Len(scq)
      BY <1>6, <3>4, <3>5
    <3>. QED  BY <1>6, <3>1, <3>2, <3>3, <3>6
  <2>2. ToSet(free') \cup held' \cup ToSet(sq') \cup ToSet(scq') = Bufs
    BY <1>1, <1>5 DEF SendIsWhole
  <2>. QED  BY <2>1, <2>2 DEF SendIsWhole
<1>8. commits' \in 0 .. MaxSends
  BY <1>1, OfedAssumption DEF SentInOrder
<1>9. SendTypeOK'
  BY <1>1, <1>2, <1>4, <1>8 DEF SendTypeOK, TypeOK
<1>10. SentInOrder'
  <2>1. wire \in Seq(Nat) /\ Len(wire) \in Nat /\ commits = Len(wire) + Len(sq)
    BY DEF SentInOrder
  <2>2. out'[b] = commits + 1 /\ \A i \in 1 .. Len(sq) : out'[sq[i]] = out[sq[i]]
    <3>1. \A i \in 1 .. Len(sq) : sq[i] \in Bufs /\ sq[i] # b
      BY <1>2, <1>3 DEF ToSet
    <3>2. out \in [Bufs -> 0 .. MaxSends]
      BY DEF TypeOK
    <3>. QED  BY <1>1, <3>1, <3>2
  <2>3. \A i \in 1 .. Len(sq') : out'[sq'[i]] = Len(wire) + i
    <3>1. ASSUME NEW i \in 1 .. Len(sq')
          PROVE  out'[sq'[i]] = Len(wire) + i
      <4>1. CASE i \in 1 .. Len(sq)
        BY <1>4, <2>2, <4>1 DEF SentInOrder
      <4>2. CASE i = Len(sq) + 1
        BY <1>2, <1>4, <2>1, <2>2, <4>2
      <4>. QED  BY <1>2, <1>4, <4>1, <4>2
    <3>. QED  BY <3>1
  <2>4. commits' = Len(wire') + Len(sq')
    BY <1>1, <1>2, <1>4, <2>1
  <2>. QED  BY <1>1, <1>8, <2>3, <2>4 DEF SentInOrder, SentAsCommitted
<1>. QED  BY <1>1, <1>7, <1>9, <1>10, SendStep

\* The adapter sends the frame of the first buffer that is posted.
LEMMA TransmitKeeps ==
    ASSUME OfedInv, Transmit
    PROVE  OfedInv'
<1>. USE DEF OfedInv
<1>1. /\ sq # <<>> /\ wire' = Append(wire, out[Head(sq)])
      /\ sq' = Tail(sq) /\ scq' = Append(scq, Head(sq))
      /\ UNCHANGED <<free, held, out, commits, rx>>
  BY DEF Transmit
<1>2. /\ sq \in Seq(Bufs) /\ scq \in Seq(Bufs) /\ Len(free) \in Nat /\ Len(scq) \in Nat
      /\ held \subseteq Bufs
  BY DEF TypeOK
<1>3. /\ Head(sq) \in Bufs /\ Head(sq) = sq[1] /\ sq' \in Seq(Bufs)
      /\ Len(sq) \in Nat \ {0} /\ Len(sq') = Len(sq) - 1
      /\ \A i \in 1 .. Len(sq) - 1 : sq'[i] = sq[i + 1]
      /\ ToSet(sq) = {Head(sq)} \cup ToSet(sq')
  BY <1>1, <1>2, SetOfTail
<1>4. scq' \in Seq(Bufs) /\ Len(scq') = Len(scq) + 1
  BY <1>1, <1>2, <1>3, AppendProperties
<1>5. ToSet(scq') = ToSet(scq) \cup {Head(sq)}
  BY <1>1, <1>2, <1>3, SetOfAppend
<1>6. SendIsWhole'
  <2>1. Len(free') + Cardinality(held') + Len(sq') + Len(scq') = NBuf
    <3>1. Len(free') = Len(free) /\ Cardinality(held') = Cardinality(held)
      BY <1>1
    <3>2. Len(free) + Cardinality(held) + Len(sq) + Len(scq) = NBuf
      BY DEF SendIsWhole
    <3>3. Cardinality(held) \in Nat
      BY HeldIs
    <3>. QED  BY <1>2, <1>3, <1>4, <3>1, <3>2, <3>3
  <2>2. ToSet(free') \cup held' \cup ToSet(sq') \cup ToSet(scq') = Bufs
    BY <1>1, <1>3, <1>5 DEF SendIsWhole
  <2>. QED  BY <2>1, <2>2 DEF SendIsWhole
<1>7. SendTypeOK'
  BY <1>1, <1>2, <1>3, <1>4 DEF SendTypeOK, TypeOK
<1>8. SentInOrder'
  <2>1. wire \in Seq(Nat) /\ Len(wire) \in Nat /\ commits = Len(wire) + Len(sq)
    BY DEF SentInOrder
  <2>2. out[Head(sq)] = Len(wire) + 1
    BY <1>3 DEF SentInOrder
  <2>3. /\ wire' \in Seq(Nat) /\ Len(wire') = Len(wire) + 1
        /\ wire'[Len(wire) + 1] = Len(wire) + 1
        /\ \A i \in 1 .. Len(wire) : wire'[i] = wire[i]
    <3>1. Len(wire) + 1 \in Nat /\ wire' = Append(wire, Len(wire) + 1)
      BY <1>1, <2>1, <2>2
    <3>. QED  BY <2>1, <3>1, AppendProperties
  <2>4. SentAsCommitted'
    <3>1. \A i \in 1 .. Len(wire) : wire[i] = i
      <4>1. wire = [i \in 1 .. Len(wire) |-> i]
        BY DEF SentInOrder, SentAsCommitted
      <4>. QED  BY <4>1
    <3>2. ASSUME NEW i \in 1 .. Len(wire')
          PROVE  wire'[i] = i
      <4>1. CASE i \in 1 .. Len(wire)
        BY <2>3, <3>1, <4>1
      <4>2. CASE i = Len(wire) + 1
        BY <2>3, <4>2
      <4>. QED  BY <2>1, <2>3, <4>1, <4>2
    <3>3. wire' \in [1 .. Len(wire') -> Nat]
      BY <2>3
    <3>4. wire' = [i \in 1 .. Len(wire') |-> i]
      BY <3>2, <3>3
    <3>. QED  BY <3>4 DEF SentAsCommitted
  <2>5. commits' = Len(wire') + Len(sq') /\ commits' \in 0 .. MaxSends
    BY <1>1, <1>3, <2>1, <2>3 DEF SentInOrder
  <2>6. \A i \in 1 .. Len(sq') : out'[sq'[i]] = Len(wire') + i
    <3>1. \A i \in 1 .. Len(sq) : out[sq[i]] = Len(wire) + i
      BY DEF SentInOrder
    <3>2. ASSUME NEW i \in 1 .. Len(sq')
          PROVE  out'[sq'[i]] = Len(wire') + i
      <4>1. i + 1 \in 1 .. Len(sq) /\ sq'[i] = sq[i + 1]
        BY <1>3
      <4>. QED  BY <1>1, <2>1, <2>3, <3>1, <4>1
    <3>. QED  BY <3>2
  <2>. QED  BY <2>3, <2>4, <2>5, <2>6 DEF SentInOrder
<1>. QED  BY <1>1, <1>6, <1>7, <1>8, SendStep

-----------------------------------------------------------------------------
(***************************************************************************)
(* The invariant.                                                          *)
(***************************************************************************)

\* The list of all buffers has each of them once.
LEMMA AllBuffers ==
    ASSUME NEW s, s = [i \in Bufs |-> i]
    PROVE  s \in Seq(Bufs) /\ Len(s) = NBuf /\ ToSet(s) = Bufs
<1>1. NBuf \in Nat
  BY OfedAssumption
<1>2. s \in [1 .. NBuf -> Bufs] /\ DOMAIN s = Bufs /\ \A i \in Bufs : s[i] = i
  BY DEF Bufs
<1>3. s \in Seq(Bufs) /\ Len(s) = NBuf
  BY <1>1, <1>2
<1>4. ToSet(s) = Bufs
  BY <1>2 DEF ToSet
<1>. QED  BY <1>3, <1>4

LEMMA InitIsOfedInv ==
    ASSUME Init
    PROVE  OfedInv
<1>1. /\ posted = [i \in Bufs |-> i] /\ rcq = <<>> /\ data = [b \in Bufs |-> 0]
      /\ channel = 0 /\ events = 0 /\ unacked = 0 /\ call = "none" /\ wc = <<>>
      /\ done = 0 /\ pre = 0 /\ pending = 0 /\ arrived = 0
      /\ free = [i \in Bufs |-> i] /\ held = {} /\ sq = <<>> /\ scq = <<>>
      /\ out = [b \in Bufs |-> 0] /\ wire = <<>> /\ commits = 0
  BY DEF Init
<1>2. /\ NBuf \in Nat /\ MaxFrames \in Nat /\ MaxSends \in Nat /\ EventThreshold \in Nat \ {0}
      /\ PostThreshold \in Nat \ {0} /\ 0 % PostThreshold = 0
  BY OfedAssumption
<1>3. /\ posted \in Seq(Bufs) /\ Len(posted) = NBuf /\ ToSet(posted) = Bufs
      /\ free \in Seq(Bufs) /\ Len(free) = NBuf /\ ToSet(free) = Bufs
  BY <1>1, AllBuffers
<1>4. /\ rcq \in Seq(Completion) /\ Len(rcq) = 0 /\ wc \in Seq(Completion) /\ Len(wc) = 0
      /\ sq \in Seq(Bufs) /\ Len(sq) = 0 /\ scq \in Seq(Bufs) /\ Len(scq) = 0
      /\ wire \in Seq(Nat) /\ Len(wire) = 0
  BY <1>1
<1>5. ToSet(sq) = {} /\ ToSet(scq) = {} /\ Cardinality(held) = 0
  BY <1>1, FS_EmptySet DEF ToSet
<1>6. /\ ToSet(Ids(rcq)) = {}
      /\ {wc[i].id : i \in pre + 1 .. Len(wc)} = {}
  <2>1. ToSet(Ids(rcq)) = {rcq[i].id : i \in 1 .. Len(rcq)}
    BY <1>4, IdsAre
  <2>. QED  BY <1>1, <1>4, <2>1
<1>7. TypeOK
  <2>1. data \in [Bufs -> 0 .. MaxFrames] /\ out \in [Bufs -> 0 .. MaxSends]
    BY <1>1, <1>2
  <2>. QED  BY <1>1, <1>2, <1>3, <1>4, <2>1 DEF TypeOK
<1>8. PollIsRight /\ EventsAreCounted
  BY <1>1, <1>2, <1>4 DEF PollIsRight, EventsAreCounted
<1>9. ReceiveIsWhole
  <2>1. Len(posted) + Len(rcq) + (Len(wc) - pre) = NBuf
    BY <1>1, <1>2, <1>3, <1>4
  <2>2. ToSet(posted) \cup ToSet(Ids(rcq)) \cup {wc[i].id : i \in pre + 1 .. Len(wc)} = Bufs
    BY <1>3, <1>6
  <2>. QED  BY <2>1, <2>2 DEF ReceiveIsWhole
<1>10. SendIsWhole
  <2>1. Len(free) + Cardinality(held) + Len(sq) + Len(scq) = NBuf
    BY <1>2, <1>3, <1>4, <1>5
  <2>2. ToSet(free) \cup held \cup ToSet(sq) \cup ToSet(scq) = Bufs
    BY <1>1, <1>3, <1>5
  <2>. QED  BY <2>1, <2>2 DEF SendIsWhole
<1>11. SentInOrder
  <2>1. wire = [i \in 1 .. Len(wire) |-> i]
    BY <1>4
  <2>. QED  BY <1>1, <1>2, <1>4, <2>1 DEF SentInOrder, SentAsCommitted
<1>. QED  BY <1>1, <1>2, <1>7, <1>8, <1>9, <1>10, <1>11 DEF OfedInv

LEMMA StepKeepsOfedInv ==
    ASSUME OfedInv, [Next]_vars
    PROVE  OfedInv'
<1>1. CASE \E ok \in BOOLEAN : Arrive(ok)
  BY <1>1, ArriveKeeps
<1>2. CASE Process
  BY <1>2, ProcessKeeps
<1>3. CASE Finish
  BY <1>3, FinishKeeps
<1>4. CASE StartWait \/ Timeout \/ Close
  BY <1>4, WaitKeeps
<1>5. CASE StartPoll \/ Wake \/ Interrupted
  BY <1>5, PollKeeps
<1>6. CASE Prepare
  BY <1>6, PrepareIsSafe
<1>7. CASE \E b \in Bufs : Commit(b)
  BY <1>7, CommitKeeps
<1>8. CASE Transmit
  BY <1>8, TransmitKeeps
<1>9. CASE UNCHANGED vars
  <2>1. UNCHANGED rx /\ UNCHANGED tx
    BY <1>9 DEF vars
  <2>2. SendTypeOK' /\ SentInOrder'
    BY <2>1 DEF tx, OfedInv, TypeOK, SendTypeOK, SentInOrder, SentAsCommitted
  <2>3. SendIsWhole'
    BY <2>1 DEF tx, OfedInv, SendIsWhole
  <2>. QED  BY <2>1, <2>2, <2>3, SendStep
<1>. QED  BY <1>1, <1>2, <1>3, <1>4, <1>5, <1>6, <1>7, <1>8, <1>9 DEF Next, Host

\* The inductive invariant of the device, with both thresholds and for every number of
\* buffers: poll() never posts a buffer again that it did not process, and each
\* buffer of either direction is in one place.
THEOREM OfedInvariant == Spec => []OfedInv
<1>1. Init => OfedInv
  BY InitIsOfedInv
<1>2. OfedInv /\ [Next]_vars => OfedInv'
  BY StepKeepsOfedInv
<1>. QED  BY <1>1, <1>2, PTL DEF Spec

\* No queue of the adapter overflows, and the window that the TCP layer advertises
\* counts the buffers that poll() does not hold.
THEOREM NoBufferIsLost == Spec => []BuffersAreWhole
<1>1. OfedInv => BuffersAreWhole
  <2>1. SUFFICES ASSUME OfedInv
                 PROVE  BuffersAreWhole
    OBVIOUS
  <2>2. EachOnce(posted \o Ids(rcq) \o Ids(SubSeq(wc, pre + 1, Len(wc))))
    BY <2>1, ReceiveListIs DEF OfedInv
  <2>3. EachOnce(free \o SetToSeq(held) \o sq \o scq)
    BY <2>1, SendListIs DEF OfedInv
  <2>4. WindowIsWhatIsNotHeld
    <3>1. /\ Len(posted) \in Nat /\ Len(rcq) \in Nat /\ Len(wc) \in Nat /\ pre \in 0 .. Len(wc)
          /\ NBuf \in Nat
      BY <2>1, OfedAssumption DEF OfedInv, TypeOK
    <3>2. pending = Len(wc) - pre /\ Len(posted) + Len(rcq) + (Len(wc) - pre) = NBuf
      BY <2>1 DEF OfedInv, PollIsRight, ReceiveIsWhole
    <3>. QED  BY <3>1, <3>2 DEF WindowIsWhatIsNotHeld
  <2>. QED  BY <2>2, <2>3, <2>4 DEF BuffersAreWhole
<1>. QED  BY <1>1, OfedInvariant, PTL

\* prepare() gives no buffer that the adapter still has to send.
THEOREM CommitsAreSentInOrder == Spec => []SentAsCommitted
<1>1. OfedInv => SentAsCommitted
  BY DEF OfedInv, SentInOrder
<1>. QED  BY <1>1, OfedInvariant, PTL

\* ibv_destroy_cq() has no event to wait for, however full the channel is when the
\* destructor comes.
THEOREM DestructorNeverHangs == Spec => []DestroyReturns
<1>1. OfedInv => DestroyReturns
  BY DEF OfedInv, EventsAreCounted, DestroyReturns
<1>. QED  BY <1>1, OfedInvariant, PTL

-----------------------------------------------------------------------------
(***************************************************************************)
(* What the device promises to the stack: each frame once, in order.       *)
(***************************************************************************)

\* The completions that wait are the same, maybe elsewhere, but for those to skip.
LEMMA SameKeeps ==
    ASSUME LinkInv, UNCHANGED <<data, good, taken, arrived>>, InOrder',
           \A d \in Completion : Waiting(d)' => Waiting(d),
           \A d \in Completion : Waiting(d) /\ d.ok => Waiting(d)'
    PROVE  LinkInv'
<1>1. NoneIsAhead'
  BY DEF LinkInv, NoneIsAhead
<1>2. WaitingIsTheRest'
  <2>1. ASSUME NEW d \in Completion, Waiting(d)', d.ok
        PROVE  \E j \in Len(taken') + 1 .. Len(good') : data'[d.id] = good'[j]
    BY <2>1 DEF LinkInv, WaitingIsTheRest
  <2>2. ASSUME NEW j \in Len(taken') + 1 .. Len(good')
        PROVE  \E d \in Completion : Waiting(d)' /\ d.ok /\ data'[d.id] = good'[j]
    BY <2>2 DEF LinkInv, WaitingIsTheRest
  <2>. QED  BY <2>1, <2>2 DEF WaitingIsTheRest
<1>. QED  BY <1>1, <1>2 DEF LinkInv

\* What waits, waits with a frame in its buffer.
LEMMA WaitingIs ==
    ASSUME TypeOK
    PROVE  /\ Len(wc) \in Nat /\ Len(rcq) \in Nat /\ done \in 0 .. Len(wc)
           /\ \A i \in 1 .. Len(wc) : wc[i] \in Completion
           /\ \A i \in 1 .. Len(rcq) : rcq[i] \in Completion
           /\ \A c \in Completion : c.id \in Bufs /\ data[c.id] \in 0 .. MaxFrames
<1>1. \A c \in Completion : c.id \in Bufs
  BY DEF Completion
<1>2. /\ Len(wc) \in Nat /\ Len(rcq) \in Nat /\ done \in 0 .. Len(wc)
      /\ \A i \in 1 .. Len(wc) : wc[i] \in Completion
      /\ \A i \in 1 .. Len(rcq) : rcq[i] \in Completion
      /\ data \in [Bufs -> 0 .. MaxFrames]
  BY DEF TypeOK
<1>. QED  BY <1>1, <1>2

\* The frame that arrived last waits behind all others.
LEMMA ArriveSends ==
    ASSUME OfedInv, LinkInv, NEW ok \in BOOLEAN, Arrive(ok)
    PROVE  LinkInv' /\ [Received!Next]_(Received!vars)
<1>. DEFINE n == arrived + 1
<1>1. TypeOK /\ PollIsRight /\ ReceiveIsWhole /\ posted # <<>>
  BY DEF Arrive, OfedInv
<1>2. Head(posted) \in Bufs
  BY <1>1, SetOfTail DEF TypeOK
<1>3. PICK c \in Completion : c = [id |-> Head(posted), ok |-> ok]
  BY <1>2 DEF Completion
<1>4. /\ arrived \in Nat /\ arrived < MaxFrames /\ posted # <<>> /\ arrived' = n
      /\ good' = (IF ok THEN Append(good, n) ELSE good) /\ taken' = taken
      /\ data' = [data EXCEPT ![Head(posted)] = n]
      /\ rcq' = Append(rcq, c) /\ wc' = wc /\ done' = done
      /\ c.id = Head(posted) /\ c.ok = ok
  BY <1>3 DEF Arrive, OfedInv
<1>5. /\ Len(wc) \in Nat /\ Len(rcq) \in Nat /\ done \in 0 .. Len(wc)
      /\ \A i \in 1 .. Len(wc) : wc[i] \in Completion
      /\ \A i \in 1 .. Len(rcq) : rcq[i] \in Completion
      /\ \A d \in Completion : d.id \in Bufs /\ data[d.id] \in 0 .. MaxFrames
  BY <1>1, WaitingIs
<1>6. /\ Len(rcq') = Len(rcq) + 1 /\ rcq'[Len(rcq) + 1] = c
      /\ \A i \in 1 .. Len(rcq) : rcq'[i] = rcq[i]
  BY <1>4, <1>1, <1>3, AppendProperties DEF TypeOK
<1>7. /\ data'[c.id] = n
      /\ \A i \in 1 .. Len(rcq) : data'[rcq[i].id] = data[rcq[i].id]
      /\ \A i \in done + 1 .. Len(wc) : data'[wc[i].id] = data[wc[i].id]
  <2>1. /\ \A i \in 1 .. Len(rcq) : rcq[i].id # Head(posted)
        /\ \A i \in done + 1 .. Len(wc) : wc[i].id # Head(posted)
    BY <1>4, <1>1, PostedIsElsewhere
  <2>2. data \in [Bufs -> 0 .. MaxFrames]
    BY <1>1 DEF TypeOK
  <2>3. done + 1 .. Len(wc) \subseteq 1 .. Len(wc)
    BY <1>5
  <2>. QED  BY <1>4, <1>3, <1>5, <2>1, <2>2, <2>3
<1>8. ASSUME NEW d \in Completion, Waiting(d)
      PROVE  Waiting(d)' /\ data'[d.id] = data[d.id] /\ data[d.id] <= arrived
  <2>1. data[d.id] <= arrived
    BY <1>8 DEF LinkInv, NoneIsAhead
  <2>2. CASE \E i \in done + 1 .. Len(wc) : d = wc[i]
    BY <1>4, <1>7, <2>1, <2>2 DEF Waiting
  <2>3. CASE \E i \in 1 .. Len(rcq) : d = rcq[i]
    <3>1. 1 .. Len(rcq) \subseteq 1 .. Len(rcq')
      BY <1>5, <1>6
    <3>. QED  BY <1>6, <1>7, <2>1, <2>3, <3>1 DEF Waiting
  <2>. QED  BY <1>8, <2>2, <2>3 DEF Waiting
<1>9. ASSUME NEW d \in Completion, Waiting(d)'
      PROVE  Waiting(d) \/ d = c
  <2>1. CASE \E i \in done + 1 .. Len(wc) : d = wc[i]
    BY <2>1 DEF Waiting
  <2>2. CASE \E i \in 1 .. Len(rcq') : d = rcq'[i]
    <3>1. PICK i \in 1 .. Len(rcq') : d = rcq'[i]
      BY <2>2
    <3>2. i \in 1 .. Len(rcq) \/ i = Len(rcq) + 1
      BY <1>5, <1>6
    <3>. QED  BY <1>6, <3>1, <3>2 DEF Waiting
  <2>. QED  BY <1>4, <1>9, <2>1, <2>2 DEF Waiting
<1>10. Waiting(c)'
  <2>1. Len(rcq) + 1 \in 1 .. Len(rcq')
    BY <1>5, <1>6
  <2>. QED  BY <1>6, <2>1 DEF Waiting
<1>11. InOrder'
  <2>1. /\ \A i \in done + 1 .. Len(wc) : data[wc[i].id] <= arrived
        /\ \A i \in 1 .. Len(rcq) : data[rcq[i].id] <= arrived
    <3>1. done + 1 .. Len(wc) \subseteq 1 .. Len(wc)
      BY <1>5
    <3>. QED  BY <1>5, <3>1 DEF LinkInv, NoneIsAhead, Waiting
  <2>2. \A i, j \in done' + 1 .. Len(wc') : i < j => data'[wc'[i].id] < data'[wc'[j].id]
    BY <1>4, <1>7 DEF LinkInv, InOrder
  <2>3. ASSUME NEW i \in done' + 1 .. Len(wc'), NEW j \in 1 .. Len(rcq')
        PROVE  data'[wc'[i].id] < data'[rcq'[j].id]
    <3>1. CASE j \in 1 .. Len(rcq)
      <4>1. data[wc[i].id] < data[rcq[j].id]
        BY <1>4, <3>1 DEF LinkInv, InOrder
      <4>2. i \in done + 1 .. Len(wc) /\ wc'[i] = wc[i] /\ rcq'[j] = rcq[j]
        BY <1>4, <1>6, <3>1
      <4>3. data'[wc'[i].id] = data[wc[i].id]
        BY <1>7, <4>2
      <4>4. data'[rcq'[j].id] = data[rcq[j].id]
        BY <1>7, <3>1, <4>2
      <4>. QED  BY <4>1, <4>3, <4>4
    <3>2. CASE j = Len(rcq) + 1
      <4>1. /\ data'[rcq'[j].id] = arrived + 1
            /\ data'[wc'[i].id] = data[wc[i].id] /\ data[wc[i].id] <= arrived
        BY <1>4, <1>6, <1>7, <2>1, <3>2
      <4>2. data[wc[i].id] \in Nat
        <5>1. i \in 1 .. Len(wc)
          BY <1>4, <1>5
        <5>. QED  BY <1>5, <5>1, OfedAssumption
      <4>. QED  BY <1>4, <4>1, <4>2
    <3>. QED  BY <1>5, <1>6, <3>1, <3>2
  <2>4. ASSUME NEW i \in 1 .. Len(rcq'), NEW j \in 1 .. Len(rcq'), i < j
        PROVE  data'[rcq'[i].id] < data'[rcq'[j].id]
    <3>0. i \in 1 .. Len(rcq)
      BY <1>5, <1>6, <2>4
    <3>1. CASE j \in 1 .. Len(rcq)
      BY <1>6, <1>7, <2>4, <3>0, <3>1 DEF LinkInv, InOrder
    <3>2. CASE j = Len(rcq) + 1
      <4>1. /\ data'[rcq'[j].id] = arrived + 1
            /\ data'[rcq'[i].id] = data[rcq[i].id] /\ data[rcq[i].id] <= arrived
        BY <1>6, <1>7, <2>1, <3>0, <3>2
      <4>2. data[rcq[i].id] \in Nat
        BY <1>5, <3>0, OfedAssumption
      <4>. QED  BY <1>4, <4>1, <4>2
    <3>. QED  BY <1>5, <1>6, <3>1, <3>2
  <2>. QED  BY <2>2, <2>3, <2>4 DEF InOrder
<1>12. NoneIsAhead'
  <2>1. ASSUME NEW d \in Completion, Waiting(d)'
        PROVE  data'[d.id] <= arrived'
    <3>1. CASE Waiting(d)
      <4>1. data[d.id] \in Nat
        BY <1>5, OfedAssumption
      <4>. QED  BY <1>4, <1>8, <3>1, <4>1
    <3>2. CASE d = c
      BY <1>4, <1>7, <3>2
    <3>. QED  BY <1>9, <2>1, <3>1, <3>2
  <2>. QED  BY <2>1 DEF NoneIsAhead
<1>13. /\ good \in Seq(1 .. MaxFrames) /\ Len(good) \in Nat /\ n \in 1 .. MaxFrames
       /\ taken \in Seq(1 .. MaxFrames) /\ Len(taken) \in Nat /\ Len(taken) <= Len(good)
       /\ \A i, j \in 1 .. Len(good) : i < j => good[i] < good[j]
       /\ \A i \in 1 .. Len(good) : good[i] <= arrived /\ good[i] \in Nat
  <2>1. /\ good \in Seq(1 .. MaxFrames) /\ taken \in Seq(1 .. MaxFrames)
        /\ Len(taken) <= Len(good)
        /\ \A i, j \in 1 .. Len(good) : i < j => good[i] < good[j]
        /\ \A i \in 1 .. Len(good) : good[i] <= arrived
    BY DEF LinkInv
  <2>2. n \in 1 .. MaxFrames
    <3>1. arrived \in Nat /\ arrived < MaxFrames
      BY <1>4
    <3>. QED  BY <3>1, OfedAssumption
  <2>3. \A i \in 1 .. Len(good) : good[i] \in Nat
    <3>1. good \in Seq(1 .. MaxFrames)
      BY <2>1
    <3>2. \A i \in 1 .. Len(good) : good[i] \in 1 .. MaxFrames
      BY <3>1, ElementOfSeq
    <3>3. 1 .. MaxFrames \subseteq Nat
      BY OfedAssumption
    <3>. QED  BY <3>2, <3>3
  <2>. QED  BY <2>1, <2>2, <2>3
<1>. HIDE DEF n
<1>14. CASE ok
  <2>1. good' = Append(good, n)
    BY <1>4, <1>14
  <2>2. /\ good' \in Seq(1 .. MaxFrames) /\ Len(good') = Len(good) + 1
        /\ good'[Len(good) + 1] = n /\ \A i \in 1 .. Len(good) : good'[i] = good[i]
    BY <1>13, <2>1, AppendProperties
  <2>3. c.ok
    BY <1>4, <1>14
  <2>4. WaitingIsTheRest'
    <3>1. ASSUME NEW d \in Completion, Waiting(d)', d.ok
          PROVE  \E j \in Len(taken') + 1 .. Len(good') : data'[d.id] = good'[j]
      <4>1. CASE Waiting(d)
        <5>1. PICK j \in Len(taken) + 1 .. Len(good) : data[d.id] = good[j]
          BY <3>1, <4>1 DEF LinkInv, WaitingIsTheRest
        <5>2. j \in 1 .. Len(good) /\ j \in Len(taken') + 1 .. Len(good')
          BY <1>4, <1>13, <2>2
        <5>. QED  BY <1>8, <2>2, <4>1, <5>1, <5>2
      <4>2. CASE d = c
        <5>1. Len(good) + 1 \in Len(taken') + 1 .. Len(good')
          BY <1>4, <1>13, <2>2
        <5>. QED  BY <1>7, <2>2, <4>2, <5>1
      <4>. QED  BY <1>9, <3>1, <4>1, <4>2
    <3>2. ASSUME NEW j \in Len(taken') + 1 .. Len(good')
          PROVE  \E d \in Completion : Waiting(d)' /\ d.ok /\ data'[d.id] = good'[j]
      <4>1. CASE j \in Len(taken) + 1 .. Len(good)
        <5>1. PICK d \in Completion : Waiting(d) /\ d.ok /\ data[d.id] = good[j]
          BY <4>1 DEF LinkInv, WaitingIsTheRest
        <5>2. j \in 1 .. Len(good)
          BY <1>13, <4>1
        <5>. QED  BY <1>8, <2>2, <5>1, <5>2
      <4>2. CASE j = Len(good) + 1
        <5>1. data'[c.id] = good'[j]
          BY <1>7, <2>2, <4>2
        <5>. QED  BY <1>3, <1>10, <2>3, <5>1
      <4>. QED  BY <1>4, <1>13, <2>2, <4>1, <4>2
    <3>. QED  BY <3>1, <3>2 DEF WaitingIsTheRest
  <2>5. \A i, j \in 1 .. Len(good') : i < j => good'[i] < good'[j]
    <3>1. ASSUME NEW i \in 1 .. Len(good'), NEW j \in 1 .. Len(good'), i < j
          PROVE  good'[i] < good'[j]
      <4>0. i \in 1 .. Len(good) /\ good'[i] = good[i]
        BY <1>13, <2>2, <3>1
      <4>1. CASE j \in 1 .. Len(good)
        BY <1>13, <2>2, <3>1, <4>0, <4>1
      <4>2. CASE j = Len(good) + 1
        BY <1>4, <1>13, <2>2, <4>0, <4>2 DEF n
      <4>. QED  BY <1>13, <2>2, <4>1, <4>2
    <3>. QED  BY <3>1
  <2>6. \A i \in 1 .. Len(good') : good'[i] <= arrived'
    <3>1. ASSUME NEW i \in 1 .. Len(good')
          PROVE  good'[i] <= arrived'
      <4>1. CASE i \in 1 .. Len(good)
        <5>1. good'[i] = good[i] /\ good[i] <= arrived /\ good[i] \in Nat
          BY <1>13, <2>2, <4>1
        <5>. QED  BY <1>4, <5>1 DEF n
      <4>2. CASE i = Len(good) + 1
        BY <1>4, <1>13, <2>2, <4>2
      <4>. QED  BY <1>13, <2>2, <4>1, <4>2
    <3>. QED  BY <3>1
  <2>7. LinkInv'
    <3>1. taken' \in Seq(1 .. MaxFrames) /\ Len(taken') <= Len(good')
      BY <1>4, <1>13, <2>2
    <3>. QED  BY <1>11, <1>12, <2>2, <2>4, <2>5, <2>6, <3>1 DEF LinkInv
  <2>8. Received!Send
    BY <1>4, <1>13, <2>1 DEF Received!Send
  <2>. QED  BY <2>7, <2>8 DEF Received!Next
<1>15. CASE ~ ok
  <2>1. good' = good /\ taken' = taken
    BY <1>4, <1>15
  <2>2. ~ c.ok
    BY <1>4, <1>15
  <2>3. WaitingIsTheRest'
    <3>1. ASSUME NEW d \in Completion, Waiting(d)', d.ok
          PROVE  \E j \in Len(taken') + 1 .. Len(good') : data'[d.id] = good'[j]
      <4>1. Waiting(d)
        BY <1>9, <2>2, <3>1
      <4>. QED  BY <1>8, <2>1, <3>1, <4>1 DEF LinkInv, WaitingIsTheRest
    <3>2. ASSUME NEW j \in Len(taken') + 1 .. Len(good')
          PROVE  \E d \in Completion : Waiting(d)' /\ d.ok /\ data'[d.id] = good'[j]
      BY <1>8, <2>1 DEF LinkInv, WaitingIsTheRest
    <3>. QED  BY <3>1, <3>2 DEF WaitingIsTheRest
  <2>4. \A i \in 1 .. Len(good') : good'[i] <= arrived'
    BY <1>4, <1>13, <2>1 DEF n
  <2>5. LinkInv'
    BY <1>11, <1>12, <1>13, <2>1, <2>3, <2>4 DEF LinkInv
  <2>. QED  BY <2>1, <2>5 DEF Received!vars
<1>. QED  BY <1>14, <1>15

\* What waits behind the first completion is in order behind it.
LEMMA FirstOfWaiting ==
    ASSUME OfedInv, LinkInv, done < Len(wc)
    PROVE  /\ wc[done + 1] \in Completion /\ Waiting(wc[done + 1])
           /\ \A d \in Completion : Waiting(d) =>
                 \/ d = wc[done + 1]
                 \/ /\ data[wc[done + 1].id] < data[d.id]
                    /\ \/ \E i \in done + 2 .. Len(wc) : d = wc[i]
                       \/ \E i \in 1 .. Len(rcq) : d = rcq[i]
<1>1. /\ Len(wc) \in Nat /\ done \in Nat /\ done + 1 \in done + 1 .. Len(wc)
      /\ done + 1 \in 1 .. Len(wc) /\ wc[done + 1] \in Completion
  BY WaitingIs DEF OfedInv
<1>2. Waiting(wc[done + 1])
  BY <1>1 DEF Waiting
<1>3. ASSUME NEW d \in Completion, Waiting(d)
      PROVE  \/ d = wc[done + 1]
             \/ /\ data[wc[done + 1].id] < data[d.id]
                /\ \/ \E i \in done + 2 .. Len(wc) : d = wc[i]
                   \/ \E i \in 1 .. Len(rcq) : d = rcq[i]
  <2>1. CASE \E i \in done + 1 .. Len(wc) : d = wc[i]
    <3>1. PICK i \in done + 1 .. Len(wc) : d = wc[i]
      BY <2>1
    <3>2. i = done + 1 \/ (done + 1 < i /\ i \in done + 2 .. Len(wc))
      BY <1>1
    <3>3. done + 1 < i => data[wc[done + 1].id] < data[d.id]
      BY <1>1, <3>1 DEF LinkInv, InOrder
    <3>. QED  BY <3>1, <3>2, <3>3
  <2>2. CASE \E i \in 1 .. Len(rcq) : d = rcq[i]
    BY <1>1, <2>2 DEF LinkInv, InOrder
  <2>. QED  BY <1>3, <2>1, <2>2 DEF Waiting
<1>. QED  BY <1>1, <1>2, <1>3

\* After one more completion was processed, the others are in order.
LEMMA ProcessedInOrder ==
    ASSUME OfedInv, LinkInv, Process
    PROVE  /\ InOrder'
           /\ \A d \in Completion : Waiting(d)' <=>
                 \/ \E i \in done + 2 .. Len(wc) : d = wc[i]
                 \/ \E i \in 1 .. Len(rcq) : d = rcq[i]
<1>1. done' = done + 1 /\ wc' = wc /\ rcq' = rcq /\ data' = data
  BY DEF Process
<1>2. done \in Nat /\ Len(wc) \in Nat
  BY WaitingIs DEF OfedInv
<1>3. done' + 1 = done + 2 /\ done' + 1 .. Len(wc) \subseteq done + 1 .. Len(wc)
  BY <1>1, <1>2
<1>4. InOrder'
  BY <1>1, <1>3 DEF LinkInv, InOrder
<1>5. \A d \in Completion : Waiting(d)' <=>
         \/ \E i \in done + 2 .. Len(wc) : d = wc[i]
         \/ \E i \in 1 .. Len(rcq) : d = rcq[i]
  BY <1>1, <1>3 DEF Waiting
<1>. QED  BY <1>4, <1>5

\* A completion with a wrong checksum is skipped.
LEMMA SkipKeeps ==
    ASSUME OfedInv, LinkInv, Process, ~ wc[done + 1].ok
    PROVE  LinkInv' /\ UNCHANGED Received!vars
<1>1. done < Len(wc) /\ UNCHANGED <<data, good, taken, arrived>>
  BY DEF Process, Skip, Take
<1>2. /\ InOrder'
      /\ \A d \in Completion : Waiting(d)' <=>
            \/ \E i \in done + 2 .. Len(wc) : d = wc[i]
            \/ \E i \in 1 .. Len(rcq) : d = rcq[i]
  BY ProcessedInOrder
<1>3. \A d \in Completion : Waiting(d)' => Waiting(d)
  <2>1. done \in Nat /\ Len(wc) \in Nat /\ done + 2 .. Len(wc) \subseteq done + 1 .. Len(wc)
    BY WaitingIs DEF OfedInv
  <2>. QED  BY <1>2, <2>1 DEF Waiting
<1>4. \A d \in Completion : Waiting(d) /\ d.ok => Waiting(d)'
  BY <1>1, <1>2, FirstOfWaiting
<1>5. LinkInv'
  BY <1>1, <1>2, <1>3, <1>4, SameKeeps
<1>. QED  BY <1>1, <1>5 DEF Received!vars

\* The first frame that waits is the next one that arrived with a right checksum.
LEMMA TakeTakes ==
    ASSUME OfedInv, LinkInv, Process, wc[done + 1].ok
    PROVE  LinkInv' /\ Received!Take
<1>. DEFINE m == Len(taken) + 1
<1>1. /\ done < Len(wc) /\ UNCHANGED <<data, good, arrived>>
      /\ taken' = Append(taken, data[wc[done + 1].id])
  BY DEF Process, Skip, Take
<1>2. /\ InOrder'
      /\ \A d \in Completion : Waiting(d)' <=>
            \/ \E i \in done + 2 .. Len(wc) : d = wc[i]
            \/ \E i \in 1 .. Len(rcq) : d = rcq[i]
  BY ProcessedInOrder
<1>3. PICK c \in Completion : c = wc[done + 1]
  BY <1>1, FirstOfWaiting
<1>4. /\ Waiting(c) /\ c.ok
      /\ \A d \in Completion : Waiting(d) => d = c \/ (data[c.id] < data[d.id] /\ Waiting(d)')
  BY <1>1, <1>2, <1>3, FirstOfWaiting
<1>5. /\ taken \in Seq(1 .. MaxFrames) /\ good \in Seq(1 .. MaxFrames)
      /\ Len(taken) \in Nat /\ Len(good) \in Nat
      /\ \A i, j \in 1 .. Len(good) : i < j => good[i] < good[j]
  BY DEF LinkInv
<1>6. \A d \in Completion : data[d.id] \in Nat
  BY WaitingIs, OfedAssumption DEF OfedInv
<1>7. PICK j \in m .. Len(good) : data[c.id] = good[j]
  BY <1>4 DEF LinkInv, WaitingIsTheRest
<1>8. m \in 1 .. Len(good) /\ m \in m .. Len(good) /\ j \in 1 .. Len(good)
  BY <1>5, <1>7
<1>9. data[c.id] = good[m]
  <2>1. SUFFICES ASSUME m < j
                 PROVE  FALSE
    <3>1. j = m \/ m < j
      BY <1>5, <1>7
    <3>. QED  BY <1>7, <2>1, <3>1
  <2>2. good[m] < data[c.id]
    BY <1>5, <1>7, <1>8, <2>1
  <2>3. PICK d \in Completion : Waiting(d) /\ d.ok /\ data[d.id] = good[m]
    BY <1>8 DEF LinkInv, WaitingIsTheRest
  <2>4. d = c \/ data[c.id] < data[d.id]
    BY <1>4, <2>3
  <2>5. data[d.id] < data[c.id]
    BY <2>2, <2>3
  <2>. QED  BY <1>6, <2>4, <2>5
<1>10. taken' = Append(taken, good[m])
  BY <1>1, <1>3, <1>9
<1>11. good[m] \in 1 .. MaxFrames
  BY <1>5, <1>8, ElementOfSeq
<1>12. taken' \in Seq(1 .. MaxFrames) /\ Len(taken') = m
  BY <1>5, <1>10, <1>11, AppendProperties
<1>13. \A d \in Completion : Waiting(d)' => Waiting(d) /\ data[c.id] < data[d.id]
  <2>1. ASSUME NEW d \in Completion, Waiting(d)'
        PROVE  Waiting(d) /\ data[c.id] < data[d.id]
    <3>1. done \in Nat /\ Len(wc) \in Nat /\ done + 1 \in done + 1 .. Len(wc)
      BY <1>1, WaitingIs DEF OfedInv
    <3>2. CASE \E i \in done + 2 .. Len(wc) : d = wc[i]
      <4>1. PICK i \in done + 2 .. Len(wc) : d = wc[i]
        BY <3>2
      <4>2. i \in done + 1 .. Len(wc) /\ done + 1 < i
        BY <3>1
      <4>. QED  BY <1>3, <3>1, <4>1, <4>2 DEF LinkInv, InOrder, Waiting
    <3>3. CASE \E i \in 1 .. Len(rcq) : d = rcq[i]
      BY <1>3, <3>1, <3>3 DEF LinkInv, InOrder, Waiting
    <3>. QED  BY <1>2, <2>1, <3>2, <3>3
  <2>. QED  BY <2>1
<1>14. NoneIsAhead'
  BY <1>1, <1>13 DEF LinkInv, NoneIsAhead
<1>15. WaitingIsTheRest'
  <2>1. ASSUME NEW d \in Completion, Waiting(d)', d.ok
        PROVE  \E k \in Len(taken') + 1 .. Len(good') : data'[d.id] = good'[k]
    <3>1. Waiting(d) /\ good[m] < data[d.id]
      BY <1>9, <1>13, <2>1
    <3>2. PICK k \in m .. Len(good) : data[d.id] = good[k]
      BY <2>1, <3>1 DEF LinkInv, WaitingIsTheRest
    <3>3. k # m
      BY <1>6, <1>9, <3>1, <3>2
    <3>4. k \in m + 1 .. Len(good)
      BY <1>5, <3>3
    <3>. QED  BY <1>1, <1>12, <3>2, <3>4
  <2>2. ASSUME NEW k \in Len(taken') + 1 .. Len(good')
        PROVE  \E d \in Completion : Waiting(d)' /\ d.ok /\ data'[d.id] = good'[k]
    <3>1. k \in m + 1 .. Len(good) /\ k \in m .. Len(good) /\ k \in 1 .. Len(good) /\ m < k
      BY <1>1, <1>5, <1>12
    <3>2. PICK d \in Completion : Waiting(d) /\ d.ok /\ data[d.id] = good[k]
      BY <3>1 DEF LinkInv, WaitingIsTheRest
    <3>3. good[m] < good[k]
      BY <1>5, <1>8, <3>1
    <3>4. d # c
      BY <1>6, <1>9, <3>2, <3>3
    <3>. QED  BY <1>1, <1>4, <3>2, <3>4
  <2>. QED  BY <2>1, <2>2 DEF WaitingIsTheRest
<1>16. LinkInv'
  <2>1. /\ \A i \in 1 .. Len(good) : good[i] <= arrived
        /\ Len(taken') <= Len(good)
    BY <1>5, <1>8, <1>12 DEF LinkInv
  <2>. QED  BY <1>1, <1>2, <1>5, <1>12, <1>14, <1>15, <2>1 DEF LinkInv
<1>17. Received!Take
  BY <1>1, <1>5, <1>8, <1>10 DEF Received!Take
<1>. QED  BY <1>16, <1>17

\* poll() takes the completions in the order of the queue, and at its end none waits but
\* in the queue.
LEMMA CallKeepsLink ==
    ASSUME OfedInv, LinkInv,
           StartPoll \/ Wake \/ Interrupted \/ Finish
    PROVE  LinkInv' /\ UNCHANGED Received!vars
<1>1. UNCHANGED <<data, good, taken, arrived>>
  BY DEF StartPoll, Wake, Interrupted, Finish
<1>2. Len(wc) \in Nat /\ Len(rcq) \in Nat /\ done \in 0 .. Len(wc)
  BY WaitingIs DEF OfedInv
<1>3. done + 1 .. Len(wc) = {}
  <2>1. CASE call = "busy"
    <3>1. done = Len(wc)
      BY <2>1 DEF StartPoll, Wake, Interrupted, Finish
    <3>. QED  BY <1>2, <3>1
  <2>2. CASE call # "busy"
    <3>1. Len(wc) = 0 /\ done = 0
      BY <2>2 DEF OfedInv, PollIsRight
    <3>. QED  BY <3>1
  <2>. QED  BY <2>1, <2>2
<1>4. \/ wc' = rcq /\ rcq' = <<>> /\ done' = 0
      \/ wc' = wc /\ rcq' = rcq /\ done' = done
      \/ wc' = <<>> /\ rcq' = rcq /\ done' = 0
  BY DEF StartPoll, Wake, Interrupted, Finish, TakeCompletions
<1>5. CASE wc' = rcq /\ rcq' = <<>> /\ done' = 0
  <2>1. done' + 1 .. Len(wc') = 1 .. Len(rcq) /\ 1 .. Len(rcq') = {}
    BY <1>2, <1>5
  <2>2. InOrder'
    BY <1>1, <1>5, <2>1 DEF LinkInv, InOrder
  <2>3. \A d \in Completion : Waiting(d)' <=> Waiting(d)
    BY <1>3, <1>5, <2>1 DEF Waiting
  <2>. QED  BY <1>1, <2>2, <2>3, SameKeeps DEF Received!vars
<1>6. CASE wc' = wc /\ rcq' = rcq /\ done' = done
  <2>1. InOrder'
    BY <1>1, <1>6 DEF LinkInv, InOrder
  <2>2. \A d \in Completion : Waiting(d)' <=> Waiting(d)
    BY <1>6 DEF Waiting
  <2>. QED  BY <1>1, <2>1, <2>2, SameKeeps DEF Received!vars
<1>7. CASE wc' = <<>> /\ rcq' = rcq /\ done' = 0
  <2>1. done' + 1 .. Len(wc') = {}
    BY <1>7
  <2>2. InOrder'
    BY <1>1, <1>7, <2>1 DEF LinkInv, InOrder
  <2>3. \A d \in Completion : Waiting(d)' <=> Waiting(d)
    BY <1>3, <1>7, <2>1 DEF Waiting
  <2>. QED  BY <1>1, <2>2, <2>3, SameKeeps DEF Received!vars
<1>. QED  BY <1>4, <1>5, <1>6, <1>7

\* The other steps neither receive nor process.
LEMMA OthersKeepLink ==
    ASSUME LinkInv, UNCHANGED <<data, good, taken, arrived, wc, rcq, done>>
    PROVE  LinkInv' /\ UNCHANGED Received!vars
<1>1. InOrder'
  BY DEF LinkInv, InOrder
<1>2. \A d \in Completion : Waiting(d)' <=> Waiting(d)
  BY DEF Waiting
<1>. QED  BY <1>1, <1>2, SameKeeps DEF Received!vars

\* The device implements the link: every frame with a right checksum is handed to
\* the processor once, as it arrived and in the order of arrival, though the
\* buffers go round and are posted again in the middle of poll().
THEOREM DeviceImplementsLink == Spec => ImplementsLink
<1>1. Init => Received!Init /\ LinkInv
  <2>1. SUFFICES ASSUME Init
                 PROVE  Received!Init /\ LinkInv
    OBVIOUS
  <2>2. /\ good = <<>> /\ taken = <<>> /\ wc = <<>> /\ rcq = <<>> /\ done = 0 /\ arrived = 0
        /\ Len(wc) = 0 /\ Len(rcq) = 0 /\ Len(good) = 0 /\ Len(taken) = 0
    BY <2>1 DEF Init
  <2>3. \A d \in Completion : ~ Waiting(d)
    BY <2>2 DEF Waiting
  <2>4. InOrder /\ NoneIsAhead /\ WaitingIsTheRest
    BY <2>2, <2>3 DEF InOrder, NoneIsAhead, WaitingIsTheRest
  <2>5. good \in Seq(1 .. MaxFrames) /\ taken \in Seq(1 .. MaxFrames)
    BY <2>2
  <2>. QED  BY <2>2, <2>4, <2>5 DEF Received!Init, LinkInv
<1>2. OfedInv /\ LinkInv /\ [Next]_vars => LinkInv' /\ [Received!Next]_(Received!vars)
  <2>1. SUFFICES ASSUME OfedInv, LinkInv, [Next]_vars
                 PROVE  LinkInv' /\ [Received!Next]_(Received!vars)
    OBVIOUS
  <2>2. CASE \E ok \in BOOLEAN : Arrive(ok)
    BY <2>1, <2>2, ArriveSends
  <2>3. CASE Process
    <3>1. CASE wc[done + 1].ok
      BY <2>1, <2>3, <3>1, TakeTakes DEF Received!Next
    <3>2. CASE ~ wc[done + 1].ok
      BY <2>1, <2>3, <3>2, SkipKeeps
    <3>. QED  BY <3>1, <3>2
  <2>4. CASE StartPoll \/ Wake \/ Interrupted \/ Finish
    BY <2>1, <2>4, CallKeepsLink
  <2>5. CASE \/ StartWait \/ Timeout \/ Close \/ Prepare \/ (\E b \in Bufs : Commit(b))
             \/ Transmit \/ UNCHANGED vars
    <3>1. UNCHANGED <<data, good, taken, arrived, wc, rcq, done>>
      BY <2>5 DEF StartWait, Timeout, Close, Prepare, Commit, Transmit, vars, rx
    <3>. QED  BY <2>1, <3>1, OthersKeepLink
  <2>. QED  BY <2>1, <2>2, <2>3, <2>4, <2>5 DEF Next, Host
<1>. QED  BY <1>1, <1>2, OfedInvariant, PTL DEF Spec, ImplementsLink, Received!Spec
=============================================================================
