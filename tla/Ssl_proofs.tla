----------------------------- MODULE Ssl_proofs -----------------------------
(***************************************************************************)
(* Proofs about the TLS client and server, for every length of records,    *)
(* segments, and number of segments in flight, and for every size of the   *)
(* buffers that the mask is right for.                                     *)
(*                                                                         *)
(* A buffer is shown to be a bounded queue first.  Then the ciphertext of  *)
(* a side is one numbered stream, in whichever of its three places a piece *)
(* is, and its first numbers are those of the handshake: so the number of  *)
(* a piece says which record it is of.                                     *)
(***************************************************************************)
EXTENDS Ssl, FiniteSetTheorems, SequenceTheorems, WellFoundedInduction, TLAPS

Pieces == [kind : Kinds, no : Nat, last : BOOLEAN]

Buffers ==
    {b \in [data : [0 .. Size - 1 -> Pieces], read : Nat, write : Nat] :
        b.read <= b.write /\ b.write <= b.read + Size}

States == {"None", "Connect", "Accept", "Ready", "Shutdown"}

Contexts ==
    [state : States, blocked : BOOLEAN, bin : Seq(Pieces), bout : Buffers,
     hs : 0 .. 4, made : Nat, wedged : BOOLEAN, sentBye : BOOLEAN, gotBye : BOOLEAN,
     written : Nat, ignored : Nat, given : Nat, read : BOOLEAN]

SslTypeOK ==
    /\ ctx \in [Sides -> Contexts]
    /\ net \in [Sides -> Seq(Seq(Pieces))]
    /\ acks \in [Sides -> Nat]
    /\ open \in [Sides -> BOOLEAN]
    /\ fin \in [Sides -> BOOLEAN]
    /\ over \in {"no", "closed", "aborted"}
    /\ shut \in Nat

\* The flights of a side, and the numbers of their last pieces.
Flight(e, n) == Flights[IF e = "client" THEN 2 * n - 1 ELSE 2 * n]

FirstEnd(e) == Length[Flight(e, 1)]

SecondEnd(e) == FirstEnd(e) + Length[Flight(e, 2)]

\* The number of a piece tells its kind, and where the handshake ends.
IsInPlace(e, p) ==
    /\ p.no <= FirstEnd(e) => p.kind = Flight(e, 1) /\ (p.last <=> p.no = FirstEnd(e))
    /\ FirstEnd(e) < p.no /\ p.no <= SecondEnd(e) =>
            p.kind = Flight(e, 2) /\ (p.last <=> p.no = SecondEnd(e))
    /\ SecondEnd(e) < p.no => p.kind \in DataKinds \cup {"bye"}

-----------------------------------------------------------------------------
(***************************************************************************)
(* The stream of a side e: its context c, the segments s under way, and    *)
(* the context g of its peer, which may have closed.                       *)
(***************************************************************************)

Way(c, s, g) ==
    ToSet(g.bin)
        \cup (UNION {ToSet(s[k]) : k \in 1 .. Len(s)})
        \cup ToSet(Peek(c.bout, Pending(c)))

Mark(c, s, k) ==
    IF k = Len(s) THEN c.made - Pending(c) ELSE s[k + 1][1].no - 1

\* The pieces of e are numbered one by one, and the ends of segments in a row.
AreNumbered(c, s) ==
    /\ Numbered(Peek(c.bout, Pending(c)), c.made)
    /\ \A k \in 1 .. Len(s) : s[k] # <<>> /\ Numbered(s[k], Mark(c, s, k))
    /\ Mark(c, s, 0) \in Nat
    /\ \A j, k \in 0 .. Len(s) : j <= k => Mark(c, s, j) <= Mark(c, s, k)

\* Up to which number a side in the h-th step of the handshake has taken flights.
TakenUpTo(e, h) ==
    IF h <= 1 THEN 0 ELSE IF h <= 3 THEN FirstEnd(e) ELSE SecondEnd(e)

\* What is in bin are the pieces behind the flights that were taken.
AreTaken(e, c, s, g) ==
    /\ Numbered(g.bin, Mark(c, s, 0))
    /\ TakenUpTo(e, g.hs) + Len(g.bin) <= Mark(c, s, 0)
    /\ g.hs < 4 => TakenUpTo(e, g.hs) + Len(g.bin) = Mark(c, s, 0)

\* Nothing but byes follows a bye.
ByesAreLast(c, W) ==
    \A p \in W :
        p.kind = "bye" => c.sentBye /\ \A q \in W : p.no <= q.no => q.kind = "bye"

\* A bye is not lost.
ByeIsKept(c, g, W) ==
    c.sentBye /\ ~ c.wedged /\ ~ g.gotBye =>
        \E p \in W : p.no = c.made /\ p.kind = "bye" /\ p.last

Records(W) == {p \in W : p.kind \in DataKinds /\ p.last}

\* Each record that was taken is given, or on its way.
AreCounted(c, g, W) ==
    ~ g.gotBye /\ ~ c.wedged => c.written - g.given = Cardinality(Records(W))

\* What a side that did not close takes.
IsTakenBy(e, c, s, g) ==
    /\ AreTaken(e, c, s, g)
    /\ \A p \in Way(c, s, g) : IsInPlace(e, p)
    /\ ByesAreLast(c, Way(c, s, g))
    /\ ByeIsKept(c, g, Way(c, s, g))
    /\ AreCounted(c, g, Way(c, s, g))

IsStream(e, c, s, g, closed) ==
    /\ AreNumbered(c, s)
    /\ g.gotBye => c.sentBye
    /\ ~ closed => IsTakenBy(e, c, s, g)

-----------------------------------------------------------------------------
(***************************************************************************)
(* The contexts.                                                           *)
(***************************************************************************)

\* How many pieces there are by the flights that were sent.
IsMade(e, c) ==
    /\ c.hs = 0 => c.made = 0 /\ ~ c.wedged
    /\ c.hs \in {1, 2} => c.made <= FirstEnd(e) /\ (~ c.wedged => c.made = FirstEnd(e))
    /\ c.hs = 3 => c.made <= SecondEnd(e) /\ (~ c.wedged => c.made = SecondEnd(e))
    /\ c.hs = 4 => (~ c.wedged => c.made >= SecondEnd(e))

IsOwn(e, c) ==
    /\ IsMade(e, c)
    /\ c.sentBye => c.hs = 4
    /\ c.gotBye => c.sentBye

\* The sides take turns in the handshake.
Turns == {<<0, 0>>, <<1, 0>>, <<1, 2>>, <<3, 2>>, <<3, 4>>, <<4, 4>>}

TakeTurns(e, c, g) ==
    IF e = "client" THEN <<c.hs, g.hs>> \in Turns ELSE <<g.hs, c.hs>> \in Turns

IsGreeting(c) == c.state \in {"None", "Connect", "Accept"}

\* What the state of a context says of the rest.
StateIsSound(e, c, closed) ==
    /\ IsGreeting(c) <=> c.hs < 4
    /\ c.state = "None" => c = NewContext("None")
    /\ c.state = "Connect" => e = "client"
    /\ c.state = "Accept" => e = "server"
    /\ closed => c.hs = 4
    /\ IsGreeting(c) => Complete(c) = {}
    /\ c.state = "Ready" /\ c.read => Complete(c) = {}
    /\ c.state = "Ready" /\ c.sentBye => c.gotBye
    /\ c.state = "Shutdown" /\ ~ closed /\ ~ c.wedged => c.sentBye /\ ~ c.gotBye

\* The server has nothing left from the handshake; and a server that answers
\* the shutdown of a client does so after the client left Ready.
ByesAreRead(c, g, closed) ==
    c.state = "Shutdown" /\ ~ closed /\ g.state = "Ready" =>
        \A i \in 1 .. Len(c.bin) : c.bin[i].kind # "bye"

ServerIsRead(g, closed) == ~ closed => Complete(g) = {}

\* With open windows, something is under way for a side that waits to send.
IsWoken(e) ==
    /\ InFlight(e) <= NSeg
    /\ ctx[e].state = "None" => InFlight(e) = 0
    /\ ~ open[e] => shut > 0
    /\ shut = 0 /\ over = "no" /\ ~ fin[e] /\ ~ ctx[e].wedged =>
            (Pending(ctx[e]) > 0 \/ ctx[e].blocked => InFlight(e) > 0)

SslInv ==
    /\ SslTypeOK
    /\ \A e \in Sides :
        /\ IsStream(e, ctx[e], net[e], ctx[Peer(e)], fin[Peer(e)])
        /\ IsOwn(e, ctx[e])
        /\ StateIsSound(e, ctx[e], fin[e])
        /\ TakeTurns(e, ctx[e], ctx[Peer(e)])
        /\ IsWoken(e)
    /\ ByesAreRead(ctx["client"], ctx["server"], fin["client"])
    /\ ServerIsRead(ctx["server"], fin["server"])

\* A power of two is in every set of numbers with 1 and the double of each.
IsPowerOfTwo(n) ==
    \A S \in SUBSET Nat : 1 \in S /\ (\A m \in S : 2 * m \in S) => n \in S

-----------------------------------------------------------------------------
(***************************************************************************)
(* The mask.  And is a recursive function: there is one by the functions   *)
(* on the first numbers, of which there is one for each number, by the     *)
(* least for which there is none.                                          *)
(***************************************************************************)

\* A non-empty set of naturals has a least element.
LEMMA LeastElement ==
    ASSUME NEW T, T \subseteq Nat, T # {}
    PROVE  \E m \in T : \A k \in T : m <= k
<1>1. PICK m \in T : \A k \in T : ~ (<<k, m>> \in OpToRel(<, Nat))
  BY WFMin, NatLessThanWellFounded
<1>2. \A k \in T : ~ (k < m)
  BY <1>1 DEF OpToRel
<1>. QED  BY <1>2

\* The product of two bits.
LEMMA BitsAre ==
    ASSUME NEW m \in Nat, NEW n \in Nat
    PROVE  /\ (m % 2) * (n % 2) \in Nat
           /\ n % 2 \in {0, 1}
           /\ n \div 2 \in Nat /\ (n # 0 => n \div 2 < n)
           /\ n = 2 * (n \div 2) + (n % 2)
<1>1. n % 2 \in {0, 1} /\ m % 2 \in {0, 1}
  OBVIOUS
<1>2. (m % 2) * (n % 2) \in {0, 1}
  BY <1>1
<1>. QED  BY <1>1, <1>2

\* One step of the recursion, on rows g[m] of And.
AndStep(g, m, n) ==
    IF m = 0 \/ n = 0 THEN 0 ELSE (m % 2) * (n % 2) + 2 * g[m \div 2][n \div 2]

\* The rows up to the k-th.
IsAndUpTo(g, k) ==
    /\ g \in [0 .. k -> [Nat -> Nat]]
    /\ \A m \in 0 .. k : \A n \in Nat : g[m][n] = AndStep(g, m, n)

LEMMA AndRowsExist ==
    ASSUME NEW k \in Nat
    PROVE  \E g : IsAndUpTo(g, k)
<1>. DEFINE T == {j \in Nat : ~ \E g : IsAndUpTo(g, j)}
<1>1. SUFFICES ASSUME T # {}
               PROVE  FALSE
  OBVIOUS
<1>2. PICK j \in T : \A i \in T : j <= i
  BY <1>1, LeastElement
<1>3. j \in Nat /\ ~ \E g : IsAndUpTo(g, j)
  OBVIOUS
<1>4. j # 0
  <2>. DEFINE g == [m \in 0 .. 0 |-> [n \in Nat |-> 0]]
  <2>1. IsAndUpTo(g, 0)
    BY DEF IsAndUpTo, AndStep
  <2>. QED  BY <2>1, <1>3
<1>5. j - 1 \in Nat /\ j - 1 \notin T
  BY <1>2, <1>3, <1>4
<1>6. PICK g : IsAndUpTo(g, j - 1)
  BY <1>5
<1>. HIDE DEF T
<1>. DEFINE row == [n \in Nat |-> AndStep(g, j, n)]
            h == [m \in 0 .. j |-> IF m = j THEN row ELSE g[m]]
<1>7. \A m \in 0 .. j : m # 0 => m \div 2 \in 0 .. j - 1
  BY <1>3, <1>4
<1>8. \A m \in 0 .. j - 1 : g[m] \in [Nat -> Nat]
  BY <1>6 DEF IsAndUpTo
<1>9. row \in [Nat -> Nat]
  <2>1. SUFFICES ASSUME NEW n \in Nat
                 PROVE  AndStep(g, j, n) \in Nat
    OBVIOUS
  <2>2. g[j \div 2] \in [Nat -> Nat]
    BY <1>3, <1>4, <1>7, <1>8
  <2>3. g[j \div 2][n \div 2] \in Nat
    BY <2>2, BitsAre
  <2>4. (j % 2) * (n % 2) \in Nat
    BY <1>3, BitsAre
  <2>. QED  BY <2>3, <2>4 DEF AndStep
<1>10. h \in [0 .. j -> [Nat -> Nat]]
  BY <1>8, <1>9, <1>3, <1>4
<1>. HIDE DEF row
<1>11. ASSUME NEW m \in 0 .. j, NEW n \in Nat
       PROVE  h[m][n] = AndStep(h, m, n)
  <2>1. AndStep(h, m, n) = AndStep(g, m, n)
    <3>1. CASE m = 0
      BY <3>1 DEF AndStep
    <3>2. CASE m # 0
      <4>1. m \div 2 \in 0 .. j - 1
        BY <3>2, <1>7
      <4>2. h[m \div 2] = g[m \div 2]
        BY <4>1, <1>3
      <4>. QED  BY <4>2 DEF AndStep
    <3>. QED  BY <3>1, <3>2
  <2>2. CASE m = j
    BY <2>1, <2>2 DEF row
  <2>3. CASE m # j
    <3>1. m \in 0 .. j - 1
      BY <2>3, <1>3
    <3>. QED  BY <2>1, <2>3, <3>1, <1>6 DEF IsAndUpTo
  <2>. QED  BY <2>2, <2>3
<1>12. IsAndUpTo(h, j)
  BY <1>10, <1>11 DEF IsAndUpTo
<1>. QED  BY <1>12, <1>3

LEMMA AndRowsAgree ==
    ASSUME NEW j \in Nat, NEW k \in Nat, NEW g, NEW h,
           IsAndUpTo(g, j), IsAndUpTo(h, k),
           NEW m \in Nat, m <= j, m <= k
    PROVE  g[m] = h[m]
<1>. DEFINE T == {i \in Nat : i <= j /\ i <= k /\ g[i] # h[i]}
<1>1. SUFFICES ASSUME T # {}
               PROVE  FALSE
  OBVIOUS
<1>2. PICK i \in T : \A l \in T : i <= l
  BY <1>1, LeastElement
<1>3. i \in Nat /\ i \in 0 .. j /\ i \in 0 .. k /\ g[i] # h[i]
  OBVIOUS
<1>4. i # 0 => i \div 2 \in Nat /\ i \div 2 < i /\ i \div 2 <= j /\ i \div 2 <= k
  BY <1>3
<1>5. i # 0 => g[i \div 2] = h[i \div 2]
  <2>1. i # 0 => i \div 2 \notin T
    BY <1>2, <1>3, <1>4
  <2>. QED  BY <2>1, <1>4
<1>. HIDE DEF T
<1>6. ASSUME NEW n \in Nat
      PROVE  g[i][n] = h[i][n]
  <2>1. AndStep(g, i, n) = AndStep(h, i, n)
    BY <1>5 DEF AndStep
  <2>. QED  BY <2>1, <1>3 DEF IsAndUpTo
<1>7. g[i] \in [Nat -> Nat] /\ h[i] \in [Nat -> Nat]
  BY <1>3 DEF IsAndUpTo
<1>. QED  BY <1>3, <1>6, <1>7

\* And is defined by its recursion.
LEMMA AndIs ==
    ASSUME NEW m \in Nat, NEW n \in Nat
    PROVE  And[m][n] = IF m = 0 \/ n = 0 THEN 0
                       ELSE (m % 2) * (n % 2) + 2 * And[m \div 2][n \div 2]
<1>. DEFINE G(i) == CHOOSE g : IsAndUpTo(g, i)
            f == [i \in Nat |-> [j \in Nat |-> G(i)[i][j]]]
<1>1. \A i \in Nat : IsAndUpTo(G(i), i)
  BY AndRowsExist
<1>2. ASSUME NEW i \in Nat, NEW j \in Nat
      PROVE  f[i][j] = IF i = 0 \/ j = 0 THEN 0
                       ELSE (i % 2) * (j % 2) + 2 * f[i \div 2][j \div 2]
  <2>1. i \div 2 \in Nat /\ j \div 2 \in Nat /\ i \div 2 <= i
    OBVIOUS
  <2>2. G(i)[i \div 2] = G(i \div 2)[i \div 2]
    <3>1. IsAndUpTo(G(i), i) /\ IsAndUpTo(G(i \div 2), i \div 2)
      BY <1>1, <2>1
    <3>. HIDE DEF G
    <3>. QED  BY <2>1, <3>1, AndRowsAgree
  <2>3. G(i)[i][j] = AndStep(G(i), i, j)
    <3>1. IsAndUpTo(G(i), i) /\ i \in 0 .. i
      BY <1>1
    <3>. HIDE DEF G
    <3>. QED  BY <3>1 DEF IsAndUpTo
  <2>. HIDE DEF G
  <2>4. f[i][j] = G(i)[i][j] /\ f[i \div 2][j \div 2] = G(i \div 2)[i \div 2][j \div 2]
    BY <2>1
  <2>. HIDE DEF f
  <2>. QED  BY <2>2, <2>3, <2>4 DEF AndStep
<1>. HIDE DEF G
<1>. DEFINE Row(h, i) ==
            [j \in Nat |-> IF i = 0 \/ j = 0 THEN 0
                          ELSE (i % 2) * (j % 2) + 2 * h[i \div 2][j \div 2]]
<1>3. f = [i \in Nat |-> Row(f, i)]
  <2>1. ASSUME NEW i \in Nat
        PROVE  f[i] = Row(f, i)
    <3>1. f[i] = [j \in Nat |-> f[i][j]]
      OBVIOUS
    <3>. HIDE DEF f
    <3>. QED  BY <3>1, <1>2
  <2>2. f = [i \in Nat |-> f[i]]
    OBVIOUS
  <2>. HIDE DEF f, Row
  <2>. QED  BY <2>1, <2>2
<1>. HIDE DEF f
<1>4. And = [i \in Nat |-> Row(And, i)]
  BY <1>3 DEF And
<1>. QED  BY <1>4

\* The remainder is the one number below the divisor.
LEMMA RemainderIs ==
    ASSUME NEW d \in Nat \ {0}, NEW n \in Nat, NEW q \in Int, NEW r \in 0 .. d - 1,
           n = d * q + r
    PROVE  n % d = r
<1>. DEFINE p == n \div d
            s == n % d
<1>1. n = d * p + s /\ p \in Int /\ s \in 0 .. d - 1
  OBVIOUS
<1>. HIDE DEF p, s
<1>2. d * q \in Int /\ d * p \in Int /\ d * (q - p) = d * q - d * p
  BY <1>1
<1>3. d * (q - p) = s - r
  BY <1>1, <1>2
<1>4. ~ (q - p >= 1)
  <2>1. SUFFICES ASSUME q - p >= 1
                 PROVE  FALSE
    OBVIOUS
  <2>2. d * (q - p) >= d
    BY <2>1, <1>1
  <2>. QED  BY <2>2, <1>1, <1>3
<1>5. ~ (q - p <= 0 - 1)
  <2>1. SUFFICES ASSUME p - q >= 1
                 PROVE  FALSE
    BY <1>1
  <2>2. d * (p - q) >= d
    BY <2>1, <1>1
  <2>3. d * (p - q) = d * p - d * q
    BY <1>1
  <2>. QED  BY <2>2, <2>3, <1>1, <1>2, <1>3
<1>6. q = p
  BY <1>1, <1>4, <1>5
<1>. QED  BY <1>1, <1>3, <1>6 DEF s

LEMMA Divided ==
    ASSUME NEW d \in Nat \ {0}, NEW n \in Nat
    PROVE  \E q \in Nat : n = d * q + (n % d) /\ n % d \in 0 .. d - 1
<1>1. n = d * (n \div d) + (n % d) /\ n \div d \in Nat /\ n % d \in 0 .. d - 1
  OBVIOUS
<1>. QED  BY <1>1

\* What the mask of a size makes of a number.
MaskIsModulo(s) == \A n \in Nat : And[n][s - 1] = n % s

LEMMA MaskOfDouble ==
    ASSUME NEW s \in Nat \ {0}, MaskIsModulo(s)
    PROVE  MaskIsModulo(2 * s)
<1>1. 2 * s - 1 \in Nat /\ 2 * s - 1 # 0 /\ (2 * s - 1) % 2 = 1 /\ (2 * s - 1) \div 2 = s - 1
  OBVIOUS
<1>2. SUFFICES ASSUME NEW n \in Nat
               PROVE  And[n][2 * s - 1] = n % (2 * s)
  BY DEF MaskIsModulo
<1>3. CASE n = 0
  <2>1. And[n][2 * s - 1] = 0
    BY <1>1, <1>3, AndIs
  <2>2. 0 % (2 * s) = 0
    <3>1. 2 * s \in Nat \ {0} /\ 0 \in 0 .. 2 * s - 1 /\ 0 = (2 * s) * 0 + 0
      OBVIOUS
    <3>. QED  BY <3>1, RemainderIs
  <2>. QED  BY <1>3, <2>1, <2>2
<1>4. CASE n # 0
  <2>. DEFINE h == n \div 2
              b == n % 2
  <2>1. h \in Nat /\ b \in {0, 1} /\ n = 2 * h + b
    BY BitsAre
  <2>2. And[n][2 * s - 1] = b + 2 * And[h][s - 1]
    <3>1. And[n][2 * s - 1] = (n % 2) * ((2 * s - 1) % 2) + 2 * And[n \div 2][(2 * s - 1) \div 2]
      BY <1>1, <1>4, AndIs
    <3>. QED  BY <3>1, <1>1, <2>1
  <2>. HIDE DEF h, b
  <2>3. And[h][s - 1] = h % s
    BY <2>1 DEF MaskIsModulo
  <2>4. PICK q \in Nat : h = s * q + (h % s) /\ h % s \in 0 .. s - 1
    BY <2>1, Divided
  <2>. DEFINE r == h % s
  <2>5. r \in 0 .. s - 1 /\ h = s * q + r
    BY <2>4
  <2>. HIDE DEF r
  <2>6. n = (2 * s) * q + (2 * r + b)
    <3>1. s * q \in Int /\ (2 * s) * q = 2 * (s * q)
      OBVIOUS
    <3>. QED  BY <3>1, <2>1, <2>5
  <2>7. 2 * r + b \in 0 .. 2 * s - 1
    BY <2>1, <2>5
  <2>8. n % (2 * s) = 2 * r + b
    <3>. DEFINE d == 2 * s
                x == 2 * r + b
    <3>1. d \in Nat \ {0} /\ x \in 0 .. d - 1 /\ n = d * q + x
      BY <2>6, <2>7
    <3>. HIDE DEF d, x
    <3>2. n % d = x
      BY <3>1, RemainderIs
    <3>. QED  BY <3>2 DEF d, x
  <2>. QED  BY <2>1, <2>2, <2>3, <2>5, <2>8 DEF r
<1>. QED  BY <1>3, <1>4

\* The mask of a power of two takes the remainder.
LEMMA MaskOfPowerOfTwo ==
    ASSUME IsPowerOfTwo(Size)
    PROVE  MaskIsModulo(Size)
<1>. DEFINE T == {s \in Nat \ {0} : MaskIsModulo(s)}
<1>1. 1 \in T
  <2>1. ASSUME NEW n \in Nat
        PROVE  And[n][0] = n % 1
    <3>1. And[n][0] = 0
      BY AndIs
    <3>2. n % 1 = 0
      OBVIOUS
    <3>. QED  BY <3>1, <3>2
  <2>. QED  BY <2>1 DEF MaskIsModulo
<1>2. ASSUME NEW s \in T
      PROVE  2 * s \in T
  BY MaskOfDouble
<1>3. T \in SUBSET Nat
  OBVIOUS
<1>. HIDE DEF T
<1>4. Size \in T
  BY <1>1, <1>2, <1>3 DEF IsPowerOfTwo
<1>. QED  BY <1>4 DEF T

\* Bringing the start of a copy into the image changes nothing.
LEMMA RemainderOfSum ==
    ASSUME NEW d \in Nat \ {0}, NEW m \in Nat, NEW n \in Nat
    PROVE  ((m % d) + n) % d = (m + n) % d
<1>1. PICK p \in Nat : m = d * p + (m % d) /\ m % d \in 0 .. d - 1
  BY Divided
<1>. DEFINE k == (m % d) + n
<1>2. k \in Nat
  BY <1>1
<1>3. PICK q \in Nat : k = d * q + (k % d) /\ k % d \in 0 .. d - 1
  BY <1>2, Divided
<1>4. m + n = d * p + k
  BY <1>1
<1>. HIDE DEF k
<1>. DEFINE r == k % d
<1>5. r \in 0 .. d - 1 /\ k = d * q + r
  BY <1>3
<1>. HIDE DEF r
<1>6. m + n = d * (p + q) + r
  <2>1. d * p \in Int /\ d * q \in Int /\ d * (p + q) = d * p + d * q
    OBVIOUS
  <2>. QED  BY <2>1, <1>4, <1>5
<1>7. (m + n) % d = r
  BY <1>5, <1>6, RemainderIs, m + n \in Nat, p + q \in Int
<1>. QED  BY <1>7 DEF r, k

\* How far a slot is from the one of m, n being x further, or a lap before that.
LEMMA RemainderOfDifference ==
    ASSUME NEW d \in Nat \ {0}, NEW m \in Nat, NEW n \in Nat, NEW x \in 0 .. d - 1,
           n = m + x \/ n + d = m + x
    PROVE  ((n % d) + d - (m % d)) % d = x
<1>1. PICK p \in Nat : m = d * p + (m % d) /\ m % d \in 0 .. d - 1
  BY Divided
<1>2. PICK q \in Nat : n = d * q + (n % d) /\ n % d \in 0 .. d - 1
  BY Divided
<1>. DEFINE r == m % d
            s == n % d
<1>3. r \in 0 .. d - 1 /\ m = d * p + r /\ s \in 0 .. d - 1 /\ n = d * q + s
  BY <1>1, <1>2
<1>. HIDE DEF r, s
<1>4. s + d - r \in Nat
  BY <1>3
<1>5. CASE n = m + x
  <2>1. d * p \in Int /\ d * q \in Int /\ d * (p - q + 1) = d * p - d * q + d
    OBVIOUS
  <2>2. s + d - r = d * (p - q + 1) + x
    BY <1>3, <1>5, <2>1
  <2>3. p - q + 1 \in Int
    OBVIOUS
  <2>. QED  BY <2>2, <2>3, <1>4, RemainderIs DEF r, s
<1>6. CASE n + d = m + x
  <2>1. d * p \in Int /\ d * q \in Int /\ d * (p - q) = d * p - d * q
    OBVIOUS
  <2>2. s + d - r = d * (p - q) + x
    BY <1>3, <1>6, <2>1
  <2>3. p - q \in Int
    OBVIOUS
  <2>. QED  BY <2>2, <2>3, <1>4, RemainderIs DEF r, s
<1>. QED  BY <1>5, <1>6

-----------------------------------------------------------------------------
(***************************************************************************)
(* A buffer is a bounded queue.                                            *)
(***************************************************************************)

MaskFits == MaskIsModulo(Size)

\* What is in a buffer, the oldest piece first.
Content(b) == Peek(b, Available(b))

LEMMA BufferIs ==
    ASSUME NEW b \in Buffers
    PROVE  /\ b.read \in Nat /\ b.write \in Nat /\ b.data \in [0 .. Size - 1 -> Pieces]
           /\ Available(b) \in 0 .. Size /\ Left(b) \in 0 .. Size
           /\ Left(b) = Size - Available(b) /\ b.write = b.read + Available(b)
           /\ b.read <= b.write /\ b.write <= b.read + Size
BY SizeAssumption DEF Buffers, Available, Left

LEMMA LeastOfTwo ==
    ASSUME NEW m \in Nat, NEW n \in Nat
    PROVE  /\ Least(m, n) \in 0 .. m /\ Least(m, n) \in 0 .. n
           /\ Least(m, n) = m \/ Least(m, n) = n
BY DEF Least

LEMMA EmptyBufferIs ==
    ASSUME NEW p \in Pieces
    PROVE  EmptyBuffer(p) \in Buffers /\ Available(EmptyBuffer(p)) = 0
BY SizeAssumption DEF EmptyBuffer, Buffers, Available

LEMMA PeekIs ==
    ASSUME MaskFits, NEW b \in Buffers, NEW n \in 0 .. Available(b)
    PROVE  /\ Peek(b, n) \in Seq(Pieces) /\ Len(Peek(b, n)) = n
           /\ \A i \in 1 .. n : Peek(b, n)[i] = b.data[(b.read + i - 1) % Size]
<1>1. /\ b.read \in Nat /\ b.data \in [0 .. Size - 1 -> Pieces]
      /\ Available(b) \in Nat /\ n \in Nat
  BY BufferIs, SizeAssumption
<1>2. ReadAt(b) = b.read % Size
  BY <1>1 DEF MaskFits, MaskIsModulo, ReadAt, Mask
<1>3. ASSUME NEW i \in 1 .. n
      PROVE  /\ ((b.read % Size) + i - 1) % Size = (b.read + i - 1) % Size
             /\ b.data[(b.read + i - 1) % Size] \in Pieces
  <2>1. i - 1 \in Nat /\ b.read % Size \in Nat /\ (b.read + (i - 1)) % Size \in 0 .. Size - 1
    BY <1>1, SizeAssumption
  <2>2. ((b.read % Size) + (i - 1)) % Size = (b.read + (i - 1)) % Size
    BY <1>1, <2>1, RemainderOfSum, SizeAssumption
  <2>3. (b.read % Size) + (i - 1) = (b.read % Size) + i - 1 /\ b.read + (i - 1) = b.read + i - 1
    BY <1>1, <2>1
  <2>. QED  BY <1>1, <2>1, <2>2, <2>3
<1>4. Peek(b, n) = [i \in 1 .. n |-> b.data[(b.read + i - 1) % Size]]
  BY <1>2, <1>3 DEF Peek
<1>5. [i \in 1 .. n |-> b.data[(b.read + i - 1) % Size]] \in [1 .. n -> Pieces]
  BY <1>3
<1>6. Peek(b, n) \in Seq(Pieces)
  BY <1>1, <1>4, <1>5, SeqDef
<1>. QED  BY <1>1, <1>4, <1>6, LenProperties

LEMMA ContentIs ==
    ASSUME MaskFits, NEW b \in Buffers
    PROVE  /\ Content(b) \in Seq(Pieces) /\ Len(Content(b)) = Available(b)
           /\ \A i \in 1 .. Available(b) : Content(b)[i] = b.data[(b.read + i - 1) % Size]
<1>1. Available(b) \in 0 .. Available(b)
  BY BufferIs, SizeAssumption
<1>. QED  BY <1>1, PeekIs DEF Content

\* Skipping what was taken.
LEMMA SkipIs ==
    ASSUME MaskFits, NEW b \in Buffers, NEW n \in 0 .. Available(b)
    PROVE  /\ Skip(b, n) \in Buffers
           /\ Available(Skip(b, n)) = Available(b) - n
           /\ \A i \in 1 .. Available(b) - n : Content(Skip(b, n))[i] = Content(b)[n + i]
           /\ \A i \in 1 .. n : Peek(b, n)[i] = Content(b)[i]
<1>. DEFINE s == Skip(b, n)
<1>0. b.data \in [0 .. Size - 1 -> Pieces]
  BY BufferIs
<1>1. /\ b.read \in Nat /\ b.write \in Nat
      /\ Available(b) \in Nat /\ n \in Nat /\ n <= Available(b)
      /\ b.write = b.read + Available(b) /\ b.write <= b.read + Size /\ Size \in Nat \ {0}
  BY BufferIs, SizeAssumption
<1>2. Least(n, Available(b)) = n
  BY <1>1, LeastOfTwo DEF Least
<1>3. s.read = b.read + n /\ s.write = b.write /\ s.data = b.data /\ s \in Buffers
  <2>1. b \in [data : [0 .. Size - 1 -> Pieces], read : Nat, write : Nat]
    BY DEF Buffers
  <2>2. s = [b EXCEPT !.read = b.read + n]
    BY <1>2 DEF Skip
  <2>3. /\ s \in [data : [0 .. Size - 1 -> Pieces], read : Nat, write : Nat]
        /\ s.read = b.read + n /\ s.write = b.write /\ s.data = b.data
    BY <2>1, <2>2, <1>1
  <2>. HIDE DEF s
  <2>. QED  BY <2>3, <1>1 DEF Buffers
<1>4. Available(s) = Available(b) - n
  BY <1>1, <1>3 DEF Available
<1>. HIDE DEF s
<1>5. ASSUME NEW i \in 1 .. Available(b) - n
      PROVE  Content(s)[i] = Content(b)[n + i]
  <2>1. Content(s)[i] = b.data[(b.read + n + i - 1) % Size]
    BY <1>3, <1>4, ContentIs
  <2>2. n + i \in 1 .. Available(b) /\ b.read + (n + i) - 1 = b.read + n + i - 1
    BY <1>1
  <2>. QED  BY <2>1, <2>2, ContentIs
<1>6. \A i \in 1 .. n : Peek(b, n)[i] = Content(b)[i]
  <2>1. \A i \in 1 .. n : i \in 1 .. Available(b)
    BY <1>1
  <2>. QED  BY <2>1, PeekIs, ContentIs
<1>. QED  BY <1>3, <1>4, <1>5, <1>6 DEF s

IsCopy(b, n, s, w) ==
    w = [b EXCEPT !.write = @ + n,
                  !.data = [i \in 0 .. Size - 1 |->
                              IF (i + Size - WriteAt(b)) % Size < n
                              THEN s[((i + Size - WriteAt(b)) % Size) + 1] ELSE @[i]]]

\* The n pieces s go behind what was there, and leave that as it is.
LEMMA CopyIs ==
    ASSUME MaskFits, NEW b \in Buffers, NEW n \in Nat, n <= Left(b), NEW s,
           \A i \in 1 .. n : s[i] \in Pieces,
           NEW w, IsCopy(b, n, s, w)
    PROVE  /\ w \in Buffers
           /\ Available(w) = Available(b) + n
           /\ \A i \in 1 .. Available(b) : Content(w)[i] = Content(b)[i]
           /\ \A i \in 1 .. n : Content(w)[Available(b) + i] = s[i]
<1>. DEFINE From(i) == (i + Size - (b.write % Size)) % Size
<1>. HIDE DEF From
<1>0. b.data \in [0 .. Size - 1 -> Pieces]
  BY BufferIs
<1>1. /\ b.read \in Nat /\ b.write \in Nat
      /\ Available(b) \in Nat /\ b.write = b.read + Available(b) /\ Size \in Nat \ {0}
      /\ Available(b) <= Size
      /\ Left(b) = Size - Available(b) /\ Left(b) \in Nat
  BY BufferIs, SizeAssumption
<1>2. n \in Nat /\ n + Available(b) <= Size
  BY <1>1
<1>3. WriteAt(b) = b.write % Size /\ b.write % Size \in 0 .. Size - 1
  BY <1>1 DEF MaskFits, MaskIsModulo, WriteAt, Mask
<1>4. w = [b EXCEPT !.write = @ + n,
                    !.data = [i \in 0 .. Size - 1 |->
                                IF From(i) < n THEN s[From(i) + 1] ELSE @[i]]]
  BY <1>3 DEF From, IsCopy
<1>5. \A i \in 0 .. Size - 1 : From(i) \in Nat
  BY <1>1, <1>3 DEF From
<1>6. /\ w.read = b.read /\ w.write = b.write + n
      /\ w.data = [i \in 0 .. Size - 1 |-> IF From(i) < n THEN s[From(i) + 1] ELSE b.data[i]]
  BY <1>4 DEF Buffers
<1>7. w.data \in [0 .. Size - 1 -> Pieces]
  <2>1. ASSUME NEW i \in 0 .. Size - 1
        PROVE  (IF From(i) < n THEN s[From(i) + 1] ELSE b.data[i]) \in Pieces
    <3>1. CASE From(i) < n
      <4>1. From(i) + 1 \in 1 .. n
        BY <1>2, <1>5, <3>1
      <4>. QED  BY <3>1, <4>1
    <3>2. CASE ~ (From(i) < n)
      BY <3>2, <1>0
    <3>. QED  BY <3>1, <3>2
  <2>. QED  BY <2>1, <1>6
<1>8. w \in Buffers
  <2>1. w \in [data : [0 .. Size - 1 -> Pieces], read : Nat, write : Nat]
    <3>1. b \in [data : [0 .. Size - 1 -> Pieces], read : Nat, write : Nat]
      BY DEF Buffers
    <3>2. b.write + n \in Nat
      BY <1>1, <1>2
    <3>. QED  BY <3>1, <3>2, <1>4, <1>6, <1>7
  <2>2. w.read <= w.write /\ w.write <= w.read + Size
    BY <1>1, <1>2, <1>6
  <2>. QED  BY <2>1, <2>2 DEF Buffers
<1>9. Available(w) = Available(b) + n
  BY <1>1, <1>2, <1>6 DEF Available
<1>10. ASSUME NEW i \in 1 .. Available(b)
       PROVE  Content(w)[i] = Content(b)[i]
  <2>. DEFINE j == b.read + i - 1
              k == j % Size
              x == Size - (b.write - j)
  <2>1. j \in Nat /\ x \in 0 .. Size - 1 /\ j + Size = b.write + x /\ n <= x
    BY <1>1, <1>2
  <2>2. k \in 0 .. Size - 1
    BY <1>1, <2>1
  <2>. HIDE DEF j, x
  <2>3. ((j % Size) + Size - (b.write % Size)) % Size = x
    BY <1>1, <2>1, RemainderOfDifference
  <2>4. From(k) = x
    BY <2>3 DEF From
  <2>. HIDE DEF k
  <2>5. w.data[k] = b.data[k]
    BY <1>2, <1>6, <2>1, <2>2, <2>4
  <2>6. i \in 1 .. Available(w)
    BY <1>1, <1>2, <1>9
  <2>7. Content(w)[i] = w.data[k]
    BY <1>6, <1>8, <2>6, ContentIs DEF j, k
  <2>8. Content(b)[i] = b.data[k]
    BY ContentIs DEF j, k
  <2>. QED  BY <2>5, <2>7, <2>8
<1>11. ASSUME NEW i \in 1 .. n
       PROVE  Content(w)[Available(b) + i] = s[i]
  <2>. DEFINE j == b.write + i - 1
              k == j % Size
              x == i - 1
  <2>1. j \in Nat /\ x \in 0 .. Size - 1 /\ j = b.write + x /\ x < n /\ x + 1 = i
    BY <1>1, <1>2
  <2>2. k \in 0 .. Size - 1
    BY <1>1, <2>1
  <2>. HIDE DEF j, x
  <2>3. ((j % Size) + Size - (b.write % Size)) % Size = x
    BY <1>1, <2>1, RemainderOfDifference
  <2>4. From(k) = x
    BY <2>3 DEF From
  <2>. HIDE DEF k
  <2>5. w.data[k] = s[i]
    BY <1>6, <2>1, <2>2, <2>4
  <2>6. Available(b) + i \in 1 .. Available(w) /\ b.read + (Available(b) + i) - 1 = j
    BY <1>1, <1>2, <1>9 DEF j
  <2>7. Content(w)[Available(b) + i] = w.data[k]
    BY <1>6, <1>8, <2>6, ContentIs DEF k
  <2>. QED  BY <2>5, <2>7
<1>. QED  BY <1>8, <1>9, <1>10, <1>11

\* write() copies as much as there is room for.
LEMMA WriteIs ==
    ASSUME MaskFits, NEW b \in Buffers, NEW s \in Seq(Pieces),
           NEW n, n = Least(Len(s), Left(b))
    PROVE  /\ Write(b, s) \in Buffers
           /\ n \in 0 .. Len(s)
           /\ Available(Write(b, s)) = Available(b) + n
           /\ \A i \in 1 .. Available(b) : Content(Write(b, s))[i] = Content(b)[i]
           /\ \A i \in 1 .. n : Content(Write(b, s))[Available(b) + i] = s[i]
<1>1. Left(b) \in Nat /\ Len(s) \in Nat
  BY BufferIs, SizeAssumption
<1>2. n \in Nat /\ n <= Left(b) /\ n \in 0 .. Len(s)
  <2>. DEFINE l == Len(s)
              r == Left(b)
  <2>1. l \in Nat /\ r \in Nat /\ n = Least(l, r)
    BY <1>1
  <2>. HIDE DEF l, r
  <2>2. n \in Nat /\ n <= r /\ n \in 0 .. l
    BY <2>1, LeastOfTwo
  <2>. QED  BY <2>2 DEF l, r
<1>3. \A i \in 1 .. n : s[i] \in Pieces
  BY <1>1, <1>2, ElementOfSeq
<1>. DEFINE w == Write(b, s)
<1>4. IsCopy(b, n, s, w)
  BY DEF Write, IsCopy
<1>. HIDE DEF w
<1>5. /\ w \in Buffers
      /\ Available(w) = Available(b) + n
      /\ \A i \in 1 .. Available(b) : Content(w)[i] = Content(b)[i]
      /\ \A i \in 1 .. n : Content(w)[Available(b) + i] = s[i]
  BY <1>2, <1>3, <1>4, CopyIs
<1>. QED  BY <1>2, <1>5 DEF w

-----------------------------------------------------------------------------
(***************************************************************************)
(* Kinds, sides, and where a piece can be.                                 *)
(***************************************************************************)

LEMMA SidesAre ==
    /\ Sides = {"client", "server"}
    /\ Peer("client") = "server" /\ Peer("server") = "client"
    /\ \A e \in Sides : Peer(e) \in Sides /\ Peer(e) # e /\ Peer(Peer(e)) = e
<1>1. Peer("client") \in Sides /\ Peer("client") # "client"
  BY DEF Sides, Peer
<1>2. Peer("server") \in Sides /\ Peer("server") # "server"
  BY DEF Sides, Peer
<1>. QED  BY <1>1, <1>2 DEF Sides

LEMMA KindsAre ==
    /\ Kinds = {"flight1", "flight2", "flight3", "flight4", "short", "long", "bye"}
    /\ \A k \in Kinds : Length[k] \in Nat \ {0}
<1>1. ToSet(Flights) = {"flight1", "flight2", "flight3", "flight4"}
  <2>1. DOMAIN Flights = 1 .. 4
    BY DEF Flights
  <2>2. Flights[1] = "flight1" /\ Flights[2] = "flight2"
        /\ Flights[3] = "flight3" /\ Flights[4] = "flight4"
    BY DEF Flights
  <2>3. 1 .. 4 = {1, 2, 3, 4}
    OBVIOUS
  <2>. QED  BY <2>1, <2>2, <2>3 DEF ToSet
<1>. QED  BY <1>1, LengthAssumption DEF Kinds, DataKinds

LEMMA FlightsAre ==
    ASSUME NEW e \in Sides
    PROVE  /\ Flight(e, 1) \in Kinds /\ Flight(e, 2) \in Kinds
           /\ Flight(e, 1) # "bye" /\ Flight(e, 2) # "bye"
           /\ Flight(e, 1) \notin DataKinds /\ Flight(e, 2) \notin DataKinds
           /\ FirstEnd(e) \in Nat \ {0} /\ SecondEnd(e) \in Nat \ {0}
           /\ FirstEnd(e) < SecondEnd(e)
           /\ SecondEnd(e) = FirstEnd(e) + Length[Flight(e, 2)]
           /\ FirstEnd(e) = Length[Flight(e, 1)]
           /\ \A h : TakenUpTo(e, h) \in Nat
<1>1. /\ Flights[1] = "flight1" /\ Flights[2] = "flight2"
      /\ Flights[3] = "flight3" /\ Flights[4] = "flight4"
  BY DEF Flights
<1>2. \/ Flight(e, 1) = "flight1" /\ Flight(e, 2) = "flight3"
      \/ Flight(e, 1) = "flight2" /\ Flight(e, 2) = "flight4"
  BY <1>1 DEF Sides, Flight
<1>3. /\ Flight(e, 1) \in Kinds /\ Flight(e, 2) \in Kinds
      /\ Flight(e, 1) # "bye" /\ Flight(e, 2) # "bye"
      /\ Flight(e, 1) \notin DataKinds /\ Flight(e, 2) \notin DataKinds
  BY <1>2, KindsAre DEF DataKinds
<1>4. Length[Flight(e, 1)] \in Nat \ {0} /\ Length[Flight(e, 2)] \in Nat \ {0}
  BY <1>3, KindsAre
<1>. QED  BY <1>3, <1>4 DEF FirstEnd, SecondEnd, TakenUpTo

\* A context, and what it has to send.
LEMMA ContextIs ==
    ASSUME MaskFits, NEW c \in Contexts
    PROVE  /\ c.bout \in Buffers /\ c.made \in Nat /\ c.bin \in Seq(Pieces) /\ c.hs \in 0 .. 4
           /\ Pending(c) = Available(c.bout) /\ Pending(c) \in Nat
           /\ Peek(c.bout, Pending(c)) = Content(c.bout)
           /\ Content(c.bout) \in Seq(Pieces) /\ Len(Content(c.bout)) = Pending(c)
<1>1. c.bout \in Buffers /\ c.made \in Nat /\ c.bin \in Seq(Pieces) /\ c.hs \in 0 .. 4
  BY DEF Contexts
<1>2. Pending(c) = Available(c.bout)
  BY DEF Pending
<1>3. Available(c.bout) \in Nat
  BY <1>1, BufferIs, SizeAssumption
<1>. QED  BY <1>1, <1>2, <1>3, ContentIs DEF Content

\* A stream, of whatever numbers.
Typed(c, s, g) == c \in Contexts /\ s \in Seq(Seq(Pieces)) /\ g \in Contexts

LEMMA PlacesAre ==
    ASSUME MaskFits, NEW c, NEW s, NEW g, Typed(c, s, g)
    PROVE  /\ Len(g.bin) \in Nat /\ \A i \in 1 .. Len(g.bin) : g.bin[i] \in Pieces
           /\ Len(s) \in Nat /\ \A k \in 1 .. Len(s) : Len(s[k]) \in Nat
           /\ \A k \in 1 .. Len(s) : \A i \in 1 .. Len(s[k]) : s[k][i] \in Pieces
           /\ Pending(c) \in Nat /\ \A i \in 1 .. Pending(c) : Content(c.bout)[i] \in Pieces
           /\ Len(Content(c.bout)) = Pending(c) /\ Peek(c.bout, Pending(c)) = Content(c.bout)
           /\ c.made \in Nat
<1>1. c \in Contexts /\ s \in Seq(Seq(Pieces)) /\ g \in Contexts
  BY DEF Typed
<1>2. /\ Content(c.bout) \in Seq(Pieces) /\ Len(Content(c.bout)) = Pending(c)
      /\ Peek(c.bout, Pending(c)) = Content(c.bout) /\ c.made \in Nat /\ g.bin \in Seq(Pieces)
  BY <1>1, ContextIs
<1>3. \A k \in 1 .. Len(s) : s[k] \in Seq(Pieces)
  BY <1>1, ElementOfSeq
<1>4. Len(s) \in Nat
  BY <1>1, LenProperties
<1>5. \A q \in Seq(Pieces) : Len(q) \in Nat /\ \A i \in 1 .. Len(q) : q[i] \in Pieces
  BY LenProperties, ElementOfSeq
<1>. QED  BY <1>2, <1>3, <1>4, <1>5

LEMMA ElementsAre ==
    ASSUME NEW q \in Seq(Pieces)
    PROVE  /\ \A p : p \in ToSet(q) <=> \E i \in 1 .. Len(q) : p = q[i]
           /\ ToSet(q) \subseteq Pieces
<1>1. DOMAIN q = 1 .. Len(q) /\ \A i \in 1 .. Len(q) : q[i] \in Pieces
  BY LenProperties, ElementOfSeq
<1>. QED  BY <1>1 DEF ToSet

\* The pieces that are on their way, by where they are.
LEMMA WayIs ==
    ASSUME MaskFits, NEW c, NEW s, NEW g, Typed(c, s, g)
    PROVE  /\ \A p : p \in Way(c, s, g) <=>
                \/ \E i \in 1 .. Len(g.bin) : p = g.bin[i]
                \/ \E k \in 1 .. Len(s) : \E i \in 1 .. Len(s[k]) : p = s[k][i]
                \/ \E i \in 1 .. Pending(c) : p = Content(c.bout)[i]
           /\ Way(c, s, g) \subseteq Pieces
<1>1. /\ Content(c.bout) \in Seq(Pieces) /\ Len(Content(c.bout)) = Pending(c)
      /\ Peek(c.bout, Pending(c)) = Content(c.bout) /\ g.bin \in Seq(Pieces)
  BY ContextIs DEF Typed
<1>2. \A k \in 1 .. Len(s) : s[k] \in Seq(Pieces)
  BY ElementOfSeq DEF Typed
<1>. DEFINE A == ToSet(g.bin)
            B(k) == ToSet(s[k])
            C == ToSet(Content(c.bout))
            U == UNION {B(k) : k \in 1 .. Len(s)}
<1>3. Way(c, s, g) = A \cup U \cup C
  BY <1>1 DEF Way
<1>4. \A p : p \in A <=> \E i \in 1 .. Len(g.bin) : p = g.bin[i]
  BY <1>1, ElementsAre
<1>5. \A k \in 1 .. Len(s) : \A p : p \in B(k) <=> \E i \in 1 .. Len(s[k]) : p = s[k][i]
  BY <1>2, ElementsAre
<1>6. \A p : p \in C <=> \E i \in 1 .. Pending(c) : p = Content(c.bout)[i]
  BY <1>1, ElementsAre
<1>7. A \subseteq Pieces /\ C \subseteq Pieces /\ \A k \in 1 .. Len(s) : B(k) \subseteq Pieces
  BY <1>1, <1>2, ElementsAre
<1>8. \A p : p \in Way(c, s, g) <=> p \in A \/ (\E k \in 1 .. Len(s) : p \in B(k)) \/ p \in C
  <2>1. \A p : p \in U <=> \E k \in 1 .. Len(s) : p \in B(k)
    OBVIOUS
  <2>. HIDE DEF A, B, C, U
  <2>. QED  BY <1>3, <2>1
<1>. HIDE DEF A, B, C
<1>. QED  BY <1>4, <1>5, <1>6, <1>7, <1>8

-----------------------------------------------------------------------------
(***************************************************************************)
(* The numbers of the pieces.                                              *)
(***************************************************************************)

LEMMA SameSum ==
    ASSUME NEW m \in Nat, NEW i \in Nat, NEW j \in Nat, m + i = m + j
    PROVE  i = j
OBVIOUS

LEMMA MarksAre ==
    ASSUME MaskFits, NEW c, NEW s, NEW g, Typed(c, s, g), AreNumbered(c, s)
    PROVE  /\ \A k \in 0 .. Len(s) : Mark(c, s, k) \in Nat /\ Mark(c, s, k) <= Mark(c, s, Len(s))
           /\ Mark(c, s, Len(s)) = c.made - Pending(c)
           /\ \A k \in 1 .. Len(s) :
                /\ Len(s[k]) \in Nat \ {0} /\ Mark(c, s, k - 1) = Mark(c, s, k) - Len(s[k])
                /\ \A i \in 1 .. Len(s[k]) : s[k][i].no = Mark(c, s, k - 1) + i
           /\ \A i \in 1 .. Pending(c) : Content(c.bout)[i].no = Mark(c, s, Len(s)) + i
<1>. DEFINE M(k) == Mark(c, s, k)
<1>1. /\ Len(s) \in Nat /\ Pending(c) \in Nat /\ c.made \in Nat
      /\ \A k \in 1 .. Len(s) : Len(s[k]) \in Nat
      /\ \A k \in 1 .. Len(s) : \A i \in 1 .. Len(s[k]) : s[k][i].no \in Nat
      /\ \A i \in 1 .. Pending(c) : Content(c.bout)[i].no \in Nat
      /\ Len(Content(c.bout)) = Pending(c) /\ Peek(c.bout, Pending(c)) = Content(c.bout)
  BY PlacesAre DEF Pieces
<1>2. \A k \in 1 .. Len(s) : s[k] # <<>> => Len(s[k]) # 0
  <2>1. \A k \in 1 .. Len(s) : s[k] \in Seq(Pieces)
    BY ElementOfSeq DEF Typed
  <2>. QED  BY <2>1, EmptySeq, LenProperties
<1>3. M(Len(s)) = c.made - Pending(c)
  BY DEF Mark
<1>4. \A k \in 1 .. Len(s) : M(k - 1) = s[k][1].no - 1
  BY <1>1 DEF Mark
<1>5. /\ \A k \in 1 .. Len(s) : s[k] # <<>> /\ Numbered(s[k], M(k))
      /\ M(0) \in Nat /\ \A j, k \in 0 .. Len(s) : j <= k => M(j) <= M(k)
      /\ Numbered(Content(c.bout), c.made)
  BY <1>1 DEF AreNumbered
<1>. HIDE DEF M
<1>6. \A k \in 0 .. Len(s) : M(k) \in Int
  <2>1. ASSUME NEW k \in 1 .. Len(s)
        PROVE  M(k - 1) \in Int
    <3>1. 1 \in 1 .. Len(s[k])
      BY <1>1, <1>2, <1>5
    <3>2. s[k][1].no \in Nat
      BY <1>1, <3>1
    <3>. QED  BY <1>4, <3>2
  <2>2. \A k \in 0 .. Len(s) : k # Len(s) => k + 1 \in 1 .. Len(s) /\ (k + 1) - 1 = k
    BY <1>1
  <2>3. M(Len(s)) \in Int
    BY <1>1, <1>3
  <2>. QED  BY <2>1, <2>2, <2>3
<1>7. \A k \in 0 .. Len(s) : M(k) \in Nat /\ M(k) <= M(Len(s))
  BY <1>1, <1>5, <1>6
<1>8. ASSUME NEW k \in 1 .. Len(s)
      PROVE  /\ Len(s[k]) \in Nat \ {0} /\ M(k - 1) = M(k) - Len(s[k])
             /\ \A i \in 1 .. Len(s[k]) : s[k][i].no = M(k - 1) + i
  <2>1. Len(s[k]) \in Nat \ {0} /\ M(k) \in Nat
    BY <1>1, <1>2, <1>5, <1>7
  <2>2. \A i \in 1 .. Len(s[k]) : s[k][i].no \in Nat /\ s[k][i].no + Len(s[k]) = M(k) + i
    BY <1>1, <1>5 DEF Numbered
  <2>3. s[k][1].no \in Nat /\ s[k][1].no + Len(s[k]) = M(k) + 1 /\ M(k - 1) = s[k][1].no - 1
    BY <1>4, <2>1, <2>2
  <2>4. M(k - 1) = M(k) - Len(s[k])
    BY <2>1, <2>3
  <2>5. ASSUME NEW i \in 1 .. Len(s[k])
        PROVE  s[k][i].no = M(k - 1) + i
    <3>1. i \in Nat /\ s[k][i].no \in Nat /\ s[k][i].no + Len(s[k]) = M(k) + i
      BY <2>1, <2>2
    <3>. QED  BY <2>1, <2>4, <3>1, SMTT(30)
  <2>. QED  BY <2>1, <2>4, <2>5
<1>9. ASSUME NEW i \in 1 .. Pending(c)
      PROVE  Content(c.bout)[i].no = M(Len(s)) + i
  <2>1. Content(c.bout)[i].no + Pending(c) = c.made + i
    BY <1>1, <1>5 DEF Numbered
  <2>2. Content(c.bout)[i].no \in Nat /\ i \in Nat
    BY <1>1
  <2>. DEFINE x == Content(c.bout)[i].no
              n == Pending(c)
              m == c.made
  <2>3. x \in Nat /\ n \in Nat /\ m \in Nat /\ i \in Nat /\ x + n = m + i
    BY <1>1, <2>1, <2>2
  <2>. HIDE DEF x, n, m
  <2>4. x = (m - n) + i
    BY <2>3
  <2>. QED  BY <1>3, <2>4 DEF x, n, m
<1>. QED  BY <1>3, <1>7, <1>8, <1>9 DEF M

LEMMA BinIs ==
    ASSUME MaskFits, NEW e \in Sides, NEW c, NEW s, NEW g, Typed(c, s, g),
           AreNumbered(c, s), AreTaken(e, c, s, g)
    PROVE  /\ Mark(c, s, 0) - Len(g.bin) \in Nat
           /\ \A i \in 1 .. Len(g.bin) : g.bin[i].no = (Mark(c, s, 0) - Len(g.bin)) + i
<1>. DEFINE m == Mark(c, s, 0)
            t == TakenUpTo(e, g.hs)
<1>1. m \in Nat /\ Len(g.bin) \in Nat /\ t \in Nat
      /\ \A i \in 1 .. Len(g.bin) : g.bin[i].no \in Nat
  BY PlacesAre, FlightsAre DEF AreNumbered, Pieces
<1>2. t + Len(g.bin) <= m /\ Numbered(g.bin, m)
  BY DEF AreTaken
<1>. HIDE DEF m, t
<1>3. ASSUME NEW i \in 1 .. Len(g.bin)
      PROVE  g.bin[i].no = (m - Len(g.bin)) + i
  <2>1. g.bin[i].no + Len(g.bin) = m + i
    BY <1>2 DEF Numbered
  <2>2. g.bin[i].no \in Nat /\ i \in Nat
    BY <1>1
  <2>. DEFINE x == g.bin[i].no
              n == Len(g.bin)
  <2>3. x \in Nat /\ n \in Nat /\ m \in Nat /\ i \in Nat /\ x + n = m + i
    BY <1>1, <2>1, <2>2
  <2>. HIDE DEF x, n
  <2>4. x = (m - n) + i
    BY <2>3
  <2>. QED  BY <2>4 DEF x, n
<1>. QED  BY <1>1, <1>2, <1>3 DEF m

\* Each piece has a number of its own, and in bin are those with the first numbers.
LEMMA NumbersAre ==
    ASSUME MaskFits, NEW e \in Sides, NEW c, NEW s, NEW g, Typed(c, s, g),
           AreNumbered(c, s), AreTaken(e, c, s, g)
    PROVE  /\ \A p \in Way(c, s, g) : p.no \in 1 .. c.made
           /\ \A p, q \in Way(c, s, g) : p.no = q.no => p = q
           /\ \A p \in Way(c, s, g) : p.no <= Mark(c, s, 0) => \E i \in 1 .. Len(g.bin) : p = g.bin[i]
<1>. DEFINE M(k) == Mark(c, s, k)
            InBin(p) == \E i \in 1 .. Len(g.bin) : p = g.bin[i]
            InNet(p, k) == \E i \in 1 .. Len(s[k]) : p = s[k][i]
            InBout(p) == \E i \in 1 .. Pending(c) : p = Content(c.bout)[i]
            W == Way(c, s, g)
            l == M(0) - Len(g.bin)
            n == Len(s)
<1>1. \A p \in W : InBin(p) \/ (\E k \in 1 .. n : InNet(p, k)) \/ InBout(p)
  BY WayIs
<1>2. /\ n \in Nat /\ Pending(c) \in Nat /\ c.made \in Nat /\ Len(g.bin) \in Nat
      /\ l \in Nat /\ l + Len(g.bin) = M(0) /\ M(n) = c.made - Pending(c)
      /\ \A k \in 0 .. n : M(k) \in Nat
      /\ \A j, k \in 0 .. n : j <= k => M(j) <= M(k)
  <2>1. M(0) \in Nat /\ \A j, k \in 0 .. n : j <= k => M(j) <= M(k)
    BY DEF AreNumbered
  <2>2. l \in Nat /\ n \in Nat /\ Pending(c) \in Nat /\ c.made \in Nat /\ Len(g.bin) \in Nat
    BY BinIs, PlacesAre
  <2>3. M(n) = c.made - Pending(c) /\ \A k \in 0 .. n : M(k) \in Nat
    BY MarksAre
  <2>4. l + Len(g.bin) = M(0)
    <3>. HIDE DEF M
    <3>. QED  BY <2>1, <2>2
  <2>. QED  BY <2>1, <2>2, <2>3, <2>4
<1>3. \A i \in 1 .. Len(g.bin) : g.bin[i].no = l + i
  BY BinIs
<1>4. \A k \in 1 .. n :
        /\ Len(s[k]) \in Nat \ {0} /\ M(k - 1) = M(k) - Len(s[k])
        /\ \A i \in 1 .. Len(s[k]) : s[k][i].no = M(k - 1) + i
  BY MarksAre
<1>5. \A i \in 1 .. Pending(c) : Content(c.bout)[i].no = M(n) + i
  BY MarksAre
<1>. HIDE DEF M, W, l, n
<1>6. \A p : InBin(p) => p.no \in l + 1 .. M(0)
  BY <1>2, <1>3
<1>7. \A k \in 1 .. n : \A p : InNet(p, k) => p.no \in M(k - 1) + 1 .. M(k)
  <2>1. SUFFICES ASSUME NEW k \in 1 .. n, NEW i \in 1 .. Len(s[k])
                 PROVE  s[k][i].no \in M(k - 1) + 1 .. M(k)
    OBVIOUS
  <2>2. k - 1 \in 0 .. n /\ k \in 0 .. n
    BY <1>2
  <2>3. M(k - 1) \in Nat /\ M(k) \in Nat
    BY <1>2, <2>2
  <2>4. Len(s[k]) \in Nat /\ M(k - 1) = M(k) - Len(s[k]) /\ s[k][i].no = M(k - 1) + i
    BY <1>4
  <2>. QED  BY <2>3, <2>4
<1>8. \A p : InBout(p) => p.no \in M(n) + 1 .. c.made
  BY <1>2, <1>5
<1>9. \A p, q : InBin(p) /\ InBin(q) /\ p.no = q.no => p = q
  BY <1>2, <1>3
<1>10. \A k \in 1 .. n : \A p, q : InNet(p, k) /\ InNet(q, k) /\ p.no = q.no => p = q
  <2>1. SUFFICES ASSUME NEW k \in 1 .. n, NEW i \in 1 .. Len(s[k]), NEW j \in 1 .. Len(s[k]),
                        s[k][i].no = s[k][j].no
                 PROVE  i = j
    OBVIOUS
  <2>2. k - 1 \in 0 .. n
    BY <1>2
  <2>3. M(k - 1) \in Nat
    BY <1>2, <2>2
  <2>4. s[k][i].no = M(k - 1) + i /\ s[k][j].no = M(k - 1) + j
    BY <1>4
  <2>5. i \in Nat /\ j \in Nat
    BY <1>4
  <2>. QED  BY <2>1, <2>3, <2>4, <2>5, SameSum
<1>11. \A p, q : InBout(p) /\ InBout(q) /\ p.no = q.no => p = q
  <2>1. SUFFICES ASSUME NEW i \in 1 .. Pending(c), NEW j \in 1 .. Pending(c),
                        Content(c.bout)[i].no = Content(c.bout)[j].no
                 PROVE  i = j
    OBVIOUS
  <2>2. M(n) \in Nat
    BY <1>2
  <2>. QED  BY <1>5, <2>1, <2>2
<1>. HIDE DEF InBin, InNet, InBout
<1>12. \A k \in 1 .. n : /\ M(k - 1) \in Nat /\ M(k) \in Nat /\ M(0) <= M(k - 1)
                         /\ M(k) <= M(n) /\ k - 1 \in 0 .. n
  BY <1>2
<1>13. M(0) \in Nat /\ M(n) \in Nat /\ M(0) <= M(n) /\ M(n) <= c.made
  BY <1>2
<1>14. ASSUME NEW p \in W
       PROVE  p.no \in 1 .. c.made /\ (p.no <= M(0) => InBin(p))
  <2>1. CASE InBin(p)
    BY <2>1, <1>2, <1>6, <1>13
  <2>2. ASSUME NEW k \in 1 .. n, InNet(p, k)
        PROVE  p.no \in 1 .. c.made /\ ~ (p.no <= M(0))
    BY <2>2, <1>2, <1>7, <1>12, <1>13, SMTT(30)
  <2>3. CASE InBout(p)
    BY <2>3, <1>2, <1>8, <1>13
  <2>. QED  BY <1>1, <2>1, <2>2, <2>3
<1>15. ASSUME NEW p \in W, NEW q \in W, p.no = q.no
       PROVE  p = q
  <2>1. CASE InBin(p) \/ InBin(q)
    <3>1. p.no <= M(0) /\ q.no <= M(0)
      BY <2>1, <1>2, <1>6, <1>15
    <3>. QED  BY <3>1, <1>9, <1>14, <1>15
  <2>2. CASE InBout(p) \/ InBout(q)
    <3>1. p.no > M(n) /\ q.no > M(n)
      BY <2>2, <1>2, <1>8, <1>15
    <3>2. ASSUME NEW r \in {p, q}, ~ InBout(r)
          PROVE  FALSE
      <4>1. r \in W /\ r.no > M(n)
        BY <3>1
      <4>2. CASE InBin(r)
        BY <4>1, <4>2, <1>6, <1>13, <1>2
      <4>3. ASSUME NEW k \in 1 .. n, InNet(r, k)
            PROVE  FALSE
        BY <4>1, <4>3, <1>7, <1>12, <1>13
      <4>. QED  BY <1>1, <3>2, <4>1, <4>2, <4>3
    <3>. QED  BY <3>2, <1>11, <1>15
  <2>3. ASSUME NEW j \in 1 .. n, NEW k \in 1 .. n, InNet(p, j), InNet(q, k)
        PROVE  p = q
    <3>1. j = k
      <4>1. j < k => M(j) <= M(k - 1) /\ M(j) \in Nat /\ M(k - 1) \in Nat
        BY <1>2
      <4>2. k < j => M(k) <= M(j - 1) /\ M(k) \in Nat /\ M(j - 1) \in Nat
        BY <1>2
      <4>3. p.no \in M(j - 1) + 1 .. M(j) /\ p.no \in M(k - 1) + 1 .. M(k)
        BY <2>3, <1>7, <1>15
      <4>. QED  BY <4>1, <4>2, <4>3, <1>12
    <3>. QED  BY <3>1, <2>3, <1>10, <1>15
  <2>. QED  BY <1>1, <2>1, <2>2, <2>3
<1>. QED  BY <1>14, <1>15 DEF W, M, InBin

LEMMA WayIsFinite ==
    ASSUME MaskFits, NEW e \in Sides, NEW c, NEW s, NEW g, Typed(c, s, g),
           AreNumbered(c, s), AreTaken(e, c, s, g)
    PROVE  IsFiniteSet(Way(c, s, g))
<1>. DEFINE W == Way(c, s, g)
            f == [p \in W |-> p.no]
<1>1. /\ \A p \in W : p.no \in 1 .. c.made
      /\ \A p, q \in W : p.no = q.no => p = q
  BY NumbersAre
<1>2. c.made \in Nat
  BY PlacesAre
<1>. HIDE DEF W
<1>3. f \in Injection(W, 1 .. c.made)
  BY <1>1 DEF Injection, IsInjective
<1>4. IsFiniteSet(1 .. c.made)
  BY <1>2, FS_Interval
<1>. QED  BY <1>3, <1>4, FS_Injection DEF W

-----------------------------------------------------------------------------
(***************************************************************************)
(* A stream that grows: n pieces of a record went to bout.                 *)
(***************************************************************************)

Grown(c, d, kind, n) ==
    /\ n \in 0 .. Length[kind]
    /\ d.made = c.made + n /\ Pending(d) = Pending(c) + n
    /\ \A i \in 1 .. Pending(c) : Content(d.bout)[i] = Content(c.bout)[i]
    /\ \A i \in 1 .. n :
            Content(d.bout)[Pending(c) + i] = Piece(kind, c.made + i, i = Length[kind])
    /\ d.wedged <=> n < Length[kind]

LEMMA GrownNumbers ==
    ASSUME MaskFits, NEW c, NEW d, NEW s, NEW g, NEW kind, NEW n,
           Typed(c, s, g), Typed(d, s, g), n \in Nat, Grown(c, d, kind, n), AreNumbered(c, s)
    PROVE  /\ AreNumbered(d, s)
           /\ \A k \in 0 .. Len(s) : Mark(d, s, k) = Mark(c, s, k)
<1>1. /\ Len(s) \in Nat /\ Pending(c) \in Nat /\ c.made \in Nat
      /\ Pending(d) \in Nat /\ d.made \in Nat
      /\ Len(Content(d.bout)) = Pending(d) /\ Peek(d.bout, Pending(d)) = Content(d.bout)
  BY PlacesAre
<1>2. d.made = c.made + n /\ Pending(d) = Pending(c) + n
  BY DEF Grown
<1>3. \A k \in 0 .. Len(s) : Mark(d, s, k) = Mark(c, s, k)
  BY <1>1, <1>2 DEF Mark
<1>4. \A k \in 1 .. Len(s) : s[k] # <<>> /\ Numbered(s[k], Mark(d, s, k))
  BY <1>1, <1>3 DEF AreNumbered
<1>5. /\ Mark(d, s, 0) \in Nat
      /\ \A j, k \in 0 .. Len(s) : j <= k => Mark(d, s, j) <= Mark(d, s, k)
  BY <1>1, <1>3 DEF AreNumbered
<1>6. Numbered(Content(d.bout), d.made)
  <2>1. SUFFICES ASSUME NEW i \in 1 .. Pending(d)
                 PROVE  Content(d.bout)[i].no + Pending(d) = d.made + i
    BY <1>1 DEF Numbered
  <2>2. i \in Nat
    BY <1>1
  <2>3. CASE i <= Pending(c)
    <3>. DEFINE x == Content(c.bout)[i].no
    <3>1. i \in 1 .. Pending(c)
      BY <1>1, <2>3
    <3>2. x \in Nat
      BY <3>1, PlacesAre DEF Pieces
    <3>3. x + Pending(c) = c.made + i
      <4>1. Len(Content(c.bout)) = Pending(c) /\ Peek(c.bout, Pending(c)) = Content(c.bout)
        BY PlacesAre
      <4>. QED  BY <3>1, <4>1 DEF AreNumbered, Numbered
    <3>4. Content(d.bout)[i].no = x
      BY <3>1 DEF Grown
    <3>. HIDE DEF x
    <3>5. x + (Pending(c) + n) = (c.made + n) + i
      <4>. DEFINE y == Pending(c)
                  m == c.made
      <4>1. y \in Nat /\ m \in Nat /\ x + y = m + i
        BY <1>1, <3>3
      <4>. HIDE DEF y, m
      <4>2. x + (y + n) = (m + n) + i
        BY <2>2, <3>2, <4>1
      <4>. QED  BY <4>2 DEF y, m
    <3>. QED  BY <1>2, <3>4, <3>5
  <2>4. CASE ~ (i <= Pending(c))
    <3>. DEFINE j == i - Pending(c)
    <3>1. j \in 1 .. n /\ Pending(c) + j = i
      BY <1>1, <1>2, <2>2, <2>4
    <3>2. Content(d.bout)[Pending(c) + j] = Piece(kind, c.made + j, j = Length[kind])
      BY <3>1 DEF Grown
    <3>3. Content(d.bout)[i].no = c.made + j
      BY <3>1, <3>2 DEF Piece
    <3>. QED  BY <1>1, <1>2, <3>1, <3>3
  <2>. QED  BY <2>3, <2>4
<1>. QED  BY <1>1, <1>3, <1>4, <1>5, <1>6 DEF AreNumbered

LEMMA GrownWay ==
    ASSUME MaskFits, NEW c, NEW d, NEW s, NEW g, NEW kind, NEW n,
           Typed(c, s, g), Typed(d, s, g), n \in Nat, Grown(c, d, kind, n)
    PROVE  \A p : p \in Way(d, s, g) <=>
                    \/ p \in Way(c, s, g)
                    \/ \E i \in 1 .. n : p = Piece(kind, c.made + i, i = Length[kind])
<1>. DEFINE InBin(p) == \E i \in 1 .. Len(g.bin) : p = g.bin[i]
            InNet(p) == \E k \in 1 .. Len(s) : \E i \in 1 .. Len(s[k]) : p = s[k][i]
            InBout(b, p) == \E i \in 1 .. Pending(b) : p = Content(b.bout)[i]
            IsNew(p) == \E i \in 1 .. n : p = Piece(kind, c.made + i, i = Length[kind])
<1>1. \A p : p \in Way(c, s, g) <=> InBin(p) \/ InNet(p) \/ InBout(c, p)
  BY WayIs
<1>2. \A p : p \in Way(d, s, g) <=> InBin(p) \/ InNet(p) \/ InBout(d, p)
  BY WayIs
<1>3. \A p : InBout(d, p) <=> InBout(c, p) \/ IsNew(p)
  <2>1. Pending(c) \in Nat /\ n \in Nat /\ Pending(d) = Pending(c) + n
    BY PlacesAre DEF Grown
  <2>2. /\ \A i \in 1 .. Pending(c) : Content(d.bout)[i] = Content(c.bout)[i]
        /\ \A i \in 1 .. n :
            Content(d.bout)[Pending(c) + i] = Piece(kind, c.made + i, i = Length[kind])
    BY DEF Grown
  <2>3. ASSUME NEW p, InBout(d, p)
        PROVE  InBout(c, p) \/ IsNew(p)
    <3>1. PICK i \in 1 .. Pending(d) : p = Content(d.bout)[i]
      BY <2>3
    <3>2. i \in 1 .. Pending(c) \/ (i - Pending(c) \in 1 .. n /\ Pending(c) + (i - Pending(c)) = i)
      BY <2>1
    <3>. QED  BY <2>2, <3>1, <3>2
  <2>4. ASSUME NEW p, InBout(c, p)
        PROVE  InBout(d, p)
    <3>1. PICK i \in 1 .. Pending(c) : p = Content(c.bout)[i]
      BY <2>4
    <3>2. i \in 1 .. Pending(d)
      BY <2>1
    <3>. QED  BY <2>2, <3>1, <3>2
  <2>5. ASSUME NEW p, IsNew(p)
        PROVE  InBout(d, p)
    <3>1. PICK i \in 1 .. n : p = Piece(kind, c.made + i, i = Length[kind])
      BY <2>5
    <3>2. Pending(c) + i \in 1 .. Pending(d)
      BY <2>1
    <3>. QED  BY <2>2, <3>1, <3>2
  <2>. HIDE DEF InBout, IsNew
  <2>. QED  BY <2>3, <2>4, <2>5
<1>. HIDE DEF InBin, InNet, InBout
<1>. QED  BY <1>1, <1>2, <1>3

\* What is put into the stream of a side that did not say bye.
Puts(e, c, d, kind, n) ==
    /\ Grown(c, d, kind, n) /\ ~ c.wedged /\ ~ c.sentBye
    /\ d.sentBye <=> kind = "bye"
    /\ \A i \in 1 .. Length[kind] : IsInPlace(e, Piece(kind, c.made + i, i = Length[kind]))
    /\ ~ d.wedged => d.written = c.written + (IF kind \in DataKinds THEN 1 ELSE 0)

LEMMA PutsKeepCount ==
    ASSUME MaskFits, NEW e \in Sides, NEW c, NEW d, NEW s, NEW g, NEW kind \in Kinds, NEW n,
           Typed(c, s, g), Typed(d, s, g), Puts(e, c, d, kind, n),
           AreNumbered(c, s), IsTakenBy(e, c, s, g)
    PROVE  AreCounted(d, g, Way(d, s, g))
<1>. DEFINE W == Way(c, s, g)
            V == Way(d, s, g)
            l == Length[kind]
            new == Piece(kind, c.made + l, TRUE)
<1>1. SUFFICES ASSUME ~ g.gotBye, ~ d.wedged
               PROVE  d.written - g.given = Cardinality(Records(V))
  BY DEF AreCounted
<1>2. l \in Nat \ {0} /\ n = l /\ c.made \in Nat
  BY <1>1, KindsAre, PlacesAre, SMTT(30) DEF Puts, Grown
<1>3. c.written - g.given = Cardinality(Records(W))
  BY <1>1 DEF IsTakenBy, AreCounted, Puts
<1>4. \A p : p \in V <=> p \in W \/ \E i \in 1 .. l : p = Piece(kind, c.made + i, i = l)
  BY <1>2, GrownWay DEF Puts
<1>5. IsFiniteSet(W) /\ \A p \in W : p.no \in 1 .. c.made
  BY WayIsFinite, NumbersAre DEF IsTakenBy
<1>6. c.written \in Nat /\ g.given \in Nat
  BY DEF Typed, Contexts
<1>7. d.written = c.written + (IF kind \in DataKinds THEN 1 ELSE 0)
  BY <1>1 DEF Puts
<1>8. IsFiniteSet(Records(W)) /\ Cardinality(Records(W)) \in Nat
  <2>1. Records(W) \subseteq W
    BY DEF Records
  <2>. QED  BY <2>1, <1>5, FS_Subset, FS_CardinalityType
<1>. HIDE DEF W, V, l
<1>9. \A p : (\E i \in 1 .. l : p = Piece(kind, c.made + i, i = l)) /\ p.last <=> p = new
  <2>1. \A i \in 1 .. l : LET p == Piece(kind, c.made + i, i = l) IN p.last => i = l
    BY DEF Piece
  <2>2. l \in 1 .. l /\ (l = l) = TRUE
    BY <1>2
  <2>3. new = Piece(kind, c.made + l, l = l)
    BY <2>2 DEF l
  <2>4. new.last
    BY DEF Piece
  <2>. HIDE DEF new
  <2>. QED  BY <2>1, <2>2, <2>3, <2>4
<1>10. CASE kind \in DataKinds
  <2>1. \A p : p \in Records(V) <=> p \in Records(W) \/ p = new
    BY <1>4, <1>9, <1>10 DEF Records, Piece
  <2>2. new \notin Records(W)
    <3>1. new.no = c.made + l
      BY DEF Piece
    <3>2. ~ (c.made + l \in 1 .. c.made)
      BY <1>2
    <3>. QED  BY <1>5, <3>1, <3>2 DEF Records
  <2>3. Records(V) = Records(W) \cup {new}
    BY <2>1
  <2>4. Cardinality(Records(V)) = Cardinality(Records(W)) + 1
    BY <1>8, <2>2, <2>3, FS_AddElement
  <2>. QED  BY <1>3, <1>6, <1>7, <1>8, <1>10, <2>4
<1>11. CASE kind \notin DataKinds
  <2>1. \A p : p \in Records(V) <=> p \in Records(W)
    BY <1>4, <1>11 DEF Records, Piece
  <2>2. Records(V) = Records(W)
    BY <2>1
  <2>. QED  BY <1>3, <1>6, <1>7, <1>11, <2>2
<1>. QED  BY <1>10, <1>11

LEMMA PutsKeepStream ==
    ASSUME MaskFits, NEW e \in Sides, NEW c, NEW d, NEW s, NEW g, NEW kind \in Kinds, NEW n,
           NEW closed, Typed(c, s, g), Typed(d, s, g), Puts(e, c, d, kind, n),
           IsStream(e, c, s, g, closed)
    PROVE  IsStream(e, d, s, g, closed)
<1>1. n \in Nat /\ n <= Length[kind] /\ Length[kind] \in Nat \ {0} /\ Grown(c, d, kind, n)
  BY KindsAre DEF Puts, Grown
<1>2. AreNumbered(d, s) /\ \A k \in 0 .. Len(s) : Mark(d, s, k) = Mark(c, s, k)
  BY <1>1, GrownNumbers DEF IsStream
<1>3. ~ g.gotBye
  BY DEF IsStream, Puts
<1>4. SUFFICES ASSUME ~ closed
               PROVE  IsTakenBy(e, d, s, g)
  BY <1>2, <1>3 DEF IsStream
<1>. DEFINE W == Way(c, s, g)
            V == Way(d, s, g)
            IsNew(p) == \E i \in 1 .. n : p = Piece(kind, c.made + i, i = Length[kind])
<1>5. IsTakenBy(e, c, s, g) /\ AreNumbered(c, s)
  BY <1>4 DEF IsStream
<1>6. Len(s) \in Nat /\ c.made \in Nat
  BY PlacesAre
<1>7. AreTaken(e, d, s, g)
  <2>1. Mark(d, s, 0) = Mark(c, s, 0)
    BY <1>2, <1>6
  <2>. QED  BY <1>5, <2>1 DEF IsTakenBy, AreTaken
<1>8. \A p \in W : p.no \in 1 .. c.made
  BY <1>5, NumbersAre DEF IsTakenBy
<1>9. \A p : p \in V <=> p \in W \/ IsNew(p)
  BY <1>1, GrownWay
<1>10. \A p : IsNew(p) => p.kind = kind /\ p.no \in Nat /\ p.no > c.made /\ IsInPlace(e, p)
  <2>1. SUFFICES ASSUME NEW i \in 1 .. n
                 PROVE  LET p == Piece(kind, c.made + i, i = Length[kind])
                        IN  p.kind = kind /\ p.no \in Nat /\ p.no > c.made /\ IsInPlace(e, p)
    OBVIOUS
  <2>2. i \in 1 .. Length[kind] /\ i \in Nat /\ i > 0
    BY <1>1
  <2>. QED  BY <1>6, <2>2 DEF Piece, Puts
<1>11. ~ c.sentBye => \A p \in W : p.kind # "bye"
  BY <1>5 DEF IsTakenBy, ByesAreLast
<1>12. \A p \in W : IsInPlace(e, p)
  BY <1>5 DEF IsTakenBy
<1>13. ~ c.sentBye /\ (d.sentBye <=> kind = "bye")
  BY DEF Puts
<1>14. ByeIsKept(d, g, V)
  <2>1. SUFFICES ASSUME d.sentBye, ~ d.wedged
                 PROVE  \E p \in V : p.no = d.made /\ p.kind = "bye" /\ p.last
    BY DEF ByeIsKept
  <2>2. n = Length[kind] /\ d.made = c.made + n /\ kind = "bye"
    BY <1>1, <1>13, <2>1 DEF Grown
  <2>. DEFINE p == Piece(kind, c.made + n, TRUE)
  <2>3. n \in 1 .. n /\ (n = Length[kind]) = TRUE
    BY <1>1, <2>2
  <2>4. IsNew(p)
    BY <2>3
  <2>5. p.no = d.made /\ p.kind = "bye" /\ p.last
    BY <2>2 DEF Piece
  <2>. HIDE DEF IsNew, p
  <2>. QED  BY <1>9, <2>4, <2>5
<1>15. AreCounted(d, g, V)
  BY <1>5, PutsKeepCount
<1>. HIDE DEF W, V, IsNew
<1>16. \A p \in V : IsInPlace(e, p)
  BY <1>9, <1>10, <1>12
<1>17. ByesAreLast(d, V)
  <2>1. SUFFICES ASSUME NEW p \in V, p.kind = "bye"
                 PROVE  d.sentBye /\ \A q \in V : p.no <= q.no => q.kind = "bye"
    BY DEF ByesAreLast
  <2>2. IsNew(p)
    BY <1>9, <1>11, <1>13, <2>1
  <2>3. kind = "bye" /\ p.no > c.made /\ p.no \in Nat
    BY <1>10, <2>1, <2>2
  <2>4. ASSUME NEW q \in V, p.no <= q.no
        PROVE  IsNew(q)
    <3>1. q \in W => q.no \in Nat /\ q.no <= c.made
      BY <1>6, <1>8
    <3>. QED  BY <1>6, <1>9, <2>3, <2>4, <3>1
  <2>. QED  BY <1>10, <1>13, <2>3, <2>4
<1>. QED  BY <1>7, <1>14, <1>15, <1>16, <1>17 DEF IsTakenBy, V

\* What a stream depends on.
SameSent(c, d) ==
    /\ d.bout = c.bout /\ d.made = c.made /\ d.wedged = c.wedged
    /\ d.sentBye = c.sentBye /\ d.written = c.written

SameTaken(g, h) ==
    h.bin = g.bin /\ h.hs = g.hs /\ h.gotBye = g.gotBye /\ h.given = g.given

LEMMA SameStream ==
    ASSUME NEW e, NEW c, NEW d, NEW s, NEW g, NEW h, NEW closed,
           SameSent(c, d), SameTaken(g, h), IsStream(e, c, s, g, closed)
    PROVE  IsStream(e, d, s, h, closed)
<1>1. Pending(d) = Pending(c)
  BY DEF SameSent, Pending
<1>2. Way(d, s, h) = Way(c, s, g)
  BY <1>1 DEF SameSent, SameTaken, Way
<1>3. \A k : Mark(d, s, k) = Mark(c, s, k)
  BY <1>1 DEF SameSent, Mark
<1>4. AreNumbered(d, s)
  <2>1. AreNumbered(c, s)
    BY DEF IsStream
  <2>. QED  BY <1>1, <1>3, <2>1 DEF SameSent, AreNumbered
<1>5. h.gotBye => d.sentBye
  BY DEF SameSent, SameTaken, IsStream
<1>6. SUFFICES ASSUME ~ closed
               PROVE  IsTakenBy(e, d, s, h)
  BY <1>4, <1>5 DEF IsStream
<1>7. IsTakenBy(e, c, s, g)
  BY <1>6 DEF IsStream
<1>8. AreTaken(e, d, s, h)
  BY <1>3, <1>7 DEF SameTaken, AreTaken, IsTakenBy
<1>9. (\A p \in Way(d, s, h) : IsInPlace(e, p)) /\ ByesAreLast(d, Way(d, s, h))
  BY <1>2, <1>7 DEF SameSent, IsTakenBy, ByesAreLast
<1>10. ByeIsKept(d, h, Way(d, s, h)) /\ AreCounted(d, h, Way(d, s, h))
  BY <1>2, <1>7 DEF SameSent, SameTaken, IsTakenBy, ByeIsKept, AreCounted
<1>. QED  BY <1>8, <1>9, <1>10 DEF IsTakenBy

\* The same pieces on the way, and marks in the same places.
LEMMA SameWay ==
    ASSUME NEW e, NEW c, NEW d, NEW s, NEW t, NEW g, NEW h,
           d.made = c.made, d.wedged = c.wedged, d.sentBye = c.sentBye, d.written = c.written,
           h.gotBye = g.gotBye, h.given = g.given,
           Way(d, t, h) = Way(c, s, g), AreTaken(e, d, t, h), IsTakenBy(e, c, s, g)
    PROVE  IsTakenBy(e, d, t, h)
<1>1. (\A p \in Way(d, t, h) : IsInPlace(e, p)) /\ ByesAreLast(d, Way(d, t, h))
  BY DEF IsTakenBy, ByesAreLast
<1>2. ByeIsKept(d, h, Way(d, t, h)) /\ AreCounted(d, h, Way(d, t, h))
  BY DEF IsTakenBy, ByeIsKept, AreCounted
<1>. QED  BY <1>1, <1>2 DEF IsTakenBy

-----------------------------------------------------------------------------
(***************************************************************************)
(* A stream that moves: from bout into a segment, and from there into bin. *)
(***************************************************************************)

Flushed(c, d, s, t, n) ==
    /\ n \in 1 .. Pending(c)
    /\ d.bout = Skip(c.bout, n) /\ t = Append(s, Peek(c.bout, n))
    /\ d.made = c.made /\ d.wedged = c.wedged
    /\ d.sentBye = c.sentBye /\ d.written = c.written

\* Where the pieces are after a flush.
LEMMA FlushIs ==
    ASSUME MaskFits, NEW c, NEW d, NEW s, NEW t, NEW g, NEW n,
           Typed(c, s, g), Typed(d, t, g), Flushed(c, d, s, t, n)
    PROVE  /\ n \in Nat \ {0} /\ n <= Pending(c)
           /\ Len(t) = Len(s) + 1 /\ \A k \in 1 .. Len(s) : t[k] = s[k]
           /\ t[Len(s) + 1] # <<>> /\ Len(t[Len(s) + 1]) = n
           /\ \A i \in 1 .. n : t[Len(s) + 1][i] = Content(c.bout)[i]
           /\ Pending(d) = Pending(c) - n
           /\ \A i \in 1 .. Pending(d) : Content(d.bout)[i] = Content(c.bout)[n + i]
<1>1. /\ n \in 1 .. Pending(c) /\ d.bout = Skip(c.bout, n) /\ t = Append(s, Peek(c.bout, n))
  BY DEF Flushed
<1>2. c.bout \in Buffers /\ Pending(c) = Available(c.bout) /\ Pending(c) \in Nat
  BY ContextIs DEF Typed
<1>3. n \in Nat \ {0} /\ n <= Pending(c) /\ n \in 0 .. Available(c.bout)
  BY <1>1, <1>2
<1>4. /\ Available(d.bout) = Available(c.bout) - n
      /\ \A i \in 1 .. Available(c.bout) - n : Content(d.bout)[i] = Content(c.bout)[n + i]
      /\ \A i \in 1 .. n : Peek(c.bout, n)[i] = Content(c.bout)[i]
  BY <1>1, <1>2, <1>3, SkipIs
<1>5. Peek(c.bout, n) \in Seq(Pieces) /\ Len(Peek(c.bout, n)) = n
  BY <1>2, <1>3, PeekIs
<1>6. Peek(c.bout, n) # <<>>
  BY <1>3, <1>5, EmptySeq
<1>7. s \in Seq(Seq(Pieces))
  BY DEF Typed
<1>. DEFINE q == Peek(c.bout, n)
<1>8. q \in Seq(Pieces) /\ t = Append(s, q)
  BY <1>1, <1>5
<1>. HIDE DEF q
<1>9. Len(t) = Len(s) + 1 /\ (\A k \in 1 .. Len(s) : t[k] = s[k]) /\ t[Len(s) + 1] = q
  BY <1>7, <1>8, AppendProperties
<1>10. Pending(d) = Pending(c) - n
  BY <1>2, <1>4 DEF Pending
<1>11. /\ \A i \in 1 .. Pending(d) : Content(d.bout)[i] = Content(c.bout)[n + i]
       /\ \A i \in 1 .. n : q[i] = Content(c.bout)[i]
  BY <1>2, <1>4, <1>10 DEF q
<1>. QED  BY <1>3, <1>5, <1>6, <1>9, <1>10, <1>11 DEF q

LEMMA FlushKeepsNumbers ==
    ASSUME MaskFits, NEW c, NEW d, NEW s, NEW t, NEW g, NEW n,
           Typed(c, s, g), Typed(d, t, g), Flushed(c, d, s, t, n), AreNumbered(c, s)
    PROVE  AreNumbered(d, t) /\ Mark(d, t, 0) = Mark(c, s, 0)
<1>. DEFINE M(k) == Mark(c, s, k)
            N(k) == Mark(d, t, k)
            l == Len(s)
            x == M(l)
<1>1. /\ n \in Nat \ {0} /\ n <= Pending(c) /\ Len(t) = l + 1 /\ \A k \in 1 .. l : t[k] = s[k]
      /\ t[l + 1] # <<>> /\ Len(t[l + 1]) = n
      /\ \A i \in 1 .. n : t[l + 1][i] = Content(c.bout)[i]
      /\ Pending(d) = Pending(c) - n
      /\ \A i \in 1 .. Pending(d) : Content(d.bout)[i] = Content(c.bout)[n + i]
  BY FlushIs
<1>2. /\ l \in Nat /\ Pending(c) \in Nat /\ Pending(d) \in Nat /\ c.made \in Nat /\ d.made = c.made
      /\ Len(Content(d.bout)) = Pending(d) /\ Peek(d.bout, Pending(d)) = Content(d.bout)
  BY PlacesAre DEF Flushed
<1>3. /\ x \in Nat /\ x = c.made - Pending(c) /\ \A k \in 0 .. l : M(k) \in Nat /\ M(k) <= x
      /\ \A i \in 1 .. Pending(c) : Content(c.bout)[i].no = x + i
  <2>1. l \in 0 .. l
    BY <1>2
  <2>. QED  BY <2>1, MarksAre
<1>4. /\ \A k \in 1 .. l : s[k] # <<>> /\ Numbered(s[k], M(k))
      /\ \A j, k \in 0 .. l : j <= k => M(j) <= M(k)
  BY DEF AreNumbered
<1>5. N(l + 1) = x + n
  <2>1. N(l + 1) = d.made - Pending(d)
    BY <1>1 DEF Mark
  <2>. HIDE DEF N, x
  <2>. QED  BY <1>1, <1>2, <1>3, <2>1
<1>6. ASSUME NEW k \in 0 .. l
      PROVE  N(k) = M(k)
  <2>1. k # l + 1 /\ Len(t) = l + 1 /\ k + 1 \in 1 .. l + 1
    BY <1>1, <1>2
  <2>2. N(k) = t[k + 1][1].no - 1
    BY <2>1 DEF Mark
  <2>3. CASE k # l
    <3>1. k + 1 \in 1 .. l
      BY <1>2, <2>3
    <3>2. M(k) = s[k + 1][1].no - 1
      BY <2>3 DEF Mark
    <3>. QED  BY <1>1, <2>2, <3>1, <3>2
  <2>4. CASE k = l
    <3>1. 1 \in 1 .. n /\ 1 \in 1 .. Pending(c)
      BY <1>1, <1>2
    <3>2. t[k + 1][1] = Content(c.bout)[1] /\ Content(c.bout)[1].no = x + 1
      BY <1>1, <1>3, <2>4, <3>1
    <3>3. t[k + 1][1].no = x + 1
      BY <3>2
    <3>. HIDE DEF N, M, x
    <3>4. N(k) = x
      BY <1>3, <2>2, <3>3
    <3>. QED  BY <2>4, <3>4 DEF x
  <2>. QED  BY <2>3, <2>4
<1>. HIDE DEF M, N, x, l
<1>7. Numbered(Content(d.bout), d.made)
  <2>1. SUFFICES ASSUME NEW i \in 1 .. Pending(d)
                 PROVE  Content(d.bout)[i].no + Pending(d) = d.made + i
    BY <1>2 DEF Numbered
  <2>2. i \in Nat /\ n + i \in 1 .. Pending(c)
    BY <1>1, <1>2
  <2>3. Content(d.bout)[i].no = x + (n + i)
    BY <1>1, <1>3, <2>2
  <2>4. x + (n + i) + Pending(d) = d.made + i
    <3>. DEFINE y == Pending(c)
                m == c.made
    <3>1. y \in Nat /\ m \in Nat /\ x = m - y /\ Pending(d) = y - n /\ d.made = m
      BY <1>1, <1>2, <1>3
    <3>. HIDE DEF y, m
    <3>2. x + (n + i) + (y - n) = m + i
      BY <1>1, <1>3, <2>2, <3>1
    <3>. QED  BY <3>1, <3>2
  <2>. QED  BY <2>3, <2>4
<1>8. ASSUME NEW k \in 1 .. l + 1
      PROVE  t[k] # <<>> /\ Numbered(t[k], N(k))
  <2>1. CASE k = l + 1
    <3>1. SUFFICES ASSUME NEW i \in 1 .. n
                   PROVE  t[k][i].no + n = x + n + i
      BY <1>1, <1>5, <2>1 DEF Numbered
    <3>2. i \in 1 .. Pending(c)
      BY <1>1, <1>2
    <3>3. t[k][i].no = x + i
      BY <1>1, <1>3, <2>1, <3>2
    <3>4. x + i + n = x + n + i
      BY <1>1, <1>3, <3>2
    <3>. QED  BY <3>3, <3>4
  <2>2. CASE k # l + 1
    <3>1. k \in 1 .. l /\ k \in 0 .. l
      BY <1>2, <2>2
    <3>. QED  BY <1>1, <1>4, <1>6, <3>1
  <2>. QED  BY <2>1, <2>2
<1>9. 0 \in 0 .. l /\ N(0) \in Nat
  BY <1>2, <1>3, <1>6
<1>10. ASSUME NEW j \in 0 .. l + 1, NEW k \in 0 .. l + 1, j <= k
       PROVE  N(j) <= N(k)
  <2>1. CASE k = l + 1
    <3>1. CASE j = l + 1
      BY <1>1, <1>3, <1>5, <2>1, <3>1
    <3>2. CASE j # l + 1
      <4>1. j \in 0 .. l
        BY <1>2, <3>2
      <4>2. M(j) \in Nat /\ M(j) <= x /\ N(j) = M(j)
        BY <1>3, <1>6, <4>1
      <4>. QED  BY <1>1, <1>3, <1>5, <2>1, <4>2
    <3>. QED  BY <3>1, <3>2
  <2>2. CASE k # l + 1
    <3>1. j \in 0 .. l /\ k \in 0 .. l
      BY <1>2, <1>10, <2>2
    <3>. QED  BY <1>4, <1>6, <1>10, <3>1
  <2>. QED  BY <2>1, <2>2
<1>11. AreNumbered(d, t)
  <2>1. Len(t) = l + 1
    BY <1>1
  <2>. QED  BY <1>2, <1>7, <1>8, <1>9, <1>10, <2>1 DEF AreNumbered, N
<1>. QED  BY <1>6, <1>9, <1>11 DEF M, N

LEMMA FlushKeepsWay ==
    ASSUME MaskFits, NEW c, NEW d, NEW s, NEW t, NEW g, NEW n,
           Typed(c, s, g), Typed(d, t, g), Flushed(c, d, s, t, n)
    PROVE  Way(d, t, g) = Way(c, s, g)
<1>. DEFINE InBin(p) == \E i \in 1 .. Len(g.bin) : p = g.bin[i]
            InNet(u, p) == \E k \in 1 .. Len(u) : \E i \in 1 .. Len(u[k]) : p = u[k][i]
            InBout(b, p) == \E i \in 1 .. Pending(b) : p = Content(b.bout)[i]
            l == Len(s)
            q == t[l + 1]
            InLast(p) == \E i \in 1 .. Len(q) : p = q[i]
<1>1. \A p : p \in Way(c, s, g) <=> InBin(p) \/ InNet(s, p) \/ InBout(c, p)
  BY WayIs
<1>2. \A p : p \in Way(d, t, g) <=> InBin(p) \/ InNet(t, p) \/ InBout(d, p)
  BY WayIs
<1>3. /\ n \in Nat \ {0} /\ n <= Pending(c) /\ Len(t) = l + 1 /\ \A k \in 1 .. l : t[k] = s[k]
      /\ Len(q) = n /\ \A i \in 1 .. n : q[i] = Content(c.bout)[i]
      /\ Pending(d) = Pending(c) - n /\ l \in Nat /\ Pending(c) \in Nat
      /\ \A i \in 1 .. Pending(d) : Content(d.bout)[i] = Content(c.bout)[n + i]
  BY FlushIs, PlacesAre
<1>. HIDE DEF l, q
<1>4. \A p : InNet(t, p) <=> InNet(s, p) \/ InLast(p)
  <2>1. \A k \in 1 .. l + 1 : k \in 1 .. l \/ k = l + 1
    BY <1>3
  <2>2. \A k \in 1 .. l : k \in 1 .. l + 1
    BY <1>3
  <2>3. l + 1 \in 1 .. l + 1
    BY <1>3
  <2>4. t[l + 1] = q /\ Len(t) = l + 1 /\ Len(s) = l
    BY <1>3 DEF q, l
  <2>5. ASSUME NEW p, InNet(t, p)
        PROVE  InNet(s, p) \/ InLast(p)
    <3>1. PICK k \in 1 .. l + 1 : \E i \in 1 .. Len(t[k]) : p = t[k][i]
      BY <2>4, <2>5
    <3>2. k \in 1 .. l => InNet(s, p)
      BY <1>3, <2>4, <3>1
    <3>3. k = l + 1 => InLast(p)
      BY <2>4, <3>1
    <3>. QED  BY <2>1, <3>2, <3>3
  <2>6. ASSUME NEW p, InNet(s, p)
        PROVE  InNet(t, p)
    BY <1>3, <2>2, <2>4, <2>6
  <2>7. ASSUME NEW p, InLast(p)
        PROVE  InNet(t, p)
    BY <2>3, <2>4, <2>7
  <2>. HIDE DEF InNet, InLast
  <2>. QED  BY <2>5, <2>6, <2>7
<1>5. \A p : InBout(c, p) <=> InLast(p) \/ InBout(d, p)
  <2>1. ASSUME NEW p, InBout(c, p)
        PROVE  InLast(p) \/ InBout(d, p)
    <3>1. PICK i \in 1 .. Pending(c) : p = Content(c.bout)[i]
      BY <2>1
    <3>2. i \in 1 .. n \/ (i - n \in 1 .. Pending(d) /\ n + (i - n) = i)
      BY <1>3
    <3>. QED  BY <1>3, <3>1, <3>2
  <2>2. ASSUME NEW p, InLast(p)
        PROVE  InBout(c, p)
    <3>1. PICK i \in 1 .. n : p = q[i]
      BY <1>3, <2>2
    <3>2. i \in 1 .. Pending(c)
      BY <1>3
    <3>. QED  BY <1>3, <3>1, <3>2
  <2>3. ASSUME NEW p, InBout(d, p)
        PROVE  InBout(c, p)
    <3>1. PICK i \in 1 .. Pending(d) : p = Content(d.bout)[i]
      BY <2>3
    <3>2. n + i \in 1 .. Pending(c)
      BY <1>3
    <3>. QED  BY <1>3, <3>1, <3>2
  <2>. HIDE DEF InBout, InLast
  <2>. QED  BY <2>1, <2>2, <2>3
<1>. HIDE DEF InBin, InNet, InBout, InLast
<1>. QED  BY <1>1, <1>2, <1>4, <1>5

LEMMA FlushKeepsStream ==
    ASSUME MaskFits, NEW e \in Sides, NEW c, NEW d, NEW s, NEW t, NEW g, NEW n, NEW closed,
           Typed(c, s, g), Typed(d, t, g), Flushed(c, d, s, t, n), IsStream(e, c, s, g, closed)
    PROVE  IsStream(e, d, t, g, closed)
<1>1. AreNumbered(c, s)
  BY DEF IsStream
<1>2. AreNumbered(d, t) /\ Mark(d, t, 0) = Mark(c, s, 0)
  BY <1>1, FlushKeepsNumbers
<1>3. Way(d, t, g) = Way(c, s, g)
  BY FlushKeepsWay
<1>4. /\ d.made = c.made /\ d.wedged = c.wedged
      /\ d.sentBye = c.sentBye /\ d.written = c.written
  BY DEF Flushed
<1>5. ASSUME IsTakenBy(e, c, s, g)
      PROVE  IsTakenBy(e, d, t, g)
  <2>1. AreTaken(e, d, t, g)
    BY <1>2, <1>5 DEF IsTakenBy, AreTaken
  <2>. QED  BY <1>3, <1>4, <1>5, <2>1, SameWay
<1>. QED  BY <1>2, <1>4, <1>5 DEF IsStream

Arrived(s, t, g, h) ==
    /\ s # <<>> /\ t = Tail(s) /\ h.bin = g.bin \o Head(s)
    /\ h.hs = g.hs /\ h.gotBye = g.gotBye /\ h.given = g.given

\* The segments that are left.
LEMMA TailIs ==
    ASSUME NEW s \in Seq(Seq(Pieces)), s # <<>>
    PROVE  /\ Tail(s) \in Seq(Seq(Pieces)) /\ Len(s) \in Nat \ {0} /\ Len(Tail(s)) = Len(s) - 1
           /\ \A k \in 1 .. Len(s) - 1 : Tail(s)[k] = s[k + 1]
           /\ Head(s) = s[1] /\ Head(s) \in Seq(Pieces)
<1>1. Len(s) \in Nat \ {0}
  BY EmptySeq, LenProperties
<1>2. Tail(s) \in Seq(Seq(Pieces)) /\ Len(Tail(s)) = Len(s) - 1
      /\ \A k \in 1 .. Len(Tail(s)) : Tail(s)[k] = s[k + 1]
  BY HeadTailProperties
<1>3. Head(s) = s[1] /\ 1 \in 1 .. Len(s)
  BY <1>1
<1>4. Head(s) \in Seq(Pieces)
  BY HeadTailProperties
<1>. QED  BY <1>1, <1>2, <1>3, <1>4

LEMMA TailKeepsNumbers ==
    ASSUME MaskFits, NEW c, NEW s, NEW t, NEW g, Typed(c, s, g), AreNumbered(c, s),
           s # <<>>, t = Tail(s)
    PROVE  /\ AreNumbered(c, t)
           /\ Mark(c, t, 0) = Mark(c, s, 1) /\ Mark(c, s, 1) = Mark(c, s, 0) + Len(Head(s))
<1>. DEFINE M(k) == Mark(c, s, k)
            N(k) == Mark(c, t, k)
            l == Len(s)
<1>1. l \in Nat \ {0} /\ Len(t) = l - 1 /\ \A k \in 1 .. l - 1 : t[k] = s[k + 1]
      /\ Head(s) = s[1]
  BY TailIs DEF Typed
<1>2. /\ \A k \in 1 .. l : s[k] # <<>> /\ Numbered(s[k], M(k))
      /\ \A j, k \in 0 .. l : j <= k => M(j) <= M(k)
      /\ Numbered(Peek(c.bout, Pending(c)), c.made)
  BY DEF AreNumbered
<1>3. /\ \A k \in 0 .. l : M(k) \in Nat
      /\ \A k \in 1 .. l : Len(s[k]) \in Nat \ {0} /\ M(k - 1) = M(k) - Len(s[k])
  BY MarksAre
<1>4. ASSUME NEW k \in 0 .. l - 1
      PROVE  N(k) = M(k + 1)
  <2>1. CASE k = l - 1
    BY <1>1, <2>1 DEF Mark
  <2>2. CASE k # l - 1
    <3>1. k + 1 \in 1 .. l - 1 /\ k + 1 # l /\ k \in Nat
      <4>. HIDE DEF l
      <4>. QED  BY <1>1, <2>2
    <3>2. N(k) = t[k + 1][1].no - 1 /\ M(k + 1) = s[k + 1 + 1][1].no - 1
      BY <1>1, <2>2, <3>1 DEF Mark
    <3>. QED  BY <1>1, <3>1, <3>2
  <2>. QED  BY <2>1, <2>2
<1>. HIDE DEF M, N, l
<1>5. ASSUME NEW k \in 1 .. l - 1
      PROVE  t[k] # <<>> /\ Numbered(t[k], N(k))
  <2>1. k + 1 \in 1 .. l /\ k \in 0 .. l - 1
    BY <1>1
  <2>. QED  BY <1>1, <1>2, <1>4, <2>1
<1>6. 0 \in 0 .. l - 1 /\ 0 + 1 = 1 /\ 1 \in 1 .. l /\ 1 \in 0 .. l /\ 1 - 1 = 0 /\ 0 \in 0 .. l
  BY <1>1
<1>7. N(0) = M(1) /\ N(0) \in Nat
  BY <1>3, <1>4, <1>6
<1>8. M(1) = M(0) + Len(s[1])
  <2>. DEFINE x == M(0)
              y == M(1)
              z == Len(s[1])
  <2>1. x \in Nat /\ y \in Nat /\ z \in Nat /\ x = y - z
    BY <1>3, <1>6
  <2>. HIDE DEF x, y, z
  <2>2. y = x + z
    BY <2>1
  <2>. QED  BY <2>2 DEF x, y, z
<1>9. ASSUME NEW j \in 0 .. l - 1, NEW k \in 0 .. l - 1, j <= k
      PROVE  N(j) <= N(k)
  <2>1. j + 1 \in 0 .. l /\ k + 1 \in 0 .. l /\ j + 1 <= k + 1
    BY <1>1, <1>9
  <2>. QED  BY <1>2, <1>4, <2>1
<1>10. AreNumbered(c, t)
  <2>1. Len(t) = l - 1
    BY <1>1
  <2>. QED  BY <1>2, <1>5, <1>7, <1>9, <2>1 DEF AreNumbered, N
<1>. QED  BY <1>1, <1>7, <1>8, <1>10 DEF M, N

\* What is in bin after a segment arrived.
IsJoined(s, g, h) ==
    /\ Len(g.bin) \in Nat /\ Len(s[1]) \in Nat /\ Head(s) = s[1]
    /\ Len(h.bin) = Len(g.bin) + Len(s[1])
    /\ \A i \in 1 .. Len(g.bin) : h.bin[i] = g.bin[i]
    /\ \A i \in 1 .. Len(s[1]) : h.bin[Len(g.bin) + i] = s[1][i]

LEMMA ArriveIs ==
    ASSUME MaskFits, NEW c, NEW s, NEW t, NEW g, NEW h, Typed(c, s, g), Arrived(s, t, g, h)
    PROVE  IsJoined(s, g, h)
<1>1. g.bin \in Seq(Pieces) /\ s \in Seq(Seq(Pieces)) /\ s # <<>> /\ h.bin = g.bin \o Head(s)
  BY DEF Typed, Contexts, Arrived
<1>2. Head(s) = s[1] /\ Head(s) \in Seq(Pieces)
  BY <1>1, TailIs
<1>. DEFINE p == g.bin
            q == s[1]
<1>3. p \in Seq(Pieces) /\ q \in Seq(Pieces) /\ h.bin = p \o q
  BY <1>1, <1>2
<1>. HIDE DEF p, q
<1>4. Len(p) \in Nat /\ Len(q) \in Nat
  BY <1>3, LenProperties
<1>5. Len(h.bin) = Len(p) + Len(q) /\ \A i \in 1 .. Len(p) + Len(q) :
                        h.bin[i] = IF i <= Len(p) THEN p[i] ELSE q[i - Len(p)]
  BY <1>3, ConcatProperties
<1>6. \A i \in 1 .. Len(p) : i \in 1 .. Len(p) + Len(q) /\ i <= Len(p)
  BY <1>4
<1>7. \A i \in 1 .. Len(q) : /\ Len(p) + i \in 1 .. Len(p) + Len(q) /\ ~ (Len(p) + i <= Len(p))
                             /\ (Len(p) + i) - Len(p) = i
  BY <1>4
<1>8. \A i \in 1 .. Len(p) : h.bin[i] = p[i]
  BY <1>5, <1>6
<1>9. \A i \in 1 .. Len(q) : h.bin[Len(p) + i] = q[i]
  BY <1>5, <1>7
<1>. QED  BY <1>2, <1>4, <1>5, <1>8, <1>9 DEF p, q, IsJoined

LEMMA ArriveKeepsWay ==
    ASSUME MaskFits, NEW c, NEW s, NEW t, NEW g, NEW h,
           Typed(c, s, g), Typed(c, t, h), Arrived(s, t, g, h)
    PROVE  Way(c, t, h) = Way(c, s, g)
<1>. DEFINE InBin(b, p) == \E i \in 1 .. Len(b.bin) : p = b.bin[i]
            InNet(u, p) == \E k \in 1 .. Len(u) : \E i \in 1 .. Len(u[k]) : p = u[k][i]
            InBout(p) == \E i \in 1 .. Pending(c) : p = Content(c.bout)[i]
            InFirst(p) == \E i \in 1 .. Len(s[1]) : p = s[1][i]
            l == Len(s)
            m == Len(g.bin)
            n == Len(s[1])
<1>1. \A p : p \in Way(c, s, g) <=> InBin(g, p) \/ InNet(s, p) \/ InBout(p)
  BY WayIs
<1>2. \A p : p \in Way(c, t, h) <=> InBin(h, p) \/ InNet(t, p) \/ InBout(p)
  BY WayIs
<1>3. /\ m \in Nat /\ n \in Nat /\ Len(h.bin) = m + n
      /\ \A i \in 1 .. m : h.bin[i] = g.bin[i]
      /\ \A i \in 1 .. n : h.bin[m + i] = s[1][i]
  <2>1. IsJoined(s, g, h)
    BY ArriveIs
  <2>. QED  BY <2>1 DEF IsJoined
<1>4. l \in Nat \ {0} /\ Len(t) = l - 1 /\ \A k \in 1 .. l - 1 : t[k] = s[k + 1]
  BY TailIs DEF Typed, Arrived
<1>. HIDE DEF l, m, n
<1>5. \A p : InNet(s, p) <=> InFirst(p) \/ InNet(t, p)
  <2>1. Len(s) = l
    BY DEF l
  <2>2. ASSUME NEW p, InNet(s, p)
        PROVE  InFirst(p) \/ InNet(t, p)
    <3>1. PICK k \in 1 .. l : \E i \in 1 .. Len(s[k]) : p = s[k][i]
      BY <2>1, <2>2
    <3>2. CASE k = 1
      BY <3>1, <3>2
    <3>3. CASE k # 1
      <4>1. k - 1 \in 1 .. l - 1 /\ (k - 1) + 1 = k
        BY <1>4, <3>3
      <4>2. t[k - 1] = s[k] /\ k - 1 \in 1 .. Len(t)
        BY <1>4, <4>1
      <4>. QED  BY <3>1, <4>2
    <3>. QED  BY <3>2, <3>3
  <2>3. ASSUME NEW p, InFirst(p)
        PROVE  InNet(s, p)
    <3>1. 1 \in 1 .. Len(s)
      BY <1>4, <2>1
    <3>. QED  BY <2>3, <3>1
  <2>4. ASSUME NEW p, InNet(t, p)
        PROVE  InNet(s, p)
    <3>1. PICK k \in 1 .. l - 1 : \E i \in 1 .. Len(t[k]) : p = t[k][i]
      BY <1>4, <2>4
    <3>2. k + 1 \in 1 .. Len(s) /\ t[k] = s[k + 1]
      BY <1>4, <2>1
    <3>. QED  BY <3>1, <3>2
  <2>. HIDE DEF InNet, InFirst
  <2>. QED  BY <2>2, <2>3, <2>4
<1>6. \A p : InBin(h, p) <=> InBin(g, p) \/ InFirst(p)
  <2>0. Len(g.bin) = m /\ Len(s[1]) = n
    BY DEF m, n
  <2>1. ASSUME NEW p, InBin(h, p)
        PROVE  InBin(g, p) \/ InFirst(p)
    <3>1. PICK i \in 1 .. m + n : p = h.bin[i]
      BY <1>3, <2>1
    <3>2. i \in 1 .. m \/ (i - m \in 1 .. n /\ m + (i - m) = i)
      BY <1>3
    <3>3. i \in 1 .. m => InBin(g, p)
      BY <1>3, <2>0, <3>1
    <3>4. i - m \in 1 .. n /\ m + (i - m) = i => InFirst(p)
      BY <1>3, <2>0, <3>1
    <3>. QED  BY <3>2, <3>3, <3>4
  <2>2. ASSUME NEW p, InBin(g, p)
        PROVE  InBin(h, p)
    <3>1. PICK i \in 1 .. m : p = g.bin[i]
      BY <2>0, <2>2
    <3>2. i \in 1 .. m + n
      BY <1>3
    <3>. QED  BY <1>3, <3>1, <3>2
  <2>3. ASSUME NEW p, InFirst(p)
        PROVE  InBin(h, p)
    <3>1. PICK i \in 1 .. n : p = s[1][i]
      BY <2>0, <2>3
    <3>2. m + i \in 1 .. m + n
      BY <1>3
    <3>. QED  BY <1>3, <3>1, <3>2
  <2>. HIDE DEF InBin, InFirst
  <2>. QED  BY <2>1, <2>2, <2>3
<1>. HIDE DEF InBin, InNet, InBout, InFirst
<1>. QED  BY <1>1, <1>2, <1>5, <1>6

LEMMA ArriveKeepsTaken ==
    ASSUME MaskFits, NEW e \in Sides, NEW c, NEW s, NEW t, NEW g, NEW h,
           Typed(c, s, g), Typed(c, t, h), Arrived(s, t, g, h),
           AreNumbered(c, s), AreTaken(e, c, s, g)
    PROVE  AreTaken(e, c, t, h)
<1>. DEFINE m == Len(g.bin)
            n == Len(s[1])
            x == Mark(c, s, 0)
            y == TakenUpTo(e, g.hs)
<1>1. /\ m \in Nat /\ n \in Nat /\ Len(h.bin) = m + n /\ Head(s) = s[1]
      /\ \A i \in 1 .. m : h.bin[i] = g.bin[i]
      /\ \A i \in 1 .. n : h.bin[m + i] = s[1][i]
  <2>1. IsJoined(s, g, h)
    BY ArriveIs
  <2>. QED  BY <2>1 DEF IsJoined
<1>2. s # <<>> /\ t = Tail(s) /\ h.hs = g.hs
  BY DEF Arrived
<1>3. Mark(c, t, 0) = Mark(c, s, 1) /\ Mark(c, s, 1) = x + n
  BY <1>1, <1>2, TailKeepsNumbers
<1>4. x \in Nat /\ y \in Nat
  BY FlightsAre DEF AreNumbered
<1>5. y + m <= x /\ (g.hs < 4 => y + m = x)
  BY DEF AreTaken
<1>6. x - m \in Nat /\ \A i \in 1 .. m : g.bin[i].no = (x - m) + i
  BY BinIs
<1>7. \A i \in 1 .. n : s[1][i].no = x + i
  <2>1. 1 \in 1 .. Len(s) /\ 1 - 1 = 0
    BY <1>2, TailIs DEF Typed
  <2>. QED  BY <2>1, MarksAre
<1>. HIDE DEF m, n, x, y
<1>8. y + (m + n) <= x + n /\ (g.hs < 4 => y + (m + n) = x + n)
  BY <1>1, <1>4, <1>5
<1>9. ASSUME NEW i \in 1 .. m + n
      PROVE  h.bin[i].no + (m + n) = (x + n) + i
  <2>1. i \in Nat
    BY <1>1
  <2>2. CASE i <= m
    <3>1. i \in 1 .. m
      BY <1>1, <2>2
    <3>2. h.bin[i].no = (x - m) + i
      BY <1>1, <1>6, <3>1
    <3>3. (x - m) + i + (m + n) = (x + n) + i
      BY <1>1, <1>4, <1>6, <2>1
    <3>. QED  BY <3>2, <3>3
  <2>3. CASE ~ (i <= m)
    <3>1. i - m \in 1 .. n /\ m + (i - m) = i
      BY <1>1, <2>3
    <3>2. h.bin[i].no = x + (i - m)
      BY <1>1, <1>7, <3>1, SMTT(30)
    <3>3. x + (i - m) + (m + n) = (x + n) + i
      BY <1>1, <1>4, <2>1
    <3>. QED  BY <3>2, <3>3
  <2>. QED  BY <2>2, <2>3
<1>10. Numbered(h.bin, x + n)
  BY <1>1, <1>9 DEF Numbered
<1>. QED  BY <1>1, <1>2, <1>3, <1>8, <1>10 DEF AreTaken, y

\* A segment arrives.
LEMMA ArriveKeepsStream ==
    ASSUME MaskFits, NEW e \in Sides, NEW c, NEW s, NEW t, NEW g, NEW h, NEW closed,
           Typed(c, s, g), Typed(c, t, h), Arrived(s, t, g, h), IsStream(e, c, s, g, closed)
    PROVE  IsStream(e, c, t, h, closed)
<1>1. s # <<>> /\ t = Tail(s) /\ h.gotBye = g.gotBye /\ h.given = g.given
  BY DEF Arrived
<1>2. AreNumbered(c, s)
  BY DEF IsStream
<1>3. AreNumbered(c, t)
  BY <1>1, <1>2, TailKeepsNumbers
<1>4. ASSUME IsTakenBy(e, c, s, g)
      PROVE  IsTakenBy(e, c, t, h)
  <2>1. AreTaken(e, c, t, h)
    BY <1>2, <1>4, ArriveKeepsTaken DEF IsTakenBy
  <2>2. Way(c, t, h) = Way(c, s, g)
    BY ArriveKeepsWay
  <2>. QED  BY <1>1, <1>4, <2>1, <2>2, SameWay
<1>. QED  BY <1>1, <1>3, <1>4 DEF IsStream

\* A segment arrives at a side that closed.
LEMMA DropKeepsStream ==
    ASSUME MaskFits, NEW e, NEW c, NEW s, NEW t, NEW g,
           Typed(c, s, g), s # <<>>, t = Tail(s), IsStream(e, c, s, g, TRUE)
    PROVE  IsStream(e, c, t, g, TRUE)
<1>1. AreNumbered(c, s)
  BY DEF IsStream
<1>2. AreNumbered(c, t)
  BY <1>1, TailKeepsNumbers
<1>. QED  BY <1>2 DEF IsStream

-----------------------------------------------------------------------------
(***************************************************************************)
(* A stream that is read: the first m pieces of bin are taken.             *)
(***************************************************************************)

\* The last pieces of data records among the first m pieces.
DataAmong(q, m) == {i \in 1 .. m : q[i].kind \in DataKinds /\ q[i].last}

Taken(e, g, h, m) ==
    /\ m \in 0 .. Len(g.bin)
    /\ h.bin = SubSeq(g.bin, m + 1, Len(g.bin)) /\ h.gotBye = g.gotBye
    /\ \A i \in 1 .. m : g.bin[i].kind # "bye"
    /\ TakenUpTo(e, h.hs) <= TakenUpTo(e, g.hs) + m
    /\ h.hs < 4 => g.hs < 4 /\ TakenUpTo(e, h.hs) = TakenUpTo(e, g.hs) + m
    /\ h.given = g.given + Cardinality(DataAmong(g.bin, m))

LEMMA RestIs ==
    ASSUME NEW q \in Seq(Pieces), NEW m \in 0 .. Len(q)
    PROVE  /\ SubSeq(q, m + 1, Len(q)) \in Seq(Pieces)
           /\ Len(SubSeq(q, m + 1, Len(q))) = Len(q) - m
           /\ \A i \in 1 .. Len(q) - m : SubSeq(q, m + 1, Len(q))[i] = q[m + i]
<1>. DEFINE r == SubSeq(q, m + 1, Len(q))
            l == Len(q)
<1>1. l \in Nat /\ m \in Nat /\ m <= l
  BY LenProperties
<1>2. \A i \in 1 .. l : q[i] \in Pieces
  BY ElementOfSeq
<1>. HIDE DEF l
<1>3. m + 1 \in Int /\ l \in Int /\ \A i \in m + 1 .. l : i \in 1 .. l
  BY <1>1
<1>4. /\ SubSeq(q, m + 1, l) \in Seq(Pieces)
      /\ Len(SubSeq(q, m + 1, l)) = IF m + 1 <= l THEN l - (m + 1) + 1 ELSE 0
      /\ \A i \in 1 .. l - (m + 1) + 1 : SubSeq(q, m + 1, l)[i] = q[(m + 1) + i - 1]
  BY <1>2, <1>3, SubSeqProperties
<1>5. r = SubSeq(q, m + 1, l)
  BY DEF l
<1>. HIDE DEF r
<1>6. (IF m + 1 <= l THEN l - (m + 1) + 1 ELSE 0) = l - m /\ l - (m + 1) + 1 = l - m
  BY <1>1
<1>7. \A i \in 1 .. l - m : (m + 1) + i - 1 = m + i
  BY <1>1
<1>8. r \in Seq(Pieces) /\ Len(r) = l - m /\ \A i \in 1 .. l - m : r[i] = q[m + i]
  BY <1>4, <1>5, <1>6, <1>7
<1>. QED  BY <1>8 DEF r, l

\* What is on its way still, and what is not.
LEMMA TakenWay ==
    ASSUME MaskFits, NEW e \in Sides, NEW c, NEW s, NEW g, NEW h, NEW m,
           Typed(c, s, g), Typed(c, s, h), Taken(e, g, h, m)
    PROVE  \A p : p \in Way(c, s, g) <=> p \in Way(c, s, h) \/ \E i \in 1 .. m : p = g.bin[i]
<1>. DEFINE InBin(b, p) == \E i \in 1 .. Len(b.bin) : p = b.bin[i]
            InNet(p) == \E k \in 1 .. Len(s) : \E i \in 1 .. Len(s[k]) : p = s[k][i]
            InBout(p) == \E i \in 1 .. Pending(c) : p = Content(c.bout)[i]
            IsRead(p) == \E i \in 1 .. m : p = g.bin[i]
            l == Len(g.bin)
<1>1. \A p : p \in Way(c, s, g) <=> InBin(g, p) \/ InNet(p) \/ InBout(p)
  BY WayIs
<1>2. \A p : p \in Way(c, s, h) <=> InBin(h, p) \/ InNet(p) \/ InBout(p)
  BY WayIs
<1>3. m \in Nat /\ l \in Nat /\ m <= l /\ Len(h.bin) = l - m
      /\ \A i \in 1 .. l - m : h.bin[i] = g.bin[m + i]
  <2>1. g.bin \in Seq(Pieces) /\ m \in 0 .. l /\ h.bin = SubSeq(g.bin, m + 1, l)
    BY DEF Taken, Typed, Contexts
  <2>2. l \in Nat
    BY PlacesAre
  <2>3. Len(h.bin) = l - m /\ \A i \in 1 .. l - m : h.bin[i] = g.bin[m + i]
    BY <2>1, RestIs
  <2>. HIDE DEF l
  <2>. QED  BY <2>1, <2>2, <2>3
<1>4. \A p : InBin(g, p) <=> InBin(h, p) \/ IsRead(p)
  <2>1. ASSUME NEW p, InBin(g, p)
        PROVE  InBin(h, p) \/ IsRead(p)
    <3>1. PICK i \in 1 .. l : p = g.bin[i]
      BY <2>1
    <3>2. i \in 1 .. m \/ (i - m \in 1 .. l - m /\ m + (i - m) = i)
      <4>. HIDE DEF l
      <4>. QED  BY <1>3
    <3>3. i - m \in 1 .. l - m /\ m + (i - m) = i => InBin(h, p)
      <4>. HIDE DEF l
      <4>. QED  BY <1>3, <3>1
    <3>. QED  BY <3>1, <3>2, <3>3
  <2>2. ASSUME NEW p, InBin(h, p)
        PROVE  InBin(g, p)
    <3>1. PICK i \in 1 .. l - m : p = h.bin[i]
      BY <1>3, <2>2
    <3>2. m + i \in 1 .. l
      <4>. HIDE DEF l
      <4>. QED  BY <1>3
    <3>3. p = g.bin[m + i]
      <4>. HIDE DEF l
      <4>. QED  BY <1>3, <3>1
    <3>. QED  BY <3>2, <3>3
  <2>3. ASSUME NEW p, IsRead(p)
        PROVE  InBin(g, p)
    <3>1. \A i \in 1 .. m : i \in 1 .. l
      <4>. HIDE DEF l
      <4>. QED  BY <1>3
    <3>. QED  BY <2>3, <3>1
  <2>. HIDE DEF InBin, IsRead
  <2>. QED  BY <2>1, <2>2, <2>3
<1>. HIDE DEF InBin, InNet, InBout, IsRead
<1>5. \A p : p \in Way(c, s, g) <=> p \in Way(c, s, h) \/ IsRead(p)
  BY <1>1, <1>2, <1>4
<1>. QED  BY <1>5 DEF IsRead

LEMMA TakenNumbers ==
    ASSUME MaskFits, NEW e \in Sides, NEW c, NEW s, NEW g, NEW h, NEW m,
           Typed(c, s, g), Typed(c, s, h), Taken(e, g, h, m),
           AreNumbered(c, s), AreTaken(e, c, s, g)
    PROVE  /\ AreTaken(e, c, s, h)
           /\ \A p \in Way(c, s, h) : \A i \in 1 .. m : p # g.bin[i]
           /\ \A i \in 1 .. m : \A j \in 1 .. m : g.bin[i] = g.bin[j] => i = j
<1>. DEFINE x == Mark(c, s, 0)
            l == Len(g.bin)
            y == TakenUpTo(e, g.hs)
            z == TakenUpTo(e, h.hs)
<1>1. /\ x \in Nat /\ l \in Nat /\ y \in Nat /\ z \in Nat /\ y + l <= x
      /\ g.hs < 4 => y + l = x
  <2>1. x \in Nat /\ l \in Nat
    BY PlacesAre DEF AreNumbered
  <2>2. y \in Nat /\ z \in Nat
    BY FlightsAre
  <2>. QED  BY <2>1, <2>2 DEF AreTaken
<1>2. \A i \in 1 .. l : g.bin[i].no = (x - l) + i
  BY BinIs
<1>3. /\ m \in 0 .. l /\ z <= y + m /\ (h.hs < 4 => g.hs < 4 /\ z = y + m)
      /\ h.bin = SubSeq(g.bin, m + 1, l)
  BY DEF Taken
<1>4. Len(h.bin) = l - m /\ \A i \in 1 .. l - m : h.bin[i] = g.bin[m + i]
  <2>1. g.bin \in Seq(Pieces)
    BY DEF Typed, Contexts
  <2>. QED  BY <1>3, <2>1, RestIs
<1>. HIDE DEF x, l, y, z
<1>5. x - l \in Nat /\ m \in Nat /\ m <= l
  BY <1>1, <1>3
<1>6. z + (l - m) <= x /\ (h.hs < 4 => z + (l - m) = x)
  BY <1>1, <1>3, <1>5
<1>7. ASSUME NEW i \in 1 .. l - m
      PROVE  h.bin[i].no = (x - l) + (m + i)
  <2>1. m + i \in 1 .. l
    BY <1>1, <1>5
  <2>. QED  BY <1>2, <1>4, <2>1
<1>8. \A i \in 1 .. l - m : h.bin[i].no + (l - m) = x + i
  <2>1. ASSUME NEW i \in 1 .. l - m
        PROVE  (x - l) + (m + i) + (l - m) = x + i
    BY <1>1, <1>5
  <2>. QED  BY <1>7, <2>1
<1>9. AreTaken(e, c, s, h)
  <2>1. Numbered(h.bin, x)
    BY <1>4, <1>8 DEF Numbered
  <2>. QED  BY <1>4, <1>6, <2>1 DEF AreTaken, x, z
<1>10. \A i \in 1 .. m : \A j \in 1 .. m : g.bin[i] = g.bin[j] => i = j
  <2>1. SUFFICES ASSUME NEW i \in 1 .. m, NEW j \in 1 .. m, g.bin[i].no = g.bin[j].no
                 PROVE  i = j
    OBVIOUS
  <2>2. i \in 1 .. l /\ j \in 1 .. l
    BY <1>1, <1>5
  <2>3. (x - l) + i = (x - l) + j /\ i \in Nat /\ j \in Nat
    BY <1>2, <1>5, <2>1, <2>2
  <2>. QED  BY <1>5, <2>3
<1>11. ASSUME NEW p \in Way(c, s, h), NEW i \in 1 .. m
       PROVE  p # g.bin[i]
  <2>1. i \in 1 .. l /\ i \in Nat /\ i <= m
    BY <1>1, <1>5
  <2>2. g.bin[i].no = (x - l) + i
    BY <1>2, <2>1
  <2>3. SUFFICES ASSUME p.no = (x - l) + i
                 PROVE  FALSE
    BY <2>2
  <2>4. p.no <= x
    BY <1>1, <1>5, <2>1, <2>3
  <2>5. PICK j \in 1 .. l - m : p = h.bin[j]
    BY <1>4, <1>9, <2>4, NumbersAre DEF x
  <2>6. (x - l) + (m + j) = (x - l) + i
    BY <1>7, <2>3, <2>5
  <2>7. j \in Nat /\ j >= 1
    BY <1>1, <1>5
  <2>. QED  BY <1>5, <2>1, <2>6, <2>7
<1>. QED  BY <1>9, <1>10, <1>11

LEMMA TakenCount ==
    ASSUME MaskFits, NEW e \in Sides, NEW c, NEW s, NEW g, NEW h, NEW m,
           Typed(c, s, g), Typed(c, s, h), Taken(e, g, h, m),
           AreNumbered(c, s), IsTakenBy(e, c, s, g)
    PROVE  AreCounted(c, h, Way(c, s, h))
<1>. DEFINE W == Way(c, s, g)
            V == Way(c, s, h)
            I == DataAmong(g.bin, m)
            R == {p \in Records(W) : \E i \in 1 .. m : p = g.bin[i]}
            f == [i \in I |-> g.bin[i]]
<1>1. SUFFICES ASSUME ~ h.gotBye, ~ c.wedged
               PROVE  c.written - h.given = Cardinality(Records(V))
  BY DEF AreCounted
<1>2. c.written - g.given = Cardinality(Records(W))
  BY <1>1 DEF IsTakenBy, AreCounted, Taken
<1>3. \A p : p \in W <=> p \in V \/ \E i \in 1 .. m : p = g.bin[i]
  BY TakenWay
<1>4. AreTaken(e, c, s, g)
  BY DEF IsTakenBy
<1>5. /\ \A p \in V : \A i \in 1 .. m : p # g.bin[i]
      /\ \A i \in 1 .. m : \A j \in 1 .. m : g.bin[i] = g.bin[j] => i = j
  BY <1>4, TakenNumbers
<1>6. IsFiniteSet(W)
  BY <1>4, WayIsFinite
<1>7. c.written \in Nat /\ g.given \in Nat /\ h.given \in Nat
  BY DEF Typed, Contexts
<1>8. h.given = g.given + Cardinality(I)
  BY DEF Taken
<1>. HIDE DEF W, V
<1>9. /\ IsFiniteSet(Records(W)) /\ IsFiniteSet(Records(V)) /\ IsFiniteSet(R)
      /\ Cardinality(Records(V)) \in Nat /\ Cardinality(R) \in Nat
  <2>1. Records(W) \subseteq W /\ Records(V) \subseteq W /\ R \subseteq W
    BY <1>3 DEF Records
  <2>2. IsFiniteSet(Records(W)) /\ IsFiniteSet(Records(V)) /\ IsFiniteSet(R)
    BY <1>6, <2>1, FS_Subset
  <2>. QED  BY <2>2, FS_CardinalityType
<1>10. f \in Injection(I, R) /\ f \in Surjection(I, R)
  <2>1. \A i \in I : i \in 1 .. m /\ g.bin[i] \in R
    BY <1>3 DEF DataAmong, Records
  <2>2. \A p \in R : \E i \in I : p = g.bin[i]
    BY DEF DataAmong, Records
  <2>. HIDE DEF I, R
  <2>3. f \in [I -> R]
    BY <2>1
  <2>4. \A i, j \in I : f[i] = f[j] => i = j
    BY <1>5, <2>1
  <2>5. \A p \in R : \E i \in I : f[i] = p
    BY <2>2
  <2>. HIDE DEF f
  <2>. QED  BY <2>3, <2>4, <2>5 DEF Injection, Surjection, IsInjective
<1>11. Cardinality(I) = Cardinality(R)
  <2>. HIDE DEF I, R, f
  <2>. QED  BY <1>9, <1>10, FS_Injection
<1>12. Cardinality(Records(W)) = Cardinality(Records(V)) + Cardinality(R)
  <2>1. Records(W) = Records(V) \cup R
    BY <1>3 DEF Records
  <2>2. Records(V) \cap R = {}
    BY <1>5 DEF Records
  <2>. HIDE DEF R
  <2>3. Cardinality(Records(V) \cup R)
            = Cardinality(Records(V)) + Cardinality(R) - Cardinality(Records(V) \cap R)
    BY <1>9, FS_Union
  <2>4. Cardinality(Records(V) \cap R) = 0
    BY <2>2, FS_EmptySet
  <2>. QED  BY <1>9, <2>1, <2>3, <2>4
<1>. HIDE DEF I, R
<1>. QED  BY <1>2, <1>7, <1>8, <1>9, <1>11, <1>12

LEMMA TakeKeepsStream ==
    ASSUME MaskFits, NEW e \in Sides, NEW c, NEW s, NEW g, NEW h, NEW m,
           Typed(c, s, g), Typed(c, s, h), Taken(e, g, h, m), IsStream(e, c, s, g, FALSE)
    PROVE  IsStream(e, c, s, h, FALSE)
<1>. DEFINE W == Way(c, s, g)
            V == Way(c, s, h)
<1>1. AreNumbered(c, s) /\ IsTakenBy(e, c, s, g) /\ (g.gotBye => c.sentBye)
  BY DEF IsStream
<1>2. AreTaken(e, c, s, g) /\ (\A p \in W : IsInPlace(e, p)) /\ ByesAreLast(c, W)
      /\ ByeIsKept(c, g, W)
  BY <1>1 DEF IsTakenBy
<1>3. \A p : p \in W <=> p \in V \/ \E i \in 1 .. m : p = g.bin[i]
  BY TakenWay
<1>4. AreTaken(e, c, s, h)
  BY <1>1, <1>2, TakenNumbers
<1>5. AreCounted(c, h, V)
  BY <1>1, TakenCount
<1>6. h.gotBye = g.gotBye /\ \A i \in 1 .. m : g.bin[i].kind # "bye"
  BY DEF Taken
<1>. HIDE DEF W, V
<1>7. \A p \in V : IsInPlace(e, p)
  BY <1>2, <1>3
<1>8. ByesAreLast(c, V)
  BY <1>2, <1>3 DEF ByesAreLast
<1>9. ByeIsKept(c, h, V)
  BY <1>2, <1>3, <1>6 DEF ByeIsKept
<1>. QED  BY <1>1, <1>4, <1>5, <1>6, <1>7, <1>8, <1>9 DEF IsStream, IsTakenBy, V

\* The peer's bye is read, with what came after it.
Ended(g, h) ==
    /\ h.bin = <<>> /\ h.gotBye /\ h.hs = 4 /\ g.hs = 4 /\ h.given = g.given
    /\ \E i \in 1 .. Len(g.bin) : g.bin[i].kind = "bye"

LEMMA EndKeepsStream ==
    ASSUME MaskFits, NEW e \in Sides, NEW c, NEW s, NEW g, NEW h,
           Typed(c, s, g), Typed(c, s, h), Ended(g, h), IsStream(e, c, s, g, FALSE)
    PROVE  IsStream(e, c, s, h, FALSE)
<1>1. AreNumbered(c, s) /\ IsTakenBy(e, c, s, g)
  BY DEF IsStream
<1>2. h.gotBye /\ h.bin = <<>> /\ Len(h.bin) = 0 /\ h.hs = 4
  BY EmptySeq DEF Ended
<1>3. AreTaken(e, c, s, g) /\ (\A p \in Way(c, s, g) : IsInPlace(e, p))
      /\ ByesAreLast(c, Way(c, s, g))
  BY <1>1 DEF IsTakenBy
<1>4. \A p : p \in Way(c, s, h) => p \in Way(c, s, g)
  BY <1>2, WayIs
<1>5. c.sentBye
  <2>1. PICK i \in 1 .. Len(g.bin) : g.bin[i].kind = "bye"
    BY DEF Ended
  <2>2. g.bin[i] \in Way(c, s, g)
    BY <2>1, WayIs
  <2>. QED  BY <1>3, <2>1, <2>2 DEF ByesAreLast
<1>6. AreTaken(e, c, s, h)
  <2>. DEFINE x == Mark(c, s, 0)
              y == TakenUpTo(e, h.hs)
              l == Len(g.bin)
  <2>1. x \in Nat /\ y \in Nat /\ l \in Nat
    BY <1>1, FlightsAre, PlacesAre DEF AreNumbered
  <2>2. y + l <= x
    BY <1>3 DEF AreTaken, Ended
  <2>3. Numbered(h.bin, x)
    BY <1>2 DEF Numbered
  <2>. HIDE DEF x, y, l
  <2>4. y + 0 <= x
    BY <2>1, <2>2
  <2>. QED  BY <1>2, <2>3, <2>4 DEF AreTaken, x, y
<1>7. (\A p \in Way(c, s, h) : IsInPlace(e, p)) /\ ByesAreLast(c, Way(c, s, h))
  BY <1>3, <1>4 DEF ByesAreLast
<1>8. ByeIsKept(c, h, Way(c, s, h)) /\ AreCounted(c, h, Way(c, s, h))
  BY <1>2 DEF ByeIsKept, AreCounted
<1>. QED  BY <1>1, <1>5, <1>6, <1>7, <1>8 DEF IsStream, IsTakenBy

-----------------------------------------------------------------------------
(***************************************************************************)
(* The operations of OpenSSL on a context c of the side e.                 *)
(***************************************************************************)

\* All but what a put changes.
SameRest(c, d) ==
    /\ d.state = c.state /\ d.blocked = c.blocked /\ d.bin = c.bin /\ d.hs = c.hs
    /\ d.sentBye = c.sentBye /\ d.gotBye = c.gotBye /\ d.written = c.written
    /\ d.ignored = c.ignored /\ d.given = c.given /\ d.read = c.read

LEMMA RecordIs ==
    ASSUME NEW kind \in Kinds, NEW made \in Nat,
           NEW r, r = [i \in 1 .. Length[kind] |-> Piece(kind, made + i, i = Length[kind])]
    PROVE  /\ r \in Seq(Pieces) /\ Len(r) = Length[kind]
           /\ \A i \in 1 .. Length[kind] : r[i] = Piece(kind, made + i, i = Length[kind])
<1>. DEFINE l == Length[kind]
<1>1. l \in Nat
  BY KindsAre
<1>2. \A i \in 1 .. l : Piece(kind, made + i, i = l) \in Pieces
  BY <1>1 DEF Piece, Pieces
<1>3. r = [i \in 1 .. l |-> Piece(kind, made + i, i = l)]
  OBVIOUS
<1>. HIDE DEF l
<1>4. r \in [1 .. l -> Pieces]
  BY <1>2, <1>3, ZenonT(30)
<1>5. r \in Seq(Pieces)
  BY <1>1, <1>4, SeqDef
<1>6. Len(r) = l
  <2>1. DOMAIN r = 1 .. l /\ DOMAIN r = 1 .. Len(r) /\ Len(r) \in Nat
    BY <1>4, <1>5, LenProperties
  <2>. DEFINE n == Len(r)
  <2>2. n \in Nat /\ 1 .. l = 1 .. n
    BY <2>1
  <2>. HIDE DEF n
  <2>3. (l \in 1 .. l <=> l \in 1 .. n) /\ (n \in 1 .. l <=> n \in 1 .. n)
    BY <2>2
  <2>4. n = l
    BY <1>1, <2>2, <2>3
  <2>. QED  BY <2>4 DEF n
<1>7. \A i \in 1 .. l : r[i] = Piece(kind, made + i, i = l)
  BY <1>3
<1>. QED  BY <1>5, <1>6, <1>7 DEF l

LEMMA PutIs ==
    ASSUME MaskFits, NEW c \in Contexts, NEW kind \in Kinds, NEW d, d = Put(c, kind)
    PROVE  /\ d \in Contexts /\ SameRest(c, d)
           /\ c.wedged => d = c
           /\ ~ c.wedged => \E n \in Nat : Grown(c, d, kind, n)
<1>1. CASE c.wedged
  BY <1>1 DEF Put, SameRest
<1>2. CASE ~ c.wedged
  <2>. DEFINE r == [i \in 1 .. Length[kind] |-> Piece(kind, c.made + i, i = Length[kind])]
              n == Least(Len(r), Left(c.bout))
              b == Write(c.bout, r)
              w == n < Len(r)
  <2>1. d = [c EXCEPT !.bout = b, !.made = @ + n, !.wedged = w]
    BY <1>2 DEF Put
  <2>2. c.made \in Nat /\ c.bout \in Buffers /\ Pending(c) = Available(c.bout)
    BY ContextIs
  <2>3. /\ r \in Seq(Pieces) /\ Len(r) = Length[kind]
        /\ \A i \in 1 .. Length[kind] : r[i] = Piece(kind, c.made + i, i = Length[kind])
    BY <2>2, RecordIs
  <2>4. n = Least(Len(r), Left(c.bout))
    OBVIOUS
  <2>. HIDE DEF r, n
  <2>5. /\ b \in Buffers /\ n \in 0 .. Len(r)
        /\ Available(b) = Available(c.bout) + n
        /\ \A i \in 1 .. Available(c.bout) : Content(b)[i] = Content(c.bout)[i]
        /\ \A i \in 1 .. n : Content(b)[Available(c.bout) + i] = r[i]
    BY <2>2, <2>3, <2>4, WriteIs
  <2>6. Length[kind] \in Nat
    BY KindsAre
  <2>7. n \in Nat /\ n \in 0 .. Length[kind] /\ w = (n < Length[kind])
    BY <2>3, <2>5, <2>6
  <2>. HIDE DEF b, w
  <2>8. w \in BOOLEAN
    BY <2>7
  <2>9. d \in Contexts /\ SameRest(c, d) /\ d.bout = b /\ d.made = c.made + n /\ d.wedged = w
    <3>. DEFINE k == c.made + n
    <3>1. k \in Nat /\ b \in Buffers
      BY <2>2, <2>5, <2>7
    <3>2. d = [c EXCEPT !.bout = b, !.made = k, !.wedged = w]
      BY <2>1
    <3>. HIDE DEF k
    <3>3. d \in Contexts /\ SameRest(c, d) /\ d.bout = b /\ d.made = k /\ d.wedged = w
      BY <3>1, <3>2, <2>8 DEF Contexts, SameRest
    <3>. QED  BY <3>3 DEF k
  <2>10. Pending(d) = Available(b)
    BY <2>9 DEF Pending
  <2>11. \A i \in 1 .. n : Content(d.bout)[Pending(c) + i] = Piece(kind, c.made + i, i = Length[kind])
    <3>1. \A i \in 1 .. n : i \in 1 .. Length[kind]
      BY <2>6, <2>7
    <3>. QED  BY <2>2, <2>3, <2>5, <2>9, <3>1
  <2>12. Grown(c, d, kind, n)
    BY <2>2, <2>5, <2>7, <2>9, <2>10, <2>11 DEF Grown
  <2>. QED  BY <1>2, <2>7, <2>9, <2>12
<1>. QED  BY <1>1, <1>2

\* What keeps the stream of a side, and what keeps that of its peer.
KeepsSent(e, c, d) ==
    \A s, g, closed : Typed(c, s, g) /\ IsStream(e, c, s, g, closed) => IsStream(e, d, s, g, closed)

LEMMA KeepsSentIsTransitive ==
    ASSUME NEW e, NEW c, NEW b \in Contexts, NEW d, KeepsSent(e, c, b), KeepsSent(e, b, d)
    PROVE  KeepsSent(e, c, d)
<1>1. SUFFICES ASSUME NEW s, NEW g, NEW closed, Typed(c, s, g), IsStream(e, c, s, g, closed)
               PROVE  IsStream(e, d, s, g, closed)
  BY DEF KeepsSent
<1>2. Typed(b, s, g)
  BY <1>1 DEF Typed
<1>3. IsStream(e, b, s, g, closed)
  BY <1>1 DEF KeepsSent
<1>. QED  BY <1>2, <1>3 DEF KeepsSent

LEMMA SameIsKept ==
    ASSUME NEW e, NEW c, NEW d, SameSent(c, d)
    PROVE  KeepsSent(e, c, d)
<1>1. SUFFICES ASSUME NEW s, NEW g, NEW closed, Typed(c, s, g), IsStream(e, c, s, g, closed)
               PROVE  IsStream(e, d, s, g, closed)
  BY DEF KeepsSent
<1>2. SameTaken(g, g)
  BY DEF SameTaken
<1>. QED  BY <1>1, <1>2, SameStream

LEMMA PutsAreKept ==
    ASSUME MaskFits, NEW e \in Sides, NEW c \in Contexts, NEW d \in Contexts, NEW kind \in Kinds,
           NEW n, Puts(e, c, d, kind, n)
    PROVE  KeepsSent(e, c, d)
<1>1. SUFFICES ASSUME NEW s, NEW g, NEW closed, Typed(c, s, g), IsStream(e, c, s, g, closed)
               PROVE  IsStream(e, d, s, g, closed)
  BY DEF KeepsSent
<1>2. Typed(d, s, g)
  BY <1>1 DEF Typed
<1>. QED  BY <1>1, <1>2, PutsKeepStream

\* How many pieces there are before the n-th flight of a side, and with it.
Before(e, n) == IF n = 1 THEN 0 ELSE FirstEnd(e)

UpTo(e, n) == IF n = 1 THEN FirstEnd(e) ELSE SecondEnd(e)

\* The n-th flight is put, and the handshake goes on to step h.
IsSent(e, c, d, n, h) ==
    /\ d.state = c.state /\ d.bin = c.bin /\ d.given = c.given /\ d.sentBye = c.sentBye
    /\ d.gotBye = c.gotBye /\ d.read = c.read /\ d.blocked = c.blocked /\ d.hs = h
    /\ d.made <= UpTo(e, n) /\ (~ d.wedged => d.made = UpTo(e, n))
    /\ c.wedged => d.wedged

LEMMA FlightIsInPlace ==
    ASSUME NEW e \in Sides, NEW n \in {1, 2},
           NEW i \in 1 .. Length[Flight(e, n)],
           NEW p, p = Piece(Flight(e, n), Before(e, n) + i, i = Length[Flight(e, n)])
    PROVE  IsInPlace(e, p)
<1>. DEFINE k == Length[Flight(e, n)]
            j == Before(e, n) + i
            a == FirstEnd(e)
            b == SecondEnd(e)
<1>1. p.kind = Flight(e, n) /\ p.no = j /\ p.last = (i = k)
  BY DEF Piece
<1>2. /\ a \in Nat \ {0} /\ b \in Nat \ {0} /\ a < b
      /\ n = 1 => k = a
      /\ n = 2 => k = b - a
      /\ Before(e, n) = IF n = 1 THEN 0 ELSE a
      /\ k \in Nat /\ i \in 1 .. k
  <2>1. /\ a \in Nat \ {0} /\ b \in Nat \ {0} /\ a < b /\ b = a + Length[Flight(e, 2)]
        /\ a = Length[Flight(e, 1)] /\ Flight(e, 2) \in Kinds /\ Flight(e, 1) \in Kinds
    BY FlightsAre
  <2>2. Length[Flight(e, 2)] \in Nat /\ Length[Flight(e, 1)] \in Nat
    BY <2>1, KindsAre
  <2>. HIDE DEF a, b
  <2>. QED  BY <2>1, <2>2 DEF Before, a
<1>3. /\ n = 1 => j \in 1 .. a /\ (i = k <=> j = a)
      /\ n = 2 => j \in a + 1 .. b /\ (i = k <=> j = b)
  <2>. HIDE DEF a, b, k
  <2>. QED  BY <1>2
<1>. HIDE DEF j, k
<1>4. IsInPlace(e, p) <=>
        /\ p.no <= a => p.kind = Flight(e, 1) /\ (p.last <=> p.no = a)
        /\ a < p.no /\ p.no <= b => p.kind = Flight(e, 2) /\ (p.last <=> p.no = b)
        /\ b < p.no => p.kind \in DataKinds \cup {"bye"}
  BY DEF IsInPlace
<1>. HIDE DEF a, b
<1>5. CASE n = 1
  <2>1. j \in 1 .. a /\ (i = k <=> j = a) /\ a < b /\ a \in Nat /\ b \in Nat
    BY <1>2, <1>3, <1>5
  <2>2. ~ (a < j) /\ ~ (b < j)
    BY <2>1
  <2>3. p.kind = Flight(e, 1) /\ (p.last <=> p.no = a)
    BY <1>1, <1>5, <2>1
  <2>4. ~ (a < p.no) /\ ~ (b < p.no)
    BY <1>1, <2>2
  <2>. QED  BY <1>4, <2>3, <2>4
<1>6. CASE n = 2
  <2>1. j \in a + 1 .. b /\ (i = k <=> j = b) /\ a < b /\ a \in Nat /\ b \in Nat
    BY <1>2, <1>3, <1>6
  <2>2. ~ (j <= a) /\ ~ (b < j)
    BY <2>1
  <2>3. p.kind = Flight(e, 2) /\ (p.last <=> p.no = b)
    BY <1>1, <1>6, <2>1
  <2>4. ~ (p.no <= a) /\ ~ (b < p.no)
    BY <1>1, <2>2
  <2>. QED  BY <1>4, <2>3, <2>4
<1>. QED  BY <1>5, <1>6

LEMMA FlightIsPut ==
    ASSUME MaskFits, NEW e \in Sides, NEW c \in Contexts, NEW n \in {1, 2}, NEW h \in 0 .. 4,
           ~ c.sentBye, c.made <= Before(e, n), ~ c.wedged => c.made = Before(e, n),
           NEW d, d = [Put(c, Flight(e, n)) EXCEPT !.hs = h]
    PROVE  d \in Contexts /\ KeepsSent(e, c, d) /\ IsSent(e, c, d, n, h)
<1>. DEFINE kind == Flight(e, n)
            p == Put(c, kind)
<1>1. kind \in Kinds /\ kind # "bye" /\ kind \notin DataKinds
  BY FlightsAre
<1>2. p \in Contexts /\ SameRest(c, p) /\ (c.wedged => p = c)
      /\ (~ c.wedged => \E m \in Nat : Grown(c, p, kind, m))
  BY <1>1, PutIs
<1>3. d = [p EXCEPT !.hs = h]
  OBVIOUS
<1>. HIDE DEF p, kind
<1>4. d \in Contexts /\ d.hs = h
  BY <1>2, <1>3 DEF Contexts
<1>5. /\ d.state = p.state /\ d.bin = p.bin /\ d.given = p.given /\ d.sentBye = p.sentBye
      /\ d.gotBye = p.gotBye /\ d.read = p.read /\ d.blocked = p.blocked
      /\ d.bout = p.bout /\ d.made = p.made /\ d.wedged = p.wedged /\ d.written = p.written
  BY <1>2, <1>3 DEF Contexts
<1>6. /\ d.state = c.state /\ d.bin = c.bin /\ d.given = c.given /\ d.sentBye = c.sentBye
      /\ d.gotBye = c.gotBye /\ d.read = c.read /\ d.blocked = c.blocked /\ d.written = c.written
  BY <1>2, <1>5 DEF SameRest
<1>7. Before(e, n) + Length[kind] = UpTo(e, n) /\ Before(e, n) \in Nat /\ Length[kind] \in Nat
  <2>1. /\ FirstEnd(e) \in Nat /\ SecondEnd(e) = FirstEnd(e) + Length[Flight(e, 2)]
        /\ FirstEnd(e) = Length[Flight(e, 1)]
    BY FlightsAre
  <2>2. Length[kind] \in Nat
    BY <1>1, KindsAre
  <2>. QED  BY <2>1, <2>2 DEF Before, UpTo, kind
<1>8. CASE c.wedged
  <2>1. SameSent(c, d)
    BY <1>2, <1>5, <1>8 DEF SameSent
  <2>2. d.made <= UpTo(e, n) /\ d.wedged
    <3>1. c.made \in Nat
      BY ContextIs
    <3>2. d.made = c.made /\ d.wedged
      BY <1>2, <1>5, <1>8
    <3>. DEFINE x == c.made
                y == Before(e, n)
                z == UpTo(e, n)
                l == Length[kind]
    <3>3. x \in Nat /\ y \in Nat /\ l \in Nat /\ y + l = z /\ x <= y
      BY <1>7, <3>1
    <3>. HIDE DEF x, y, z, l
    <3>4. x <= z
      BY <3>3
    <3>. QED  BY <3>2, <3>4 DEF x, z
  <2>3. IsSent(e, c, d, n, h)
    BY <1>4, <1>6, <2>2 DEF IsSent
  <2>. QED  BY <1>4, <2>1, <2>3, SameIsKept
<1>9. CASE ~ c.wedged
  <2>1. PICK m \in Nat : Grown(c, p, kind, m)
    BY <1>2, <1>9
  <2>2. Grown(c, d, kind, m)
    BY <1>5, <2>1 DEF Grown, Pending
  <2>3. \A i \in 1 .. Length[kind] : IsInPlace(e, Piece(kind, c.made + i, i = Length[kind]))
    BY <1>9, FlightIsInPlace DEF kind
  <2>4. Puts(e, c, d, kind, m)
    BY <1>1, <1>6, <1>9, <2>2, <2>3, ContextIs DEF Puts, Contexts
  <2>5. KeepsSent(e, c, d)
    BY <1>1, <1>4, <2>4, PutsAreKept
  <2>6. d.made <= UpTo(e, n) /\ (~ d.wedged => d.made = UpTo(e, n))
    <3>1. m \in 0 .. Length[kind] /\ d.made = Before(e, n) + m /\ (d.wedged <=> m < Length[kind])
      BY <1>9, <2>2 DEF Grown
    <3>. DEFINE x == d.made
                y == Before(e, n)
                z == UpTo(e, n)
                l == Length[kind]
    <3>2. y \in Nat /\ l \in Nat /\ y + l = z /\ m \in 0 .. l /\ x = y + m /\ (d.wedged <=> m < l)
      BY <1>7, <3>1
    <3>. HIDE DEF x, y, z, l
    <3>3. x <= z /\ (~ d.wedged => x = z)
      BY <3>2
    <3>. QED  BY <3>3 DEF x, z
  <2>7. IsSent(e, c, d, n, h)
    BY <1>4, <1>6, <1>9, <2>6 DEF IsSent
  <2>. QED  BY <1>4, <2>5, <2>7
<1>. QED  BY <1>8, <1>9

\* What an operation of one side does for its stream.
Sends(e, c, d) == d \in Contexts /\ KeepsSent(e, c, d) /\ IsOwn(e, d) /\ (c.wedged => d.wedged)

\* What stays when a side only sends.
Kept(c, d) ==
    /\ d.state = c.state /\ d.bin = c.bin /\ d.hs = c.hs /\ d.given = c.given
    /\ d.sentBye = c.sentBye /\ d.gotBye = c.gotBye /\ d.read = c.read
    /\ c.wedged => d.wedged

\* After the handshake, records of any other kind are in place.
LEMMA LaterIsInPlace ==
    ASSUME NEW e \in Sides, NEW c \in Contexts, IsOwn(e, c), c.hs = 4, ~ c.wedged, MaskFits,
           NEW kind \in DataKinds \cup {"bye"}
    PROVE  \A i \in 1 .. Length[kind] : IsInPlace(e, Piece(kind, c.made + i, i = Length[kind]))
<1>1. SUFFICES ASSUME NEW i \in 1 .. Length[kind]
               PROVE  IsInPlace(e, Piece(kind, c.made + i, i = Length[kind]))
  OBVIOUS
<1>. DEFINE p == Piece(kind, c.made + i, i = Length[kind])
            a == FirstEnd(e)
            b == SecondEnd(e)
            x == c.made
<1>2. p.kind = kind /\ p.no = x + i
  BY DEF Piece
<1>3. x \in Nat /\ a \in Nat /\ b \in Nat /\ a < b /\ x >= b
  BY ContextIs, FlightsAre DEF IsOwn, IsMade
<1>4. i \in Nat \ {0}
  <2>1. kind \in Kinds
    BY KindsAre DEF DataKinds
  <2>2. Length[kind] \in Nat
    BY <2>1, KindsAre
  <2>. QED  BY <2>2
<1>. HIDE DEF x, a, b
<1>5. ~ (x + i <= a) /\ ~ (x + i <= b)
  BY <1>3, <1>4
<1>. HIDE DEF p
<1>6. ~ (p.no <= a) /\ ~ (p.no <= b) /\ p.kind \in DataKinds \cup {"bye"}
  BY <1>2, <1>5
<1>7. IsInPlace(e, p)
  BY <1>6 DEF IsInPlace, a, b
<1>. QED  BY <1>7 DEF p

\* A side owns as many pieces as before, or more.
LEMMA OwnIsKept ==
    ASSUME NEW e \in Sides, NEW c \in Contexts, NEW d \in Contexts, IsOwn(e, c), MaskFits, c.hs = 4,
           d.hs = c.hs, d.made >= c.made, c.wedged => d.wedged, c.sentBye => d.sentBye,
           d.gotBye => d.sentBye
    PROVE  IsOwn(e, d)
<1>. DEFINE x == c.made
            y == d.made
            b == SecondEnd(e)
<1>1. x \in Nat /\ y \in Nat /\ b \in Nat /\ y >= x
  BY ContextIs, FlightsAre
<1>2. ~ c.wedged => x >= b
  BY DEF IsOwn, IsMade
<1>. HIDE DEF x, y, b
<1>3. ~ d.wedged => y >= b
  BY <1>1, <1>2
<1>. QED  BY <1>3 DEF IsOwn, IsMade, y, b

\* SSL_write() of a record, for send() and for an answer.
WriteOf(c, kind) ==
    IF ~ Writable(c) THEN [c EXCEPT !.ignored = @ + 1]
    ELSE IF Put(c, kind).wedged THEN [Put(c, kind) EXCEPT !.ignored = @ + 1]
         ELSE [Put(c, kind) EXCEPT !.written = @ + 1]

LEMMA WriteIsKept ==
    ASSUME MaskFits, NEW e \in Sides, NEW c \in Contexts, IsOwn(e, c), NEW kind \in DataKinds,
           NEW d, d = WriteOf(c, kind)
    PROVE  Sends(e, c, d) /\ Kept(c, d) /\ d.blocked = c.blocked
<1>1. kind \in Kinds /\ kind # "bye"
  BY KindsAre DEF DataKinds
<1>2. c.ignored \in Nat /\ c.written \in Nat /\ c.made \in Nat
  BY DEF Contexts
<1>3. CASE ~ Writable(c)
  <2>1. d = [c EXCEPT !.ignored = c.ignored + 1]
    BY <1>3 DEF WriteOf
  <2>2. d \in Contexts
    BY <1>2, <2>1 DEF Contexts
  <2>3. Kept(c, d) /\ d.blocked = c.blocked /\ SameSent(c, d)
    BY <2>1 DEF Kept, SameSent, Contexts
  <2>4. IsOwn(e, d)
    BY <2>3 DEF IsOwn, IsMade, Kept, SameSent
  <2>. QED  BY <2>2, <2>3, <2>4, SameIsKept DEF Sends, SameSent
<1>4. CASE Writable(c)
  <2>. DEFINE p == Put(c, kind)
  <2>1. p \in Contexts /\ SameRest(c, p) /\ (~ c.wedged => \E m \in Nat : Grown(c, p, kind, m))
    BY <1>1, PutIs
  <2>2. c.hs = 4 /\ ~ c.sentBye /\ ~ c.wedged
    BY <1>4 DEF Writable, HandshakeOver
  <2>3. PICK m \in Nat : Grown(c, p, kind, m)
    BY <2>1, <2>2
  <2>4. /\ p.wedged => d = [p EXCEPT !.ignored = p.ignored + 1]
        /\ ~ p.wedged => d = [p EXCEPT !.written = p.written + 1]
    BY <1>4 DEF WriteOf
  <2>. HIDE DEF p
  <2>5. p.ignored \in Nat /\ p.written \in Nat
    BY <2>1 DEF Contexts
  <2>6. d \in Contexts
    <3>1. CASE p.wedged
      <4>. DEFINE x == p.ignored + 1
      <4>1. x \in Nat /\ d = [p EXCEPT !.ignored = x]
        BY <2>4, <2>5, <3>1
      <4>. HIDE DEF x
      <4>. QED  BY <2>1, <4>1 DEF Contexts
    <3>2. CASE ~ p.wedged
      <4>. DEFINE x == p.written + 1
      <4>1. x \in Nat /\ d = [p EXCEPT !.written = x]
        BY <2>4, <2>5, <3>2
      <4>. HIDE DEF x
      <4>. QED  BY <2>1, <4>1 DEF Contexts
    <3>. QED  BY <3>1, <3>2
  <2>7. /\ d.state = p.state /\ d.bin = p.bin /\ d.hs = p.hs /\ d.given = p.given
        /\ d.sentBye = p.sentBye /\ d.gotBye = p.gotBye /\ d.read = p.read
        /\ d.blocked = p.blocked
        /\ d.bout = p.bout /\ d.made = p.made /\ d.wedged = p.wedged
        /\ ~ p.wedged => d.written = p.written + 1
    BY <2>1, <2>4 DEF Contexts
  <2>8. Kept(c, d) /\ d.blocked = c.blocked /\ (~ d.wedged => d.written = c.written + 1)
    BY <2>1, <2>2, <2>7 DEF Kept, SameRest
  <2>9. Grown(c, d, kind, m)
    BY <2>3, <2>7 DEF Grown, Pending
  <2>10. \A i \in 1 .. Length[kind] : IsInPlace(e, Piece(kind, c.made + i, i = Length[kind]))
    BY <2>2, LaterIsInPlace
  <2>11. Puts(e, c, d, kind, m)
    BY <1>1, <2>2, <2>8, <2>9, <2>10 DEF Puts, Kept
  <2>12. KeepsSent(e, c, d)
    BY <1>1, <2>6, <2>11, PutsAreKept
  <2>13. d.made >= c.made
    BY <1>2, <2>9 DEF Grown
  <2>14. IsOwn(e, d)
    <3>1. d.gotBye => d.sentBye
      BY <2>8 DEF Kept, IsOwn
    <3>. QED  BY <2>2, <2>6, <2>8, <2>13, <3>1, OwnIsKept DEF Kept
  <2>. QED  BY <2>6, <2>8, <2>12, <2>14 DEF Sends, Kept
<1>. QED  BY <1>3, <1>4

\* Nothing depends on a bye that was not written.
LEMMA LostByeIsKept ==
    ASSUME NEW e, NEW c, NEW d, c.wedged, d.sentBye,
           d.bout = c.bout, d.made = c.made, d.wedged = c.wedged, d.written = c.written
    PROVE  KeepsSent(e, c, d)
<1>1. SUFFICES ASSUME NEW s, NEW g, NEW closed, Typed(c, s, g), IsStream(e, c, s, g, closed)
               PROVE  IsStream(e, d, s, g, closed)
  BY DEF KeepsSent
<1>2. \A k : Mark(d, s, k) = Mark(c, s, k)
  BY DEF Mark, Pending
<1>3. AreNumbered(d, s)
  BY <1>1, <1>2 DEF IsStream, AreNumbered, Pending
<1>4. Way(d, s, g) = Way(c, s, g)
  BY DEF Way, Pending
<1>5. ASSUME IsTakenBy(e, c, s, g)
      PROVE  IsTakenBy(e, d, s, g)
  <2>1. AreTaken(e, d, s, g)
    BY <1>2, <1>5 DEF IsTakenBy, AreTaken
  <2>2. (\A p \in Way(d, s, g) : IsInPlace(e, p)) /\ ByesAreLast(d, Way(d, s, g))
    BY <1>4, <1>5 DEF IsTakenBy, ByesAreLast
  <2>3. ByeIsKept(d, g, Way(d, s, g)) /\ AreCounted(d, g, Way(d, s, g))
    BY DEF ByeIsKept, AreCounted
  <2>. QED  BY <2>1, <2>2, <2>3 DEF IsTakenBy
<1>. QED  BY <1>1, <1>3, <1>5 DEF IsStream

\* What stays when a side says bye.
Said(c, d) ==
    /\ d.sentBye
    /\ d.state = c.state /\ d.blocked = c.blocked /\ d.bin = c.bin /\ d.hs = c.hs
    /\ d.gotBye = c.gotBye /\ d.given = c.given /\ d.read = c.read

LEMMA ByeIsSaid ==
    ASSUME MaskFits, NEW e \in Sides, NEW c \in Contexts, IsOwn(e, c), c.hs = 4,
           NEW d, d = SayBye(c)
    PROVE  Sends(e, c, d) /\ Said(c, d)
<1>1. CASE c.sentBye
  <2>1. d = c /\ SameSent(c, d)
    BY <1>1 DEF SayBye, SameSent
  <2>. QED  BY <1>1, <2>1, SameIsKept DEF Sends, Said
<1>2. CASE ~ c.sentBye
  <2>. DEFINE p == Put(c, "bye")
  <2>1. "bye" \in Kinds /\ "bye" \notin DataKinds /\ "bye" \in DataKinds \cup {"bye"}
    BY KindsAre DEF DataKinds
  <2>2. p \in Contexts /\ SameRest(c, p) /\ (c.wedged => p = c)
        /\ (~ c.wedged => \E m \in Nat : Grown(c, p, "bye", m))
    BY <2>1, PutIs
  <2>3. d = [p EXCEPT !.sentBye = TRUE]
    BY <1>2 DEF SayBye
  <2>. HIDE DEF p
  <2>4. d \in Contexts
    BY <2>2, <2>3 DEF Contexts
  <2>5. /\ d.sentBye
        /\ d.state = p.state /\ d.blocked = p.blocked /\ d.bin = p.bin /\ d.hs = p.hs
        /\ d.gotBye = p.gotBye /\ d.given = p.given /\ d.read = p.read
        /\ d.bout = p.bout /\ d.made = p.made /\ d.wedged = p.wedged /\ d.written = p.written
    BY <2>2, <2>3 DEF Contexts
  <2>6. Said(c, d) /\ d.written = c.written
    BY <2>2, <2>5 DEF Said, SameRest
  <2>7. KeepsSent(e, c, d) /\ d.made >= c.made /\ (c.wedged => d.wedged)
    <3>0. c.made \in Nat
      BY ContextIs
    <3>1. CASE c.wedged
      <4>1. d.bout = c.bout /\ d.made = c.made /\ d.wedged = c.wedged
        BY <2>2, <2>5, <3>1
      <4>2. KeepsSent(e, c, d)
        BY <2>5, <2>6, <3>1, <4>1, LostByeIsKept
      <4>. QED  BY <3>0, <4>1, <4>2
    <3>2. CASE ~ c.wedged
      <4>1. PICK m \in Nat : Grown(c, p, "bye", m)
        BY <2>2, <3>2
      <4>2. Grown(c, d, "bye", m)
        BY <2>5, <4>1 DEF Grown, Pending
      <4>3. \A i \in 1 .. Length["bye"] : IsInPlace(e, Piece("bye", c.made + i, i = Length["bye"]))
        BY <2>1, <3>2, LaterIsInPlace
      <4>4. c.written \in Nat
        BY DEF Contexts
      <4>5. Puts(e, c, d, "bye", m)
        BY <1>2, <2>1, <2>5, <2>6, <3>2, <4>2, <4>3, <4>4 DEF Puts
      <4>6. KeepsSent(e, c, d)
        BY <2>1, <2>4, <4>5, PutsAreKept
      <4>7. d.made >= c.made
        BY <3>0, <4>2 DEF Grown
      <4>. QED  BY <3>2, <4>6, <4>7
    <3>. QED  BY <3>1, <3>2
  <2>8. IsOwn(e, d)
    <3>1. d.gotBye => d.sentBye
      BY <2>5
    <3>. QED  BY <2>4, <2>5, <2>6, <2>7, <3>1, OwnIsKept DEF Said
  <2>. QED  BY <2>4, <2>6, <2>7, <2>8 DEF Sends
<1>. QED  BY <1>1, <1>2

-----------------------------------------------------------------------------
(***************************************************************************)
(* SSL_read().  A side g reads from the stream of its peer, c.             *)
(***************************************************************************)

\* The elements of a set of numbers up to one.
Under(T, i) == {j \in T : j <= i}

\* The n-th element of a set of numbers.
LEMMA NthElement ==
    ASSUME NEW l \in Nat, NEW T, T \subseteq 1 .. l, NEW n \in 1 .. Cardinality(T)
    PROVE  \E i \in T : Cardinality(Under(T, i)) = n
<1>. DEFINE U(i) == {j \in T : j <= i}
            S == {i \in Nat : Cardinality(U(i)) >= n}
<1>1. IsFiniteSet(T) /\ Cardinality(T) \in Nat
  <2>1. IsFiniteSet(1 .. l)
    BY FS_Interval
  <2>2. IsFiniteSet(T)
    BY <2>1, FS_Subset
  <2>. QED  BY <2>2, FS_CardinalityType
<1>2. \A i : IsFiniteSet(U(i)) /\ Cardinality(U(i)) \in Nat
  <2>1. \A i : U(i) \in SUBSET T
    OBVIOUS
  <2>. HIDE DEF U
  <2>2. \A i : IsFiniteSet(U(i))
    BY <1>1, <2>1, FS_Subset
  <2>. QED  BY <2>2, FS_CardinalityType
<1>3. U(l) = T
  <2>1. \A j \in T : j \in 1 .. l
    OBVIOUS
  <2>2. \A j \in T : j <= l
    BY <2>1
  <2>. QED  BY <2>2
<1>4. n \in Nat \ {0} /\ n <= Cardinality(T)
  BY <1>1
<1>5. l \in S
  BY <1>3, <1>4
<1>6. PICK i \in S : \A k \in S : i <= k
  <2>1. S \subseteq Nat /\ S # {}
    BY <1>5
  <2>. HIDE DEF S
  <2>. QED  BY <2>1, LeastElement
<1>7. i \in Nat /\ Cardinality(U(i)) >= n
  OBVIOUS
<1>8. i # 0
  <2>1. SUFFICES ASSUME i = 0
                 PROVE  FALSE
    OBVIOUS
  <2>2. U(i) = {}
    <3>1. \A j \in T : j \in Nat \ {0}
      OBVIOUS
    <3>2. \A j \in T : ~ (j <= i)
      BY <2>1, <3>1
    <3>. QED  BY <3>2
  <2>3. Cardinality(U(i)) = 0
    BY <2>2, FS_EmptySet
  <2>. DEFINE x == Cardinality(U(i))
  <2>4. x = 0 /\ x >= n
    BY <1>7, <2>3
  <2>. HIDE DEF x
  <2>5. n \in Nat /\ n # 0
    BY <1>4
  <2>. QED  BY <2>4, <2>5
<1>9. i - 1 \in Nat /\ i - 1 \notin S
  <2>1. i - 1 \in Nat /\ ~ (i <= i - 1)
    BY <1>7, <1>8
  <2>. HIDE DEF S
  <2>. QED  BY <1>6, <2>1
<1>10. Cardinality(U(i - 1)) < n
  <2>1. ~ (Cardinality(U(i - 1)) >= n)
    BY <1>9
  <2>. DEFINE x == Cardinality(U(i - 1))
  <2>2. x \in Nat /\ ~ (x >= n)
    BY <1>2, <2>1
  <2>. HIDE DEF x
  <2>3. x < n
    BY <1>4, <2>2
  <2>. QED  BY <2>3 DEF x
<1>11. i \in T
  <2>1. SUFFICES ASSUME i \notin T
                 PROVE  FALSE
    OBVIOUS
  <2>2. U(i) = U(i - 1)
    <3>1. \A j \in T : j \in Nat /\ j # i
      BY <2>1
    <3>2. \A j \in T : j <= i <=> j <= i - 1
      BY <1>7, <1>9, <3>1
    <3>. QED  BY <3>2
  <2>3. Cardinality(U(i)) = Cardinality(U(i - 1))
    BY <2>2
  <2>. DEFINE x == Cardinality(U(i - 1))
              y == Cardinality(U(i))
  <2>4. x \in Nat /\ y >= n /\ y = x /\ x < n
    BY <1>2, <1>7, <1>10, <2>3
  <2>. HIDE DEF x, y
  <2>. QED  BY <1>4, <2>4
<1>12. Cardinality(U(i)) = Cardinality(U(i - 1)) + 1
  <2>1. U(i) = U(i - 1) \cup {i} /\ i \notin U(i - 1)
    <3>1. \A j \in T : j \in Nat
      OBVIOUS
    <3>2. \A j \in T : j <= i <=> j = i \/ j <= i - 1
      BY <1>7, <1>9, <3>1
    <3>3. ~ (i <= i - 1)
      BY <1>7
    <3>. QED  BY <1>11, <3>2, <3>3
  <2>2. IsFiniteSet(U(i - 1))
    BY <1>2
  <2>. HIDE DEF U
  <2>. QED  BY <2>1, <2>2, FS_AddElement
<1>13. Cardinality(U(i)) = n
  <2>. DEFINE x == Cardinality(U(i - 1))
              y == Cardinality(U(i))
  <2>1. x \in Nat /\ y >= n /\ y = x + 1 /\ x < n
    BY <1>2, <1>7, <1>10, <1>12
  <2>. HIDE DEF x, y
  <2>2. y = n
    BY <1>4, <2>1
  <2>. QED  BY <2>2 DEF y
<1>. QED  BY <1>11, <1>13 DEF Under

\* What is in bin behind the handshake.
IsLater(c, g) ==
    /\ \A i \in 1 .. Len(g.bin) : g.bin[i].kind \in DataKinds \cup {"bye"}
    /\ \A i, j \in 1 .. Len(g.bin) : i <= j /\ g.bin[i].kind = "bye" => g.bin[j].kind = "bye"
    /\ \A i \in 1 .. Len(g.bin) : g.bin[i].kind = "bye" => c.sentBye

LEMMA BinIsLater ==
    ASSUME MaskFits, NEW e \in Sides, NEW c, NEW s, NEW g, Typed(c, s, g),
           IsStream(e, c, s, g, FALSE), g.hs = 4
    PROVE  IsLater(c, g)
<1>. DEFINE x == Mark(c, s, 0)
            l == Len(g.bin)
            y == SecondEnd(e)
            z == FirstEnd(e)
<1>1. AreNumbered(c, s) /\ IsTakenBy(e, c, s, g)
  BY DEF IsStream
<1>2. AreTaken(e, c, s, g) /\ (\A p \in Way(c, s, g) : IsInPlace(e, p))
      /\ ByesAreLast(c, Way(c, s, g))
  BY <1>1 DEF IsTakenBy
<1>3. x - l \in Nat /\ \A i \in 1 .. l : g.bin[i].no = (x - l) + i
  BY <1>1, <1>2, BinIs
<1>4. y + l <= x
  BY <1>2 DEF AreTaken, TakenUpTo
<1>5. l \in Nat /\ x \in Nat /\ y \in Nat /\ z \in Nat /\ z < y
  BY <1>1, PlacesAre, FlightsAre DEF AreNumbered
<1>6. \A i \in 1 .. l : g.bin[i] \in Way(c, s, g)
  BY WayIs
<1>7. ASSUME NEW i \in 1 .. l
      PROVE  g.bin[i].kind \in DataKinds \cup {"bye"}
  <2>. DEFINE p == g.bin[i]
              k == p.no
  <2>1. k = (x - l) + i
    BY <1>3
  <2>2. IsInPlace(e, p)
    BY <1>2, <1>6
  <2>. HIDE DEF x, l, y, k
  <2>3. y < k
    BY <1>3, <1>4, <1>5, <2>1
  <2>. QED  BY <2>2, <2>3 DEF IsInPlace, y, k
<1>8. ASSUME NEW i \in 1 .. l, NEW j \in 1 .. l, i <= j, g.bin[i].kind = "bye"
      PROVE  g.bin[j].kind = "bye"
  <2>. DEFINE m == g.bin[i].no
              k == g.bin[j].no
  <2>1. m = (x - l) + i /\ k = (x - l) + j
    BY <1>3
  <2>. HIDE DEF x, l, m, k
  <2>2. m <= k
    BY <1>3, <1>5, <1>8, <2>1
  <2>. QED  BY <1>2, <1>6, <1>8, <2>2 DEF ByesAreLast, m, k
<1>9. \A i \in 1 .. l : g.bin[i].kind = "bye" => c.sentBye
  BY <1>2, <1>6 DEF ByesAreLast
<1>. QED  BY <1>7, <1>8, <1>9 DEF IsLater

\* After n records were read, m pieces are gone.
IsRead(g, h, n, m) ==
    /\ m \in 0 .. Len(g.bin) /\ h.bin = SubSeq(g.bin, m + 1, Len(g.bin))
    /\ \A i \in 1 .. m : g.bin[i].kind # "bye"
    /\ Cardinality(DataAmong(g.bin, m)) = n
    /\ n = DataRecords(g) =>
            \A i \in m + 1 .. Len(g.bin) : g.bin[i].last => g.bin[i].kind = "bye"

LEMMA ReadIs ==
    ASSUME NEW c, NEW g \in Contexts, IsLater(c, g), NEW n \in Nat, n <= DataRecords(g)
    PROVE  \E m : IsRead(g, Read(g, n), n, m)
<1>. DEFINE q == g.bin
            l == Len(q)
            T == Complete(g)
            D == {i \in T : q[i].kind \in DataKinds}
            U(i) == {j \in T : j <= i}
<1>1. q \in Seq(Pieces) /\ l \in Nat
  BY DEF Contexts
<1>2. T = {i \in 1 .. l : q[i].last} /\ DataRecords(g) = Cardinality(D)
  BY DEF Complete, DataRecords
<1>3. /\ \A i \in 1 .. l : q[i].kind \in DataKinds \cup {"bye"}
      /\ \A i, j \in 1 .. l : i <= j /\ q[i].kind = "bye" => q[j].kind = "bye"
  BY DEF IsLater
<1>4. g = [g EXCEPT !.bin = @, !.given = @] /\ Read(g, n).bin =
        IF n = 0 THEN q
        ELSE SubSeq(q, 1 + CHOOSE i \in T : Cardinality(U(i)) = n, l)
  BY DEF Read, Contexts
<1>. DEFINE h == Read(g, n)
<1>. HIDE DEF h
<1>5. h.bin = IF n = 0 THEN q ELSE SubSeq(q, 1 + CHOOSE i \in T : Cardinality(U(i)) = n, l)
  BY <1>4 DEF h
<1>. HIDE DEF T
<1>6. IsFiniteSet(T) /\ Cardinality(T) \in Nat /\ IsFiniteSet(D) /\ Cardinality(D) \in Nat
      /\ Cardinality(D) <= Cardinality(T)
  <2>1. IsFiniteSet(1 .. l)
    BY <1>1, FS_Interval
  <2>2. T \in SUBSET (1 .. l) /\ D \in SUBSET T
    BY <1>2
  <2>. HIDE DEF D, l
  <2>3. IsFiniteSet(T)
    BY <2>1, <2>2, FS_Subset
  <2>. QED  BY <2>2, <2>3, FS_Subset, FS_CardinalityType
<1>7. "bye" \notin DataKinds
  BY DEF DataKinds
<1>8. CASE n = 0
  <2>1. h.bin = SubSeq(q, 0 + 1, l)
    <3>1. q = SubSeq(q, 1, l)
      <4>. DEFINE r == SubSeq(q, 0 + 1, Len(q))
      <4>1. r \in Seq(Pieces) /\ Len(r) = Len(q) - 0 /\ \A i \in 1 .. Len(q) - 0 : r[i] = q[0 + i]
        BY <1>1, RestIs
      <4>. HIDE DEF r, q
      <4>2. Len(r) = Len(q) /\ \A i \in 1 .. Len(q) : r[i] = q[i]
        BY <1>1, <4>1
      <4>3. r = q
        BY <1>1, <4>1, <4>2, SeqEqual
      <4>. QED  BY <4>3 DEF r
    <3>. QED  BY <1>5, <1>8, <3>1
  <2>2. DataAmong(q, 0) = {}
    BY DEF DataAmong
  <2>3. Cardinality(DataAmong(q, 0)) = 0
    BY <2>2, FS_EmptySet
  <2>4. ASSUME n = DataRecords(g), NEW i \in 1 .. l, q[i].last
        PROVE  q[i].kind = "bye"
    <3>1. D = {}
      BY <1>2, <1>6, <1>8, <2>4, FS_EmptySet
    <3>. QED  BY <1>2, <1>3, <2>4, <3>1
  <2>5. IsRead(g, h, n, 0)
    BY <1>1, <1>8, <2>1, <2>3, <2>4 DEF IsRead
  <2>. QED  BY <2>5 DEF h
<1>9. CASE n # 0
  <2>1. n \in 1 .. Cardinality(T)
    <3>. DEFINE x == Cardinality(T)
                y == Cardinality(D)
    <3>1. x \in Nat /\ y \in Nat /\ y <= x /\ n <= y
      BY <1>2, <1>6
    <3>. HIDE DEF x, y
    <3>2. n \in 1 .. x
      BY <1>9, <3>1
    <3>. QED  BY <3>2 DEF x
  <2>. DEFINE m == CHOOSE i \in T : Cardinality(U(i)) = n
  <2>2. \E i \in T : Cardinality(U(i)) = n
    <3>1. T \subseteq 1 .. l
      BY <1>2
    <3>. HIDE DEF l
    <3>2. \E i \in T : Cardinality(Under(T, i)) = n
      BY <1>1, <2>1, <3>1, NthElement
    <3>. QED  BY <3>2 DEF Under
  <2>3. m \in T /\ Cardinality(U(m)) = n /\ h.bin = SubSeq(q, 1 + m, l)
    BY <1>5, <1>9, <2>2
  <2>. HIDE DEF m
  <2>4. m \in 1 .. l /\ m \in 0 .. l /\ m \in Nat /\ 1 + m = m + 1 /\ q[m].last
    BY <1>1, <1>2, <2>3
  <2>5. IsFiniteSet(U(m))
    <3>1. U(m) \in SUBSET T
      OBVIOUS
    <3>. HIDE DEF U
    <3>. QED  BY <1>6, <3>1, FS_Subset
  <2>6. ASSUME NEW k \in 1 .. m, q[k].kind = "bye"
        PROVE  FALSE
    <3>1. k \in 1 .. l /\ k <= m
      BY <1>1, <2>4
    <3>2. \A j \in D : j \in T /\ j <= m /\ j # m
      <4>1. SUFFICES ASSUME NEW j \in D
                     PROVE  j < k
        BY <1>1, <1>2, <2>4, <3>1
      <4>2. j \in 1 .. l /\ q[j].kind # "bye"
        BY <1>2, <1>7
      <4>3. ~ (k <= j)
        BY <1>3, <2>6, <3>1, <4>2
      <4>4. j \in Nat /\ k \in Nat
        BY <1>1, <3>1, <4>2
      <4>. HIDE DEF l, D
      <4>. QED  BY <4>3, <4>4
    <3>3. D \in SUBSET (U(m) \ {m}) /\ m \in U(m)
      <4>1. \A j \in D : j \in U(m) /\ j # m
        BY <3>2
      <4>2. m \in U(m)
        BY <2>3, <2>4
      <4>. HIDE DEF U, D
      <4>. QED  BY <4>1, <4>2
    <3>. HIDE DEF U, D
    <3>4. IsFiniteSet(U(m) \ {m}) /\ Cardinality(U(m) \ {m}) = n - 1
      BY <2>3, <2>5, <3>3, FS_RemoveElement
    <3>5. Cardinality(D) <= n - 1
      BY <3>3, <3>4, FS_Subset
    <3>. DEFINE y == Cardinality(D)
    <3>6. y \in Nat /\ y <= n - 1 /\ n <= y
      BY <1>2, <1>6, <3>5
    <3>. HIDE DEF y
    <3>. QED  BY <3>6
  <2>7. \A i \in 1 .. m : q[i].kind # "bye"
    BY <2>6
  <2>8. DataAmong(q, m) = U(m) /\ U(m) \subseteq D
    <3>1. \A i \in 1 .. m : i \in 1 .. l /\ q[i].kind \in DataKinds
      BY <1>1, <1>3, <2>4, <2>7
    <3>2. \A i : i \in U(m) <=> i \in 1 .. m /\ q[i].last
      BY <1>1, <1>2, <2>4
    <3>. QED  BY <1>2, <3>1, <3>2 DEF DataAmong
  <2>9. ASSUME n = DataRecords(g), NEW i \in m + 1 .. l, q[i].last
        PROVE  q[i].kind = "bye"
    <3>1. D = U(m)
      <4>1. U(m) \in SUBSET D /\ Cardinality(U(m)) = Cardinality(D)
        BY <1>2, <2>3, <2>8, <2>9
      <4>. HIDE DEF U, D
      <4>. QED  BY <1>6, <4>1, FS_Subset
    <3>2. i \in 1 .. l /\ ~ (i <= m)
      BY <1>1, <2>4, <2>9
    <3>3. i \in T /\ i \notin D
      BY <1>2, <2>9, <3>1, <3>2
    <3>. QED  BY <1>3, <3>2, <3>3
  <2>10. IsRead(g, h, n, m)
    BY <2>3, <2>4, <2>7, <2>8, <2>9 DEF IsRead
  <2>. QED  BY <2>10 DEF h
<1>. QED  BY <1>8, <1>9

\* What stays when a side reads.
IsReader(g, h) ==
    /\ h.state = g.state /\ h.blocked = g.blocked /\ h.bout = g.bout /\ h.hs = g.hs
    /\ h.made = g.made /\ h.wedged = g.wedged /\ h.sentBye = g.sentBye /\ h.gotBye = g.gotBye
    /\ h.written = g.written /\ h.read

LEMMA ReadIsKept ==
    ASSUME MaskFits, NEW e \in Sides, NEW c, NEW s, NEW g, Typed(c, s, g),
           IsStream(e, c, s, g, FALSE), g.hs = 4, NEW n \in Nat, n <= DataRecords(g),
           NEW h, h = [Read(g, n) EXCEPT !.read = TRUE]
    PROVE  /\ h \in Contexts /\ IsStream(e, c, s, h, FALSE) /\ IsReader(g, h)
           /\ n = DataRecords(g) /\ ~ ByeCame(h) => Complete(h) = {}
<1>. DEFINE b == Read(g, n)
            q == g.bin
            l == Len(q)
<1>1. g \in Contexts /\ g.bin \in Seq(Pieces) /\ g.given \in Nat
  BY DEF Typed, Contexts
<1>2. IsLater(c, g)
  BY BinIsLater
<1>3. PICK m : IsRead(g, b, n, m)
  BY <1>1, <1>2, ReadIs
<1>4. /\ m \in 0 .. l /\ b.bin = SubSeq(q, m + 1, l)
      /\ \A i \in 1 .. m : q[i].kind # "bye"
      /\ Cardinality(DataAmong(q, m)) = n
      /\ n = DataRecords(g) => \A i \in m + 1 .. l : q[i].last => q[i].kind = "bye"
  BY <1>3 DEF IsRead
<1>5. /\ b.bin \in Seq(Pieces) /\ Len(b.bin) = l - m
      /\ \A i \in 1 .. l - m : b.bin[i] = q[m + i]
  BY <1>1, <1>4, RestIs
<1>6. b = [g EXCEPT !.bin = b.bin, !.given = g.given + n]
  BY <1>1 DEF Read, Contexts
<1>. HIDE DEF b, q, l
<1>7. b \in Contexts
  <2>. DEFINE x == g.given + n
              y == b.bin
  <2>1. x \in Nat /\ y \in Seq(Pieces) /\ b = [g EXCEPT !.bin = y, !.given = x]
    BY <1>1, <1>5, <1>6
  <2>. HIDE DEF x, y
  <2>. QED  BY <1>1, <2>1 DEF Contexts
<1>8. h = [b EXCEPT !.read = TRUE]
  BY DEF b
<1>9. h \in Contexts
  BY <1>7, <1>8 DEF Contexts
<1>10. h.bin = b.bin /\ h.given = g.given + n /\ IsReader(g, h)
  BY <1>1, <1>6, <1>7, <1>8, ZenonT(30) DEF IsReader, Contexts
<1>11. l \in Nat /\ l - m \in Nat /\ m \in Nat
  BY <1>1, <1>4 DEF q, l
<1>12. IsStream(e, c, s, h, FALSE)
  <2>1. Taken(e, g, h, m)
    <3>1. TakenUpTo(e, g.hs) \in Nat
      BY FlightsAre
    <3>2. TakenUpTo(e, h.hs) <= TakenUpTo(e, g.hs) + m
      <4>. DEFINE x == TakenUpTo(e, g.hs)
      <4>1. x \in Nat /\ TakenUpTo(e, h.hs) = x
        BY <1>10, <3>1 DEF IsReader
      <4>. HIDE DEF x
      <4>2. x <= x + m
        BY <1>11, <4>1
      <4>. QED  BY <4>1, <4>2 DEF x
    <3>3. h.hs = 4 /\ h.gotBye = g.gotBye
      BY <1>10 DEF IsReader
    <3>. QED  BY <1>4, <1>10, <3>2, <3>3 DEF Taken, q, l
  <2>2. Typed(c, s, h)
    BY <1>9 DEF Typed
  <2>. QED  BY <2>1, <2>2, TakeKeepsStream
<1>13. ASSUME n = DataRecords(g), ~ ByeCame(h)
       PROVE  Complete(h) = {}
  <2>1. SUFFICES ASSUME NEW i \in 1 .. Len(h.bin), h.bin[i].last
                 PROVE  FALSE
    BY DEF Complete
  <2>2. i \in 1 .. l - m /\ m + i \in m + 1 .. l
    BY <1>5, <1>10, <1>11
  <2>3. h.bin[i] = q[m + i]
    BY <1>5, <1>10, <2>2
  <2>4. h.bin[i].kind = "bye"
    BY <1>4, <1>13, <2>1, <2>2, <2>3
  <2>. QED  BY <1>13, <2>4 DEF ByeCame
<1>. QED  BY <1>9, <1>10, <1>12, <1>13

\* The shutdown of the peer is answered, and the rest of bin dropped.
Answered(d, h) ==
    /\ h.bin = <<>> /\ h.sentBye /\ h.gotBye
    /\ h.state = d.state /\ h.blocked = d.blocked /\ h.hs = d.hs /\ h.read = d.read

LEMMA AnswerByeIsKept ==
    ASSUME MaskFits, NEW e \in Sides, NEW d \in Contexts, IsOwn(e, d), d.hs = 4,
           NEW c, NEW s, Typed(c, s, d), IsStream(Peer(e), c, s, d, FALSE),
           NEW r, r = AnswerBye(d), r.action # "Abort"
    PROVE  /\ Sends(e, d, r.c) /\ IsStream(Peer(e), c, s, r.c, FALSE) /\ r.action = "Continue"
           /\ (r.c = d /\ ~ ByeCame(d)) \/ Answered(d, r.c)
<1>1. CASE ~ ByeCame(d)
  <2>1. r.c = d /\ r.action = "Continue"
    BY <1>1 DEF AnswerBye, Result
  <2>2. SameSent(d, d)
    BY DEF SameSent
  <2>. QED  BY <1>1, <2>1, <2>2, SameIsKept DEF Sends
<1>2. CASE ByeCame(d)
  <2>. DEFINE b == SayBye(d)
              h == r.c
  <2>1. Sends(e, d, b) /\ Said(d, b)
    BY ByeIsSaid
  <2>2. ~ b.wedged /\ h = [b EXCEPT !.gotBye = TRUE, !.bin = <<>>] /\ r.action = "Continue"
    BY <1>2 DEF AnswerBye, Result
  <2>. HIDE DEF b, h
  <2>3. b \in Contexts /\ IsOwn(e, b) /\ KeepsSent(e, d, b) /\ (d.wedged => b.wedged)
    BY <2>1 DEF Sends
  <2>4. h \in Contexts
    <3>1. <<>> \in Seq(Pieces)
      BY EmptySeq
    <3>. QED  BY <2>2, <2>3, <3>1 DEF Contexts
  <2>5. /\ h.gotBye /\ h.bin = <<>> /\ h.state = b.state /\ h.blocked = b.blocked /\ h.hs = b.hs
        /\ h.read = b.read /\ h.sentBye = b.sentBye /\ h.given = b.given
        /\ h.bout = b.bout /\ h.made = b.made /\ h.wedged = b.wedged /\ h.written = b.written
    BY <2>2, <2>3 DEF Contexts
  <2>6. Answered(d, h)
    BY <2>1, <2>5 DEF Answered, Said
  <2>7. KeepsSent(e, d, h)
    <3>1. KeepsSent(e, b, h)
      BY <2>5, SameIsKept DEF SameSent
    <3>. QED  BY <2>3, <3>1, KeepsSentIsTransitive
  <2>8. IsOwn(e, h)
    BY <2>3, <2>5, <2>6 DEF IsOwn, IsMade, Answered
  <2>9. Sends(e, d, h)
    BY <2>3, <2>4, <2>5, <2>7, <2>8 DEF Sends
  <2>10. IsStream(Peer(e), c, s, h, FALSE)
    <3>1. Ended(d, h)
      BY <1>2, <2>1, <2>5, <2>6 DEF Ended, Answered, ByeCame, Said
    <3>2. Typed(c, s, h) /\ Peer(e) \in Sides
      BY <2>4, SidesAre DEF Typed
    <3>. QED  BY <3>1, <3>2, EndKeepsStream
  <2>. QED  BY <2>2, <2>6, <2>9, <2>10 DEF h
<1>. QED  BY <1>1, <1>2

\* A side closes: the shutdown goes out, and nothing was left to read.
LEMMA CloseIsKept ==
    ASSUME MaskFits, NEW e \in Sides, NEW d \in Contexts, IsOwn(e, d), NEW answer,
           NEW r, r = AbortOrClose(d, answer), r.action # "Abort"
    PROVE  /\ Sends(e, d, r.c) /\ SameTaken(d, r.c) /\ r.action = "Continue"
           /\ r.c.state = "Shutdown" /\ r.c.sentBye /\ ~ r.c.gotBye /\ r.c.hs = 4 /\ d.hs = 4
           /\ Complete(d) = {} /\ ~ d.gotBye /\ r.c.blocked = d.blocked /\ r.c.read = d.read
<1>. DEFINE b == SayBye(d)
            h == r.c
<1>1. /\ d.hs = 4 /\ ~ d.gotBye /\ Complete(d) = {} /\ ~ b.wedged
      /\ h = [b EXCEPT !.state = "Shutdown"] /\ r.action = "Continue"
  BY DEF AbortOrClose, Result, HandshakeOver
<1>2. Sends(e, d, b) /\ Said(d, b)
  BY <1>1, ByeIsSaid
<1>. HIDE DEF b, h
<1>3. b \in Contexts /\ IsOwn(e, b) /\ KeepsSent(e, d, b) /\ (d.wedged => b.wedged)
  BY <1>2 DEF Sends
<1>4. h \in Contexts
  BY <1>1, <1>3 DEF Contexts, States
<1>5. /\ h.state = "Shutdown" /\ h.blocked = b.blocked /\ h.hs = b.hs /\ h.bin = b.bin
      /\ h.read = b.read /\ h.sentBye = b.sentBye /\ h.gotBye = b.gotBye /\ h.given = b.given
      /\ h.bout = b.bout /\ h.made = b.made /\ h.wedged = b.wedged /\ h.written = b.written
  BY <1>1, <1>3 DEF Contexts
<1>6. KeepsSent(e, d, h)
  <2>1. KeepsSent(e, b, h)
    BY <1>5, SameIsKept DEF SameSent
  <2>. QED  BY <1>3, <2>1, KeepsSentIsTransitive
<1>7. IsOwn(e, h)
  BY <1>3, <1>5 DEF IsOwn, IsMade
<1>8. Sends(e, d, h)
  BY <1>3, <1>4, <1>5, <1>6, <1>7 DEF Sends
<1>9. SameTaken(d, h)
  BY <1>2, <1>5 DEF SameTaken, Said
<1>. QED  BY <1>1, <1>2, <1>5, <1>8, <1>9 DEF h, Said

-----------------------------------------------------------------------------
(***************************************************************************)
(* The callbacks.  In one, a side e that did not close has the context b,  *)
(* the context of its peer is g, and t is under way to it.                 *)
(***************************************************************************)

\* The last two parts of the invariant, of the one side and of the other.
SideIsRead(e, b, closed, g) ==
    IF e = "client" THEN ByesAreRead(b, g, closed) ELSE ServerIsRead(b, closed)

PeerIsRead(e, b, g, gclosed) ==
    IF e = "client" THEN ServerIsRead(g, gclosed) ELSE ByesAreRead(g, b, gclosed)

IsSide(e, c, closed, g, gclosed) ==
    /\ IsOwn(e, c) /\ StateIsSound(e, c, closed) /\ TakeTurns(e, c, g)
    /\ SideIsRead(e, c, closed, g) /\ PeerIsRead(e, c, g, gclosed)

\* What holds before it looks at what came.
IsFacing(e, b, g, t, gclosed) ==
    /\ Typed(g, t, b) /\ IsStream(Peer(e), g, t, b, FALSE)
    /\ IsOwn(e, b) /\ TakeTurns(e, b, g) /\ PeerIsRead(e, b, g, gclosed)
    /\ IsOwn(Peer(e), g) /\ StateIsSound(Peer(e), g, gclosed) /\ (g.gotBye => b.sentBye)
    /\ b.state # "None" /\ (IsGreeting(b) <=> b.hs < 4)
    /\ b.state = "Connect" => e = "client"
    /\ b.state = "Accept" => e = "server"
    /\ b.state = "Ready" /\ b.sentBye => b.gotBye
    /\ b.state = "Shutdown" /\ ~ b.wedged => b.sentBye /\ ~ b.gotBye

\* What holds after it.
IsAnswer(e, b, r, g, t, gclosed) ==
    /\ Sends(e, b, r.c) /\ (r.c.blocked => b.blocked) /\ r.c.state # "None"
    /\ r.action \in {"Continue", "Close"}
    /\ r.action = "Continue" =>
            IsStream(Peer(e), g, t, r.c, FALSE) /\ IsSide(e, r.c, FALSE, g, gclosed)
    /\ r.action = "Close" =>
            IsStream(Peer(e), g, t, r.c, TRUE) /\ IsSide(e, r.c, TRUE, g, gclosed)

LEMMA SendsIsTransitive ==
    ASSUME NEW e, NEW c, NEW b, NEW d, Sends(e, c, b), Sends(e, b, d)
    PROVE  Sends(e, c, d)
<1>1. b \in Contexts /\ KeepsSent(e, c, b) /\ KeepsSent(e, b, d)
  BY DEF Sends
<1>2. KeepsSent(e, c, d)
  BY <1>1, KeepsSentIsTransitive
<1>. QED  BY <1>2 DEF Sends

\* A context that stays in Ready, and has no record left.
LEMMA ReadyIsSide ==
    ASSUME NEW e \in Sides, NEW b, NEW g, NEW t, NEW gclosed, IsFacing(e, b, g, t, gclosed),
           NEW h, IsOwn(e, h), h.state = "Ready", b.state = "Ready", h.hs = b.hs,
           b.hs \in 0 .. 4, Complete(h) = {}, h.sentBye => h.gotBye
    PROVE  IsSide(e, h, FALSE, g, gclosed)
<1>1. h.hs = 4
  BY DEF IsFacing, IsGreeting
<1>2. StateIsSound(e, h, FALSE)
  BY <1>1 DEF StateIsSound, IsGreeting
<1>3. TakeTurns(e, h, g)
  BY DEF IsFacing, TakeTurns
<1>4. SideIsRead(e, h, FALSE, g)
  BY DEF SideIsRead, ByesAreRead, ServerIsRead
<1>5. PeerIsRead(e, h, g, gclosed)
  BY DEF IsFacing, PeerIsRead, ByesAreRead
<1>. QED  BY <1>2, <1>3, <1>4, <1>5 DEF IsSide

\* A context that leaves Ready by a shutdown, and has no record left.
LEMMA ShutdownIsSide ==
    ASSUME MaskFits, NEW e \in Sides, NEW b, NEW g, NEW t, NEW gclosed,
           IsFacing(e, b, g, t, gclosed),
           NEW h \in Contexts, IsOwn(e, h), IsStream(Peer(e), g, t, h, FALSE),
           h.state = "Shutdown", b.state = "Ready", h.hs = b.hs, h.hs = 4,
           Complete(h) = {}, h.sentBye, ~ h.gotBye, ~ b.gotBye
    PROVE  IsSide(e, h, FALSE, g, gclosed)
<1>1. StateIsSound(e, h, FALSE)
  BY DEF StateIsSound, IsGreeting
<1>2. TakeTurns(e, h, g)
  BY DEF IsFacing, TakeTurns
<1>3. PeerIsRead(e, h, g, gclosed)
  BY DEF IsFacing, PeerIsRead, ByesAreRead
<1>4. ASSUME g.state = "Ready", NEW i \in 1 .. Len(h.bin), h.bin[i].kind = "bye"
      PROVE  FALSE
  <2>1. Typed(g, t, h) /\ Peer(e) \in Sides
    BY SidesAre DEF Typed, IsFacing
  <2>2. IsLater(g, h)
    BY <2>1, BinIsLater
  <2>3. g.sentBye
    BY <1>4, <2>2 DEF IsLater
  <2>4. g.gotBye
    BY <1>4, <2>3 DEF IsFacing, StateIsSound
  <2>. QED  BY <2>4 DEF IsFacing
<1>5. SideIsRead(e, h, FALSE, g)
  BY <1>4 DEF SideIsRead, ByesAreRead, ServerIsRead
<1>. QED  BY <1>1, <1>2, <1>3, <1>5 DEF IsSide

\* In Ready the shutdown of the peer is looked for when the data was read.
LEMMA ReadyIsAnswer ==
    ASSUME MaskFits, NEW e \in Sides, NEW b, NEW g, NEW t, NEW gclosed,
           IsFacing(e, b, g, t, gclosed), b.state = "Ready",
           NEW d, Sends(e, b, d), IsStream(Peer(e), g, t, d, FALSE),
           d.state = "Ready", d.hs = b.hs, d.blocked = b.blocked, d.sentBye = b.sentBye,
           d.gotBye = b.gotBye, ~ ByeCame(d) => Complete(d) = {},
           NEW r, r = AnswerBye(d), r.action # "Abort"
    PROVE  IsAnswer(e, b, r, g, t, gclosed)
<1>. DEFINE h == r.c
<1>1. d \in Contexts /\ IsOwn(e, d) /\ b \in Contexts /\ b.hs \in 0 .. 4
  BY DEF Sends, IsFacing, Typed, Contexts
<1>2. d.hs = 4
  BY <1>1 DEF IsFacing, IsGreeting
<1>3. Typed(g, t, d)
  BY <1>1 DEF IsFacing, Typed
<1>4. /\ Sends(e, d, h) /\ IsStream(Peer(e), g, t, h, FALSE) /\ r.action = "Continue"
      /\ (h = d /\ ~ ByeCame(d)) \/ Answered(d, h)
  BY <1>1, <1>2, <1>3, AnswerByeIsKept
<1>. HIDE DEF h
<1>5. Sends(e, b, h) /\ IsOwn(e, h)
  BY <1>4, SendsIsTransitive DEF Sends
<1>6. h.state = "Ready" /\ h.hs = b.hs /\ h.blocked = b.blocked
  BY <1>4 DEF Answered
<1>7. (h.sentBye => h.gotBye) /\ Complete(h) = {}
  <2>1. CASE h = d /\ ~ ByeCame(d)
    BY <2>1 DEF IsFacing
  <2>2. CASE Answered(d, h)
    <3>1. h.bin = <<>> /\ h.gotBye
      BY <2>2 DEF Answered
    <3>2. Complete(h) = {}
      BY <3>1, EmptySeq DEF Complete
    <3>. QED  BY <3>1, <3>2
  <2>. QED  BY <1>4, <2>1, <2>2
<1>8. IsSide(e, h, FALSE, g, gclosed)
  BY <1>1, <1>5, <1>6, <1>7, ReadyIsSide
<1>. QED  BY <1>4, <1>5, <1>6, <1>8 DEF IsAnswer, h

LEMMA ReadDataIsAnswer ==
    ASSUME MaskFits, NEW e \in Sides, NEW b, NEW g, NEW t, NEW gclosed,
           IsFacing(e, b, g, t, gclosed), b.state = "Ready",
           NEW answer \in Answers, NEW n \in Reads(b, answer),
           NEW r, r = ReadData(b, n, answer), r.action # "Abort"
    PROVE  IsAnswer(e, b, r, g, t, gclosed)
<1>. DEFINE d == [Read(b, n) EXCEPT !.read = TRUE]
<1>1. Peer(e) \in Sides /\ Typed(g, t, b) /\ IsStream(Peer(e), g, t, b, FALSE)
      /\ b \in Contexts /\ b.hs \in 0 .. 4 /\ IsOwn(e, b)
  BY SidesAre DEF IsFacing, Typed, Contexts
<1>2. b.hs = 4
  BY <1>1 DEF IsFacing, IsGreeting
<1>3. DataRecords(b) \in Nat
  <2>. DEFINE l == Len(b.bin)
              D == {i \in Complete(b) : b.bin[i].kind \in DataKinds}
  <2>1. l \in Nat /\ D \in SUBSET (1 .. l)
    BY <1>1 DEF Contexts, Complete
  <2>2. IsFiniteSet(1 .. l)
    BY <2>1, FS_Interval
  <2>. HIDE DEF l, D
  <2>3. Cardinality(D) \in Nat
    BY <2>1, <2>2, FS_Subset, FS_CardinalityType
  <2>. QED  BY <2>3 DEF DataRecords, D
<1>4. n \in Nat /\ n <= DataRecords(b)
      /\ (answer \in {"Continue", "Respond"} => n = DataRecords(b))
  <2>. DEFINE x == DataRecords(b)
  <2>1. x \in Nat /\ n \in (CASE answer = "Continue" -> {x} [] answer = "Respond" -> {x} \ {0}
                              [] OTHER -> 1 .. x)
    BY <1>3 DEF Reads
  <2>. HIDE DEF x
  <2>2. n \in Nat /\ n <= x /\ (answer \in {"Continue", "Respond"} => n = x)
    BY <2>1
  <2>. QED  BY <2>2 DEF x
<1>5. /\ d \in Contexts /\ IsStream(Peer(e), g, t, d, FALSE) /\ IsReader(b, d)
      /\ n = DataRecords(b) /\ ~ ByeCame(d) => Complete(d) = {}
  BY <1>1, <1>2, <1>4, ReadIsKept
<1>6. r = CASE answer = "Continue" -> AnswerBye(d)
            [] answer = "Respond"  -> AnswerBye(WriteAnswer(d))
            [] OTHER               -> AbortOrClose(d, answer)
  BY DEF ReadData
<1>. HIDE DEF d
<1>7. Sends(e, b, d)
  <2>1. KeepsSent(e, b, d)
    BY <1>5, SameIsKept DEF SameSent, IsReader
  <2>2. IsOwn(e, d)
    BY <1>1, <1>5 DEF IsOwn, IsMade, IsReader
  <2>. QED  BY <1>5, <2>1, <2>2 DEF Sends, IsReader
<1>8. /\ d.state = "Ready" /\ d.hs = b.hs /\ d.blocked = b.blocked /\ d.sentBye = b.sentBye
      /\ d.gotBye = b.gotBye
  BY <1>5 DEF IsReader
<1>9. CASE answer = "Continue"
  BY <1>4, <1>5, <1>6, <1>7, <1>8, <1>9, ReadyIsAnswer
<1>10. CASE answer = "Respond"
  <2>. DEFINE w == WriteAnswer(d)
  <2>1. w = WriteOf(d, "short") /\ "short" \in DataKinds
    BY DEF WriteAnswer, WriteOf, DataKinds
  <2>2. Sends(e, d, w) /\ Kept(d, w) /\ w.blocked = d.blocked
    BY <1>5, <1>7, <2>1, WriteIsKept DEF Sends
  <2>. HIDE DEF w
  <2>3. Sends(e, b, w)
    BY <1>7, <2>2, SendsIsTransitive
  <2>4. IsStream(Peer(e), g, t, w, FALSE)
    <3>1. SameTaken(d, w)
      BY <2>2 DEF SameTaken, Kept
    <3>2. SameSent(g, g)
      BY DEF SameSent
    <3>. QED  BY <1>5, <3>1, <3>2, SameStream
  <2>5. ~ ByeCame(w) => Complete(w) = {}
    BY <1>4, <1>5, <1>10, <2>2 DEF Kept, ByeCame, Complete
  <2>6. r = AnswerBye(w)
    BY <1>6, <1>10 DEF w
  <2>. QED  BY <1>8, <2>2, <2>3, <2>4, <2>5, <2>6, ReadyIsAnswer DEF Kept
<1>11. CASE answer \notin {"Continue", "Respond"}
  <2>. DEFINE h == r.c
  <2>1. r = AbortOrClose(d, answer)
    BY <1>6, <1>11
  <2>2. /\ Sends(e, d, h) /\ SameTaken(d, h) /\ r.action = "Continue"
        /\ h.state = "Shutdown" /\ h.sentBye /\ ~ h.gotBye /\ h.hs = 4 /\ d.hs = 4
        /\ Complete(d) = {} /\ ~ d.gotBye /\ h.blocked = d.blocked
    BY <1>5, <1>7, <2>1, CloseIsKept DEF Sends
  <2>. HIDE DEF h
  <2>3. Sends(e, b, h) /\ h \in Contexts /\ IsOwn(e, h)
    BY <1>7, <2>2, SendsIsTransitive DEF Sends
  <2>4. IsStream(Peer(e), g, t, h, FALSE)
    <3>1. SameSent(g, g)
      BY DEF SameSent
    <3>. QED  BY <1>5, <2>2, <3>1, SameStream
  <2>5. Complete(h) = {}
    BY <2>2 DEF Complete, SameTaken
  <2>6. IsSide(e, h, FALSE, g, gclosed)
    BY <1>2, <1>8, <2>2, <2>3, <2>4, <2>5, ShutdownIsSide
  <2>. QED  BY <1>8, <2>2, <2>3, <2>4, <2>6 DEF IsAnswer, h
<1>. QED  BY <1>9, <1>10, <1>11

\* The shutdown that a side waits for in Shutdown.
LEMMA FinishIsAnswer ==
    ASSUME MaskFits, NEW e \in Sides, NEW b, NEW g, NEW t, NEW gclosed,
           IsFacing(e, b, g, t, gclosed), b.state = "Shutdown",
           NEW r, r = FinishShutdown(b), r.action # "Abort"
    PROVE  IsAnswer(e, b, r, g, t, gclosed)
<1>. DEFINE h == r.c
            F == {i \in Complete(b) : \A j \in Complete(b) : i <= j}
<1>1. b \in Contexts /\ b.hs \in 0 .. 4 /\ IsOwn(e, b) /\ Typed(g, t, b)
      /\ IsStream(Peer(e), g, t, b, FALSE) /\ Peer(e) \in Sides
  BY SidesAre DEF IsFacing, Typed, Contexts
<1>2. b.hs = 4
  BY <1>1 DEF IsFacing, IsGreeting
<1>3. /\ b.sentBye /\ ~ b.wedged /\ \E i \in F : b.bin[i].kind = "bye"
      /\ h = [b EXCEPT !.gotBye = TRUE, !.bin = <<>>] /\ r.action = "Close"
  BY DEF FinishShutdown, Result
<1>4. \E i \in 1 .. Len(b.bin) : b.bin[i].kind = "bye"
  BY <1>3 DEF Complete
<1>. HIDE DEF h, F
<1>5. h \in Contexts
  <2>1. <<>> \in Seq(Pieces)
    BY EmptySeq
  <2>. QED  BY <1>1, <1>3, <2>1 DEF Contexts
<1>6. /\ h.gotBye /\ h.bin = <<>> /\ h.state = b.state /\ h.blocked = b.blocked /\ h.hs = b.hs
      /\ h.sentBye = b.sentBye /\ h.given = b.given
      /\ h.bout = b.bout /\ h.made = b.made /\ h.wedged = b.wedged /\ h.written = b.written
  BY <1>1, <1>3 DEF Contexts
<1>7. Sends(e, b, h)
  <2>1. KeepsSent(e, b, h)
    BY <1>6, SameIsKept DEF SameSent
  <2>2. IsOwn(e, h)
    BY <1>1, <1>3, <1>6 DEF IsOwn, IsMade
  <2>. QED  BY <1>5, <1>6, <2>1, <2>2 DEF Sends
<1>8. IsStream(Peer(e), g, t, h, TRUE)
  <2>1. Ended(b, h)
    BY <1>2, <1>4, <1>6 DEF Ended
  <2>2. Typed(g, t, h)
    BY <1>1, <1>5 DEF Typed
  <2>3. IsStream(Peer(e), g, t, h, FALSE)
    BY <1>1, <2>1, <2>2, EndKeepsStream
  <2>. QED  BY <2>3 DEF IsStream
<1>9. IsSide(e, h, TRUE, g, gclosed)
  <2>1. StateIsSound(e, h, TRUE)
    BY <1>2, <1>6 DEF StateIsSound, IsGreeting
  <2>2. TakeTurns(e, h, g)
    BY <1>6 DEF IsFacing, TakeTurns
  <2>3. SideIsRead(e, h, TRUE, g)
    BY DEF SideIsRead, ByesAreRead, ServerIsRead
  <2>4. PeerIsRead(e, h, g, gclosed)
    BY <1>6 DEF IsFacing, PeerIsRead, ByesAreRead
  <2>. QED  BY <1>7, <2>1, <2>2, <2>3, <2>4 DEF IsSide, Sends
<1>. QED  BY <1>3, <1>6, <1>7, <1>8, <1>9 DEF IsAnswer, h

-----------------------------------------------------------------------------
(***************************************************************************)
(* The handshake.  What is in bin belongs to the flight that is awaited.   *)
(***************************************************************************)

\* The pieces of p in the bin of its peer g, with numbers behind those it took.
InHandshake(p, c, g) ==
    /\ TakenUpTo(p, g.hs) + Len(g.bin) <= c.made
    /\ \A i \in 1 .. Len(g.bin) :
            g.bin[i].no = TakenUpTo(p, g.hs) + i /\ IsInPlace(p, g.bin[i])

LEMMA GreetingBinIs ==
    ASSUME MaskFits, NEW p \in Sides, NEW c, NEW s, NEW g, Typed(c, s, g),
           IsStream(p, c, s, g, FALSE), g.hs < 4
    PROVE  InHandshake(p, c, g)
<1>. DEFINE x == Mark(c, s, 0)
            l == Len(g.bin)
            y == TakenUpTo(p, g.hs)
            z == Mark(c, s, Len(s))
            m == c.made
            w == Pending(c)
<1>1. AreNumbered(c, s) /\ IsTakenBy(p, c, s, g)
  BY DEF IsStream
<1>2. AreTaken(p, c, s, g) /\ \A q \in Way(c, s, g) : IsInPlace(p, q)
  BY <1>1 DEF IsTakenBy
<1>3. x - l \in Nat /\ \A i \in 1 .. l : g.bin[i].no = (x - l) + i
  BY <1>1, <1>2, BinIs
<1>4. y + l = x
  BY <1>2 DEF AreTaken
<1>5. l \in Nat /\ x \in Nat /\ y \in Nat /\ m \in Nat /\ w \in Nat
  BY <1>1, PlacesAre, FlightsAre DEF AreNumbered
<1>6. \A i \in 1 .. l : IsInPlace(p, g.bin[i])
  BY <1>2, WayIs
<1>7. x <= z /\ z \in Nat /\ z = m - w
  <2>1. Len(s) \in Nat
    BY PlacesAre
  <2>2. 0 \in 0 .. Len(s) /\ Len(s) \in 0 .. Len(s)
    BY <2>1
  <2>. QED  BY <1>1, <2>2, MarksAre
<1>8. ASSUME NEW i \in 1 .. l
      PROVE  g.bin[i].no = y + i
  <2>. DEFINE k == g.bin[i].no
  <2>1. k = (x - l) + i
    BY <1>3
  <2>. HIDE DEF x, l, y, k
  <2>2. k = y + i
    BY <1>4, <1>5, <2>1
  <2>. QED  BY <2>2 DEF k
<1>9. y + l <= m
  <2>. HIDE DEF x, l, y, z, m, w
  <2>. QED  BY <1>4, <1>5, <1>7
<1>. QED  BY <1>6, <1>8, <1>9 DEF InHandshake

\* The n-th flight of p is there.
HasFlight(p, g, n) ==
    /\ Length[Flight(p, n)] \in 1 .. Len(g.bin)
    /\ Length[Flight(p, n)] = CHOOSE i \in Complete(g) : \A j \in Complete(g) : i <= j
    /\ \A i \in 1 .. Length[Flight(p, n)] : g.bin[i].kind = Flight(p, n)

LEMMA FlightIsHere ==
    ASSUME NEW p \in Sides, NEW c, NEW g \in Contexts, InHandshake(p, c, g), NEW n \in {1, 2},
           TakenUpTo(p, g.hs) = Before(p, n), Complete(g) # {}
    PROVE  HasFlight(p, g, n)
<1>. DEFINE l == Len(g.bin)
            k == Length[Flight(p, n)]
            x == Before(p, n)
            a == FirstEnd(p)
            b == SecondEnd(p)
<1>1. /\ a \in Nat \ {0} /\ b \in Nat \ {0} /\ a < b
      /\ n = 1 => k = a
      /\ n = 2 => k = b - a
      /\ x = IF n = 1 THEN 0 ELSE a
      /\ k \in Nat \ {0}
  <2>1. /\ a \in Nat \ {0} /\ b \in Nat \ {0} /\ a < b /\ b = a + Length[Flight(p, 2)]
        /\ a = Length[Flight(p, 1)] /\ Flight(p, 2) \in Kinds /\ Flight(p, 1) \in Kinds
    BY FlightsAre
  <2>2. Length[Flight(p, 2)] \in Nat \ {0} /\ Length[Flight(p, 1)] \in Nat \ {0}
    BY <2>1, KindsAre
  <2>. HIDE DEF a, b
  <2>. QED  BY <2>1, <2>2 DEF Before, a
<1>2. l \in Nat
  BY DEF Contexts
<1>3. Complete(g) = {i \in 1 .. l : g.bin[i].last}
  BY DEF Complete
<1>4. ASSUME NEW i \in 1 .. l, i <= k
      PROVE  g.bin[i].kind = Flight(p, n) /\ (g.bin[i].last <=> i = k)
  <2>. DEFINE q == g.bin[i]
              j == q.no
  <2>1. IsInPlace(p, q) /\ j = x + i
    BY DEF InHandshake
  <2>2. /\ j <= a => q.kind = Flight(p, 1) /\ (q.last <=> j = a)
        /\ a < j /\ j <= b => q.kind = Flight(p, 2) /\ (q.last <=> j = b)
    BY <2>1 DEF IsInPlace
  <2>. HIDE DEF q, j, x, a, b, k, l
  <2>3. CASE n = 1
    <3>1. j <= a /\ (j = a <=> i = k)
      BY <1>1, <1>2, <1>4, <2>1, <2>3
    <3>2. q.kind = Flight(p, n) /\ (q.last <=> i = k)
      BY <2>2, <2>3, <3>1
    <3>. QED  BY <3>2 DEF q
  <2>4. CASE n = 2
    <3>1. a < j /\ j <= b /\ (j = b <=> i = k)
      BY <1>1, <1>2, <1>4, <2>1, <2>4
    <3>2. q.kind = Flight(p, n) /\ (q.last <=> i = k)
      BY <2>2, <2>4, <3>1
    <3>. QED  BY <3>2 DEF q
  <2>. QED  BY <2>3, <2>4
<1>. HIDE DEF l, k, x, a, b
<1>5. k \in 1 .. l
  <2>1. PICK i \in 1 .. l : g.bin[i].last
    BY <1>3
  <2>2. i < k => FALSE
    BY <1>1, <1>2, <1>4, <2>1
  <2>. QED  BY <1>1, <1>2, <2>2
<1>6. k \in Complete(g) /\ \A j \in Complete(g) : k <= j
  <2>1. g.bin[k].last
    BY <1>1, <1>4, <1>5
  <2>2. ASSUME NEW j \in Complete(g)
        PROVE  k <= j
    <3>1. j \in 1 .. l /\ g.bin[j].last
      BY <1>3
    <3>2. j < k => FALSE
      BY <1>1, <1>2, <1>4, <3>1
    <3>. QED  BY <1>1, <1>2, <3>1, <3>2
  <2>. QED  BY <1>3, <1>5, <2>1, <2>2
<1>7. ASSUME NEW i \in Complete(g), \A j \in Complete(g) : i <= j
      PROVE  i = k
  <2>1. i <= k /\ k <= i /\ i \in Nat
    BY <1>2, <1>3, <1>6, <1>7
  <2>. QED  BY <1>1, <2>1
<1>8. k = CHOOSE i \in Complete(g) : \A j \in Complete(g) : i <= j
  BY <1>6, <1>7
<1>9. \A i \in 1 .. k : g.bin[i].kind = Flight(p, n)
  <2>1. \A i \in 1 .. k : i \in 1 .. l /\ i <= k
    BY <1>1, <1>2, <1>5
  <2>. QED  BY <1>4, <2>1
<1>. QED  BY <1>5, <1>8, <1>9 DEF HasFlight, k, l

\* Who may have a flight before it, and what is behind it: nothing, unless it is
\* the last one.
LEMMA TurnIs ==
    ASSUME MaskFits, NEW e \in Sides, NEW b \in Contexts, NEW g \in Contexts,
           InHandshake(Peer(e), g, b), IsOwn(Peer(e), g), TakeTurns(e, b, g), b.hs < 4,
           NEW n, n = (IF b.hs <= 1 THEN 1 ELSE 2), HasFlight(Peer(e), b, n)
    PROVE  /\ \/ e = "server" /\ b.hs = 0 /\ g.hs = 1
              \/ e = "server" /\ b.hs = 2 /\ g.hs = 3
              \/ e = "client" /\ b.hs = 1 /\ g.hs = 2
              \/ e = "client" /\ b.hs = 3 /\ g.hs = 4
           /\ b.hs # 3 => Len(b.bin) = Length[Flight(Peer(e), n)]
<1>. DEFINE p == Peer(e)
            l == Len(b.bin)
            k == Length[Flight(p, n)]
            x == FirstEnd(p)
            y == SecondEnd(p)
            m == g.made
<1>1. /\ p \in Sides /\ (e = "client" \/ e = "server")
  BY SidesAre
<1>2. /\ x \in Nat \ {0} /\ y \in Nat \ {0} /\ x < y
      /\ n = 1 => k = x
      /\ n = 2 => k = y - x
  <2>1. /\ x \in Nat \ {0} /\ y \in Nat \ {0} /\ x < y /\ y = x + Length[Flight(p, 2)]
        /\ x = Length[Flight(p, 1)] /\ Flight(p, 2) \in Kinds
    BY <1>1, FlightsAre
  <2>2. Length[Flight(p, 2)] \in Nat
    BY <2>1, KindsAre
  <2>. HIDE DEF x, y
  <2>. QED  BY <2>1, <2>2 DEF x
<1>3. l \in Nat /\ m \in Nat /\ k \in 1 .. l
  BY DEF Contexts, HasFlight
<1>4. /\ b.hs <= 1 => l <= m
      /\ b.hs > 1 => x + l <= m
  <2>1. TakenUpTo(p, b.hs) + l <= m
    BY DEF InHandshake
  <2>2. b.hs \in 0 .. 4
    BY DEF Contexts
  <2>3. TakenUpTo(p, b.hs) = IF b.hs <= 1 THEN 0 ELSE x
    BY <2>2 DEF TakenUpTo
  <2>. HIDE DEF l, m, x
  <2>. QED  BY <1>2, <1>3, <2>1, <2>2, <2>3
<1>5. /\ g.hs = 0 => m = 0
      /\ g.hs \in {1, 2} => m <= x
      /\ g.hs = 3 => m <= y
  BY DEF IsOwn, IsMade
<1>6. \/ e = "server" /\ <<g.hs, b.hs>> \in Turns
      \/ e = "client" /\ <<b.hs, g.hs>> \in Turns
  BY <1>1 DEF TakeTurns
<1>7. \/ e = "server" /\ <<g.hs, b.hs>> \in {<<0, 0>>, <<1, 0>>, <<1, 2>>, <<3, 2>>}
      \/ e = "client" /\ <<b.hs, g.hs>> \in {<<0, 0>>, <<1, 0>>, <<1, 2>>, <<3, 2>>, <<3, 4>>}
  BY <1>6 DEF Turns
<1>. HIDE DEF p, l, k, x, y, m
<1>8. m # 0
  <2>1. l \in Nat /\ l >= 1
    BY <1>3
  <2>2. b.hs <= 1 \/ b.hs > 1
    BY DEF Contexts
  <2>3. l <= m \/ x + l <= m
    BY <1>4, <2>2
  <2>. QED  BY <1>2, <1>3, <2>1, <2>3
<1>9. b.hs > 1 => ~ (m <= x)
  BY <1>2, <1>3, <1>4
<1>10. \/ e = "server" /\ b.hs = 0 /\ g.hs = 1
       \/ e = "server" /\ b.hs = 2 /\ g.hs = 3
       \/ e = "client" /\ b.hs = 1 /\ g.hs = 2
       \/ e = "client" /\ b.hs = 3 /\ g.hs = 4
  BY <1>5, <1>7, <1>8, <1>9
<1>11. ASSUME b.hs # 3
       PROVE  l = k
  <2>1. CASE b.hs <= 1
    <3>1. l <= x /\ k = x
      BY <1>2, <1>3, <1>4, <1>5, <1>10, <2>1
    <3>. QED  BY <1>2, <1>3, <3>1
  <2>2. CASE b.hs = 2
    <3>1. x + l <= y /\ k = y - x
      BY <1>2, <1>3, <1>4, <1>5, <1>10, <2>2
    <3>. QED  BY <1>2, <1>3, <3>1
  <2>. QED  BY <1>10, <1>11, <2>1, <2>2
<1>. QED  BY <1>10, <1>11 DEF l, k, p

\* The flight is taken from bin.
LEMMA FlightIsTaken ==
    ASSUME MaskFits, NEW p \in Sides, NEW c, NEW s, NEW g, NEW h, NEW n \in {1, 2},
           Typed(c, s, g), Typed(c, s, h), IsStream(p, c, s, g, FALSE), HasFlight(p, g, n), g.hs < 4,
           TakenUpTo(p, g.hs) = Before(p, n), TakenUpTo(p, h.hs) = UpTo(p, n),
           h.bin = SubSeq(g.bin, Length[Flight(p, n)] + 1, Len(g.bin)),
           h.gotBye = g.gotBye, h.given = g.given
    PROVE  IsStream(p, c, s, h, FALSE)
<1>. DEFINE k == Length[Flight(p, n)]
            x == Before(p, n)
            y == UpTo(p, n)
<1>1. Flight(p, n) \in Kinds /\ Flight(p, n) # "bye" /\ Flight(p, n) \notin DataKinds
  BY FlightsAre
<1>2. k \in Nat /\ Len(g.bin) \in Nat
  BY <1>1, KindsAre, PlacesAre
<1>3. k \in 0 .. Len(g.bin)
  <2>1. k \in 1 .. Len(g.bin)
    BY DEF HasFlight
  <2>. HIDE DEF k
  <2>. QED  BY <1>2, <2>1
<1>4. x \in Nat /\ y = x + k
  <2>1. /\ FirstEnd(p) \in Nat /\ SecondEnd(p) = FirstEnd(p) + Length[Flight(p, 2)]
        /\ FirstEnd(p) = Length[Flight(p, 1)]
    BY FlightsAre
  <2>. QED  BY <1>2, <2>1 DEF Before, UpTo
<1>5. DataAmong(g.bin, k) = {}
  BY <1>1 DEF DataAmong, HasFlight
<1>6. h.given = g.given + Cardinality(DataAmong(g.bin, k))
  <2>1. Cardinality(DataAmong(g.bin, k)) = 0 /\ g.given \in Nat
    BY <1>5, FS_EmptySet DEF Typed, Contexts
  <2>. QED  BY <2>1
<1>7. TakenUpTo(p, h.hs) = TakenUpTo(p, g.hs) + k /\ TakenUpTo(p, h.hs) <= TakenUpTo(p, g.hs) + k
  <2>. HIDE DEF x, y, k
  <2>1. y = x + k /\ y <= x + k
    BY <1>2, <1>4
  <2>. QED  BY <2>1 DEF x, y
<1>8. \A i \in 1 .. k : g.bin[i].kind # "bye"
  BY <1>1 DEF HasFlight
<1>. HIDE DEF k
<1>9. h.bin = SubSeq(g.bin, k + 1, Len(g.bin))
  BY DEF k
<1>10. Taken(p, g, h, k)
  BY <1>3, <1>6, <1>7, <1>8, <1>9 DEF Taken
<1>. QED  BY <1>10, TakeKeepsStream

\* The side of a handshake that goes on or is over.
LEMMA TurnIsSide ==
    ASSUME NEW e \in Sides, NEW b, NEW g, NEW t, NEW gclosed, IsFacing(e, b, g, t, gclosed),
           NEW h, IsOwn(e, h), h.state = (IF h.hs = 4 THEN "Ready" ELSE b.state),
           h.hs \in 0 .. 4, IsGreeting(b), ~ h.sentBye,
           TakeTurns(e, h, g), h.hs < 4 \/ e = "server" \/ h.read => Complete(h) = {},
           e = "server" /\ h.hs = 4 => g.hs < 4
    PROVE  IsSide(e, h, FALSE, g, gclosed)
<1>1. IsGreeting(h) <=> h.hs < 4
  BY DEF IsGreeting
<1>2. h.state # "None" /\ h.state # "Shutdown"
  BY DEF IsGreeting, IsFacing
<1>3. StateIsSound(e, h, FALSE)
  BY <1>1, <1>2 DEF StateIsSound, IsFacing
<1>4. SideIsRead(e, h, FALSE, g)
  BY <1>2, SidesAre DEF SideIsRead, ByesAreRead, ServerIsRead
<1>5. PeerIsRead(e, h, g, gclosed)
  <2>1. CASE e = "client"
    BY <2>1 DEF PeerIsRead, IsFacing
  <2>2. CASE e = "server"
    <3>1. h.state = "Ready" => g.state # "Shutdown"
      BY <2>2 DEF IsFacing, StateIsSound, IsGreeting
    <3>. QED  BY <2>2, <3>1 DEF PeerIsRead, ByesAreRead
  <2>. QED  BY <2>1, <2>2, SidesAre
<1>. QED  BY <1>3, <1>4, <1>5 DEF IsSide

WithFlight(e, b, n, h) == [Put(b, Flight(e, n)) EXCEPT !.hs = h]

\* The next flight of a side goes out, after that of the peer was taken.
LEMMA NextFlightIsSent ==
    ASSUME MaskFits, NEW e \in Sides, NEW c \in Contexts, IsOwn(e, c), c.hs \in {0, 1, 2},
           NEW b \in Contexts, SameSent(c, b), b.gotBye = c.gotBye,
           NEW n, n = (IF c.hs = 0 THEN 1 ELSE 2),
           NEW h, (n = 1 /\ h \in {1, 2}) \/ (n = 2 /\ h \in {3, 4}),
           NEW d, d = WithFlight(e, b, n, h)
    PROVE  Sends(e, c, d) /\ IsSent(e, b, d, n, h) /\ ~ d.sentBye
<1>1. n \in {1, 2} /\ h \in 0 .. 4
  OBVIOUS
<1>2. ~ c.sentBye /\ ~ c.gotBye /\ ~ b.sentBye /\ ~ b.gotBye
  BY DEF IsOwn, SameSent
<1>3. c.made <= Before(e, n) /\ (~ c.wedged => c.made = Before(e, n))
  BY DEF IsOwn, IsMade, Before
<1>4. b.made = c.made /\ b.wedged = c.wedged
  BY DEF SameSent
<1>5. d \in Contexts /\ KeepsSent(e, b, d) /\ IsSent(e, b, d, n, h)
  BY <1>1, <1>2, <1>3, <1>4, FlightIsPut DEF WithFlight
<1>6. KeepsSent(e, c, d)
  <2>1. KeepsSent(e, c, b)
    BY SameIsKept
  <2>. QED  BY <1>5, <2>1, KeepsSentIsTransitive
<1>7. /\ d.hs = h /\ d.sentBye = b.sentBye /\ d.gotBye = b.gotBye
      /\ d.made <= UpTo(e, n) /\ (~ d.wedged => d.made = UpTo(e, n)) /\ (b.wedged => d.wedged)
  BY <1>5 DEF IsSent
<1>8. IsOwn(e, d)
  <2>1. d.made \in Nat /\ FirstEnd(e) \in Nat /\ SecondEnd(e) \in Nat /\ FirstEnd(e) < SecondEnd(e)
    BY <1>5, ContextIs, FlightsAre
  <2>2. CASE n = 1
    BY <1>2, <1>7, <2>2 DEF IsOwn, IsMade, UpTo
  <2>3. CASE n = 2
    <3>1. ~ d.wedged => d.made >= SecondEnd(e)
      <4>. DEFINE x == d.made
                  y == SecondEnd(e)
      <4>1. x \in Nat /\ y \in Nat /\ (~ d.wedged => x = y)
        BY <1>7, <2>1, <2>3 DEF UpTo
      <4>. HIDE DEF x, y
      <4>2. ~ d.wedged => x >= y
        BY <4>1
      <4>. QED  BY <4>2 DEF x, y
    <3>2. d.hs \in {3, 4} /\ d.made <= SecondEnd(e) /\ (~ d.wedged => d.made = SecondEnd(e))
      BY <1>7, <2>3 DEF UpTo
    <3>. QED  BY <1>2, <1>7, <3>1, <3>2 DEF IsOwn, IsMade
  <2>. QED  BY <1>1, <2>2, <2>3
<1>. QED  BY <1>2, <1>4, <1>5, <1>6, <1>7, <1>8 DEF Sends

LEMMA FirstFlightIsSent ==
    ASSUME MaskFits, NEW e \in Sides, NEW b \in Contexts, IsOwn(e, b), b.hs = 0,
           NEW d, d = WithFlight(e, b, 1, 1)
    PROVE  Sends(e, b, d) /\ IsSent(e, b, d, 1, 1) /\ ~ d.sentBye
<1>1. SameSent(b, b)
  BY DEF SameSent
<1>. DEFINE n == IF b.hs = 0 THEN 1 ELSE 2
            h == 1
<1>2. n = 1 /\ h = 1 /\ n = IF b.hs = 0 THEN 1 ELSE 2
  OBVIOUS
<1>. HIDE DEF n, h
<1>3. (n = 1 /\ h \in {1, 2}) \/ (n = 2 /\ h \in {3, 4})
  BY <1>2
<1>4. d = WithFlight(e, b, n, h)
  BY <1>2
<1>5. b.hs \in {0, 1, 2} /\ b.gotBye = b.gotBye
  OBVIOUS
<1>6. Sends(e, b, d) /\ IsSent(e, b, d, n, h) /\ ~ d.sentBye
  BY <1>1, <1>2, <1>3, <1>4, <1>5, NextFlightIsSent
<1>. QED  BY <1>2, <1>6

\* What the handshake leaves of a context.
IsGreeted(e, b, d, g, t) ==
    /\ Sends(e, b, d) /\ IsStream(Peer(e), g, t, d, FALSE) /\ TakeTurns(e, d, g)
    /\ ~ d.sentBye /\ d.state = b.state /\ d.blocked = b.blocked /\ d.read = b.read
    /\ d.hs < 4 \/ e = "server" => Complete(d) = {}
    /\ e = "server" /\ d.hs = 4 => g.hs < 4
    /\ Complete(b) = {} => d.hs < 4

\* The client begins.
LEMMA GreetingBegins ==
    ASSUME MaskFits, NEW b, NEW g, NEW t, NEW gclosed, IsFacing("client", b, g, t, gclosed),
           b.hs = 0, NEW d, d = [Put(b, Flights[1]) EXCEPT !.hs = 1]
    PROVE  IsGreeted("client", b, d, g, t)
<1>. DEFINE e == "client"
            p == Peer(e)
<1>1. e \in Sides /\ p \in Sides /\ Flights[1] = Flight(e, 1)
  BY SidesAre DEF Flight
<1>2. Typed(g, t, b) /\ b \in Contexts /\ g \in Contexts /\ IsOwn(e, b) /\ IsOwn(p, g)
      /\ IsStream(p, g, t, b, FALSE) /\ TakeTurns(e, b, g)
  BY DEF IsFacing, Typed
<1>. HIDE DEF e, p
<1>3. InHandshake(p, g, b)
  <2>1. b.hs < 4
    OBVIOUS
  <2>. QED  BY <1>1, <1>2, <2>1, GreetingBinIs
<1>4. SameSent(b, b) /\ b.hs \in {0, 1, 2}
  BY DEF SameSent
<1>5. Sends(e, b, d) /\ IsSent(e, b, d, 1, 1) /\ ~ d.sentBye
  <2>1. d = WithFlight(e, b, 1, 1)
    BY <1>1 DEF WithFlight
  <2>. QED  BY <1>1, <1>2, <2>1, FirstFlightIsSent
<1>6. /\ d.state = b.state /\ d.bin = b.bin /\ d.given = b.given /\ d.gotBye = b.gotBye
      /\ d.read = b.read /\ d.blocked = b.blocked /\ d.hs = 1
  BY <1>5 DEF IsSent
<1>7. IsStream(p, g, t, d, FALSE)
  <2>1. IsStream(p, g, t, d, FALSE) <=> IsStream(p, g, t, b, FALSE)
    <3>1. Way(g, t, d) = Way(g, t, b)
      BY <1>6 DEF Way
    <3>2. TakenUpTo(p, d.hs) = TakenUpTo(p, b.hs)
      BY <1>6 DEF TakenUpTo
    <3>3. AreTaken(p, g, t, d) <=> AreTaken(p, g, t, b)
      BY <1>6, <3>2 DEF AreTaken
    <3>4. ByeIsKept(g, d, Way(g, t, d)) <=> ByeIsKept(g, b, Way(g, t, b))
      BY <1>6, <3>1 DEF ByeIsKept
    <3>5. AreCounted(g, d, Way(g, t, d)) <=> AreCounted(g, b, Way(g, t, b))
      BY <1>6, <3>1 DEF AreCounted
    <3>6. IsTakenBy(p, g, t, d) <=> IsTakenBy(p, g, t, b)
      BY <3>1, <3>3, <3>4, <3>5 DEF IsTakenBy
    <3>. QED  BY <1>6, <3>6 DEF IsStream
  <2>. QED  BY <1>2, <2>1
<1>8. g.hs = 0
  BY <1>2 DEF TakeTurns, Turns, e
<1>9. TakeTurns(e, d, g)
  BY <1>6, <1>8 DEF TakeTurns, Turns, e
<1>10. Complete(d) = {}
  <2>1. g.made = 0
    BY <1>2, <1>8 DEF IsOwn, IsMade
  <2>2. Len(b.bin) \in Nat /\ 0 + Len(b.bin) <= 0
    BY <1>2, <1>3, <2>1 DEF InHandshake, TakenUpTo, Contexts
  <2>. DEFINE l == Len(b.bin)
  <2>3. l \in Nat /\ 0 + l <= 0
    BY <2>2
  <2>. HIDE DEF l
  <2>4. l = 0
    BY <2>3
  <2>. QED  BY <1>6, <2>4 DEF Complete, l
<1>11. d.hs < 4 /\ d.hs # 4
  BY <1>6
<1>12. IsGreeted(e, b, d, g, t)
  BY <1>5, <1>6, <1>7, <1>9, <1>10, <1>11 DEF IsGreeted, p
<1>. QED  BY <1>12 DEF e

\* A flight of the peer is answered by the next one, if there is one.
LEMMA GreetingGoesOn ==
    ASSUME MaskFits, NEW e \in Sides, NEW b, NEW g, NEW t, NEW gclosed,
           IsFacing(e, b, g, t, gclosed), b.hs < 4, Complete(b) # {},
           ~ (b.state = "Connect" /\ b.hs = 0),
           NEW d, d = Handshake(b)
    PROVE  IsGreeted(e, b, d, g, t)
<1>. DEFINE p == Peer(e)
            n == IF b.hs <= 1 THEN 1 ELSE 2
            k == Length[Flight(p, n)]
            l == Len(b.bin)
            q == SubSeq(b.bin, k + 1, l)
            i == b.hs + 1
            took == [b EXCEPT !.bin = q, !.hs = i]
<1>1. p \in Sides /\ (e = "client" \/ e = "server")
  BY SidesAre
<1>2. /\ Typed(g, t, b) /\ b \in Contexts /\ g \in Contexts /\ IsOwn(e, b) /\ IsOwn(p, g)
      /\ IsStream(p, g, t, b, FALSE) /\ TakeTurns(e, b, g) /\ b.hs \in 0 .. 4
      /\ b.bin \in Seq(Pieces)
  BY DEF IsFacing, Typed, Contexts
<1>3. InHandshake(p, g, b)
  BY <1>1, <1>2, GreetingBinIs
<1>4. n \in {1, 2} /\ TakenUpTo(p, b.hs) = Before(p, n) /\ n = (IF b.hs <= 1 THEN 1 ELSE 2)
  BY <1>2 DEF TakenUpTo, Before
<1>. HIDE DEF n, p
<1>5. HasFlight(p, b, n)
  BY <1>1, <1>2, <1>3, <1>4, FlightIsHere
<1>6. /\ \/ e = "server" /\ b.hs = 0 /\ g.hs = 1
         \/ e = "server" /\ b.hs = 2 /\ g.hs = 3
         \/ e = "client" /\ b.hs = 1 /\ g.hs = 2
         \/ e = "client" /\ b.hs = 3 /\ g.hs = 4
      /\ b.hs # 3 => l = k
  BY <1>2, <1>3, <1>4, <1>5, TurnIs DEF p
<1>7. k \in 1 .. l /\ k = (CHOOSE j \in Complete(b) : \A m \in Complete(b) : j <= m)
  BY <1>5 DEF HasFlight
<1>8. d = IF i = 4 THEN took ELSE [Put(took, Flights[i + 1]) EXCEPT !.hs = i + 1]
  <2>1. took.hs = i
    BY <1>2 DEF Contexts
  <2>2. took = [b EXCEPT !.bin = SubSeq(@, k + 1, Len(@)), !.hs = @ + 1]
    OBVIOUS
  <2>. HIDE DEF k, i
  <2>3. d = LET a == [b EXCEPT !.bin = SubSeq(@, k + 1, Len(@)), !.hs = @ + 1]
            IN IF a.hs = 4 THEN a ELSE [Put(a, Flights[a.hs + 1]) EXCEPT !.hs = @ + 1]
    <3>. DEFINE end == CHOOSE j \in Complete(b) : \A m \in Complete(b) : j <= m
                a == [b EXCEPT !.bin = SubSeq(@, end + 1, Len(@)), !.hs = @ + 1]
    <3>1. d = IF a.hs = 4 THEN a ELSE [Put(a, Flights[a.hs + 1]) EXCEPT !.hs = @ + 1]
      BY DEF Handshake
    <3>2. end = k
      BY <1>7
    <3>. HIDE DEF end
    <3>. QED  BY <3>1, <3>2
  <2>. HIDE DEF took
  <2>4. d = IF took.hs = 4 THEN took ELSE [Put(took, Flights[took.hs + 1]) EXCEPT !.hs = @ + 1]
    BY <2>2, <2>3
  <2>5. Put(took, Flights[took.hs + 1]).hs = took.hs
    BY DEF Put
  <2>. QED  BY <2>1, <2>4, <2>5
<1>9. k \in Nat /\ l \in Nat /\ k \in 0 .. l
  <2>1. k \in Nat
    BY <1>1, <1>4, FlightsAre, KindsAre
  <2>2. l \in Nat
    BY <1>2
  <2>. HIDE DEF k, l
  <2>. QED  BY <1>7, <2>1, <2>2
<1>10. q \in Seq(Pieces) /\ Len(q) = l - k
  <2>. HIDE DEF k
  <2>. QED  BY <1>2, <1>9, RestIs
<1>11. took \in Contexts /\ i \in 0 .. 4 /\ i = b.hs + 1
  <2>1. i \in 0 .. 4
    BY <1>6
  <2>. HIDE DEF q, i
  <2>. QED  BY <1>2, <1>10, <2>1 DEF Contexts, i
<1>12. /\ SameSent(b, took) /\ took.gotBye = b.gotBye /\ took.given = b.given /\ took.hs = i
       /\ took.state = b.state /\ took.blocked = b.blocked /\ took.read = b.read /\ took.bin = q
  BY <1>2 DEF SameSent, Contexts
<1>. HIDE DEF took, i
<1>13. ~ b.sentBye /\ ~ b.gotBye
  BY <1>2 DEF IsOwn
<1>14. ASSUME NEW h \in Contexts, h.bin = q, h.gotBye = b.gotBye, h.given = b.given,
              TakenUpTo(p, h.hs) = UpTo(p, n)
       PROVE  IsStream(p, g, t, h, FALSE)
  <2>1. Typed(g, t, h)
    BY <1>2, <1>14 DEF Typed
  <2>2. h.bin = SubSeq(b.bin, Length[Flight(p, n)] + 1, Len(b.bin))
    BY <1>14
  <2>. HIDE DEF q, k, l
  <2>. QED  BY <1>1, <1>2, <1>4, <1>5, <1>14, <2>1, <2>2, FlightIsTaken
<1>15. CASE b.hs = 3
  <2>1. d = took /\ e = "client" /\ g.hs = 4 /\ i = 4 /\ n = 2
    BY <1>4, <1>6, <1>8, <1>11, <1>15
  <2>2. Sends(e, b, d)
    <3>1. KeepsSent(e, b, d)
      BY <1>12, <2>1, SameIsKept
    <3>2. d.made = b.made /\ d.wedged = b.wedged /\ d.hs = 4 /\ d.sentBye = b.sentBye
          /\ d.gotBye = b.gotBye
      BY <1>12, <2>1 DEF SameSent
    <3>3. ~ d.wedged => d.made >= SecondEnd(e)
      <4>. DEFINE x == d.made
                  y == SecondEnd(e)
      <4>1. x \in Nat /\ y \in Nat /\ (~ d.wedged => x = y)
        BY <1>2, <1>15, <3>2, ContextIs, FlightsAre DEF IsOwn, IsMade
      <4>. HIDE DEF x, y
      <4>2. ~ d.wedged => x >= y
        BY <4>1
      <4>. QED  BY <4>2 DEF x, y
    <3>4. IsOwn(e, d)
      BY <1>13, <3>2, <3>3 DEF IsOwn, IsMade
    <3>. QED  BY <1>11, <2>1, <3>1, <3>2, <3>4 DEF Sends
  <2>3. TakenUpTo(p, d.hs) = UpTo(p, n)
    BY <1>12, <2>1 DEF TakenUpTo, UpTo
  <2>4. IsStream(p, g, t, d, FALSE)
    BY <1>11, <1>12, <1>14, <2>1, <2>3
  <2>5. TakeTurns(e, d, g)
    BY <1>12, <2>1 DEF TakeTurns, Turns
  <2>6. d.hs = 4 /\ ~ d.sentBye /\ d.state = b.state /\ d.blocked = b.blocked /\ d.read = b.read
    BY <1>12, <1>13, <2>1 DEF SameSent
  <2>7. ~ (d.hs < 4) /\ e # "server"
    BY <2>1, <2>6
  <2>. QED  BY <2>2, <2>4, <2>5, <2>6, <2>7 DEF IsGreeted, p
<1>16. CASE b.hs # 3
  <2>. DEFINE j == IF b.hs = 0 THEN 1 ELSE 2
              h == i + 1
  <2>1. b.hs \in {0, 1, 2} /\ i # 4 /\ h = b.hs + 2
    BY <1>6, <1>11, <1>16
  <2>2. Flights[i + 1] = Flight(e, j)
    <3>1. CASE e = "server" /\ b.hs = 0
      BY <1>11, <3>1 DEF Flight
    <3>2. CASE e = "server" /\ b.hs = 2
      BY <1>11, <3>2 DEF Flight
    <3>3. CASE e = "client" /\ b.hs = 1
      BY <1>11, <3>3 DEF Flight
    <3>. QED  BY <1>6, <1>16, <3>1, <3>2, <3>3
  <2>3. (j = 1 /\ h \in {1, 2}) \/ (j = 2 /\ h \in {3, 4})
    <3>1. j = IF b.hs = 0 THEN 1 ELSE 2
      OBVIOUS
    <3>. HIDE DEF j, h
    <3>. DEFINE x == b.hs
    <3>2. h = x + 2 /\ x \in {0, 1, 2} /\ j = IF x = 0 THEN 1 ELSE 2
      BY <2>1, <3>1
    <3>. HIDE DEF x
    <3>. QED  BY <3>2
  <2>4. d = WithFlight(e, took, j, h)
    BY <1>8, <2>1, <2>2 DEF WithFlight
  <2>5. j = IF b.hs = 0 THEN 1 ELSE 2
    OBVIOUS
  <2>. HIDE DEF j, h
  <2>6. Sends(e, b, d) /\ IsSent(e, took, d, j, h) /\ ~ d.sentBye
    <3>1. SameSent(b, took) /\ took.gotBye = b.gotBye /\ took \in Contexts
      BY <1>11, <1>12
    <3>2. IsOwn(e, b) /\ b \in Contexts
      BY <1>2
    <3>. QED  BY <2>1, <2>3, <2>4, <2>5, <3>1, <3>2, NextFlightIsSent
  <2>7. /\ d.state = b.state /\ d.bin = q /\ d.given = b.given /\ d.gotBye = b.gotBye
        /\ d.read = b.read /\ d.blocked = b.blocked /\ d.hs = h
    BY <1>12, <2>6 DEF IsSent
  <2>8. IsStream(p, g, t, d, FALSE)
    <3>1. TakenUpTo(p, d.hs) = UpTo(p, n)
      BY <1>4, <2>1, <2>7 DEF TakenUpTo, UpTo
    <3>2. d \in Contexts
      BY <2>6 DEF Sends
    <3>. QED  BY <1>14, <2>7, <3>1, <3>2
  <2>9. Complete(d) = {}
    <3>1. Len(d.bin) = 0
      <4>1. Len(q) = l - k /\ l = k
        BY <1>6, <1>10, <1>16
      <4>. HIDE DEF q, l, k
      <4>. QED  BY <1>9, <2>7, <4>1
    <3>. QED  BY <3>1 DEF Complete
  <2>10. TakeTurns(e, d, g) /\ (e = "server" /\ d.hs = 4 => g.hs < 4)
    BY <1>6, <1>16, <2>1, <2>7 DEF TakeTurns, Turns
  <2>. QED  BY <2>6, <2>7, <2>8, <2>9, <2>10 DEF IsGreeted, p
<1>. QED  BY <1>15, <1>16

LEMMA HandshakeIsGreeted ==
    ASSUME MaskFits, NEW e \in Sides, NEW b, NEW g, NEW t, NEW gclosed,
           IsFacing(e, b, g, t, gclosed), IsGreeting(b), NEW d, d = Handshake(b)
    PROVE  IsGreeted(e, b, d, g, t)
<1>1. b.hs < 4 /\ b \in Contexts /\ IsOwn(e, b) /\ TakeTurns(e, b, g)
      /\ IsStream(Peer(e), g, t, b, FALSE) /\ (b.state = "Connect" => e = "client")
  BY DEF IsFacing, Typed
<1>2. CASE b.state = "Connect" /\ b.hs = 0
  <2>1. d = [Put(b, Flights[1]) EXCEPT !.hs = 1]
    BY <1>2 DEF Handshake
  <2>2. e = "client"
    BY <1>1, <1>2
  <2>. QED  BY <1>2, <2>1, <2>2, GreetingBegins
<1>3. CASE ~ (b.state = "Connect" /\ b.hs = 0) /\ Complete(b) = {}
  <2>1. d = b
    BY <1>3 DEF Handshake
  <2>2. Sends(e, b, b)
    BY <1>1, SameIsKept DEF Sends, SameSent
  <2>3. ~ b.sentBye /\ b.hs # 4
    BY <1>1 DEF IsOwn
  <2>. QED  BY <1>1, <1>3, <2>1, <2>2, <2>3 DEF IsGreeted
<1>4. CASE ~ (b.state = "Connect" /\ b.hs = 0) /\ Complete(b) # {}
  BY <1>1, <1>4, GreetingGoesOn
<1>. QED  BY <1>2, <1>3, <1>4

LEMMA GreetingIsAnswer ==
    ASSUME MaskFits, NEW e \in Sides, NEW b, NEW g, NEW t, NEW gclosed,
           IsFacing(e, b, g, t, gclosed), IsGreeting(b), ~ b.read, NEW d, d = Handshake(b),
           NEW r, r = Result(IF HandshakeOver(d) THEN [d EXCEPT !.state = "Ready"] ELSE d, "Continue")
    PROVE  IsAnswer(e, b, r, g, t, gclosed)
<1>. DEFINE h == r.c
<1>1. IsGreeted(e, b, d, g, t)
  BY HandshakeIsGreeted
<1>2. /\ Sends(e, b, d) /\ IsStream(Peer(e), g, t, d, FALSE) /\ TakeTurns(e, d, g)
      /\ ~ d.sentBye /\ d.state = b.state /\ d.blocked = b.blocked /\ d.read = b.read
      /\ (d.hs < 4 \/ e = "server" => Complete(d) = {})
      /\ (e = "server" /\ d.hs = 4 => g.hs < 4)
  BY <1>1 DEF IsGreeted
<1>3. d \in Contexts /\ IsOwn(e, d) /\ d.hs \in 0 .. 4
  BY <1>2 DEF Sends, Contexts
<1>4. h = (IF d.hs = 4 THEN [d EXCEPT !.state = "Ready"] ELSE d) /\ r.action = "Continue"
  BY DEF Result, HandshakeOver
<1>. HIDE DEF h
<1>5. h \in Contexts
  <2>1. "Ready" \in States
    BY DEF States
  <2>. QED  BY <1>3, <1>4, <2>1 DEF Contexts
<1>6. /\ h.state = IF h.hs = 4 THEN "Ready" ELSE b.state
      /\ h.hs = d.hs /\ h.bin = d.bin /\ h.blocked = d.blocked /\ h.read = d.read
      /\ h.sentBye = d.sentBye /\ h.gotBye = d.gotBye /\ h.given = d.given
      /\ h.bout = d.bout /\ h.made = d.made /\ h.wedged = d.wedged /\ h.written = d.written
  BY <1>2, <1>3, <1>4 DEF Contexts
<1>7. Sends(e, b, h)
  <2>1. KeepsSent(e, d, h)
    BY <1>6, SameIsKept DEF SameSent
  <2>2. IsOwn(e, h)
    BY <1>3, <1>6 DEF IsOwn, IsMade
  <2>3. Sends(e, d, h)
    BY <1>5, <1>6, <2>1, <2>2 DEF Sends
  <2>. QED  BY <1>2, <2>3, SendsIsTransitive
<1>8. IsStream(Peer(e), g, t, h, FALSE)
  <2>1. SameTaken(d, h) /\ SameSent(g, g)
    BY <1>6 DEF SameTaken, SameSent
  <2>. QED  BY <1>2, <2>1, SameStream
<1>9. IsSide(e, h, FALSE, g, gclosed)
  <2>1. Complete(h) = Complete(d) /\ h.hs = d.hs /\ ~ h.read
    BY <1>2, <1>6 DEF Complete
  <2>2. TakeTurns(e, h, g)
    BY <1>2, <1>6 DEF TakeTurns
  <2>3. IsOwn(e, h) /\ h.hs \in 0 .. 4 /\ ~ h.sentBye
    BY <1>2, <1>3, <1>6, <1>7 DEF Sends
  <2>4. h.hs < 4 \/ e = "server" \/ h.read => Complete(h) = {}
    BY <1>2, <2>1
  <2>5. e = "server" /\ h.hs = 4 => g.hs < 4
    BY <1>2, <2>1
  <2>. QED  BY <1>6, <2>2, <2>3, <2>4, <2>5, TurnIsSide
<1>10. h.state # "None"
  BY <1>6 DEF IsFacing
<1>. QED  BY <1>2, <1>4, <1>6, <1>7, <1>8, <1>9, <1>10 DEF IsAnswer, h

\* onNewData(), with or without an answer.
LEMMA NewDataIsAnswer ==
    ASSUME MaskFits, NEW e \in Sides, NEW b, NEW g, NEW t, NEW gclosed,
           IsFacing(e, b, g, t, gclosed), ~ b.read, NEW answer \in Answers,
           NEW n \in IF b.state = "Ready" THEN Reads(b, answer) ELSE {0},
           NEW r, r = NewData(b, n, answer) \/ r = NewDataNoAnswer(b, n, answer),
           r.action # "Abort"
    PROVE  IsAnswer(e, b, r, g, t, gclosed)
<1>1. b.state \in {"Connect", "Accept", "Ready", "Shutdown"}
  BY DEF IsFacing, Typed, Contexts, States
<1>2. CASE r = NewData(b, n, answer)
  <2>1. CASE b.state \in {"Connect", "Accept"}
    <3>1. IsGreeting(b)
      BY <2>1 DEF IsGreeting
    <3>2. r = Result(IF HandshakeOver(Handshake(b)) THEN [Handshake(b) EXCEPT !.state = "Ready"]
                     ELSE Handshake(b), "Continue")
      BY <1>2, <2>1 DEF NewData
    <3>. QED  BY <3>1, <3>2, GreetingIsAnswer
  <2>2. CASE b.state = "Ready"
    <3>1. r = ReadData(b, n, answer) /\ n \in Reads(b, answer)
      BY <1>2, <2>2 DEF NewData
    <3>. QED  BY <2>2, <3>1, ReadDataIsAnswer
  <2>3. CASE b.state = "Shutdown"
    <3>1. r = FinishShutdown(b)
      BY <1>2, <2>3 DEF NewData
    <3>. QED  BY <2>3, <3>1, FinishIsAnswer
  <2>. QED  BY <1>1, <2>1, <2>2, <2>3
<1>3. CASE r = NewDataNoAnswer(b, n, answer)
  <2>1. b.state = "Ready" /\ answer \in {"Continue", "Respond"} /\ r = ReadData(b, n, "Continue")
    <3>1. Result(b, "Abort").action = "Abort"
      BY DEF Result
    <3>2. b.state = "Ready" /\ answer \notin {"Close", "Abort"}
      BY <1>3, <3>1 DEF NewDataNoAnswer
    <3>. QED  BY <1>3, <3>2 DEF NewDataNoAnswer, Answers
  <2>2. n \in Reads(b, "Continue") /\ "Continue" \in Answers
    BY <2>1 DEF Reads, Answers
  <2>. QED  BY <2>1, <2>2, ReadDataIsAnswer
<1>. QED  BY <1>2, <1>3

LEMMA KeptIsSide ==
    ASSUME NEW e \in Sides, NEW c, NEW d, NEW g, NEW closed, NEW gclosed, Kept(c, d), IsOwn(e, d),
           c.state # "None", IsSide(e, c, closed, g, gclosed)
    PROVE  IsSide(e, d, closed, g, gclosed)
<1>1. Complete(d) = Complete(c)
  BY DEF Kept, Complete
<1>2. StateIsSound(e, d, closed)
  BY <1>1 DEF Kept, IsSide, StateIsSound, IsGreeting
<1>3. TakeTurns(e, d, g)
  BY DEF Kept, IsSide, TakeTurns
<1>4. SideIsRead(e, d, closed, g) /\ PeerIsRead(e, d, g, gclosed)
  BY <1>1 DEF Kept, IsSide, SideIsRead, PeerIsRead, ByesAreRead, ServerIsRead
<1>. QED  BY <1>2, <1>3, <1>4 DEF IsSide

\* onAcked().
LEMMA AckedIsAnswer ==
    ASSUME MaskFits, NEW e \in Sides, NEW c, NEW g, NEW t, NEW gclosed,
           IsFacing(e, c, g, t, gclosed), IsSide(e, c, FALSE, g, gclosed), NEW answer \in Answers,
           NEW r, r = Acked(c, answer), r.action # "Abort"
    PROVE  IsAnswer(e, c, r, g, t, gclosed) /\ ~ r.c.blocked
<1>. DEFINE d == [c EXCEPT !.blocked = FALSE]
            h == r.c
<1>1. c \in Contexts /\ IsOwn(e, c) /\ c.state # "None" /\ IsStream(Peer(e), g, t, c, FALSE)
      /\ SameSent(g, g)
  BY DEF IsFacing, Typed, SameSent
<1>2. d \in Contexts
  BY <1>1 DEF Contexts
<1>3. /\ ~ d.blocked /\ d.state = c.state /\ d.bin = c.bin /\ d.hs = c.hs /\ d.given = c.given
      /\ d.sentBye = c.sentBye /\ d.gotBye = c.gotBye /\ d.read = c.read
      /\ d.bout = c.bout /\ d.made = c.made /\ d.wedged = c.wedged /\ d.written = c.written
  BY <1>1 DEF Contexts
<1>4. \/ r = Result(d, "Continue")
      \/ r = Result(WriteAnswer(d), "Continue")
      \/ r = AbortOrClose(d, answer)
  BY DEF Acked
<1>. HIDE DEF d, h
<1>5. Sends(e, c, d) /\ Kept(c, d) /\ IsOwn(e, d)
  <2>1. KeepsSent(e, c, d)
    BY <1>3, SameIsKept DEF SameSent
  <2>2. IsOwn(e, d)
    BY <1>1, <1>3 DEF IsOwn, IsMade
  <2>3. Kept(c, d)
    BY <1>3 DEF Kept
  <2>. QED  BY <1>2, <1>3, <2>1, <2>2, <2>3 DEF Sends
<1>6. ASSUME NEW w, r = Result(w, "Continue"), Sends(e, c, w), Kept(c, w), ~ w.blocked
      PROVE  IsAnswer(e, c, r, g, t, gclosed) /\ ~ r.c.blocked
  <2>1. r.c = w /\ r.action = "Continue"
    BY <1>6 DEF Result
  <2>2. IsStream(Peer(e), g, t, w, FALSE)
    <3>1. SameTaken(c, w)
      BY <1>6 DEF SameTaken, Kept
    <3>. QED  BY <1>1, <3>1, SameStream
  <2>3. IsSide(e, w, FALSE, g, gclosed)
    BY <1>1, <1>6, KeptIsSide DEF Sends
  <2>4. w.state # "None"
    BY <1>1, <1>6 DEF Kept
  <2>. QED  BY <1>6, <2>1, <2>2, <2>3, <2>4 DEF IsAnswer
<1>7. CASE r = Result(d, "Continue")
  BY <1>3, <1>5, <1>6, <1>7
<1>8. CASE r = Result(WriteAnswer(d), "Continue")
  <2>. DEFINE w == WriteAnswer(d)
  <2>1. w = WriteOf(d, "short") /\ "short" \in DataKinds
    BY DEF WriteAnswer, WriteOf, DataKinds
  <2>2. Sends(e, d, w) /\ Kept(d, w) /\ w.blocked = d.blocked
    BY <1>2, <1>5, <2>1, WriteIsKept
  <2>. HIDE DEF w
  <2>3. Sends(e, c, w)
    BY <1>5, <2>2, SendsIsTransitive
  <2>4. Kept(c, w)
    BY <1>5, <2>2 DEF Kept
  <2>. QED  BY <1>3, <1>6, <1>8, <2>2, <2>3, <2>4 DEF w
<1>9. CASE r = AbortOrClose(d, answer)
  <2>1. /\ Sends(e, d, h) /\ SameTaken(d, h) /\ r.action = "Continue"
        /\ h.state = "Shutdown" /\ h.sentBye /\ ~ h.gotBye /\ h.hs = 4 /\ d.hs = 4
        /\ Complete(d) = {} /\ ~ d.gotBye /\ h.blocked = d.blocked
    BY <1>2, <1>5, <1>9, CloseIsKept DEF h
  <2>2. Sends(e, c, h) /\ h \in Contexts /\ IsOwn(e, h)
    BY <1>5, <2>1, SendsIsTransitive DEF Sends
  <2>3. IsStream(Peer(e), g, t, h, FALSE)
    <3>1. SameTaken(c, h)
      BY <1>3, <2>1 DEF SameTaken
    <3>. QED  BY <1>1, <3>1, SameStream
  <2>4. Complete(h) = {} /\ h.bin = c.bin /\ c.hs = 4 /\ ~ c.gotBye
    BY <1>3, <2>1 DEF Complete, SameTaken
  <2>5. c.state \in {"Ready", "Shutdown"}
    BY <1>1, <2>4 DEF IsFacing, IsGreeting, Contexts, States
  <2>6. IsSide(e, h, FALSE, g, gclosed)
    <3>1. CASE c.state = "Ready"
      BY <2>1, <2>2, <2>3, <2>4, <3>1, ShutdownIsSide
    <3>2. CASE c.state = "Shutdown"
      <4>1. StateIsSound(e, h, FALSE)
        BY <2>1 DEF StateIsSound, IsGreeting
      <4>2. TakeTurns(e, h, g)
        BY <2>1, <2>4 DEF IsSide, TakeTurns
      <4>3. SideIsRead(e, h, FALSE, g) /\ PeerIsRead(e, h, g, gclosed)
        BY <2>1, <2>4, <3>2 DEF IsSide, SideIsRead, PeerIsRead, ByesAreRead, ServerIsRead
      <4>. QED  BY <2>2, <4>1, <4>2, <4>3 DEF IsSide
    <3>. QED  BY <2>5, <3>1, <3>2
  <2>. QED  BY <1>3, <2>1, <2>2, <2>3, <2>6 DEF IsAnswer, h
<1>. QED  BY <1>4, <1>7, <1>8, <1>9

-----------------------------------------------------------------------------
(***************************************************************************)
(* The steps.  One side e moves, from its context c to d; its peer g, of   *)
(* which the segments t are under way, is left alone.                      *)
(***************************************************************************)

ArePeers(e, c, s, closed, g, t, gclosed) ==
    /\ IsStream(e, c, s, g, gclosed) /\ IsStream(Peer(e), g, t, c, closed)
    /\ IsSide(e, c, closed, g, gclosed)
    /\ IsOwn(Peer(e), g) /\ StateIsSound(Peer(e), g, gclosed)

\* What the invariant says of a side and its peer.
LEMMA SidesArePeers ==
    ASSUME SslInv, NEW e \in Sides
    PROVE  /\ ArePeers(e, ctx[e], net[e], fin[e], ctx[Peer(e)], net[Peer(e)], fin[Peer(e)])
           /\ IsWoken(e) /\ IsWoken(Peer(e))
           /\ Typed(ctx[e], net[e], ctx[Peer(e)]) /\ Typed(ctx[Peer(e)], net[Peer(e)], ctx[e])
           /\ fin[e] \in BOOLEAN /\ fin[Peer(e)] \in BOOLEAN
<1>. DEFINE f == Peer(e)
<1>1. f \in Sides /\ f # e /\ Peer(f) = e
  BY SidesAre
<1>2. /\ IsStream(e, ctx[e], net[e], ctx[f], fin[f]) /\ IsOwn(e, ctx[e])
      /\ StateIsSound(e, ctx[e], fin[e]) /\ TakeTurns(e, ctx[e], ctx[f]) /\ IsWoken(e)
  BY DEF SslInv
<1>3. /\ IsStream(f, ctx[f], net[f], ctx[Peer(f)], fin[Peer(f)]) /\ IsOwn(f, ctx[f])
      /\ StateIsSound(f, ctx[f], fin[f]) /\ IsWoken(f)
  BY <1>1 DEF SslInv
<1>4. SideIsRead(e, ctx[e], fin[e], ctx[f]) /\ PeerIsRead(e, ctx[e], ctx[f], fin[f])
  BY SidesAre DEF SslInv, SideIsRead, PeerIsRead
<1>5. SslTypeOK
  BY DEF SslInv
<1>. HIDE DEF f
<1>6. /\ Typed(ctx[e], net[e], ctx[f]) /\ Typed(ctx[f], net[f], ctx[e])
      /\ fin[e] \in BOOLEAN /\ fin[f] \in BOOLEAN
  BY <1>1, <1>5 DEF SslTypeOK, Typed
<1>7. IsSide(e, ctx[e], fin[e], ctx[f], fin[f])
  BY <1>2, <1>4 DEF IsSide
<1>8. IsStream(f, ctx[f], net[f], ctx[e], fin[e])
  BY <1>1, <1>3
<1>. QED  BY <1>2, <1>3, <1>6, <1>7, <1>8 DEF ArePeers, f

\* And what the invariant needs after a step.
LEMMA PeersAreSides ==
    ASSUME SslTypeOK', NEW e \in Sides,
           ArePeers(e, ctx'[e], net'[e], fin'[e], ctx'[Peer(e)], net'[Peer(e)], fin'[Peer(e)]),
           IsWoken(e)', IsWoken(Peer(e))'
    PROVE  SslInv'
<1>. DEFINE f == Peer(e)
<1>1. f \in Sides /\ f # e /\ Peer(f) = e /\ (e = "client" \/ f = "client")
      /\ (e = "client" => f = "server") /\ (f = "client" => e = "server")
  BY SidesAre
<1>2. /\ IsStream(e, ctx'[e], net'[e], ctx'[f], fin'[f]) /\ IsStream(f, ctx'[f], net'[f], ctx'[e], fin'[e])
      /\ IsOwn(e, ctx'[e]) /\ StateIsSound(e, ctx'[e], fin'[e]) /\ TakeTurns(e, ctx'[e], ctx'[f])
      /\ SideIsRead(e, ctx'[e], fin'[e], ctx'[f]) /\ PeerIsRead(e, ctx'[e], ctx'[f], fin'[f])
      /\ IsOwn(f, ctx'[f]) /\ StateIsSound(f, ctx'[f], fin'[f])
  BY DEF ArePeers, IsSide
<1>3. TakeTurns(f, ctx'[f], ctx'[e])
  BY <1>1, <1>2 DEF TakeTurns
<1>4. \A x \in Sides : x = e \/ x = f
  BY <1>1, SidesAre
<1>5. /\ ByesAreRead(ctx'["client"], ctx'["server"], fin'["client"])
      /\ ServerIsRead(ctx'["server"], fin'["server"])
  BY <1>1, <1>2 DEF SideIsRead, PeerIsRead
<1>6. IsWoken(e)' /\ IsWoken(f)'
  OBVIOUS
<1>. HIDE DEF f
<1>7. \A x \in Sides :
        /\ IsStream(x, ctx'[x], net'[x], ctx'[Peer(x)], fin'[Peer(x)])
        /\ IsOwn(x, ctx'[x]) /\ StateIsSound(x, ctx'[x], fin'[x])
        /\ TakeTurns(x, ctx'[x], ctx'[Peer(x)]) /\ IsWoken(x)'
  <2>1. SUFFICES ASSUME NEW x \in Sides
                 PROVE  /\ IsStream(x, ctx'[x], net'[x], ctx'[Peer(x)], fin'[Peer(x)])
                        /\ IsOwn(x, ctx'[x]) /\ StateIsSound(x, ctx'[x], fin'[x])
                        /\ TakeTurns(x, ctx'[x], ctx'[Peer(x)]) /\ IsWoken(x)'
    OBVIOUS
  <2>2. CASE x = e
    BY <1>2, <1>6, <2>2 DEF f
  <2>3. CASE x = f
    BY <1>1, <1>2, <1>3, <1>6, <2>3
  <2>. QED  BY <1>4, <2>2, <2>3
<1>. QED  BY <1>5, <1>7 DEF SslInv

\* A side that nothing happens to.
LEMMA WokenIsKept ==
    ASSUME NEW e \in Sides, IsWoken(e), ctx'[e] = ctx[e], InFlight(e)' = InFlight(e),
           open'[e] = open[e], shut' = shut, over' = "no" => over = "no", fin'[e] = fin[e]
    PROVE  IsWoken(e)'
<1>1. InFlight(e)' <= NSeg /\ (ctx'[e].state = "None" => InFlight(e)' = 0)
      /\ (~ open'[e] => shut' > 0)
  BY DEF IsWoken
<1>2. shut' = 0 /\ over' = "no" /\ ~ fin'[e] /\ ~ ctx'[e].wedged =>
            (Pending(ctx'[e]) > 0 \/ ctx'[e].blocked => InFlight(e)' > 0)
  BY DEF IsWoken
<1>. QED  BY <1>1, <1>2 DEF IsWoken

\* What a side sends, if anything, goes from bout into a segment.
Moves(c, d, s, u) ==
    /\ Kept(c, d) /\ d.wedged = c.wedged
    /\ (u = s /\ SameSent(c, d)) \/ (\E n : Flushed(c, d, s, u, n))

LEMMA MoveKeeps ==
    ASSUME MaskFits, NEW e \in Sides, NEW c, NEW s, NEW closed, NEW g, NEW t, NEW gclosed,
           ArePeers(e, c, s, closed, g, t, gclosed), Typed(c, s, g), c.state # "None",
           NEW d \in Contexts, NEW u \in Seq(Seq(Pieces)), Moves(c, d, s, u)
    PROVE  ArePeers(e, d, u, closed, g, t, gclosed)
<1>1. IsStream(e, c, s, g, gclosed) /\ IsSide(e, c, closed, g, gclosed) /\ IsOwn(e, c)
      /\ IsStream(Peer(e), g, t, c, closed)
  BY DEF ArePeers, IsSide
<1>0. Kept(c, d) /\ d.wedged = c.wedged
  BY DEF Moves
<1>2. IsStream(e, d, u, g, gclosed)
  <2>1. CASE u = s /\ SameSent(c, d)
    <3>1. SameTaken(g, g)
      BY DEF SameTaken
    <3>. QED  BY <1>1, <2>1, <3>1, SameStream
  <2>2. ASSUME NEW n, Flushed(c, d, s, u, n)
        PROVE  IsStream(e, d, u, g, gclosed)
    <3>1. Typed(d, u, g)
      BY DEF Typed
    <3>. QED  BY <1>1, <2>2, <3>1, FlushKeepsStream
  <2>. QED  BY <2>1, <2>2 DEF Moves
<1>3. d.made = c.made
  BY DEF Moves, SameSent, Flushed
<1>4. IsOwn(e, d)
  BY <1>0, <1>1, <1>3 DEF IsOwn, IsMade, Kept
<1>5. IsSide(e, d, closed, g, gclosed)
  BY <1>0, <1>1, <1>4, KeptIsSide
<1>6. IsStream(Peer(e), g, t, d, closed)
  <2>1. SameTaken(c, d) /\ SameSent(g, g)
    BY <1>0 DEF Kept, SameTaken, SameSent
  <2>. QED  BY <1>1, <2>1, SameStream
<1>. QED  BY <1>2, <1>5, <1>6 DEF ArePeers

\* What a side has before it that did not close.
LEMMA FacingIs ==
    ASSUME SslInv, NEW e \in Sides, ctx[e].state # "None", ~ fin[e]
    PROVE  /\ IsFacing(e, ctx[e], ctx[Peer(e)], net[Peer(e)], fin[Peer(e)])
           /\ IsSide(e, ctx[e], FALSE, ctx[Peer(e)], fin[Peer(e)])
<1>. DEFINE c == ctx[e]
            g == ctx[Peer(e)]
            t == net[Peer(e)]
            gclosed == fin[Peer(e)]
<1>1. /\ IsStream(e, c, net[e], g, gclosed) /\ IsStream(Peer(e), g, t, c, FALSE)
      /\ IsSide(e, c, FALSE, g, gclosed) /\ Typed(g, t, c)
      /\ IsOwn(Peer(e), g) /\ StateIsSound(Peer(e), g, gclosed)
  <2>1. fin[e] = FALSE
    BY SidesArePeers
  <2>. QED  BY <2>1, SidesArePeers DEF ArePeers
<1>2. IsOwn(e, c) /\ TakeTurns(e, c, g) /\ PeerIsRead(e, c, g, gclosed) /\ StateIsSound(e, c, FALSE)
  BY <1>1 DEF IsSide
<1>3. g.gotBye => c.sentBye
  BY <1>1 DEF IsStream
<1>4. c.state # "None"
  OBVIOUS
<1>. HIDE DEF c, g, t, gclosed
<1>5. /\ (IsGreeting(c) <=> c.hs < 4)
      /\ (c.state = "Connect" => e = "client")
      /\ (c.state = "Accept" => e = "server")
      /\ (c.state = "Ready" /\ c.sentBye => c.gotBye)
      /\ (c.state = "Shutdown" /\ ~ c.wedged => c.sentBye /\ ~ c.gotBye)
  BY <1>2 DEF StateIsSound
<1>6. IsFacing(e, c, g, t, gclosed)
  BY <1>1, <1>2, <1>3, <1>4, <1>5 DEF IsFacing
<1>. QED  BY <1>1, <1>6 DEF c, g, t, gclosed

\* A side whose context becomes d, and whose segments become u.
LEMMA SideMoves ==
    ASSUME SslInv, NEW e \in Sides, NEW d \in Contexts, NEW u \in Seq(Seq(Pieces)),
           ctx' = [ctx EXCEPT ![e] = d], net' \in [Sides -> Seq(Seq(Pieces))], net'[e] = u,
           acks' \in [Sides -> Nat], open' = open, fin' \in [Sides -> BOOLEAN],
           fin'[Peer(e)] = fin[Peer(e)], over' = over, shut' = shut,
           InFlight(Peer(e))' = InFlight(Peer(e)),
           ArePeers(e, d, u, fin'[e], ctx[Peer(e)], net'[Peer(e)], fin[Peer(e)]), IsWoken(e)'
    PROVE  SslInv'
<1>1. Peer(e) \in Sides /\ Peer(e) # e
  BY SidesAre
<1>2. SslTypeOK'
  BY DEF SslInv, SslTypeOK
<1>3. ctx'[e] = d /\ ctx'[Peer(e)] = ctx[Peer(e)]
  BY <1>1 DEF SslInv, SslTypeOK
<1>4. IsWoken(Peer(e))'
  <2>1. IsWoken(Peer(e))
    BY SidesArePeers
  <2>. QED  BY <1>1, <1>3, <2>1, WokenIsKept
<1>. QED  BY <1>2, <1>3, <1>4, PeersAreSides

\* flush() of the API, after an operation that made d of the context.
LEMMA FlushKeepsInv ==
    ASSUME MaskFits, SslInv, NEW e \in Sides, over = "no",
           NEW d, Sends(e, ctx[e], d), d.blocked => ctx[e].blocked, d.state # "None",
           IsStream(Peer(e), ctx[Peer(e)], net[Peer(e)], d, fin[e]),
           IsSide(e, d, fin[e], ctx[Peer(e)], fin[Peer(e)]),
           Flush(e, d), UNCHANGED <<acks, open, fin, over, shut>>
    PROVE  SslInv'
<1>. DEFINE f == Peer(e)
            n == IF open[e] THEN Least(Mss, Pending(d)) ELSE 0
            s == net[e]
<1>1. f \in Sides /\ f # e
  BY SidesAre
<1>2. d \in Contexts /\ KeepsSent(e, ctx[e], d) /\ (ctx[e].wedged => d.wedged)
  BY DEF Sends
<1>3. /\ ArePeers(e, ctx[e], s, fin[e], ctx[f], net[f], fin[f])
      /\ Typed(ctx[e], s, ctx[f]) /\ IsWoken(e)
  BY SidesArePeers
<1>4. ArePeers(e, d, s, fin[e], ctx[f], net[f], fin[f]) /\ Typed(d, s, ctx[f])
  BY <1>2, <1>3 DEF ArePeers, KeepsSent, Typed
<1>5. Pending(d) \in Nat /\ n \in 0 .. Pending(d) /\ Mss \in Nat \ {0} /\ NSeg \in Nat \ {0}
      /\ (open[e] /\ Pending(d) > 0 => n > 0)
  <2>1. Pending(d) \in Nat /\ Mss \in Nat \ {0} /\ NSeg \in Nat \ {0}
    BY <1>2, ContextIs, SslAssumption
  <2>. QED  BY <2>1 DEF Least
<1>6. s \in Seq(Seq(Pieces)) /\ Len(s) \in Nat /\ acks[e] \in Nat /\ InFlight(e) = Len(s) + acks[e]
      /\ net \in [Sides -> Seq(Seq(Pieces))] /\ acks \in [Sides -> Nat]
      /\ fin \in [Sides -> BOOLEAN] /\ ctx \in [Sides -> Contexts] /\ shut \in Nat
  BY DEF SslInv, SslTypeOK, InFlight
<1>7. InFlight(e) <= NSeg /\ (~ open[e] => shut > 0)
      /\ (shut = 0 /\ ~ fin[e] /\ ~ ctx[e].wedged /\ ctx[e].blocked => InFlight(e) > 0)
  BY <1>3 DEF IsWoken
<1>. HIDE DEF f, s, n
<1>8. ASSUME NEW b \in Contexts, NEW u \in Seq(Seq(Pieces)), Moves(d, b, s, u),
             ctx' = [ctx EXCEPT ![e] = b], net' = [net EXCEPT ![e] = u],
             Len(u) + acks[e] <= NSeg,
             shut = 0 /\ ~ fin[e] /\ ~ b.wedged /\ (Pending(b) > 0 \/ b.blocked) => Len(u) + acks[e] > 0
      PROVE  SslInv'
  <2>1. ArePeers(e, b, u, fin[e], ctx[f], net[f], fin[f])
    BY <1>4, <1>8, MoveKeeps DEF f
  <2>2. net' \in [Sides -> Seq(Seq(Pieces))] /\ net'[e] = u /\ net'[f] = net[f] /\ ctx'[e] = b
        /\ ctx'[f] = ctx[f]
    BY <1>1, <1>6, <1>8
  <2>3. InFlight(e)' = Len(u) + acks[e] /\ InFlight(f)' = InFlight(f)
    BY <2>2 DEF InFlight
  <2>4. b.state # "None"
    BY <1>8 DEF Kept, Moves
  <2>5. IsWoken(e)'
    BY <1>7, <1>8, <2>2, <2>3, <2>4 DEF IsWoken
  <2>. QED  BY <1>3, <1>6, <1>8, <2>1, <2>2, <2>3, <2>5, SideMoves DEF f
<1>9. CASE Pending(d) > 0 /\ InFlight(e) = NSeg
  <2>. DEFINE b == [d EXCEPT !.blocked = TRUE]
  <2>1. ctx' = [ctx EXCEPT ![e] = b] /\ net' = net
    BY <1>5, <1>9 DEF Flush
  <2>2. b \in Contexts /\ Kept(d, b) /\ SameSent(d, b) /\ b.wedged = d.wedged
    BY <1>2 DEF Contexts, Kept, SameSent
  <2>3. net' = [net EXCEPT ![e] = s]
    BY <1>6, <2>1 DEF s
  <2>4. Moves(d, b, s, s)
    BY <2>2 DEF Moves
  <2>5. Len(s) + acks[e] <= NSeg /\ Len(s) + acks[e] > 0
    BY <1>5, <1>6, <1>9
  <2>. HIDE DEF b
  <2>. QED  BY <1>6, <1>8, <2>1, <2>2, <2>3, <2>4, <2>5
<1>10. CASE Pending(d) > 0 /\ InFlight(e) < NSeg /\ n > 0
  <2>. DEFINE b == [d EXCEPT !.bout = Skip(d.bout, n)]
              u == Append(s, Peek(d.bout, n))
  <2>1. ctx' = [ctx EXCEPT ![e] = b] /\ net' = [net EXCEPT ![e] = u]
    BY <1>5, <1>6, <1>10 DEF Flush, n, s
  <2>2. n \in 1 .. Pending(d) /\ n \in 0 .. Available(d.bout) /\ d.bout \in Buffers
    BY <1>2, <1>5, <1>10, ContextIs
  <2>3. Skip(d.bout, n) \in Buffers /\ Peek(d.bout, n) \in Seq(Pieces)
    BY <2>2, SkipIs, PeekIs
  <2>4. b \in Contexts /\ Kept(d, b) /\ b.wedged = d.wedged
    BY <1>2, <2>3 DEF Contexts, Kept
  <2>5. Flushed(d, b, s, u, n)
    BY <1>2, <2>2 DEF Flushed, Contexts
  <2>6. u \in Seq(Seq(Pieces)) /\ Len(u) = Len(s) + 1
    BY <1>6, <2>3, AppendProperties
  <2>. HIDE DEF b, u
  <2>7. Moves(d, b, s, u)
    BY <2>4, <2>5 DEF Moves
  <2>8. Len(u) + acks[e] <= NSeg /\ Len(u) + acks[e] > 0
    BY <1>5, <1>6, <1>10, <2>6
  <2>. QED  BY <1>8, <2>1, <2>4, <2>6, <2>7, <2>8
<1>11. CASE ~ (Pending(d) > 0 /\ InFlight(e) = NSeg)
            /\ ~ (Pending(d) > 0 /\ InFlight(e) < NSeg /\ n > 0)
  <2>1. ctx' = [ctx EXCEPT ![e] = d] /\ net' = net
    BY <1>5, <1>6, <1>11 DEF Flush, n
  <2>2. Kept(d, d) /\ SameSent(d, d)
    BY DEF Kept, SameSent
  <2>3. net' = [net EXCEPT ![e] = s]
    BY <1>6, <2>1 DEF s
  <2>4. Pending(d) = 0 \/ shut > 0
    BY <1>5, <1>6, <1>7, <1>11
  <2>5. Moves(d, d, s, s)
    BY <2>2 DEF Moves
  <2>6. Len(s) + acks[e] <= NSeg
    BY <1>6, <1>7
  <2>7. shut = 0 /\ ~ fin[e] /\ ~ d.wedged /\ (Pending(d) > 0 \/ d.blocked) => Len(s) + acks[e] > 0
    BY <1>2, <1>5, <1>6, <1>7, <2>4
  <2>. QED  BY <1>2, <1>6, <1>8, <2>1, <2>3, <2>5, <2>6, <2>7
<1>. QED  BY <1>9, <1>10, <1>11

\* What TCP makes of the answer r of a callback, for a context that was b then; w
\* of the segments of the side are in flight when it answers.
LEMMA ReplyKeepsInv ==
    ASSUME MaskFits, SslInv, NEW e \in Sides, over = "no", ~ fin[e], shut' = shut,
           NEW b, Sends(e, ctx[e], b),
           NEW to \in [Sides -> Seq(Seq(Pieces))], to[e] = net[e],
           NEW acked \in [Sides -> Nat], Len(to[Peer(e)]) + acked[Peer(e)] = InFlight(Peer(e)),
           NEW r, NEW can \in BOOLEAN, Reply(e, r, can, to, acked), r.action # "Abort",
           IsAnswer(e, b, r, ctx[Peer(e)], to[Peer(e)], fin[Peer(e)]),
           NEW w \in Nat, w = Len(net[e]) + acked[e], w <= NSeg, can => w < NSeg,
           shut = 0 /\ ~ can => w > 0, shut = 0 /\ ~ r.c.wedged /\ r.c.blocked => w > 0
    PROVE  SslInv'
<1>. DEFINE f == Peer(e)
            d == r.c
            n == IF can /\ r.action = "Continue" THEN Least(Mss, Pending(d)) ELSE 0
            s == net[e]
            h == [d EXCEPT !.bout = Skip(@, n)]
            u == IF n > 0 THEN Append(s, Peek(d.bout, n)) ELSE s
            closed == r.action = "Close"
<1>1. f \in Sides /\ f # e
  BY SidesAre
<1>2. /\ Sends(e, b, d) /\ d.state # "None" /\ r.action \in {"Continue", "Close"}
      /\ IsStream(f, ctx[f], to[f], d, closed) /\ IsSide(e, d, closed, ctx[f], fin[f])
  <2>1. /\ Sends(e, b, d) /\ d.state # "None" /\ r.action \in {"Continue", "Close"}
    BY DEF IsAnswer
  <2>2. CASE r.action = "Continue"
    <3>1. closed = FALSE
      BY <2>2
    <3>2. IsStream(f, ctx[f], to[f], d, FALSE) /\ IsSide(e, d, FALSE, ctx[f], fin[f])
      BY <2>2 DEF IsAnswer
    <3>. QED  BY <2>1, <3>1, <3>2
  <2>3. CASE r.action = "Close"
    <3>1. closed = TRUE
      BY <2>3
    <3>2. IsStream(f, ctx[f], to[f], d, TRUE) /\ IsSide(e, d, TRUE, ctx[f], fin[f])
      BY <2>3 DEF IsAnswer
    <3>. QED  BY <2>1, <3>1, <3>2
  <2>. QED  BY <2>1, <2>2, <2>3
<1>3. Sends(e, ctx[e], d)
  BY <1>2, SendsIsTransitive
<1>4. d \in Contexts /\ KeepsSent(e, ctx[e], d)
  BY <1>3 DEF Sends
<1>5. /\ ArePeers(e, ctx[e], s, fin[e], ctx[f], net[f], fin[f])
      /\ Typed(ctx[e], s, ctx[f]) /\ IsWoken(e) /\ fin[e] = FALSE
  BY SidesArePeers
<1>6. ArePeers(e, d, s, closed, ctx[f], to[f], fin[f]) /\ Typed(d, s, ctx[f])
  BY <1>2, <1>4, <1>5 DEF ArePeers, KeepsSent, Typed
<1>7. Pending(d) \in Nat /\ n \in 0 .. Pending(d) /\ Mss \in Nat \ {0} /\ NSeg \in Nat \ {0}
      /\ (can /\ r.action = "Continue" /\ Pending(d) > 0 => n > 0) /\ (n > 0 => can)
  <2>1. Pending(d) \in Nat /\ Mss \in Nat \ {0} /\ NSeg \in Nat \ {0}
    BY <1>4, ContextIs, SslAssumption
  <2>. HIDE DEF d
  <2>. QED  BY <2>1 DEF Least
<1>8. s \in Seq(Seq(Pieces)) /\ Len(s) \in Nat /\ acks \in [Sides -> Nat]
      /\ fin \in [Sides -> BOOLEAN] /\ ctx \in [Sides -> Contexts] /\ shut \in Nat
  <2>1. SslTypeOK
    BY DEF SslInv
  <2>2. net \in [Sides -> Seq(Seq(Pieces))]
    BY <2>1 DEF SslTypeOK
  <2>3. s \in Seq(Seq(Pieces))
    BY <2>2
  <2>. QED  BY <2>1, <2>3 DEF SslTypeOK
<1>9. /\ net' = (IF n > 0 THEN [to EXCEPT ![e] = Append(@, Peek(d.bout, n))] ELSE to)
      /\ ctx' = [ctx EXCEPT ![e] = h] /\ fin' = [fin EXCEPT ![e] = closed]
      /\ acks' = acked /\ open' = open /\ over' = over
  BY DEF Reply
<1>10. h \in Contexts /\ u \in Seq(Seq(Pieces)) /\ Moves(d, h, s, u)
       /\ Len(u) = (IF n > 0 THEN Len(s) + 1 ELSE Len(s)) /\ Pending(h) = Pending(d) - n
  <2>1. n \in 0 .. Available(d.bout) /\ d.bout \in Buffers /\ Pending(d) = Available(d.bout)
    BY <1>4, <1>7, ContextIs
  <2>2. Skip(d.bout, n) \in Buffers /\ Available(Skip(d.bout, n)) = Available(d.bout) - n
    BY <2>1, SkipIs
  <2>3. Peek(d.bout, n) \in Seq(Pieces)
    BY <2>1, PeekIs
  <2>4. h = [d EXCEPT !.bout = Skip(d.bout, n)]
    OBVIOUS
  <2>. HIDE DEF n, d, s, h
  <2>5. /\ h \in Contexts /\ h.bout = Skip(d.bout, n) /\ Kept(d, h) /\ h.wedged = d.wedged
        /\ h.made = d.made /\ h.sentBye = d.sentBye /\ h.written = d.written
    BY <1>4, <2>2, <2>4 DEF Contexts, Kept
  <2>6. Pending(h) = Pending(d) - n
    BY <2>1, <2>2, <2>5 DEF Pending
  <2>7. CASE n > 0
    <3>1. u = Append(s, Peek(d.bout, n))
      BY <2>7
    <3>2. u \in Seq(Seq(Pieces)) /\ Len(u) = Len(s) + 1
      BY <1>8, <2>3, <3>1, AppendProperties
    <3>3. n \in 1 .. Pending(d)
      BY <1>7, <2>7
    <3>. HIDE DEF u
    <3>4. Flushed(d, h, s, u, n)
      BY <2>5, <3>1, <3>3 DEF Flushed
    <3>5. Moves(d, h, s, u)
      BY <2>5, <3>4 DEF Moves
    <3>. QED  BY <2>5, <2>6, <2>7, <3>2, <3>5
  <2>8. CASE ~ (n > 0)
    <3>1. u = s /\ n = 0
      BY <1>7, <2>8
    <3>2. h.bout = d.bout
      <4>1. Least(0, Available(d.bout)) = 0
        BY <1>7, <2>1 DEF Least
      <4>2. d.bout.read \in Nat /\ d.bout \in [data : [0 .. Size - 1 -> Pieces], read : Nat, write : Nat]
        BY <2>1 DEF Buffers
      <4>3. Skip(d.bout, n) = [d.bout EXCEPT !.read = d.bout.read + 0]
        BY <3>1, <4>1 DEF Skip
      <4>4. d.bout.read + 0 = d.bout.read
        BY <4>2
      <4>5. [d.bout EXCEPT !.read = d.bout.read] = d.bout
        BY <4>2
      <4>. QED  BY <2>5, <4>3, <4>4, <4>5
    <3>3. Moves(d, h, s, u)
      BY <2>5, <3>1, <3>2 DEF Moves, SameSent
    <3>. QED  BY <1>8, <2>5, <2>6, <2>8, <3>1, <3>3
  <2>. QED  BY <2>7, <2>8
<1>11. ArePeers(e, h, u, closed, ctx[f], to[f], fin[f])
  BY <1>2, <1>6, <1>10, MoveKeeps DEF f
<1>12. h.blocked = d.blocked /\ h.wedged = d.wedged /\ h.state # "None"
  <2>1. h.blocked = d.blocked
    BY <1>4 DEF Contexts
  <2>2. h.wedged = d.wedged /\ h.state = d.state
    BY <1>10 DEF Moves, Kept
  <2>. QED  BY <1>2, <2>1, <2>2
<1>13. net' \in [Sides -> Seq(Seq(Pieces))] /\ net'[e] = u /\ net'[f] = to[f]
  <2>1. net' = IF n > 0 THEN [to EXCEPT ![e] = u] ELSE to
    BY <1>9
  <2>2. n > 0 \/ u = to[e]
    OBVIOUS
  <2>. HIDE DEF n, u, f
  <2>. QED  BY <1>1, <1>10, <2>1, <2>2
<1>. HIDE DEF f, d, n, s, h, u
<1>14. acks'[e] = acked[e] /\ acks' \in [Sides -> Nat]
  BY <1>9
<1>15. InFlight(e)' = Len(u) + acked[e] /\ InFlight(f)' = InFlight(f)
  BY <1>13, <1>9 DEF InFlight, f
<1>16. ctx'[e] = h /\ fin'[e] = closed /\ fin'[f] = fin[f] /\ fin' \in [Sides -> BOOLEAN]
  BY <1>1, <1>8, <1>9
<1>17. /\ InFlight(e)' <= NSeg
       /\ shut = 0 /\ ~ closed /\ ~ h.wedged /\ (Pending(h) > 0 \/ h.blocked) => InFlight(e)' > 0
  <2>1. Len(s) + acked[e] = w /\ acked[e] \in Nat
    BY DEF s
  <2>2. CASE n > 0
    <3>1. can /\ Len(u) = Len(s) + 1
      BY <1>7, <1>10, <2>2
    <3>. QED  BY <1>7, <1>8, <1>15, <2>1, <3>1
  <2>3. CASE ~ (n > 0)
    <3>1. n = 0 /\ Len(u) = Len(s) /\ Pending(h) = Pending(d)
      BY <1>7, <1>10, <2>3
    <3>2. InFlight(e)' = w
      BY <1>15, <2>1, <3>1
    <3>3. ~ closed => r.action = "Continue"
      BY <1>2
    <3>4. ~ closed /\ Pending(h) > 0 => ~ can
      BY <1>7, <3>1, <3>3
    <3>. HIDE DEF closed
    <3>. QED  BY <1>12, <3>2, <3>4 DEF d
  <2>. QED  BY <2>2, <2>3
<1>18. IsWoken(e)'
  <2>1. ~ open[e] => shut > 0
    BY <1>5 DEF IsWoken
  <2>. QED  BY <1>9, <1>12, <1>16, <1>17, <2>1 DEF IsWoken
<1>19. ArePeers(e, h, u, fin'[e], ctx[f], net'[f], fin[f])
  BY <1>11, <1>13, <1>16
<1>. QED  BY <1>9, <1>10, <1>13, <1>14, <1>15, <1>16, <1>18, <1>19, SideMoves DEF f

-----------------------------------------------------------------------------
(***************************************************************************)
(* The connection begins, and ends.                                        *)
(***************************************************************************)

\* A new context.
IsNew(c) ==
    /\ c \in Contexts /\ ~ c.blocked /\ c.bin = <<>> /\ Pending(c) = 0 /\ c.hs = 0 /\ c.made = 0
    /\ ~ c.wedged /\ ~ c.sentBye /\ ~ c.gotBye /\ c.written = 0 /\ c.given = 0 /\ c.read
    /\ Complete(c) = {}

LEMMA NewIs ==
    ASSUME NEW state \in States, NEW c, c = NewContext(state)
    PROVE  IsNew(c) /\ c.state = state /\ c.bout = EmptyBuffer(Piece("bye", 0, FALSE))
<1>. DEFINE p == Piece("bye", 0, FALSE)
            b == EmptyBuffer(p)
<1>1. p \in Pieces
  BY KindsAre DEF Piece, Pieces
<1>2. b \in Buffers /\ Available(b) = 0
  BY <1>1, EmptyBufferIs
<1>. HIDE DEF p, b
<1>3. c = [state |-> state, blocked |-> FALSE, bin |-> <<>>, bout |-> b,
           hs |-> 0, made |-> 0, wedged |-> FALSE, sentBye |-> FALSE, gotBye |-> FALSE,
           written |-> 0, ignored |-> 0, given |-> 0, read |-> TRUE]
  BY DEF NewContext, b, p
<1>4. <<>> \in Seq(Pieces) /\ Len(<<>>) = 0 /\ 0 \in 0 .. 4
  BY EmptySeq
<1>5. c \in Contexts
  BY <1>2, <1>3, <1>4 DEF Contexts
<1>6. Pending(c) = 0
  BY <1>2, <1>3 DEF Pending
<1>7. Complete(c) = {}
  <2>1. c.bin = <<>>
    BY <1>3
  <2>2. Len(c.bin) = 0 /\ 1 .. 0 = {}
    BY <1>4, <2>1
  <2>. QED  BY <2>2 DEF Complete
<1>8. /\ ~ c.blocked /\ c.bin = <<>> /\ c.hs = 0 /\ c.made = 0
      /\ ~ c.wedged /\ ~ c.sentBye /\ ~ c.gotBye /\ c.written = 0 /\ c.given = 0 /\ c.read
      /\ c.state = state /\ c.bout = b
  BY <1>3
<1>9. IsNew(c)
  BY <1>5, <1>6, <1>7, <1>8 DEF IsNew
<1>. QED  BY <1>8, <1>9 DEF b, p

\* The stream of a side, before anything of it was sent.
LEMMA NothingIsStream ==
    ASSUME MaskFits, NEW e \in Sides, NEW c, NEW g, IsNew(c), IsNew(g)
    PROVE  IsStream(e, c, <<>>, g, FALSE)
<1>1. c \in Contexts /\ g \in Contexts /\ Pending(c) = 0 /\ c.made = 0 /\ g.bin = <<>>
      /\ ~ c.sentBye /\ ~ g.gotBye /\ g.hs = 0 /\ c.written = 0 /\ g.given = 0
  BY DEF IsNew
<1>2. Typed(c, <<>>, g) /\ Len(<<>>) = 0 /\ Len(g.bin) = 0
  <2>1. <<>> \in Seq(Seq(Pieces)) /\ Len(<<>>) = 0
    BY EmptySeq
  <2>. QED  BY <1>1, <2>1 DEF Typed
<1>3. Len(Peek(c.bout, Pending(c))) = 0
  BY <1>1, <1>2, PlacesAre
<1>4. Mark(c, <<>>, 0) = 0
  BY <1>1, <1>2 DEF Mark
<1>5. AreNumbered(c, <<>>)
  <2>1. Numbered(Peek(c.bout, Pending(c)), c.made)
    BY <1>3 DEF Numbered
  <2>2. \A j, k \in 0 .. 0 : j <= k => Mark(c, <<>>, j) <= Mark(c, <<>>, k)
    BY <1>4
  <2>. QED  BY <1>2, <1>4, <2>1, <2>2 DEF AreNumbered
<1>6. AreTaken(e, c, <<>>, g)
  BY <1>1, <1>2, <1>4 DEF AreTaken, Numbered, TakenUpTo
<1>7. Way(c, <<>>, g) = {}
  BY <1>1, <1>2, WayIs
<1>8. Cardinality(Records(Way(c, <<>>, g))) = 0
  BY <1>7, FS_EmptySet DEF Records
<1>9. IsTakenBy(e, c, <<>>, g)
  BY <1>1, <1>6, <1>7, <1>8 DEF IsTakenBy, ByesAreLast, ByeIsKept, AreCounted
<1>. QED  BY <1>1, <1>5, <1>9 DEF IsStream

\* A side and its peer that have no context.
LEMMA NothingIsSound ==
    ASSUME MaskFits, NEW e \in Sides, NEW c, c = NewContext("None")
    PROVE  /\ c \in Contexts /\ ArePeers(e, c, <<>>, FALSE, c, <<>>, FALSE)
           /\ c.state = "None" /\ ~ c.blocked /\ Pending(c) = 0
<1>1. "None" \in States
  BY DEF States
<1>2. IsNew(c) /\ c.state = "None"
  BY <1>1, NewIs
<1>3. Peer(e) \in Sides
  BY SidesAre
<1>4. IsStream(e, c, <<>>, c, FALSE) /\ IsStream(Peer(e), c, <<>>, c, FALSE)
  BY <1>2, <1>3, NothingIsStream
<1>5. IsOwn(e, c) /\ IsOwn(Peer(e), c)
  BY <1>2 DEF IsOwn, IsMade, IsNew
<1>6. StateIsSound(e, c, FALSE) /\ StateIsSound(Peer(e), c, FALSE)
  BY <1>2 DEF StateIsSound, IsGreeting, IsNew
<1>7. TakeTurns(e, c, c)
  BY <1>2 DEF TakeTurns, Turns, IsNew
<1>8. SideIsRead(e, c, FALSE, c) /\ PeerIsRead(e, c, c, FALSE)
  BY <1>2 DEF SideIsRead, PeerIsRead, ByesAreRead, ServerIsRead, IsNew
<1>9. ArePeers(e, c, <<>>, FALSE, c, <<>>, FALSE)
  BY <1>4, <1>5, <1>6, <1>7, <1>8 DEF ArePeers, IsSide
<1>. QED  BY <1>2, <1>9 DEF IsNew

LEMMA InitIsSound ==
    ASSUME MaskFits, Init
    PROVE  SslInv
<1>. DEFINE c == NewContext("None")
<1>1. /\ \A e \in Sides : ctx[e] = c /\ net[e] = <<>> /\ acks[e] = 0 /\ open[e] /\ ~ fin[e]
      /\ ctx = [e \in Sides |-> c] /\ net = [e \in Sides |-> <<>>] /\ acks = [e \in Sides |-> 0]
      /\ open = [e \in Sides |-> TRUE] /\ fin = [e \in Sides |-> FALSE] /\ over = "no" /\ shut = 0
  BY DEF Init, NoContexts, NoSegments
<1>2. "client" \in Sides /\ "server" \in Sides /\ Peer("client") = "server" /\ Peer("server") = "client"
      /\ \A e \in Sides : Peer(e) \in Sides
  BY SidesAre
<1>. HIDE DEF c
<1>3. c = NewContext("None")
  BY DEF c
<1>4. /\ c \in Contexts /\ c.state = "None" /\ ~ c.blocked /\ Pending(c) = 0
      /\ \A e \in Sides : ArePeers(e, c, <<>>, FALSE, c, <<>>, FALSE)
  BY <1>2, <1>3, NothingIsSound
<1>5. <<>> \in Seq(Seq(Pieces)) /\ Len(<<>>) = 0
  BY EmptySeq
<1>6. SslTypeOK
  BY <1>1, <1>4, <1>5 DEF SslTypeOK
<1>7. \A e \in Sides : InFlight(e) = 0
  BY <1>1, <1>5 DEF InFlight
<1>8. \A e \in Sides : IsWoken(e)
  BY <1>1, <1>4, <1>7, SslAssumption DEF IsWoken
<1>9. \A e \in Sides :
        /\ IsStream(e, c, <<>>, c, FALSE) /\ IsOwn(e, c) /\ StateIsSound(e, c, FALSE)
        /\ TakeTurns(e, c, c)
  BY <1>4 DEF ArePeers, IsSide
<1>10. ByesAreRead(c, c, FALSE) /\ ServerIsRead(c, FALSE)
  BY <1>2, <1>4 DEF ArePeers, IsSide, SideIsRead
<1>11. \A e \in Sides :
        /\ ctx[e] = c /\ net[e] = <<>> /\ ctx[Peer(e)] = c /\ fin[e] = FALSE /\ fin[Peer(e)] = FALSE
  BY <1>1, <1>2
<1>. QED  BY <1>2, <1>6, <1>8, <1>9, <1>10, <1>11 DEF SslInv

LEMMA EndKeepsInv ==
    ASSUME MaskFits, SslInv, NEW how \in {"closed", "aborted"}, Ends(how), shut' = shut
    PROVE  SslInv'
<1>. DEFINE c == NewContext("None")
<1>1. /\ \A e \in Sides : ctx'[e] = c /\ net'[e] = <<>> /\ acks'[e] = 0 /\ ~ fin'[e]
      /\ ctx' = [e \in Sides |-> c] /\ net' = [e \in Sides |-> <<>>] /\ acks' = [e \in Sides |-> 0]
      /\ open' = open /\ fin' = [e \in Sides |-> FALSE] /\ over' = how
  BY DEF Ends, NoContexts, NoSegments
<1>2. "client" \in Sides /\ Peer("client") \in Sides
  BY SidesAre
<1>. HIDE DEF c
<1>3. c = NewContext("None")
  BY DEF c
<1>4. /\ c \in Contexts /\ c.state = "None" /\ ~ c.blocked /\ Pending(c) = 0
      /\ ArePeers("client", c, <<>>, FALSE, c, <<>>, FALSE)
  BY <1>2, <1>3, NothingIsSound
<1>5. <<>> \in Seq(Seq(Pieces)) /\ Len(<<>>) = 0
  BY EmptySeq
<1>6. SslTypeOK'
  BY <1>1, <1>4, <1>5 DEF SslInv, SslTypeOK
<1>7. \A e \in Sides : InFlight(e)' = 0
  BY <1>1, <1>5 DEF InFlight
<1>8. ASSUME NEW e \in Sides
      PROVE  IsWoken(e)'
  <2>1. ~ open[e] => shut > 0
    <3>1. IsWoken(e)
      BY DEF SslInv
    <3>. QED  BY <3>1 DEF IsWoken
  <2>2. over' # "no"
    BY <1>1
  <2>. QED  BY <1>1, <1>7, <2>1, <2>2, SslAssumption DEF IsWoken
<1>9. /\ ctx'["client"] = c /\ net'["client"] = <<>> /\ fin'["client"] = FALSE
      /\ ctx'[Peer("client")] = c /\ net'[Peer("client")] = <<>> /\ fin'[Peer("client")] = FALSE
  BY <1>1, <1>2
<1>10. ArePeers("client", ctx'["client"], net'["client"], fin'["client"],
                ctx'[Peer("client")], net'[Peer("client")], fin'[Peer("client")])
  BY <1>4, <1>9
<1>11. IsWoken("client")' /\ IsWoken(Peer("client"))'
  BY <1>2, <1>8
<1>. QED  BY <1>2, <1>6, <1>10, <1>11, PeersAreSides

\* onConnected().
LEMMA ConnectedKeepsInv ==
    ASSUME MaskFits, SslInv, NEW e \in Sides, OnConnected(e)
    PROVE  SslInv'
<1>. DEFINE f == Peer(e)
            c == ctx[e]
            state == IF e = "client" THEN "Connect" ELSE "Accept"
            d == NewContext(state)
<1>1. f \in Sides /\ f # e /\ state \in States /\ "None" \in States
  BY SidesAre DEF States
<1>2. /\ over = "no" /\ c.state = "None" /\ ctx' = [ctx EXCEPT ![e] = d]
      /\ net' = net /\ acks' = acks /\ open' = open /\ fin' = fin /\ over' = over /\ shut' = shut
  BY DEF OnConnected
<1>3. /\ ArePeers(e, c, net[e], fin[e], ctx[f], net[f], fin[f]) /\ IsWoken(e)
  BY SidesArePeers
<1>4. /\ IsStream(e, c, net[e], ctx[f], fin[f]) /\ IsStream(f, ctx[f], net[f], c, fin[e])
      /\ IsOwn(f, ctx[f]) /\ StateIsSound(f, ctx[f], fin[f])
      /\ TakeTurns(e, c, ctx[f]) /\ PeerIsRead(e, c, ctx[f], fin[f])
      /\ c = NewContext("None") /\ (fin[e] => c.hs = 4)
  BY <1>2, <1>3 DEF ArePeers, IsSide, StateIsSound
<1>. HIDE DEF c, d, f
<1>5. IsNew(c) /\ c.bout = EmptyBuffer(Piece("bye", 0, FALSE))
  BY <1>1, <1>4, NewIs
<1>6. IsNew(d) /\ d.bout = EmptyBuffer(Piece("bye", 0, FALSE)) /\ d.state = state
  BY <1>1, NewIs DEF d
<1>7. SameSent(c, d) /\ SameTaken(c, d) /\ SameSent(ctx[f], ctx[f]) /\ SameTaken(ctx[f], ctx[f])
  <2>1. /\ c.wedged = FALSE /\ c.sentBye = FALSE /\ c.gotBye = FALSE
        /\ d.wedged = FALSE /\ d.sentBye = FALSE /\ d.gotBye = FALSE
    BY <1>5, <1>6 DEF IsNew, Contexts
  <2>2. /\ d.bout = c.bout /\ d.made = c.made /\ d.written = c.written
        /\ d.bin = c.bin /\ d.hs = c.hs /\ d.given = c.given
    BY <1>5, <1>6 DEF IsNew
  <2>. QED  BY <2>1, <2>2 DEF SameSent, SameTaken
<1>8. IsStream(e, d, net[e], ctx[f], fin[f]) /\ IsStream(f, ctx[f], net[f], d, fin[e])
  BY <1>4, <1>7, SameStream
<1>9. ~ fin[e] /\ d \in Contexts /\ d.hs = 0 /\ c.hs = 0 /\ ~ d.blocked /\ Pending(d) = 0
  BY <1>4, <1>5, <1>6 DEF IsNew
<1>10. IsSide(e, d, fin[e], ctx[f], fin[f])
  <2>1. IsOwn(e, d)
    BY <1>6 DEF IsOwn, IsMade, IsNew
  <2>2. StateIsSound(e, d, fin[e])
    BY <1>6, <1>9, SidesAre DEF StateIsSound, IsGreeting, IsNew
  <2>3. TakeTurns(e, d, ctx[f])
    BY <1>4, <1>9 DEF TakeTurns
  <2>4. SideIsRead(e, d, fin[e], ctx[f])
    BY <1>6 DEF SideIsRead, ByesAreRead, ServerIsRead, IsNew
  <2>5. PeerIsRead(e, d, ctx[f], fin[f])
    BY <1>4, <1>6 DEF PeerIsRead, ByesAreRead
  <2>. QED  BY <2>1, <2>2, <2>3, <2>4, <2>5 DEF IsSide
<1>11. ArePeers(e, d, net[e], fin[e], ctx[f], net[f], fin[f])
  BY <1>4, <1>8, <1>10 DEF ArePeers, f
<1>12. SslTypeOK /\ ctx'[e] = d
  BY <1>2 DEF SslInv, SslTypeOK
<1>13. IsWoken(e)'
  <2>1. InFlight(e)' = InFlight(e) /\ d.state # "None"
    BY <1>2, <1>6 DEF InFlight
  <2>. QED  BY <1>2, <1>3, <1>9, <1>12, <2>1 DEF IsWoken
<1>14. InFlight(f)' = InFlight(f) /\ net[e] \in Seq(Seq(Pieces))
  BY <1>2, <1>12 DEF InFlight, SslTypeOK
<1>15. /\ net' \in [Sides -> Seq(Seq(Pieces))] /\ net'[e] = net[e] /\ acks' \in [Sides -> Nat]
       /\ fin' \in [Sides -> BOOLEAN] /\ fin'[f] = fin[f]
  BY <1>2, <1>12 DEF SslTypeOK
<1>16. ArePeers(e, d, net[e], fin'[e], ctx[f], net'[f], fin[f])
  BY <1>2, <1>11
<1>. QED  BY <1>2, <1>9, <1>13, <1>14, <1>15, <1>16, SideMoves DEF f

-----------------------------------------------------------------------------
(***************************************************************************)
(* The operations of the API.                                              *)
(***************************************************************************)

\* connect().
LEMMA ConnectKeepsInv ==
    ASSUME MaskFits, SslInv, Connect
    PROVE  SslInv'
<1>. DEFINE e == "client"
            f == Peer(e)
            c == ctx[e]
            d == Handshake(c)
<1>1. e \in Sides
  BY SidesAre
<1>2. /\ over = "no" /\ c.state = "Connect" /\ Flush(e, d)
      /\ UNCHANGED <<acks, open, fin, over, shut>>
  BY DEF Connect
<1>. HIDE DEF e
<1>3. c.hs < 4 /\ ~ fin[e] /\ fin[e] = FALSE /\ Complete(c) = {} /\ c \in Contexts
  <2>1. StateIsSound(e, c, fin[e]) /\ Typed(c, net[e], ctx[f]) /\ fin[e] \in BOOLEAN
    BY <1>1, SidesArePeers DEF ArePeers, IsSide
  <2>. HIDE DEF c
  <2>2. c.hs < 4 /\ Complete(c) = {} /\ (fin[e] => c.hs = 4)
    BY <1>2, <2>1 DEF StateIsSound, IsGreeting
  <2>. QED  BY <2>1, <2>2 DEF Typed
<1>4. IsFacing(e, c, ctx[f], net[f], fin[f]) /\ IsGreeting(c)
  BY <1>1, <1>2, <1>3, FacingIs DEF IsGreeting
<1>. HIDE DEF c, d, f
<1>5. IsGreeted(e, c, d, ctx[f], net[f])
  BY <1>1, <1>4, HandshakeIsGreeted DEF d
<1>6. /\ Sends(e, c, d) /\ IsStream(f, ctx[f], net[f], d, FALSE) /\ TakeTurns(e, d, ctx[f])
      /\ ~ d.sentBye /\ d.state = c.state /\ d.blocked = c.blocked /\ d.hs < 4
      /\ Complete(d) = {}
  BY <1>3, <1>5 DEF IsGreeted, f
<1>7. IsOwn(e, d) /\ d.hs \in 0 .. 4
  BY <1>6 DEF Sends, Contexts
<1>8. d.state = (IF d.hs = 4 THEN "Ready" ELSE c.state) /\ ~ (d.hs = 4)
  BY <1>6, <1>7
<1>9. IsSide(e, d, FALSE, ctx[f], fin[f])
  BY <1>1, <1>4, <1>6, <1>7, <1>8, TurnIsSide
<1>. QED  BY <1>1, <1>2, <1>3, <1>6, <1>9, FlushKeepsInv DEF c, f

\* send().
LEMMA SendKeepsInv ==
    ASSUME MaskFits, SslInv, NEW e \in Sides, Send(e)
    PROVE  SslInv'
<1>. DEFINE f == Peer(e)
            c == ctx[e]
<1>1. PICK kind \in DataKinds : Flush(e, WriteOf(c, kind))
  BY DEF Send, WriteOf
<1>. DEFINE d == WriteOf(c, kind)
<1>2. /\ over = "no" /\ c.state = "Ready" /\ Flush(e, d)
      /\ UNCHANGED <<acks, open, fin, over, shut>>
  BY <1>1 DEF Send
<1>3. ArePeers(e, c, net[e], fin[e], ctx[f], net[f], fin[f]) /\ Typed(c, net[e], ctx[f])
  BY SidesArePeers
<1>. HIDE DEF c, d
<1>4. /\ c \in Contexts /\ IsOwn(e, c) /\ IsSide(e, c, fin[e], ctx[f], fin[f])
      /\ IsStream(f, ctx[f], net[f], c, fin[e])
  BY <1>3 DEF Typed, ArePeers, IsSide
<1>. HIDE DEF f
<1>5. Sends(e, c, d) /\ Kept(c, d) /\ d.blocked = c.blocked
  BY <1>4, WriteIsKept DEF d
<1>6. IsOwn(e, d) /\ d.state = "Ready" /\ SameTaken(c, d) /\ SameSent(ctx[f], ctx[f])
  BY <1>2, <1>5 DEF Sends, Kept, SameTaken, SameSent
<1>7. IsSide(e, d, fin[e], ctx[f], fin[f])
  BY <1>2, <1>4, <1>5, <1>6, KeptIsSide
<1>8. IsStream(f, ctx[f], net[f], d, fin[e])
  BY <1>4, <1>6, SameStream
<1>9. d.state # "None"
  BY <1>6
<1>. QED  BY <1>2, <1>5, <1>7, <1>8, <1>9, FlushKeepsInv DEF c, f

\* A context in Ready that is told to close, and says bye.
LEMMA ShutdownIsKept ==
    ASSUME MaskFits, NEW e \in Sides, NEW c, NEW s, NEW closed \in BOOLEAN, NEW g, NEW t,
           NEW gclosed,
           ArePeers(e, c, s, closed, g, t, gclosed), Typed(c, s, g), Typed(g, t, c),
           c.state = "Ready", ~ c.gotBye, NEW d, d = SayBye([c EXCEPT !.state = "Shutdown"])
    PROVE  /\ Sends(e, c, d) /\ d.blocked = c.blocked /\ d.state = "Shutdown"
           /\ IsStream(Peer(e), g, t, d, closed) /\ IsSide(e, d, closed, g, gclosed)
<1>. DEFINE b == [c EXCEPT !.state = "Shutdown"]
<1>1. /\ c \in Contexts /\ IsOwn(e, c) /\ StateIsSound(e, c, closed) /\ TakeTurns(e, c, g)
      /\ SideIsRead(e, c, closed, g) /\ PeerIsRead(e, c, g, gclosed)
      /\ IsStream(e, c, s, g, gclosed) /\ IsStream(Peer(e), g, t, c, closed)
      /\ StateIsSound(Peer(e), g, gclosed)
  BY DEF ArePeers, IsSide, Typed
<1>2. c.hs = 4 /\ (c.sentBye => c.gotBye) /\ c.hs \in 0 .. 4
  <2>1. c.hs \in 0 .. 4
    BY <1>1 DEF Contexts
  <2>. QED  BY <1>1, <2>1 DEF StateIsSound, IsGreeting
<1>3. /\ b \in Contexts /\ b.state = "Shutdown"
      /\ b.blocked = c.blocked /\ b.bin = c.bin /\ b.hs = c.hs /\ b.given = c.given
      /\ b.sentBye = c.sentBye /\ b.gotBye = c.gotBye /\ b.read = c.read
      /\ b.bout = c.bout /\ b.made = c.made /\ b.wedged = c.wedged /\ b.written = c.written
  <2>1. "Shutdown" \in States
    BY DEF States
  <2>. QED  BY <1>1, <2>1 DEF Contexts
<1>4. d = SayBye(b)
  OBVIOUS
<1>. HIDE DEF b
<1>5. IsOwn(e, b)
  BY <1>1, <1>3 DEF IsOwn, IsMade
<1>6. Sends(e, c, b)
  <2>1. KeepsSent(e, c, b)
    BY <1>3, SameIsKept DEF SameSent
  <2>. QED  BY <1>3, <1>5, <2>1 DEF Sends
<1>7. Sends(e, b, d) /\ Said(b, d)
  BY <1>2, <1>3, <1>4, <1>5, ByeIsSaid
<1>8. Sends(e, c, d)
  BY <1>6, <1>7, SendsIsTransitive
<1>9. /\ d.sentBye /\ d.state = "Shutdown" /\ d.blocked = c.blocked /\ d.bin = c.bin
      /\ d.hs = 4 /\ ~ d.gotBye /\ d.given = c.given /\ d.gotBye = c.gotBye
  BY <1>2, <1>3, <1>7 DEF Said
<1>10. IsStream(Peer(e), g, t, d, closed)
  <2>1. SameTaken(c, d) /\ SameSent(g, g)
    BY <1>2, <1>9 DEF SameTaken, SameSent
  <2>. QED  BY <1>1, <2>1, SameStream
<1>11. StateIsSound(e, d, closed)
  BY <1>9 DEF StateIsSound, IsGreeting
<1>12. TakeTurns(e, d, g)
  BY <1>1, <1>2, <1>9 DEF TakeTurns
<1>13. PeerIsRead(e, d, g, gclosed)
  BY <1>1, <1>9 DEF PeerIsRead, ByesAreRead
<1>14. SideIsRead(e, d, closed, g)
  <2>1. ASSUME ~ closed, g.state = "Ready", NEW i \in 1 .. Len(d.bin), d.bin[i].kind = "bye"
        PROVE  FALSE
    <3>1. Peer(e) \in Sides /\ closed = FALSE
      BY <2>1, SidesAre
    <3>2. IsStream(Peer(e), g, t, c, FALSE)
      BY <1>1, <3>1
    <3>3. IsLater(g, c)
      BY <1>2, <3>1, <3>2, BinIsLater
    <3>4. g.sentBye
      BY <1>9, <2>1, <3>3 DEF IsLater
    <3>5. g.gotBye
      BY <1>1, <2>1, <3>4 DEF StateIsSound
    <3>6. c.sentBye
      BY <1>1, <3>5 DEF IsStream
    <3>. QED  BY <1>2, <3>6
  <2>2. e = "client" => ByesAreRead(d, g, closed)
    BY <2>1 DEF ByesAreRead
  <2>3. e # "client" => ServerIsRead(d, closed)
    BY <1>1, <1>9 DEF SideIsRead, ServerIsRead, Complete
  <2>. QED  BY <2>2, <2>3 DEF SideIsRead
<1>15. IsOwn(e, d)
  BY <1>8 DEF Sends
<1>. QED  BY <1>8, <1>9, <1>10, <1>11, <1>12, <1>13, <1>14, <1>15 DEF IsSide

\* A side whose segments stay as they are.
LEMMA ContextMoves ==
    ASSUME SslInv, NEW e \in Sides, NEW d \in Contexts, ctx' = [ctx EXCEPT ![e] = d],
           net' = net, acks' = acks, open' = open, fin' \in [Sides -> BOOLEAN],
           fin'[Peer(e)] = fin[Peer(e)], over' = over, shut' = shut,
           ArePeers(e, d, net[e], fin'[e], ctx[Peer(e)], net[Peer(e)], fin[Peer(e)]), IsWoken(e)'
    PROVE  SslInv'
<1>1. net \in [Sides -> Seq(Seq(Pieces))] /\ acks \in [Sides -> Nat]
  BY DEF SslInv, SslTypeOK
<1>2. net[e] \in Seq(Seq(Pieces)) /\ net' \in [Sides -> Seq(Seq(Pieces))] /\ net'[e] = net[e]
      /\ acks' \in [Sides -> Nat] /\ InFlight(Peer(e))' = InFlight(Peer(e))
  BY <1>1 DEF InFlight
<1>3. ArePeers(e, d, net[e], fin'[e], ctx[Peer(e)], net'[Peer(e)], fin[Peer(e)])
  OBVIOUS
<1>. QED  BY <1>2, <1>3, SideMoves

\* close().
LEMMA CloseKeepsInv ==
    ASSUME MaskFits, SslInv, NEW e \in Sides, Close(e)
    PROVE  SslInv'
<1>. DEFINE f == Peer(e)
            c == ctx[e]
            b == [c EXCEPT !.state = "Shutdown"]
            d == SayBye(b)
            s == net[e]
            t == net[f]
<1>1. /\ over = "no" /\ c.state = "Ready"
      /\ acks' = acks /\ open' = open /\ over' = over /\ shut' = shut
  BY DEF Close
<1>2. \/ c.gotBye /\ fin' = [fin EXCEPT ![e] = TRUE] /\ ctx' = [ctx EXCEPT ![e] = b] /\ net' = net
      \/ ~ c.gotBye /\ fin' = fin /\ d.wedged /\ ctx' = [ctx EXCEPT ![e] = d] /\ net' = net
      \/ ~ c.gotBye /\ fin' = fin /\ Flush(e, d)
  <2>1. c \in Contexts
    BY DEF SslInv, SslTypeOK
  <2>2. b.gotBye = c.gotBye
    BY <2>1 DEF Contexts
  <2>. HIDE DEF c, b, d
  <2>3. IF b.gotBye
        THEN fin' = [fin EXCEPT ![e] = TRUE] /\ ctx' = [ctx EXCEPT ![e] = b] /\ net' = net
        ELSE fin' = fin /\ IF d.wedged THEN ctx' = [ctx EXCEPT ![e] = d] /\ net' = net
                                       ELSE Flush(e, d)
    BY DEF Close, b, c, d
  <2>. QED  BY <2>2, <2>3
<1>3. /\ ArePeers(e, c, s, fin[e], ctx[f], t, fin[f]) /\ IsWoken(e)
      /\ Typed(c, s, ctx[f]) /\ Typed(ctx[f], t, c) /\ fin[e] \in BOOLEAN
  BY SidesArePeers
<1>4. f # e /\ fin \in [Sides -> BOOLEAN] /\ f \in Sides /\ ctx \in [Sides -> Contexts]
  BY SidesAre DEF SslInv, SslTypeOK
<1>5. InFlight(e) <= NSeg /\ (~ open[e] => shut > 0)
  BY <1>3 DEF IsWoken
<1>. HIDE DEF f, c, s, t
<1>6. CASE c.gotBye /\ fin' = [fin EXCEPT ![e] = TRUE] /\ ctx' = [ctx EXCEPT ![e] = b] /\ net' = net
  <2>1. /\ c \in Contexts /\ IsOwn(e, c) /\ StateIsSound(e, c, fin[e]) /\ TakeTurns(e, c, ctx[f])
        /\ PeerIsRead(e, c, ctx[f], fin[f])
        /\ IsStream(e, c, s, ctx[f], fin[f]) /\ IsStream(f, ctx[f], t, c, fin[e])
        /\ IsOwn(f, ctx[f]) /\ StateIsSound(f, ctx[f], fin[f])
    BY <1>3 DEF ArePeers, IsSide, Typed, f
  <2>2. c.hs = 4
    <3>1. c.hs \in 0 .. 4
      BY <2>1 DEF Contexts
    <3>. QED  BY <1>1, <2>1, <3>1 DEF StateIsSound, IsGreeting
  <2>3. /\ b \in Contexts /\ b.state = "Shutdown" /\ b.bin = c.bin /\ b.hs = c.hs /\ b.given = c.given
        /\ b.sentBye = c.sentBye /\ b.gotBye = c.gotBye
        /\ b.bout = c.bout /\ b.made = c.made /\ b.wedged = c.wedged /\ b.written = c.written
    <3>1. "Shutdown" \in States
      BY DEF States
    <3>. QED  BY <2>1, <3>1 DEF Contexts
  <2>. HIDE DEF b
  <2>4. SameSent(c, b) /\ SameTaken(c, b) /\ SameSent(ctx[f], ctx[f]) /\ SameTaken(ctx[f], ctx[f])
    BY <2>3 DEF SameSent, SameTaken
  <2>5. IsStream(e, b, s, ctx[f], fin[f]) /\ IsStream(f, ctx[f], t, b, fin[e])
    BY <2>1, <2>4, SameStream
  <2>6. IsStream(f, ctx[f], t, b, TRUE)
    BY <2>5 DEF IsStream
  <2>7. IsOwn(e, b)
    BY <2>1, <2>3 DEF IsOwn, IsMade
  <2>8. StateIsSound(e, b, TRUE)
    BY <2>2, <2>3 DEF StateIsSound, IsGreeting
  <2>9. TakeTurns(e, b, ctx[f]) /\ PeerIsRead(e, b, ctx[f], fin[f]) /\ SideIsRead(e, b, TRUE, ctx[f])
    BY <2>1, <2>3 DEF TakeTurns, PeerIsRead, SideIsRead, ByesAreRead, ServerIsRead
  <2>10. ArePeers(e, b, s, TRUE, ctx[f], t, fin[f])
    BY <2>1, <2>5, <2>6, <2>7, <2>8, <2>9 DEF ArePeers, IsSide, f
  <2>11. fin' \in [Sides -> BOOLEAN] /\ fin'[f] = fin[f] /\ fin'[e] = TRUE /\ ctx'[e] = b
    BY <1>4, <1>6
  <2>12. IsWoken(e)'
    <3>1. InFlight(e)' = InFlight(e) /\ b.state # "None"
      BY <1>1, <1>6, <2>3 DEF InFlight
    <3>. QED  BY <1>1, <1>5, <2>11, <3>1 DEF IsWoken
  <2>. QED  BY <1>1, <1>6, <2>3, <2>10, <2>11, <2>12, ContextMoves DEF f, s, t
<1>7. ASSUME ~ c.gotBye
      PROVE  /\ Sends(e, c, d) /\ d.blocked = c.blocked /\ d.state = "Shutdown"
             /\ IsStream(f, ctx[f], t, d, fin[e]) /\ IsSide(e, d, fin[e], ctx[f], fin[f])
  BY <1>1, <1>3, <1>7, ShutdownIsKept DEF f
<1>. HIDE DEF d
<1>8. CASE ~ c.gotBye /\ fin' = fin /\ d.wedged /\ ctx' = [ctx EXCEPT ![e] = d] /\ net' = net
  <2>1. d \in Contexts /\ KeepsSent(e, c, d) /\ d.state # "None"
    BY <1>7, <1>8 DEF Sends
  <2>2. ArePeers(e, d, s, fin[e], ctx[f], t, fin[f])
    BY <1>3, <1>7, <1>8, <2>1 DEF ArePeers, KeepsSent, f
  <2>3. ctx'[e] = d /\ InFlight(e)' = InFlight(e)
    BY <1>1, <1>4, <1>8 DEF InFlight
  <2>4. IsWoken(e)'
    BY <1>1, <1>5, <1>8, <2>1, <2>3 DEF IsWoken
  <2>. QED  BY <1>1, <1>4, <1>8, <2>1, <2>2, <2>4, ContextMoves DEF f, s, t
<1>9. CASE ~ c.gotBye /\ fin' = fin /\ Flush(e, d)
  <2>1. d.state # "None" /\ (d.blocked => c.blocked) /\ Sends(e, c, d)
    BY <1>7, <1>9
  <2>2. IsStream(f, ctx[f], t, d, fin[e]) /\ IsSide(e, d, fin[e], ctx[f], fin[f])
    BY <1>7, <1>9
  <2>. QED  BY <1>1, <1>9, <2>1, <2>2, FlushKeepsInv DEF c, f, t
<1>. QED  BY <1>2, <1>6, <1>8, <1>9

-----------------------------------------------------------------------------
(***************************************************************************)
(* The callbacks.                                                          *)
(***************************************************************************)

\* A segment arrives: it is in bin before it is looked at.
LEMMA ReceivedIs ==
    ASSUME MaskFits, SslInv, NEW e \in Sides, ctx[e].state # "None", net[Peer(e)] # <<>>, ~ fin[e],
           NEW b, b = Receive(ctx[e], Head(net[Peer(e)])), NEW t, t = Tail(net[Peer(e)])
    PROVE  /\ Sends(e, ctx[e], b) /\ b.blocked = ctx[e].blocked /\ ~ b.read
           /\ IsFacing(e, b, ctx[Peer(e)], t, fin[Peer(e)])
<1>. DEFINE f == Peer(e)
            c == ctx[e]
            g == ctx[f]
            s == net[f]
<1>1. /\ IsFacing(e, c, g, s, fin[f]) /\ f \in Sides
  BY FacingIs, SidesAre
<1>2. c \in Contexts /\ s \in Seq(Seq(Pieces)) /\ g \in Contexts /\ IsOwn(e, c)
      /\ IsStream(f, g, s, c, FALSE) /\ s # <<>> /\ t = Tail(s)
  BY <1>1 DEF IsFacing, Typed
<1>3. Head(s) \in Seq(Pieces) /\ t \in Seq(Seq(Pieces))
  BY <1>2, TailIs
<1>. HIDE DEF f, c, g, s
<1>4. b = [c EXCEPT !.bin = c.bin \o Head(s), !.read = FALSE]
  BY DEF Receive, c, s, f
<1>5. c.bin \in Seq(Pieces)
  BY <1>2 DEF Contexts
<1>6. c.bin \o Head(s) \in Seq(Pieces)
  BY <1>3, <1>5, ConcatProperties
<1>7. /\ b \in Contexts /\ b.bin = c.bin \o Head(s) /\ b.read = FALSE
      /\ b.state = c.state /\ b.blocked = c.blocked /\ b.hs = c.hs /\ b.given = c.given
      /\ b.sentBye = c.sentBye /\ b.gotBye = c.gotBye
      /\ b.bout = c.bout /\ b.made = c.made /\ b.wedged = c.wedged /\ b.written = c.written
  <2>. DEFINE x == c.bin \o Head(s)
  <2>1. x \in Seq(Pieces) /\ b = [c EXCEPT !.bin = x, !.read = FALSE]
    BY <1>4, <1>6
  <2>. HIDE DEF x
  <2>2. /\ b \in Contexts /\ b.bin = x /\ b.read = FALSE
        /\ b.state = c.state /\ b.blocked = c.blocked /\ b.hs = c.hs /\ b.given = c.given
        /\ b.sentBye = c.sentBye /\ b.gotBye = c.gotBye
        /\ b.bout = c.bout /\ b.made = c.made /\ b.wedged = c.wedged /\ b.written = c.written
    BY <1>2, <2>1 DEF Contexts
  <2>. QED  BY <2>2 DEF x
<1>8. Sends(e, c, b)
  <2>1. KeepsSent(e, c, b)
    BY <1>7, SameIsKept DEF SameSent
  <2>2. IsOwn(e, b)
    BY <1>2, <1>7 DEF IsOwn, IsMade
  <2>. QED  BY <1>7, <2>1, <2>2 DEF Sends
<1>9. IsStream(f, g, t, b, FALSE) /\ Typed(g, t, b)
  <2>1. Arrived(s, t, c, b)
    BY <1>2, <1>7 DEF Arrived
  <2>2. Typed(g, s, c) /\ Typed(g, t, b)
    BY <1>2, <1>3, <1>7 DEF Typed
  <2>. QED  BY <1>1, <1>2, <2>1, <2>2, ArriveKeepsStream
<1>10. /\ IsOwn(e, b) /\ TakeTurns(e, b, g) /\ PeerIsRead(e, b, g, fin[f])
       /\ IsOwn(f, g) /\ StateIsSound(f, g, fin[f]) /\ (g.gotBye => b.sentBye)
       /\ b.state # "None" /\ (IsGreeting(b) <=> b.hs < 4)
       /\ (b.state = "Connect" => e = "client")
       /\ (b.state = "Accept" => e = "server")
       /\ (b.state = "Ready" /\ b.sentBye => b.gotBye)
       /\ (b.state = "Shutdown" /\ ~ b.wedged => b.sentBye /\ ~ b.gotBye)
  <2>1. IsOwn(e, b)
    BY <1>8 DEF Sends
  <2>2. TakeTurns(e, b, g) /\ PeerIsRead(e, b, g, fin[f])
    BY <1>1, <1>7 DEF IsFacing, TakeTurns, PeerIsRead, ByesAreRead
  <2>3. IsOwn(f, g) /\ StateIsSound(f, g, fin[f]) /\ (g.gotBye => b.sentBye) /\ b.state # "None"
    BY <1>1, <1>7 DEF IsFacing, f
  <2>. QED  BY <1>1, <1>7, <2>1, <2>2, <2>3 DEF IsFacing, IsGreeting
<1>11. IsFacing(e, b, g, t, fin[f])
  BY <1>9, <1>10 DEF IsFacing, f
<1>. QED  BY <1>7, <1>8, <1>11 DEF c, g, f

\* onNewData().
LEMMA NewDataKeepsInv ==
    ASSUME MaskFits, SslInv, NEW e \in Sides, OnNewData(e)
    PROVE  SslInv'
<1>. DEFINE f == Peer(e)
            b == Receive(ctx[e], Head(net[f]))
            t == Tail(net[f])
            to == [net EXCEPT ![f] = Tail(@)]
            acked == [acks EXCEPT ![f] = @ + 1]
            can == InFlight(e) < NSeg /\ open[e]
            w == InFlight(e)
<1>1. f \in Sides /\ f # e /\ Peer(f) = e
  BY SidesAre
<1>2. /\ over = "no" /\ ctx[e].state # "None" /\ net[f] # <<>> /\ shut' = shut
      /\ \/ fin[e] /\ net' = to /\ acks' = acked /\ UNCHANGED <<ctx, open, fin, over>>
         \/ /\ ~ fin[e]
            /\ \E answer \in Answers :
                \E n \in IF b.state = "Ready" THEN Reads(b, answer) ELSE {0} :
                    Reply(e, IF can THEN NewData(b, n, answer) ELSE NewDataNoAnswer(b, n, answer),
                          can, to, acked)
  BY DEF OnNewData
<1>3. /\ ctx \in [Sides -> Contexts] /\ net \in [Sides -> Seq(Seq(Pieces))]
      /\ acks \in [Sides -> Nat] /\ fin \in [Sides -> BOOLEAN]
  BY DEF SslInv, SslTypeOK
<1>4. /\ ArePeers(e, ctx[e], net[e], fin[e], ctx[f], net[f], fin[f]) /\ IsWoken(e)
      /\ Typed(ctx[f], net[f], ctx[e]) /\ fin[e] \in BOOLEAN
  BY SidesArePeers
<1>5. net[f] \in Seq(Seq(Pieces)) /\ acks[f] \in Nat /\ acks[e] \in Nat /\ net[e] \in Seq(Seq(Pieces))
  BY <1>1, <1>3
<1>6. t \in Seq(Seq(Pieces)) /\ Len(net[f]) \in Nat \ {0} /\ Len(t) = Len(net[f]) - 1
  BY <1>2, <1>5, TailIs
<1>7. w \in Nat /\ w = Len(net[e]) + acks[e] /\ w <= NSeg /\ NSeg \in Nat
      /\ (~ open[e] => shut > 0) /\ shut \in Nat
      /\ (shut = 0 /\ ~ fin[e] /\ ~ ctx[e].wedged /\ ctx[e].blocked => w > 0)
  <2>1. Len(net[e]) \in Nat
    BY <1>5
  <2>2. w \in Nat /\ w = Len(net[e]) + acks[e]
    BY <1>5, <2>1 DEF InFlight
  <2>3. shut \in Nat /\ NSeg \in Nat
    BY SslAssumption DEF SslInv, SslTypeOK
  <2>. QED  BY <1>2, <1>4, <2>2, <2>3 DEF IsWoken
<1>8. /\ to \in [Sides -> Seq(Seq(Pieces))] /\ to[e] = net[e] /\ to[f] = t
      /\ acked \in [Sides -> Nat] /\ acked[e] = acks[e] /\ acked[f] = acks[f] + 1
  <2>1. to = [net EXCEPT ![f] = t]
    OBVIOUS
  <2>. HIDE DEF t, to, f
  <2>2. to \in [Sides -> Seq(Seq(Pieces))] /\ to[e] = net[e] /\ to[f] = t
    BY <1>1, <1>3, <1>6, <2>1
  <2>. QED  BY <1>1, <1>3, <1>5, <2>2
<1>9. Len(to[f]) + acked[f] = InFlight(f)
  <2>. DEFINE l == Len(net[f])
              m == Len(to[f])
              a == acks[f]
  <2>1. l \in Nat \ {0} /\ m = l - 1 /\ a \in Nat /\ acked[f] = a + 1 /\ InFlight(f) = l + a
    BY <1>5, <1>6, <1>8 DEF InFlight
  <2>. HIDE DEF l, m, a
  <2>2. m + (a + 1) = l + a
    BY <2>1
  <2>. QED  BY <2>1, <2>2 DEF m
<1>. HIDE DEF f, b, t, to, acked, w
<1>10. CASE fin[e] /\ net' = to /\ acks' = acked /\ UNCHANGED <<ctx, open, fin, over>>
  <2>. DEFINE d == ctx[e]
              u == net[e]
  <2>1. fin[e] = TRUE
    BY <1>4, <1>10
  <2>2. IsStream(f, ctx[f], net[f], d, TRUE)
    BY <1>4, <2>1 DEF ArePeers, f
  <2>3. IsStream(f, ctx[f], t, d, TRUE)
    <3>1. Typed(ctx[f], net[f], d) /\ net[f] # <<>> /\ t = Tail(net[f])
      BY <1>2, <1>4 DEF t
    <3>. QED  BY <2>2, <3>1, DropKeepsStream
  <2>4. ArePeers(e, d, u, TRUE, ctx[f], t, fin[f])
    BY <1>4, <2>1, <2>3 DEF ArePeers, f
  <2>5. ctx' = [ctx EXCEPT ![e] = d] /\ d \in Contexts
    BY <1>3, <1>10
  <2>6. net'[e] = u /\ net'[f] = t /\ fin'[e] = TRUE /\ ctx'[e] = ctx[e]
        /\ open' = open /\ fin' = fin /\ over' = over /\ acks' \in [Sides -> Nat]
        /\ net' \in [Sides -> Seq(Seq(Pieces))]
    BY <1>8, <1>10, <2>1
  <2>7. InFlight(f)' = InFlight(f)
    BY <1>9, <1>10 DEF InFlight, f
  <2>8. InFlight(e)' = InFlight(e)
    BY <1>8, <1>10 DEF InFlight
  <2>9. IsWoken(e)'
    BY <1>2, <1>4, <2>6, <2>8, WokenIsKept
  <2>. QED  BY <1>2, <1>3, <1>5, <2>1, <2>4, <2>5, <2>6, <2>7, <2>9, SideMoves DEF f
<1>11. ASSUME ~ fin[e], NEW answer \in Answers,
              NEW n \in IF b.state = "Ready" THEN Reads(b, answer) ELSE {0},
              NEW r, r = (IF can THEN NewData(b, n, answer) ELSE NewDataNoAnswer(b, n, answer)),
              Reply(e, r, can, to, acked)
       PROVE  SslInv'
  <2>1. CASE r.action = "Abort"
    <3>1. Ends("aborted")
      BY <1>11, <2>1 DEF Reply
    <3>. QED  BY <1>2, <3>1, EndKeepsInv
  <2>2. CASE r.action # "Abort"
    <3>1. Sends(e, ctx[e], b) /\ b.blocked = ctx[e].blocked /\ ~ b.read
          /\ IsFacing(e, b, ctx[f], t, fin[f])
      BY <1>2, <1>11, ReceivedIs DEF b, t, f
    <3>2. r = NewData(b, n, answer) \/ r = NewDataNoAnswer(b, n, answer)
      BY <1>11
    <3>3. IsAnswer(e, b, r, ctx[f], t, fin[f])
      BY <1>11, <2>2, <3>1, <3>2, NewDataIsAnswer
    <3>4. IsAnswer(e, b, r, ctx[f], to[f], fin[f])
      BY <1>8, <3>3
    <3>5. shut = 0 /\ ~ r.c.wedged /\ r.c.blocked => w > 0
      <4>1. (r.c.blocked => b.blocked) /\ (b.wedged => r.c.wedged) /\ (ctx[e].wedged => b.wedged)
        BY <3>1, <3>3 DEF IsAnswer, Sends
      <4>. QED  BY <1>7, <1>11, <3>1, <4>1
    <3>6. can \in BOOLEAN /\ (can => w < NSeg) /\ (shut = 0 /\ ~ can => w > 0)
      <4>1. NSeg \in Nat \ {0}
        BY SslAssumption
      <4>. QED  BY <1>7, <4>1 DEF w
    <3>7. w = Len(net[e]) + acked[e]
      BY <1>7, <1>8
    <3>. HIDE DEF can
    <3>. QED  BY <1>2, <1>7, <1>8, <1>9, <1>11, <2>2, <3>1, <3>4, <3>5, <3>6, <3>7,
                 ReplyKeepsInv DEF f
  <2>. QED  BY <2>1, <2>2
<1>12. CASE /\ ~ fin[e]
            /\ \E answer \in Answers :
                \E n \in IF b.state = "Ready" THEN Reads(b, answer) ELSE {0} :
                    Reply(e, IF can THEN NewData(b, n, answer) ELSE NewDataNoAnswer(b, n, answer),
                          can, to, acked)
  BY <1>11, <1>12
<1>. QED  BY <1>2, <1>10, <1>12

\* A callback that does nothing with the context.
LEMMA ResultIsAnswer ==
    ASSUME MaskFits, NEW e \in Sides, NEW c, NEW g, NEW t, NEW gclosed,
           IsFacing(e, c, g, t, gclosed), IsSide(e, c, FALSE, g, gclosed),
           NEW action \in {"Continue", "Close"}, action = "Close" => c.state = "Ready"
    PROVE  IsAnswer(e, c, Result(c, action), g, t, gclosed)
<1>1. c \in Contexts /\ IsOwn(e, c) /\ c.state # "None" /\ IsStream(Peer(e), g, t, c, FALSE)
  BY DEF IsFacing, Typed
<1>2. Sends(e, c, c)
  <2>1. SameSent(c, c)
    BY DEF SameSent
  <2>. QED  BY <1>1, <2>1, SameIsKept DEF Sends
<1>3. IsStream(Peer(e), g, t, c, TRUE)
  BY <1>1 DEF IsStream
<1>4. ASSUME c.state = "Ready"
      PROVE  IsSide(e, c, TRUE, g, gclosed)
  <2>1. StateIsSound(e, c, FALSE) /\ TakeTurns(e, c, g) /\ PeerIsRead(e, c, g, gclosed)
    BY DEF IsSide
  <2>2. c.hs = 4
    <3>1. c.hs \in 0 .. 4
      BY <1>1 DEF Contexts
    <3>. QED  BY <1>4, <2>1, <3>1 DEF StateIsSound, IsGreeting
  <2>3. StateIsSound(e, c, TRUE)
    BY <1>4, <2>1, <2>2 DEF StateIsSound, IsGreeting
  <2>4. SideIsRead(e, c, TRUE, g)
    BY DEF SideIsRead, ByesAreRead, ServerIsRead
  <2>. QED  BY <1>1, <2>1, <2>3, <2>4 DEF IsSide
<1>5. Result(c, action).c = c /\ Result(c, action).action = action
  BY DEF Result
<1>. QED  BY <1>1, <1>2, <1>3, <1>4, <1>5 DEF IsAnswer

\* onAcked().
LEMMA AckedKeepsInv ==
    ASSUME MaskFits, SslInv, NEW e \in Sides, OnAcked(e)
    PROVE  SslInv'
<1>. DEFINE f == Peer(e)
            c == ctx[e]
            acked == [acks EXCEPT ![e] = @ - 1]
            l == Len(net[e])
            a == acks[e]
            w == l + (a - 1)
<1>1. f \in Sides /\ f # e
  BY SidesAre
<1>2. over = "no" /\ a > 0 /\ shut' = shut
  BY DEF OnAcked
<1>3. /\ ctx \in [Sides -> Contexts] /\ net \in [Sides -> Seq(Seq(Pieces))]
      /\ acks \in [Sides -> Nat] /\ fin \in [Sides -> BOOLEAN]
  BY DEF SslInv, SslTypeOK
<1>4. /\ ArePeers(e, c, net[e], fin[e], ctx[f], net[f], fin[f]) /\ IsWoken(e) /\ fin[e] \in BOOLEAN
  BY SidesArePeers
<1>5. net[e] \in Seq(Seq(Pieces)) /\ l \in Nat /\ a \in Nat \ {0} /\ InFlight(e) = l + a
  BY <1>2, <1>3 DEF InFlight
<1>6. l + a <= NSeg /\ (c.state = "None" => l + a = 0) /\ (~ open[e] => shut > 0)
      /\ NSeg \in Nat /\ shut \in Nat
  <2>1. InFlight(e) <= NSeg /\ (c.state = "None" => InFlight(e) = 0) /\ (~ open[e] => shut > 0)
    BY <1>4 DEF IsWoken
  <2>2. NSeg \in Nat /\ shut \in Nat
    BY SslAssumption DEF SslInv, SslTypeOK
  <2>. QED  BY <1>5, <2>1, <2>2
<1>7. /\ acked \in [Sides -> Nat] /\ acked[e] = a - 1 /\ acked[f] = acks[f] /\ a - 1 \in Nat
  <2>1. a - 1 \in Nat /\ acked = [acks EXCEPT ![e] = a - 1]
    BY <1>5
  <2>. HIDE DEF acked, f
  <2>2. acked \in [Sides -> Nat] /\ acked[f] = acks[f] /\ acked[e] = a - 1
    BY <1>1, <1>3, <2>1
  <2>. QED  BY <2>1, <2>2
<1>. HIDE DEF l, a
<1>8. w \in Nat /\ w < NSeg /\ w < l + a /\ c.state # "None"
  BY <1>5, <1>6
<1>9. \/ fin[e] /\ acks' = acked /\ UNCHANGED <<ctx, net, open, fin, over>>
      \/ /\ ~ fin[e] /\ open[e]
         /\ \E answer \in Answers : Reply(e, Acked(c, answer), TRUE, net, acked)
      \/ /\ ~ fin[e] /\ ~ open[e]
         /\ \E answer \in IF c.state = "Ready" THEN Answers \ {"Respond"} ELSE {"Continue"} :
                Reply(e, Result(c, answer), FALSE, net, acked)
  BY DEF OnAcked
<1>10. w = Len(net[e]) + acked[e] /\ Len(net[f]) + acked[f] = InFlight(f)
  BY <1>7 DEF InFlight, l
<1>11. ASSUME ~ fin[e], NEW r, NEW can \in BOOLEAN, Reply(e, r, can, net, acked),
              r.action # "Abort" => IsAnswer(e, c, r, ctx[f], net[f], fin[f]) /\ (can => ~ r.c.blocked),
              ~ can => shut > 0
       PROVE  SslInv'
  <2>1. CASE r.action = "Abort"
    <3>1. Ends("aborted")
      BY <1>11, <2>1 DEF Reply
    <3>. QED  BY <1>2, <3>1, EndKeepsInv
  <2>2. CASE r.action # "Abort"
    <3>1. Sends(e, c, c)
      <4>1. SameSent(c, c) /\ IsOwn(e, c)
        BY <1>4 DEF SameSent, ArePeers, IsSide
      <4>. QED  BY <1>3, <4>1, SameIsKept DEF Sends
    <3>2. /\ IsAnswer(e, c, r, ctx[f], net[f], fin[f])
          /\ shut = 0 /\ ~ can => w > 0
          /\ shut = 0 /\ ~ r.c.wedged /\ r.c.blocked => w > 0
          /\ can => w < NSeg
          /\ w <= NSeg
      BY <1>6, <1>8, <1>11, <2>2
    <3>. HIDE DEF f, c, w, acked
    <3>. QED  BY <1>2, <1>3, <1>7, <1>8, <1>10, <1>11, <2>2, <3>1, <3>2, ReplyKeepsInv, ZenonT(30) DEF f, c
  <2>. QED  BY <2>1, <2>2
<1>. HIDE DEF w, acked, c, f
<1>12. ASSUME ~ fin[e]
       PROVE  IsFacing(e, c, ctx[f], net[f], fin[f]) /\ IsSide(e, c, FALSE, ctx[f], fin[f])
  BY <1>8, <1>12, FacingIs DEF c, f
<1>13. CASE fin[e] /\ acks' = acked /\ UNCHANGED <<ctx, net, open, fin, over>>
  <2>1. ctx' = [ctx EXCEPT ![e] = c] /\ c \in Contexts /\ ctx'[e] = c
    BY <1>3, <1>13 DEF c
  <2>2. net'[e] = net[e] /\ net'[f] = net[f] /\ fin' = fin /\ open' = open /\ over' = over
        /\ acks' \in [Sides -> Nat] /\ net' \in [Sides -> Seq(Seq(Pieces))]
    BY <1>3, <1>7, <1>13
  <2>3. InFlight(f)' = InFlight(f)
    BY <1>10, <1>13 DEF InFlight, f
  <2>4. InFlight(e)' = w
    BY <1>10, <1>13 DEF InFlight
  <2>5. w <= NSeg
    BY <1>6, <1>8
  <2>6. IsWoken(e)'
    BY <1>2, <1>6, <1>8, <1>13, <2>1, <2>2, <2>4, <2>5 DEF IsWoken
  <2>7. ArePeers(e, c, net[e], fin'[e], ctx[f], net'[f], fin[f])
    BY <1>4, <2>2
  <2>. QED  BY <1>2, <1>3, <1>5, <2>1, <2>2, <2>3, <2>6, <2>7, SideMoves DEF f
<1>14. CASE /\ ~ fin[e] /\ open[e]
            /\ \E answer \in Answers : Reply(e, Acked(c, answer), TRUE, net, acked)
  <2>1. PICK answer \in Answers : Reply(e, Acked(c, answer), TRUE, net, acked)
    BY <1>14
  <2>. DEFINE r == Acked(c, answer)
  <2>2. r.action # "Abort" => IsAnswer(e, c, r, ctx[f], net[f], fin[f]) /\ ~ r.c.blocked
    BY <1>12, <1>14, AckedIsAnswer
  <2>. HIDE DEF r
  <2>3. Reply(e, r, TRUE, net, acked)
    BY <2>1 DEF r
  <2>. QED  BY <1>11, <1>14, <2>2, <2>3
<1>15. CASE /\ ~ fin[e] /\ ~ open[e]
            /\ \E answer \in IF c.state = "Ready" THEN Answers \ {"Respond"} ELSE {"Continue"} :
                   Reply(e, Result(c, answer), FALSE, net, acked)
  <2>1. PICK answer \in IF c.state = "Ready" THEN Answers \ {"Respond"} ELSE {"Continue"} :
                Reply(e, Result(c, answer), FALSE, net, acked)
    BY <1>15
  <2>. DEFINE r == Result(c, answer)
  <2>2. answer \in {"Continue", "Close", "Abort"} /\ (answer = "Close" => c.state = "Ready")
    BY <2>1 DEF Answers
  <2>3. r.action = answer
    BY DEF Result
  <2>4. r.action # "Abort" => IsAnswer(e, c, r, ctx[f], net[f], fin[f])
    <3>1. SUFFICES ASSUME answer \in {"Continue", "Close"}
                   PROVE  IsAnswer(e, c, Result(c, answer), ctx[f], net[f], fin[f])
      BY <2>2, <2>3
    <3>. QED  BY <1>12, <1>15, <2>2, <3>1, ResultIsAnswer
  <2>. HIDE DEF r
  <2>5. Reply(e, r, FALSE, net, acked) /\ shut > 0
    BY <1>6, <1>15, <2>1 DEF r
  <2>. QED  BY <1>11, <1>15, <2>4, <2>5
<1>. QED  BY <1>9, <1>13, <1>14, <1>15

\* The window of a side shuts or opens.
LEMMA WindowKeepsInv ==
    ASSUME SslInv, NEW e \in Sides, WindowShuts(e) \/ WindowOpens(e)
    PROVE  SslInv'
<1>1. /\ ctx' = ctx /\ net' = net /\ acks' = acks /\ fin' = fin /\ over' = over
      /\ open' \in [Sides -> BOOLEAN] /\ shut' \in Nat /\ shut' >= shut
      /\ \A x \in Sides : ~ open'[x] => ~ open[x] \/ shut' > 0
  <2>1. open \in [Sides -> BOOLEAN] /\ shut \in Nat
    BY DEF SslInv, SslTypeOK
  <2>2. CASE WindowShuts(e)
    BY <2>1, <2>2 DEF WindowShuts
  <2>3. CASE WindowOpens(e)
    BY <2>1, <2>3 DEF WindowOpens
  <2>. QED  BY <2>2, <2>3
<1>2. /\ ArePeers(e, ctx[e], net[e], fin[e], ctx[Peer(e)], net[Peer(e)], fin[Peer(e)])
      /\ IsWoken(e) /\ IsWoken(Peer(e)) /\ Peer(e) \in Sides
  BY SidesArePeers, SidesAre
<1>3. SslTypeOK'
  BY <1>1 DEF SslInv, SslTypeOK
<1>4. ASSUME NEW x \in Sides, IsWoken(x)
      PROVE  IsWoken(x)'
  <2>1. shut \in Nat
    BY DEF SslInv, SslTypeOK
  <2>2. InFlight(x)' = InFlight(x)
    BY <1>1 DEF InFlight
  <2>3. shut' = 0 => shut = 0
    BY <1>1, <2>1
  <2>4. ~ open'[x] => shut' > 0
    <3>1. ~ open[x] => shut > 0
      BY <1>4 DEF IsWoken
    <3>. QED  BY <1>1, <2>1, <3>1
  <2>. QED  BY <1>1, <1>4, <2>2, <2>3, <2>4 DEF IsWoken
<1>5. IsWoken(e)' /\ IsWoken(Peer(e))'
  BY <1>2, <1>4
<1>6. ArePeers(e, ctx'[e], net'[e], fin'[e], ctx'[Peer(e)], net'[Peer(e)], fin'[Peer(e)])
  BY <1>1, <1>2
<1>. QED  BY <1>3, <1>5, <1>6, PeersAreSides

-----------------------------------------------------------------------------
(***************************************************************************)
(* The invariant, and what follows from it.                                *)
(***************************************************************************)

LEMMA NextKeepsInv ==
    ASSUME MaskFits, SslInv, [Next]_vars
    PROVE  SslInv'
<1>1. CASE Connect
  BY <1>1, ConnectKeepsInv
<1>2. ASSUME NEW e \in Sides, OnConnected(e)
      PROVE  SslInv'
  BY <1>2, ConnectedKeepsInv
<1>3. ASSUME NEW e \in Sides, Send(e)
      PROVE  SslInv'
  BY <1>3, SendKeepsInv
<1>4. ASSUME NEW e \in Sides, Close(e)
      PROVE  SslInv'
  BY <1>4, CloseKeepsInv
<1>5. ASSUME NEW e \in Sides, Abort(e)
      PROVE  SslInv'
  <2>1. Ends("aborted") /\ shut' = shut
    BY <1>5 DEF Abort
  <2>. QED  BY <2>1, EndKeepsInv
<1>6. ASSUME NEW e \in Sides, OnNewData(e)
      PROVE  SslInv'
  BY <1>6, NewDataKeepsInv
<1>7. ASSUME NEW e \in Sides, OnAcked(e)
      PROVE  SslInv'
  BY <1>7, AckedKeepsInv
<1>8. ASSUME NEW e \in Sides, WindowShuts(e) \/ WindowOpens(e)
      PROVE  SslInv'
  BY <1>8, WindowKeepsInv
<1>9. ASSUME NEW e \in Sides, OnClosed(e)
      PROVE  SslInv'
  <2>1. Ends("closed") /\ shut' = shut
    BY <1>9 DEF OnClosed
  <2>. QED  BY <2>1, EndKeepsInv
<1>10. CASE UNCHANGED vars
  <2>1. /\ ctx' = ctx /\ net' = net /\ acks' = acks /\ open' = open /\ fin' = fin
        /\ over' = over /\ shut' = shut
    BY <1>10 DEF vars
  <2>2. "client" \in Sides /\ Peer("client") \in Sides
    BY SidesAre
  <2>3. /\ ArePeers("client", ctx["client"], net["client"], fin["client"],
                    ctx[Peer("client")], net[Peer("client")], fin[Peer("client")])
        /\ IsWoken("client") /\ IsWoken(Peer("client"))
    BY <2>2, SidesArePeers
  <2>4. SslTypeOK'
    BY <2>1 DEF SslInv, SslTypeOK
  <2>5. \A x \in Sides : InFlight(x)' = InFlight(x)
    BY <2>1 DEF InFlight
  <2>6. IsWoken("client")' /\ IsWoken(Peer("client"))'
    BY <2>1, <2>2, <2>3, <2>5, WokenIsKept
  <2>7. ArePeers("client", ctx'["client"], net'["client"], fin'["client"],
                 ctx'[Peer("client")], net'[Peer("client")], fin'[Peer("client")])
    BY <2>1, <2>3
  <2>. QED  BY <2>2, <2>4, <2>6, <2>7, PeersAreSides
<1>. QED  BY <1>1, <1>2, <1>3, <1>4, <1>5, <1>6, <1>7, <1>8, <1>9, <1>10 DEF Next

\* The inductive invariant: two numbered streams, the handshake by turns, and
\* somebody to wake a side that waits (Ssl.tla, of tools/ssl's Client and Server).
\* m_mask is only right for a size that is a power of two.
THEOREM SslInvariant ==
    ASSUME IsPowerOfTwo(Size)
    PROVE  Spec => []SslInv
<1>1. MaskFits
  BY MaskOfPowerOfTwo DEF MaskFits
<1>2. Init => SslInv
  BY <1>1, InitIsSound
<1>3. SslInv /\ [Next]_vars => SslInv'
  BY <1>1, NextKeepsInv
<1>. QED  BY <1>2, <1>3, PTL DEF Spec

\* The ciphertext is one stream: whether it left bout by flush() of the API or in
\* the answer of a callback, no piece is lost, repeated or overtaken.
THEOREM StreamStaysIntact ==
    ASSUME IsPowerOfTwo(Size)
    PROVE  Spec => []StreamIntact
<1>1. SslInv => StreamIntact
  <2>1. SUFFICES ASSUME SslInv, NEW e \in Sides
                 PROVE  /\ Numbered(Peek(ctx[e].bout, Pending(ctx[e])), ctx[e].made)
                        /\ \A k \in 1 .. Len(net[e]) :
                              net[e][k] # <<>> /\ Numbered(net[e][k], EndOf(e, k))
                        /\ ~ fin[Peer(e)] => Numbered(ctx[Peer(e)].bin, EndOf(e, 0))
    BY DEF StreamIntact
  <2>2. IsStream(e, ctx[e], net[e], ctx[Peer(e)], fin[Peer(e)])
    BY <2>1 DEF SslInv
  <2>3. AreNumbered(ctx[e], net[e])
        /\ (~ fin[Peer(e)] => AreTaken(e, ctx[e], net[e], ctx[Peer(e)]))
    BY <2>2 DEF IsStream, IsTakenBy
  <2>4. \A k : EndOf(e, k) = Mark(ctx[e], net[e], k)
    BY DEF EndOf, Mark
  <2>. QED  BY <2>3, <2>4 DEF AreNumbered, AreTaken
<1>. QED  BY <1>1, SslInvariant, PTL

\* A record that SSL_write() took is given to the delegate of the other side, or
\* is still on its way, until that side closes.
THEOREM RecordsAreKept ==
    ASSUME IsPowerOfTwo(Size)
    PROVE  Spec => []WrittenIsKept
<1>1. SslInv => WrittenIsKept
  <2>1. SUFFICES ASSUME SslInv, NEW e \in Sides, ~ fin[Peer(e)], ~ ctx[Peer(e)].gotBye,
                        ~ ctx[e].wedged
                 PROVE  ctx[e].written - ctx[Peer(e)].given
                            = Cardinality({p \in OnTheWay(e) : p.kind \in DataKinds /\ p.last})
    BY DEF WrittenIsKept
  <2>2. IsStream(e, ctx[e], net[e], ctx[Peer(e)], fin[Peer(e)])
    BY <2>1 DEF SslInv
  <2>3. AreCounted(ctx[e], ctx[Peer(e)], Way(ctx[e], net[e], ctx[Peer(e)]))
    BY <2>1, <2>2 DEF IsStream, IsTakenBy
  <2>4. OnTheWay(e) = Way(ctx[e], net[e], ctx[Peer(e)])
    BY DEF OnTheWay, Way
  <2>. QED  BY <2>1, <2>3, <2>4 DEF AreCounted, Records
<1>. QED  BY <1>1, SslInvariant, PTL

\* In Ready no complete record waits once SSL_read() was called ("Process the
\* internal buffer as long as there is data available").
THEOREM ReadsAreComplete ==
    ASSUME IsPowerOfTwo(Size)
    PROVE  Spec => []LaterReadIsComplete
<1>1. SslInv => LaterReadIsComplete
  <2>1. SUFFICES ASSUME SslInv, NEW e \in Sides, ctx[e].state = "Ready", ctx[e].read
                 PROVE  Complete(ctx[e]) = {}
    BY DEF LaterReadIsComplete
  <2>2. StateIsSound(e, ctx[e], fin[e])
    BY <2>1 DEF SslInv
  <2>. QED  BY <2>1, <2>2 DEF StateIsSound
<1>. QED  BY <1>1, SslInvariant, PTL

\* When nothing is under way, all that p made is in the bin of its peer.
LEMMA AllIsThere ==
    ASSUME MaskFits, NEW p \in Sides, NEW c, NEW g, Typed(c, <<>>, g),
           IsStream(p, c, <<>>, g, FALSE), Pending(c) = 0, g.hs < 4,
           NEW n \in {1, 2}, TakenUpTo(p, g.hs) = Before(p, n), c.made >= UpTo(p, n)
    PROVE  Complete(g) # {}
<1>. DEFINE l == Len(g.bin)
            x == Before(p, n)
            y == UpTo(p, n)
            m == c.made
            i == y - x
<1>1. InHandshake(p, c, g)
  BY GreetingBinIs
<1>2. x + l = m
  <2>1. Mark(c, <<>>, 0) = m - 0
    <3>1. Len(<<>>) = 0
      BY EmptySeq
    <3>. QED  BY <3>1 DEF Mark
  <2>2. AreTaken(p, c, <<>>, g)
    BY DEF IsStream, IsTakenBy
  <2>3. m - 0 = m
    BY ContextIs DEF Typed
  <2>. QED  BY <2>1, <2>2, <2>3 DEF AreTaken
<1>3. /\ FirstEnd(p) \in Nat \ {0} /\ SecondEnd(p) \in Nat /\ FirstEnd(p) < SecondEnd(p)
      /\ l \in Nat /\ m \in Nat
  BY FlightsAre, PlacesAre
<1>4. x \in Nat /\ y \in Nat /\ x < y /\ y <= m
  <2>1. x \in Nat /\ y \in Nat /\ x < y
    BY <1>3 DEF Before, UpTo
  <2>. HIDE DEF x, y, m
  <2>2. y <= m
    <3>1. m >= y
      BY DEF m, y
    <3>. QED  BY <1>3, <2>1, <3>1
  <2>. QED  BY <2>1, <2>2
<1>5. i \in 1 .. l /\ x + i = y
  <2>. HIDE DEF x, y, m, l
  <2>. QED  BY <1>2, <1>3, <1>4
<1>. HIDE DEF i, l
<1>6. g.bin[i].no = y /\ IsInPlace(p, g.bin[i])
  <2>1. \A j \in 1 .. l : g.bin[j].no = x + j /\ IsInPlace(p, g.bin[j])
    BY <1>1 DEF InHandshake, l
  <2>. HIDE DEF x, y
  <2>. QED  BY <1>5, <2>1
<1>7. g.bin[i].last
  <2>1. CASE n = 1
    <3>1. y = FirstEnd(p) /\ y <= FirstEnd(p)
      BY <1>3, <2>1 DEF UpTo
    <3>. HIDE DEF y
    <3>. QED  BY <1>6, <3>1 DEF IsInPlace
  <2>2. CASE n = 2
    <3>1. y = SecondEnd(p) /\ y <= SecondEnd(p) /\ FirstEnd(p) < y
      BY <1>3, <2>2 DEF UpTo
    <3>. HIDE DEF y
    <3>. QED  BY <1>6, <3>1 DEF IsInPlace
  <2>. QED  BY <2>1, <2>2
<1>. QED  BY <1>5, <1>7 DEF Complete, l

\* And a bye that was said too.
LEMMA ByeIsThere ==
    ASSUME MaskFits, NEW p \in Sides, NEW c, NEW g, Typed(c, <<>>, g),
           IsStream(p, c, <<>>, g, FALSE), Pending(c) = 0, c.sentBye, ~ c.wedged, ~ g.gotBye
    PROVE  \E i \in Complete(g) : i \in 1 .. Len(g.bin) /\ g.bin[i].kind = "bye"
<1>1. PICK q \in Way(c, <<>>, g) : q.kind = "bye" /\ q.last
  BY DEF IsStream, IsTakenBy, ByeIsKept
<1>2. Len(<<>>) = 0
  BY EmptySeq
<1>3. PICK i \in 1 .. Len(g.bin) : q = g.bin[i]
  BY <1>1, <1>2, WayIs
<1>. QED  BY <1>1, <1>3 DEF Complete

\* A side that waits for nothing: all it sent has come.
IsCalm(e, c, g) ==
    /\ Typed(c, <<>>, g) /\ IsStream(e, c, <<>>, g, FALSE) /\ IsOwn(e, c) /\ ~ c.wedged
    /\ StateIsSound(e, c, FALSE) /\ Pending(c) = 0 /\ ~ c.blocked /\ c.state # "None"

LEMMA IdleIsCalm ==
    ASSUME MaskFits, SslInv, Idle, NEW e \in Sides
    PROVE  IsCalm(e, ctx[e], ctx[Peer(e)])
<1>1. Peer(e) \in Sides
  BY SidesAre
<1>2. /\ over = "no" /\ shut = 0 /\ ctx[e].state # "None" /\ net[e] = <<>> /\ acks[e] = 0
      /\ ~ fin[e] /\ ~ fin[Peer(e)] /\ ~ ctx[e].wedged
  BY <1>1 DEF Idle, Calm
<1>3. /\ ArePeers(e, ctx[e], net[e], fin[e], ctx[Peer(e)], net[Peer(e)], fin[Peer(e)])
      /\ IsWoken(e) /\ Typed(ctx[e], net[e], ctx[Peer(e)])
      /\ fin[e] \in BOOLEAN /\ fin[Peer(e)] \in BOOLEAN
  BY SidesArePeers
<1>4. fin[e] = FALSE /\ fin[Peer(e)] = FALSE
  BY <1>2, <1>3
<1>5. /\ Typed(ctx[e], <<>>, ctx[Peer(e)]) /\ IsStream(e, ctx[e], <<>>, ctx[Peer(e)], FALSE)
      /\ IsOwn(e, ctx[e]) /\ StateIsSound(e, ctx[e], FALSE)
  BY <1>2, <1>3, <1>4 DEF ArePeers, IsSide
<1>6. InFlight(e) = 0
  <2>1. Len(net[e]) = 0
    BY <1>2, EmptySeq
  <2>. QED  BY <1>2, <2>1 DEF InFlight
<1>7. ~ (Pending(ctx[e]) > 0) /\ ~ ctx[e].blocked
  BY <1>2, <1>3, <1>6 DEF IsWoken
<1>8. Pending(ctx[e]) \in Nat
  BY <1>3, ContextIs DEF Typed
<1>9. Pending(ctx[e]) = 0
  BY <1>7, <1>8
<1>. QED  BY <1>2, <1>5, <1>7, <1>9 DEF IsCalm

\* A flight that was sent is there, and is not left unanswered.
LEMMA CalmIsAnswered ==
    ASSUME MaskFits, NEW p \in Sides, NEW c, NEW g, IsCalm(p, c, g), IsCalm(Peer(p), g, c),
           NEW n \in {1, 2}, n = 1 => c.hs \in {1, 2} /\ g.hs <= 1,
           n = 2 => c.hs \in {3, 4} /\ g.hs \in {2, 3}
    PROVE  FALSE
<1>1. /\ Typed(c, <<>>, g) /\ IsStream(p, c, <<>>, g, FALSE) /\ IsOwn(p, c) /\ ~ c.wedged
      /\ Pending(c) = 0 /\ StateIsSound(Peer(p), g, FALSE)
  BY DEF IsCalm
<1>2. g.hs \in 0 .. 4 /\ c.hs \in 0 .. 4 /\ c.made \in Nat
      /\ FirstEnd(p) \in Nat /\ SecondEnd(p) \in Nat
  BY <1>1, FlightsAre DEF Typed, Contexts
<1>3. g.hs < 4
  BY <1>2
<1>4. TakenUpTo(p, g.hs) = Before(p, n)
  <2>1. CASE n = 1
    BY <2>1 DEF TakenUpTo, Before
  <2>2. CASE n = 2
    <3>1. ~ (g.hs <= 1) /\ g.hs <= 3
      BY <2>2
    <3>. QED  BY <2>2, <3>1 DEF TakenUpTo, Before
  <2>. QED  BY <2>1, <2>2
<1>5. c.made >= UpTo(p, n)
  <2>. DEFINE m == c.made
              x == FirstEnd(p)
              y == SecondEnd(p)
  <2>1. /\ c.hs \in {1, 2} => m = x
        /\ c.hs = 3 => m = y
        /\ c.hs = 4 => m >= y
    BY <1>1 DEF IsOwn, IsMade
  <2>2. m \in Nat /\ x \in Nat /\ y \in Nat
    BY <1>2
  <2>. HIDE DEF m, x, y
  <2>3. m >= IF n = 1 THEN x ELSE y
    BY <2>1, <2>2
  <2>. QED  BY <2>3 DEF UpTo, m, x, y
<1>6. Complete(g) # {}
  BY <1>1, <1>3, <1>4, <1>5, AllIsThere
<1>. QED  BY <1>1, <1>3, <1>6 DEF StateIsSound

LEMMA CalmIsOver ==
    ASSUME MaskFits, NEW c, NEW g, IsCalm("client", c, g), IsCalm("server", g, c),
           TakeTurns("client", c, g), c.hs > 0
    PROVE  c.hs = 4 /\ g.hs = 4
<1>1. /\ "client" \in Sides /\ "server" \in Sides
      /\ Peer("client") = "server" /\ Peer("server") = "client"
  BY SidesAre
<1>2. c.hs \in 0 .. 4 /\ g.hs \in 0 .. 4
  BY DEF IsCalm, Typed, Contexts
<1>3. \/ c.hs = 1 /\ g.hs = 0
      \/ c.hs = 1 /\ g.hs = 2
      \/ c.hs = 3 /\ g.hs = 2
      \/ c.hs = 3 /\ g.hs = 4
      \/ c.hs = 4 /\ g.hs = 4
  BY <1>2 DEF TakeTurns, Turns
<1>4. \A n \in {1, 2} :
        /\ ~ (/\ n = 1 => c.hs \in {1, 2} /\ g.hs <= 1
              /\ n = 2 => c.hs \in {3, 4} /\ g.hs \in {2, 3})
        /\ ~ (/\ n = 1 => g.hs \in {1, 2} /\ c.hs <= 1
              /\ n = 2 => g.hs \in {3, 4} /\ c.hs \in {2, 3})
  BY <1>1, CalmIsAnswered
<1>5. ~ (c.hs = 1 /\ g.hs = 0)
  BY <1>4
<1>6. ~ (c.hs = 1 /\ g.hs = 2)
  BY <1>4
<1>7. ~ (c.hs = 3 /\ g.hs = 2)
  BY <1>4
<1>8. ~ (c.hs = 3 /\ g.hs = 4)
  BY <1>4
<1>. QED  BY <1>3, <1>5, <1>6, <1>7, <1>8

\* A shutdown that is not over: the peer has not read it.
LEMMA CalmShutdown ==
    ASSUME MaskFits, NEW p \in Sides, NEW c, NEW g, IsCalm(p, c, g), IsCalm(Peer(p), g, c),
           g.hs = 4, c.state = "Shutdown", SideIsRead(p, c, FALSE, g), PeerIsRead(p, c, g, FALSE)
    PROVE  g.state = "Ready" /\ Complete(g) # {}
<1>1. /\ Typed(c, <<>>, g) /\ IsStream(p, c, <<>>, g, FALSE) /\ ~ c.wedged /\ Pending(c) = 0
      /\ Typed(g, <<>>, c) /\ IsStream(Peer(p), g, <<>>, c, FALSE) /\ ~ g.wedged /\ Pending(g) = 0
      /\ StateIsSound(p, c, FALSE) /\ StateIsSound(Peer(p), g, FALSE) /\ IsOwn(Peer(p), g)
      /\ g.state # "None" /\ Peer(p) \in Sides
  BY SidesAre DEF IsCalm
<1>2. c.sentBye /\ ~ c.gotBye
  BY <1>1 DEF StateIsSound
<1>3. g.state \in {"Ready", "Shutdown"}
  <2>1. g.state \in States
    BY <1>1 DEF Typed, Contexts
  <2>. QED  BY <1>1, <2>1 DEF StateIsSound, IsGreeting, States
<1>4. g.sentBye => \E i \in Complete(c) : i \in 1 .. Len(c.bin) /\ c.bin[i].kind = "bye"
  BY <1>1, <1>2, ByeIsThere
<1>5. ~ g.gotBye => \E i \in Complete(g) : i \in 1 .. Len(g.bin) /\ g.bin[i].kind = "bye"
  BY <1>1, <1>2, ByeIsThere
<1>6. g.gotBye => g.sentBye
  BY <1>1 DEF IsOwn
<1>7. g.state = "Shutdown" => g.sentBye /\ ~ g.gotBye
  BY <1>1 DEF StateIsSound
<1>8. CASE p = "client"
  <2>1. Complete(g) = {}
    BY <1>8 DEF PeerIsRead, ServerIsRead
  <2>2. g.gotBye /\ g.sentBye /\ g.state = "Ready"
    BY <1>3, <1>5, <1>6, <1>7, <2>1
  <2>3. \A i \in 1 .. Len(c.bin) : c.bin[i].kind # "bye"
    BY <1>8, <2>2 DEF SideIsRead, ByesAreRead
  <2>. QED  BY <1>4, <2>2, <2>3
<1>9. CASE p # "client"
  <2>1. Complete(c) = {}
    BY <1>9 DEF SideIsRead, ServerIsRead
  <2>2. ~ g.sentBye /\ ~ g.gotBye
    BY <1>4, <1>6, <2>1
  <2>3. g.state = "Ready"
    BY <1>3, <1>7, <2>2
  <2>. QED  BY <1>5, <2>2, <2>3
<1>. QED  BY <1>8, <1>9

\* Nobody waits for a callback that does not come: when TCP has delivered and
\* acknowledged everything, nothing is left in bout, no send() is blocked, the
\* handshake is over, and so is a shutdown, unless the peer left it unread.
THEOREM NothingEverSticks ==
    ASSUME IsPowerOfTwo(Size)
    PROVE  Spec => []NothingIsStuck
<1>1. MaskFits
  BY MaskOfPowerOfTwo DEF MaskFits
<1>2. SslInv => NothingIsStuck
  <2>1. SUFFICES ASSUME SslInv, Idle, ctx["client"].hs > 0, NEW e \in Sides
                 PROVE  /\ Pending(ctx[e]) = 0 /\ ~ ctx[e].blocked /\ HandshakeOver(ctx[e])
                        /\ ctx[e].state = "Shutdown" => ~ ReadIsComplete
    BY DEF NothingIsStuck
  <2>2. /\ "client" \in Sides /\ "server" \in Sides
        /\ Peer("client") = "server" /\ Peer("server") = "client"
        /\ Peer(e) \in Sides /\ Peer(Peer(e)) = e /\ (e = "client" \/ e = "server")
    BY SidesAre
  <2>3. /\ IsCalm("client", ctx["client"], ctx["server"])
        /\ IsCalm("server", ctx["server"], ctx["client"])
    BY <1>1, <2>1, <2>2, IdleIsCalm
  <2>4. TakeTurns("client", ctx["client"], ctx["server"])
    BY <2>1, <2>2 DEF SslInv
  <2>5. ctx["client"].hs = 4 /\ ctx["server"].hs = 4
    BY <1>1, <2>1, <2>3, <2>4, CalmIsOver
  <2>6. IsCalm(e, ctx[e], ctx[Peer(e)]) /\ IsCalm(Peer(e), ctx[Peer(e)], ctx[e])
        /\ ctx[e].hs = 4 /\ ctx[Peer(e)].hs = 4
    BY <2>2, <2>3, <2>5
  <2>7. Pending(ctx[e]) = 0 /\ ~ ctx[e].blocked /\ HandshakeOver(ctx[e])
    BY <2>6 DEF IsCalm, HandshakeOver
  <2>8. ASSUME ctx[e].state = "Shutdown"
        PROVE  ~ ReadIsComplete
    <3>1. fin[e] = FALSE /\ fin[Peer(e)] = FALSE
      BY <2>1, <2>2, SidesArePeers DEF Idle
    <3>2. IsSide(e, ctx[e], FALSE, ctx[Peer(e)], FALSE)
      BY <2>1, <3>1, SidesArePeers DEF ArePeers
    <3>3. SideIsRead(e, ctx[e], FALSE, ctx[Peer(e)]) /\ PeerIsRead(e, ctx[e], ctx[Peer(e)], FALSE)
      BY <3>2 DEF IsSide
    <3>4. ctx[Peer(e)].state = "Ready" /\ Complete(ctx[Peer(e)]) # {}
      BY <1>1, <2>6, <2>8, <3>3, CalmShutdown
    <3>. QED  BY <2>2, <3>4 DEF ReadIsComplete
  <2>. QED  BY <2>7, <2>8
<1>. QED  BY <1>2, SslInvariant, PTL

\* The type invariant: no buffer holds more than its size, no more segments are in
\* flight than there are, and the handshake has its steps.
THEOREM SslIsTyped ==
    ASSUME IsPowerOfTwo(Size)
    PROVE  Spec => []TypeOK
<1>1. Init => shut \in 0 .. MaxShut
  BY SslAssumption DEF Init
<1>2. shut \in 0 .. MaxShut /\ [Next]_vars => (shut \in 0 .. MaxShut)'
  <2>1. SUFFICES ASSUME shut \in 0 .. MaxShut, [Next]_vars
                 PROVE  shut' \in 0 .. MaxShut
    OBVIOUS
  <2>2. shut' = shut \/ (shut < MaxShut /\ shut' = shut + 1)
    BY <2>1 DEF Next, Connect, OnConnected, Send, Close, Abort, OnNewData, OnAcked,
                WindowShuts, WindowOpens, OnClosed, vars
  <2>. QED  BY <2>1, <2>2, SslAssumption
<1>3. Spec => [](shut \in 0 .. MaxShut)
  BY <1>1, <1>2, PTL DEF Spec
<1>4. SslInv /\ shut \in 0 .. MaxShut => TypeOK
  <2>1. SUFFICES ASSUME SslInv, shut \in 0 .. MaxShut, NEW e \in Sides
                 PROVE  /\ ctx[e].state \in {"None", "Connect", "Accept", "Ready", "Shutdown"}
                        /\ Available(ctx[e].bout) \in 0 .. Size
                        /\ ctx[e].hs \in 0 .. 4
                        /\ InFlight(e) \in 0 .. NSeg
    <3>1. SslInv => over \in {"no", "closed", "aborted"}
      BY DEF SslInv, SslTypeOK
    <3>. QED  BY <3>1 DEF TypeOK
  <2>2. ctx[e] \in Contexts /\ net[e] \in Seq(Seq(Pieces)) /\ acks[e] \in Nat
    BY <2>1 DEF SslInv, SslTypeOK
  <2>3. /\ ctx[e].state \in {"None", "Connect", "Accept", "Ready", "Shutdown"}
        /\ ctx[e].bout \in Buffers /\ ctx[e].hs \in 0 .. 4
    BY <2>2 DEF Contexts, States
  <2>4. Available(ctx[e].bout) \in 0 .. Size
    BY <2>3, BufferIs
  <2>5. InFlight(e) \in 0 .. NSeg
    <3>1. IsWoken(e)
      BY <2>1 DEF SslInv
    <3>2. Len(net[e]) \in Nat
      BY <2>2
    <3>3. InFlight(e) \in Nat
      BY <2>2, <3>2 DEF InFlight
    <3>. QED  BY <3>1, <3>3, SslAssumption DEF IsWoken
  <2>. QED  BY <2>3, <2>4, <2>5
<1>. QED  BY <1>3, <1>4, SslInvariant, PTL
=============================================================================
