---------------------------- MODULE TCPv4_proofs ----------------------------
(***************************************************************************)
(* Proofs about a TCPv4 host and any peer, for every number of segments,   *)
(* sequence space, MSS and number of retransmissions, every set of         *)
(* reactions of the application and every frame that the peer may send.    *)
(*                                                                         *)
(* The functions of Send.cpp and the ACK scan come first: each leaves a    *)
(* sound connection, with its segments in a row.  The actions are built    *)
(* from them, one lemma for each.                                          *)
(***************************************************************************)
EXTENDS TCPv4AnyPeer, SegmentRing_proofs

\* A connection as a ring, without its other fields.
Core(c) == [segs |-> c.segs, segidx |-> c.segidx, snd_nxt |-> c.snd_nxt]

\* A segment of more than one byte is data, and its payload is there: this is
\* what Segment::swap copies.
PayloadsAreThere(c) ==
    \A i \in Slots : c.segs[i].len <= 1 \/ Len(c.segs[i].dat) = c.segs[i].len

\* A connection that the stack can work with: no more bytes wait in the send
\* buffer than go into a segment.
IsSound(c) == c \in Connection /\ Len(c.buf) <= MSS /\ PayloadsAreThere(c)

\* What is in flight follows each other up to snd_nxt and does not wrap.
IsWhole(c) ==
    \E k \in 0 .. SegmentCount : IsLevel(Core(c), k) /\ IsSpan(Core(c), k, MSS)

Application ==
    [sent : 0 .. MaxBytes, rcvd : Seq(Nat),
     log : Seq({"Connected", "Closed", "Aborted", "TimedOut"}),
     iss : SeqNos, irs : SeqNos, clean : BOOLEAN]

(***************************************************************************)
(* The events that a connection was reported with, by its state.           *)
(***************************************************************************)
Unreported == {"SYN_SENT", "SYN_RCVD"}
Reported == {"ESTABLISHED", "CLOSE", "FIN_WAIT_1", "FIN_WAIT_2", "LAST_ACK"}
Over == {"CLOSING", "TIME_WAIT"}

\* What a RST, an abort or a timeout leave.
Broken ==
    {<<"Aborted">>, <<"TimedOut">>,
     <<"Connected", "Aborted">>, <<"Connected", "TimedOut">>,
     <<"Connected", "Closed", "Aborted">>, <<"Connected", "Closed", "TimedOut">>}

LogFits(state, log) ==
    /\ state \in Unreported => log = <<>>
    /\ state \in Reported => log = <<"Connected">>
    /\ state \in Over => log = <<"Connected", "Closed">>
    /\ state = "CLOSED" =>
          log \in Broken \cup {<<>>, <<"Connected">>, <<"Connected", "Closed">>}

(***************************************************************************)
(* The data that was given, and how far rcv_nxt is.                        *)
(***************************************************************************)
DataFits(c, a) ==
    /\ \A i \in DOMAIN a.rcvd : a.rcvd[i] = i
    /\ Len(a.rcvd) < SeqSpace
    /\ c.state \in Unreported => a.rcvd = <<>>
    /\ c.state = "SYN_RCVD" => a.irs = PeerSeq /\ c.rcv_nxt = SeqAdd(PeerSeq, 1)
    /\ c.state = "ESTABLISHED" =>
          a.irs = PeerSeq /\ c.rcv_nxt = SeqAdd(SeqAdd(PeerSeq, 1), Len(a.rcvd))

HostFits(c, a) ==
    /\ IsSound(c)
    /\ a \in Application
    /\ a.clean => IsWhole(c)
    /\ LogFits(c.state, a.log)
    /\ DataFits(c, a)

\* The peer sends the byte that is at the sequence number of the frame, and
\* knows its initial sequence number.
IsPeerFrame(f) ==
    /\ f.seq \in SeqNos /\ f.wnd \in Nat /\ f.port \in Nat
    /\ f.dat # <<>> => /\ f.dat = <<Position(f.seq)>>
                       /\ Position(f.seq) \in 1 .. PeerBytes
    /\ "SYN" \in f.flags => f.seq = PeerSeq /\ f.dat = <<>>

HostInv ==
    /\ HostFits(conn, app)
    /\ inp = <<>> \/ \E f : inp = <<f>> /\ IsPeerFrame(f)

-----------------------------------------------------------------------------
(***************************************************************************)
(* Connections as rings.                                                   *)
(***************************************************************************)

\* MSS is short enough for the lemmas on the ring.
LEMMA MssFits == Fits(MSS) /\ MSS \in SeqNos /\ 1 \in 0 .. MSS /\ 0 \in 0 .. MSS
<1>1. Fits(MSS)
  BY ConnectionAssumption DEF Fits
<1>2. MSS \in 0 .. MSS /\ 1 \in 0 .. MSS /\ 0 \in 0 .. MSS
  BY ConnectionAssumption
<1>. QED  BY <1>1, <1>2, LengthsAreSeqNos

\* The fields of a connection.
LEMMA ConnectionHas ==
    ASSUME NEW c \in Connection
    PROVE  /\ c.state \in States /\ c.port \in Nat /\ c.rcv_nxt \in SeqNos
           /\ c.snd_nxt \in SeqNos /\ c.wnd \in Nat /\ c.nrtx \in 0 .. MaxRtx
           /\ c.buf \in Seq(Nat) /\ c.segidx \in Slots /\ c.segs \in [Slots -> Segment]
BY DEF Connection

\* The core of a connection is a ring, in which the same segments are in use.
LEMMA CoreIsRing ==
    ASSUME NEW c \in Connection
    PROVE  /\ Core(c) \in Ring
           /\ HasAvailableSegments(Core(c)) <=> HasAvailableSegments(c)
           /\ HasOutstandingSegments(Core(c)) <=> HasOutstandingSegments(c)
           /\ \A k : Nth(Core(c), k) = Nth(c, k)
           /\ Oldest(Core(c)) = Oldest(c)
BY ConnectionHas
   DEF Core, Ring, HasAvailableSegments, HasOutstandingSegments, Nth, Oldest

\* The core depends on three fields only.
LEMMA SameCore ==
    ASSUME NEW c, NEW d, d.segs = c.segs, d.segidx = c.segidx, d.snd_nxt = c.snd_nxt
    PROVE  /\ Core(d) = Core(c)
           /\ IsWhole(d) <=> IsWhole(c)
           /\ PayloadsAreThere(d) <=> PayloadsAreThere(c)
           /\ HasAvailableSegments(d) <=> HasAvailableSegments(c)
           /\ HasOutstandingSegments(d) <=> HasOutstandingSegments(c)
BY DEF Core, IsWhole, PayloadsAreThere, HasAvailableSegments, HasOutstandingSegments

\* Whole rings have the shape of a ring.
LEMMA WholeIsInShape ==
    ASSUME NEW c \in Connection, IsWhole(c)
    PROVE  RingShape(c)
<1>1. PICK k \in 0 .. SegmentCount : IsLevel(Core(c), k)
  BY DEF IsWhole
<1>2. Core(c).snd_nxt = c.snd_nxt
  BY DEF Core
<1>3. \A j : Nth(Core(c), j) = Nth(c, j)
  BY CoreIsRing
<1>4. IsLevel(c, k)
  BY <1>1, <1>2, <1>3 DEF IsLevel
<1>. QED  BY <1>4 DEF RingShape

-----------------------------------------------------------------------------
(***************************************************************************)
(* Send.cpp.                                                               *)
(***************************************************************************)

\* A push on the connection is a push on its ring.
LEMMA CoreOfPushed ==
    ASSUME NEW c \in Connection, NEW len \in SeqNos, NEW dat \in Seq(Nat)
    PROVE  LET d == PushSegment(c, len, dat)
           IN  /\ Core(d) = PushSegment(Core(c), len, dat)
               /\ d \in Connection
               /\ d.state = c.state /\ d.rcv_nxt = c.rcv_nxt /\ d.buf = c.buf
               /\ d.segs = [c.segs EXCEPT ![NextAvailableSegment(c)] =
                               [len |-> len, seq |-> c.snd_nxt, dat |-> dat]]
<1>. DEFINE a == NextAvailableSegment(c)
            new == [len |-> len, seq |-> c.snd_nxt, dat |-> dat]
            d == PushSegment(c, len, dat)
<1>1. NextAvailableSegment(Core(c)) = a
  BY DEF NextAvailableSegment, IsNextAvailable, Nth, Core
<1>2. d = [c EXCEPT !.segs = [c.segs EXCEPT ![a] = new],
                    !.snd_nxt = SeqAdd(c.snd_nxt, len)]
  BY DEF PushSegment
<1>3. PushSegment(Core(c), len, dat) =
        [segs |-> [c.segs EXCEPT ![a] = new], segidx |-> c.segidx,
         snd_nxt |-> SeqAdd(c.snd_nxt, len)]
  <2>. DEFINE r == Core(c)
              g == [r.segs EXCEPT ![NextAvailableSegment(r)] =
                       [len |-> len, seq |-> r.snd_nxt, dat |-> dat]]
              n == SeqAdd(r.snd_nxt, len)
  <2>1. r = [segs |-> c.segs, segidx |-> c.segidx, snd_nxt |-> c.snd_nxt]
    BY DEF Core
  <2>2. PushSegment(r, len, dat) = [r EXCEPT !.segs = g, !.snd_nxt = n]
    BY DEF PushSegment
  <2>3. g = [c.segs EXCEPT ![a] = new] /\ n = SeqAdd(c.snd_nxt, len)
    <3>1. r.segs = c.segs /\ r.snd_nxt = c.snd_nxt /\ NextAvailableSegment(r) = a
      BY <1>1, <2>1
    <3>2. [len |-> len, seq |-> r.snd_nxt, dat |-> dat] = new
      BY <3>1
    <3>. HIDE DEF r, a, new
    <3>. QED  BY <3>1, <3>2
  <2>. HIDE DEF r, a, new, g, n
  <2>4. r \in Ring /\ PushSegment(r, len, dat) \in Ring
    BY CoreIsRing, PushType DEF r
  <2>5. PushSegment(r, len, dat) = [segs |-> g, segidx |-> r.segidx, snd_nxt |-> n]
    BY <2>2, <2>4 DEF Ring
  <2>. QED  BY <2>1, <2>3, <2>5 DEF r
<1>4. new \in Segment /\ SeqAdd(c.snd_nxt, len) \in SeqNos
  BY ConnectionHas, SeqAddType DEF Segment, SeqNos
<1>. HIDE DEF a, new, d
<1>5. [c.segs EXCEPT ![a] = new] \in [Slots -> Segment]
  BY <1>4, ConnectionHas
<1>6. /\ d.segs = [c.segs EXCEPT ![a] = new] /\ d.segidx = c.segidx
      /\ d.snd_nxt = SeqAdd(c.snd_nxt, len)
      /\ d.state = c.state /\ d.rcv_nxt = c.rcv_nxt /\ d.buf = c.buf
      /\ d \in Connection
  BY <1>2, <1>4, <1>5 DEF Connection
<1>7. Core(d) = PushSegment(Core(c), len, dat)
  BY <1>3, <1>6 DEF Core
<1>. QED  BY <1>6, <1>7 DEF a, new, d

\* A segment that is sent keeps a whole ring whole.
LEMMA PushedIsWhole ==
    ASSUME NEW c \in Connection, IsWhole(c), HasAvailableSegments(c),
           NEW len \in 0 .. MSS, NEW dat \in Seq(Nat)
    PROVE  IsWhole(PushSegment(c, len, dat))
<1>. DEFINE r == Core(c)
            d == PushSegment(r, len, dat)
<1>1. PICK k \in 0 .. SegmentCount : IsLevel(r, k) /\ IsSpan(r, k, MSS)
  BY DEF IsWhole
<1>2. r \in Ring /\ HasAvailableSegments(r) /\ len \in SeqNos
  BY CoreIsRing, MssFits, LengthsAreSeqNos
<1>3. Core(PushSegment(c, len, dat)) = d
  BY <1>2, CoreOfPushed
<1>. HIDE DEF r
<1>4. k + 1 \in 0 .. SegmentCount
  BY <1>1, <1>2, NthOfPushed, RingAssumption DEF Slots
<1>5. IsLevel(d, IF len = 0 THEN k ELSE k + 1)
  BY <1>1, <1>2, PushedLevel
<1>6. CASE len = 0
  <2>1. IsSpan(d, k, MSS)
    BY <1>1, <1>2, <1>6, PushedNothing
  <2>. HIDE DEF d
  <2>. QED  BY <1>3, <1>5, <1>6, <2>1 DEF IsWhole
<1>7. CASE len # 0
  <2>1. len \in 1 .. MSS
    BY <1>7, ConnectionAssumption
  <2>2. IsSpan(d, k + 1, MSS)
    BY <1>1, <1>2, <2>1, MssFits, PushedSpan
  <2>. HIDE DEF d
  <2>. QED  BY <1>3, <1>4, <1>5, <1>7, <2>2 DEF IsWhole
<1>. QED  BY <1>6, <1>7

\* d is what a function leaves of c: sound, and whole if c was.
Keeps(c, d) == IsSound(d) /\ (IsWhole(c) => IsWhole(d))

\* send(e, seg, flags) of data, of a SYN or of a FIN.
LEMMA SendSegmentKeeps ==
    ASSUME NEW c, IsSound(c), HasAvailableSegments(c),
           NEW len \in 0 .. MSS, NEW dat \in Seq(Nat), len <= 1 \/ Len(dat) = len,
           NEW flags, NEW wnd
    PROVE  LET d == SendSegment(c, len, flags, dat, wnd).c
           IN  /\ Keeps(c, d)
               /\ d.state = c.state /\ d.rcv_nxt = c.rcv_nxt
<1>. DEFINE p == PushSegment(c, len, dat)
            d == [p EXCEPT !.buf = <<>>]
            new == [len |-> len, seq |-> c.snd_nxt, dat |-> dat]
<1>1. c \in Connection /\ PayloadsAreThere(c) /\ len \in SeqNos
  BY MssFits, LengthsAreSeqNos DEF IsSound
<1>2. /\ p \in Connection /\ p.state = c.state /\ p.rcv_nxt = c.rcv_nxt
      /\ p.segs = [c.segs EXCEPT ![NextAvailableSegment(c)] = new]
  BY <1>1, CoreOfPushed
<1>3. IsWhole(c) => IsWhole(p)
  BY <1>1, PushedIsWhole
<1>4. PayloadsAreThere(p)
  <2>1. new.len = len /\ new.dat = dat
    OBVIOUS
  <2>2. \A i \in Slots : p.segs[i] = IF i = NextAvailableSegment(c) THEN new
                                                                  ELSE c.segs[i]
    BY <1>1, <1>2, ConnectionHas
  <2>. HIDE DEF p, new
  <2>. QED  BY <1>1, <2>1, <2>2 DEF PayloadsAreThere
<1>. HIDE DEF p
<1>5. /\ d \in Connection /\ d.state = p.state /\ d.rcv_nxt = p.rcv_nxt
      /\ d.segs = p.segs /\ d.segidx = p.segidx /\ d.snd_nxt = p.snd_nxt
      /\ d.buf = <<>>
  <2>1. p \in Connection /\ <<>> \in Seq(Nat)
    BY <1>2
  <2>. QED  BY <2>1 DEF Connection
<1>6. Len(d.buf) <= MSS
  BY <1>5, ConnectionAssumption
<1>. HIDE DEF d
<1>7. IsSound(d) /\ (IsWhole(c) => IsWhole(d))
  BY <1>3, <1>4, <1>5, <1>6, SameCore DEF IsSound
<1>8. SendSegment(c, len, flags, dat, wnd).c = d
  BY DEF SendSegment, Result, d, p
<1>. QED  BY <1>2, <1>5, <1>7, <1>8 DEF Keeps

\* send(e, seg, flags) of a SYN or a FIN.
LEMMA SendFlagKeeps ==
    ASSUME NEW c, IsSound(c), HasAvailableSegments(c), NEW flags, NEW wnd
    PROVE  LET d == SendSegment(c, 1, flags, <<>>, wnd).c
           IN  Keeps(c, d) /\ d.state = c.state /\ d.rcv_nxt = c.rcv_nxt
<1>1. ASSUME NEW len \in 0 .. MSS, NEW dat \in Seq(Nat), len <= 1
      PROVE  LET d == SendSegment(c, len, flags, dat, wnd).c
             IN  Keeps(c, d) /\ d.state = c.state /\ d.rcv_nxt = c.rcv_nxt
  BY <1>1, SendSegmentKeeps
<1>2. 1 \in 0 .. MSS /\ <<>> \in Seq(Nat) /\ 1 <= 1
  BY MssFits
<1>. QED  BY <1>1, <1>2

\* sendNoDelay()
LEMMA SendNoDelayKeeps ==
    ASSUME NEW c, IsSound(c), HasAvailableSegments(c), NEW wnd
    PROVE  LET d == SendNoDelay(c, wnd).c
           IN  Keeps(c, d) /\ d.state = c.state /\ d.rcv_nxt = c.rcv_nxt
<1>1. Len(c.buf) \in 0 .. MSS /\ c.buf \in Seq(Nat)
  BY ConnectionHas, ConnectionAssumption DEF IsSound
<1>. QED  BY <1>1, SendSegmentKeeps DEF SendNoDelay

\* A change that leaves the ring alone.
LEMMA SameRingKeeps ==
    ASSUME NEW c, IsSound(c), NEW d \in Connection, Len(d.buf) <= MSS,
           d.segs = c.segs, d.segidx = c.segidx, d.snd_nxt = c.snd_nxt
    PROVE  /\ Keeps(c, d)
           /\ HasAvailableSegments(d) <=> HasAvailableSegments(c)
           /\ HasOutstandingSegments(d) <=> HasOutstandingSegments(c)
BY SameCore DEF Keeps, IsSound

LEMMA KeepsTwice ==
    ASSUME NEW c, NEW d, NEW e, Keeps(c, d), Keeps(d, e)
    PROVE  Keeps(c, e)
BY DEF Keeps

\* sendAbort()
LEMMA SendAbortKeeps ==
    ASSUME NEW c, IsSound(c), NEW wnd
    PROVE  LET d == SendAbort(c, wnd).c
           IN  /\ Keeps(c, d)
               /\ d.state = "CLOSED" /\ d.rcv_nxt = c.rcv_nxt
<1>. DEFINE d == [c EXCEPT !.state = "CLOSED"]
<1>1. c \in Connection /\ Len(c.buf) <= MSS /\ "CLOSED" \in States
  BY DEF IsSound, States
<1>2. /\ d \in Connection /\ d.state = "CLOSED" /\ d.rcv_nxt = c.rcv_nxt
      /\ d.buf = c.buf
      /\ d.segs = c.segs /\ d.segidx = c.segidx /\ d.snd_nxt = c.snd_nxt
  BY <1>1 DEF Connection
<1>3. SendAbort(c, wnd).c = d
  BY DEF SendAbort, Result
<1>. HIDE DEF d
<1>4. Keeps(c, d)
  BY <1>1, <1>2, SameRingKeeps
<1>. QED  BY <1>2, <1>3, <1>4

\* sendClose() sends nothing when all segments are in use.
LEMMA SendCloseKeeps ==
    ASSUME NEW c, IsSound(c), NEW wnd
    PROVE  LET d == SendClose(c, wnd).c
           IN  /\ Keeps(c, d)
               /\ d.state = IF HasAvailableSegments(c) THEN "FIN_WAIT_1" ELSE c.state
               /\ d.rcv_nxt = c.rcv_nxt
<1>1. CASE HasAvailableSegments(c)
  <2>. DEFINE b == [c EXCEPT !.state = "FIN_WAIT_1"]
              d == SendSegment(b, 1, FINACK, <<>>, wnd).c
  <2>1. c \in Connection /\ Len(c.buf) <= MSS /\ "FIN_WAIT_1" \in States
    BY DEF IsSound, States
  <2>2. /\ b \in Connection /\ b.state = "FIN_WAIT_1" /\ b.rcv_nxt = c.rcv_nxt
        /\ b.buf = c.buf
        /\ b.segs = c.segs /\ b.segidx = c.segidx /\ b.snd_nxt = c.snd_nxt
    BY <2>1 DEF Connection
  <2>3. SendClose(c, wnd).c = d
    BY <1>1 DEF SendClose, SendFinAck
  <2>. HIDE DEF b
  <2>4. Keeps(c, b) /\ HasAvailableSegments(b)
    BY <1>1, <2>1, <2>2, SameRingKeeps
  <2>5. Keeps(b, d) /\ d.state = b.state /\ d.rcv_nxt = b.rcv_nxt
    BY <2>4, SendFlagKeeps DEF Keeps
  <2>. HIDE DEF d
  <2>6. Keeps(c, d)
    BY <2>4, <2>5, KeepsTwice
  <2>. QED  BY <1>1, <2>2, <2>3, <2>5, <2>6
<1>2. CASE ~ HasAvailableSegments(c)
  <2>1. SendClose(c, wnd).c = c
    BY <1>2 DEF SendClose, Result
  <2>. QED  BY <1>2, <2>1 DEF Keeps
<1>. QED  BY <1>1, <1>2

\* sendAck(), with data in the send buffer and without.
LEMMA SendAcksKeep ==
    ASSUME NEW c, IsSound(c), NEW wnd, NEW r \in SendAcks(c, wnd)
    PROVE  /\ Keeps(c, r.c)
           /\ r.c.state = c.state /\ r.c.rcv_nxt = c.rcv_nxt /\ r.c.wnd = c.wnd
           /\ r.c.snd_nxt = c.snd_nxt /\ Len(r.c.buf) = Len(c.buf)
           /\ HasAvailableSegments(r.c) <=> HasAvailableSegments(c)
<1>1. CASE HasPendingSendData(c)
  <2>. DEFINE b == [p \in DOMAIN c.buf |-> Garbage]
              d == [c EXCEPT !.buf = b]
  <2>1. c \in Connection /\ Len(c.buf) <= MSS
    BY DEF IsSound
  <2>2. b \in Seq(Nat) /\ Len(b) = Len(c.buf)
    <3>1. DOMAIN c.buf = 1 .. Len(c.buf) /\ Len(c.buf) \in Nat
      BY <2>1, ConnectionHas
    <3>2. b \in [1 .. Len(c.buf) -> Nat]
      BY <3>1 DEF Garbage
    <3>. QED  BY <3>1, <3>2
  <2>3. r.c = d
    BY <1>1 DEF SendAcks, Result
  <2>. HIDE DEF b
  <2>4. /\ d \in Connection /\ d.state = c.state /\ d.rcv_nxt = c.rcv_nxt
        /\ d.buf = b /\ d.wnd = c.wnd
        /\ d.segs = c.segs /\ d.segidx = c.segidx /\ d.snd_nxt = c.snd_nxt
    BY <2>1, <2>2 DEF Connection
  <2>. HIDE DEF d
  <2>5. Keeps(c, d) /\ (HasAvailableSegments(d) <=> HasAvailableSegments(c))
    BY <2>1, <2>2, <2>4, SameRingKeeps
  <2>. QED  BY <2>2, <2>3, <2>4, <2>5
<1>2. CASE ~ HasPendingSendData(c)
  <2>1. r.c = c
    BY <1>2 DEF SendAcks, Result
  <2>. QED  BY <2>1 DEF Keeps
<1>. QED  BY <1>1, <1>2

-----------------------------------------------------------------------------
(***************************************************************************)
(* Retransmission.                                                         *)
(***************************************************************************)

\* A segment that is swapped has as many bytes as before.
LEMMA SwappedType ==
    ASSUME NEW seg \in Segment, seg.len <= 1 \/ Len(seg.dat) = seg.len,
           NEW buf \in Seq(Nat)
    PROVE  Swapped(seg, buf) \in Seq(Nat) /\ Len(Swapped(seg, buf)) = seg.len
<1>1. seg.len \in Nat /\ seg.dat \in Seq(Nat)
  BY RingAssumption DEF Segment
<1>2. Swapped(seg, buf) \in [1 .. seg.len -> Nat]
  <2>1. ASSUME NEW p \in 1 .. seg.len, p + HeaderLen <= seg.len
        PROVE  seg.dat[p] \in Nat
    <3>1. Len(seg.dat) = seg.len
      BY <1>1, <2>1, ConnectionAssumption
    <3>. QED  BY <1>1, <3>1
  <2>2. ASSUME NEW p \in 1 .. seg.len, p <= Len(buf)
        PROVE  buf[p] \in Nat
    BY <1>1, <2>2
  <2>. QED  BY <2>1, <2>2 DEF Swapped, Garbage
<1>3. \A n \in Nat : \A s \in [1 .. n -> Nat] : s \in Seq(Nat) /\ Len(s) = n
  OBVIOUS
<1>. QED  BY <1>1, <1>2, <1>3

\* The payloads do not matter to the shape.
LEMMA SamePlaces ==
    ASSUME NEW c \in Connection, NEW d \in Connection,
           d.segidx = c.segidx, d.snd_nxt = c.snd_nxt,
           \A i \in Slots : d.segs[i].len = c.segs[i].len /\ d.segs[i].seq = c.segs[i].seq,
           IsWhole(c)
    PROVE  IsWhole(d)
<1>. DEFINE a == Core(c)
            b == Core(d)
<1>1. PICK k \in 0 .. SegmentCount : IsLevel(a, k) /\ IsSpan(a, k, MSS)
  BY DEF IsWhole
<1>2. \A j \in Slots : Nth(b, j).len = Nth(a, j).len /\ Nth(b, j).seq = Nth(a, j).seq
  <2>1. ASSUME NEW j \in Slots
        PROVE  Slot(c.segidx, j) \in Slots
    <3>1. j \in 0 .. SegmentCount
      BY RingAssumption DEF Slots
    <3>. QED  BY <3>1, SlotType, ConnectionHas
  <2>2. \A j : Nth(b, j) = d.segs[Slot(d.segidx, j)] /\ Nth(a, j) = c.segs[Slot(c.segidx, j)]
    BY CoreIsRing DEF Nth
  <2>. HIDE DEF a, b
  <2>. QED  BY <2>1, <2>2
<1>3. a.snd_nxt = b.snd_nxt
  BY DEF Core
<1>. HIDE DEF a, b
<1>4. \A j \in 0 .. k - 1 : j \in Slots /\ (j + 1 < k => j + 1 \in Slots)
  BY RingAssumption DEF Slots
<1>5. IsLevel(b, k)
  BY <1>1, <1>2, <1>3, <1>4 DEF IsLevel, SegEnd
<1>6. \A j \in 0 .. k - 1 : Behind(b, j) = Behind(a, j)
  BY <1>2, <1>3, <1>4 DEF Behind, AckDistance
<1>7. IsSpan(b, k, MSS)
  BY <1>1, <1>2, <1>4, <1>6 DEF IsSpan
<1>. QED  BY <1>5, <1>7 DEF IsWhole, b

\* The oldest segment never looks like a new one, unless it is none: m_snd_nxt
\* stays where it is.
LEMMA OldestIsBehind ==
    ASSUME NEW c \in Connection, IsWhole(c)
    PROVE  Oldest(c).seq = c.snd_nxt => SeqAdd(c.snd_nxt, Oldest(c).len) = c.snd_nxt
<1>. DEFINE r == Core(c)
<1>1. PICK k \in 0 .. SegmentCount : IsLevel(r, k) /\ IsSpan(r, k, MSS)
  BY DEF IsWhole
<1>2. r.snd_nxt = c.snd_nxt /\ c.snd_nxt \in SeqNos /\ c.segidx \in Slots
  BY ConnectionHas DEF Core
<1>3. Nth(r, 0) = Oldest(c) /\ 0 \in Slots
  <2>1. Slot(c.segidx, 0) = c.segidx /\ 0 \in Slots
    BY <1>2, RingAssumption DEF Slots, Slot
  <2>. QED  BY <2>1, CoreIsRing DEF Nth, Oldest
<1>. HIDE DEF r
<1>4. CASE k = 0
  <2>1. Oldest(c).len = 0
    BY <1>1, <1>3, <1>4 DEF IsLevel
  <2>. QED  BY <1>2, <2>1, RingAssumption DEF SeqAdd, SeqNos
<1>5. CASE k # 0
  <2>1. 0 \in 0 .. k - 1 /\ 0 < k
    BY <1>5, RingAssumption
  <2>2. Oldest(c).len # 0 /\ Oldest(c).len <= Behind(r, 0)
    BY <1>1, <1>3, <2>1 DEF IsLevel, IsSpan
  <2>3. Oldest(c).len \in SeqNos
    BY <1>3, CoreIsRing, NthType DEF r
  <2>4. Oldest(c).seq = c.snd_nxt => Behind(r, 0) = 0
    BY <1>2, <1>3 DEF Behind, AckDistance, SeqNos
  <2>. QED  BY <2>2, <2>3, <2>4 DEF SeqNos
<1>. QED  BY <1>4, <1>5

\* rexmit()
LEMMA RexmitKeeps ==
    ASSUME NEW c, IsSound(c), NEW wnd
    PROVE  LET d == Rexmit(c, wnd).c
           IN  /\ Keeps(c, d)
               /\ d.state = c.state /\ d.rcv_nxt = c.rcv_nxt
               /\ IsWhole(c) => d.snd_nxt = c.snd_nxt
<1>1. CASE c.state \notin DOMAIN RexmitFlags
  <2>1. Rexmit(c, wnd).c = c
    BY <1>1 DEF Rexmit, Result
  <2>. QED  BY <2>1 DEF Keeps
<1>2. CASE c.state \in DOMAIN RexmitFlags
  <2>. DEFINE seg == Oldest(c)
              dat == RexmitPayload(c)
              n == IF seg.seq = c.snd_nxt THEN SeqAdd(c.snd_nxt, seg.len) ELSE c.snd_nxt
              new == [seg EXCEPT !.dat = dat]
              g == [c.segs EXCEPT ![c.segidx] = new]
              d == [c EXCEPT !.segs = g, !.buf = <<>>, !.snd_nxt = n]
  <2>1. c \in Connection /\ Len(c.buf) <= MSS /\ PayloadsAreThere(c)
    BY DEF IsSound
  <2>2. Rexmit(c, wnd).c = d
    BY <1>2 DEF Rexmit, Result, Oldest
  <2>3. /\ seg \in Segment /\ seg.len \in SeqNos
        /\ seg.len <= 1 \/ Len(seg.dat) = seg.len
    BY <2>1, ConnectionHas DEF Oldest, PayloadsAreThere, Segment, SeqNos
  <2>4. dat \in Seq(Nat) /\ (seg.len <= 1 \/ Len(dat) = seg.len)
    <3>1. CASE c.state = "ESTABLISHED"
      <4>1. dat = Swapped(seg, c.buf) /\ c.buf \in Seq(Nat)
        BY <2>1, <3>1, ConnectionHas DEF RexmitPayload
      <4>. HIDE DEF dat, seg
      <4>. QED  BY <2>3, <4>1, SwappedType
    <3>2. CASE c.state # "ESTABLISHED"
      <4>1. dat = seg.dat
        BY <3>2 DEF RexmitPayload
      <4>2. seg.dat \in Seq(Nat)
        BY <2>3 DEF Segment
      <4>. HIDE DEF dat, seg
      <4>. QED  BY <2>3, <4>1, <4>2
    <3>. QED  BY <3>1, <3>2
  <2>5. n \in SeqNos /\ (IsWhole(c) => n = c.snd_nxt)
    BY <2>1, <2>3, ConnectionHas, SeqAddType, OldestIsBehind
  <2>. HIDE DEF dat, n
  <2>6. new \in Segment /\ new.len = seg.len /\ new.seq = seg.seq /\ new.dat = dat
    <3>. HIDE DEF seg
    <3>. QED  BY <2>3, <2>4 DEF Segment
  <2>7. /\ g \in [Slots -> Segment]
        /\ \A i \in Slots : g[i] = IF i = c.segidx THEN new ELSE c.segs[i]
    <3>. HIDE DEF new
    <3>. QED  BY <2>1, <2>6, ConnectionHas
  <2>8. \A i \in Slots : /\ g[i].len = c.segs[i].len
                         /\ g[i].seq = c.segs[i].seq
                         /\ g[i].len <= 1 \/ Len(g[i].dat) = g[i].len
    <3>1. seg = c.segs[c.segidx]
      BY DEF Oldest
    <3>. HIDE DEF seg, new, g
    <3>. QED  BY <2>1, <2>4, <2>6, <2>7, <3>1 DEF PayloadsAreThere
  <2>. HIDE DEF g
  <2>9. /\ d \in Connection /\ d.state = c.state /\ d.rcv_nxt = c.rcv_nxt
        /\ d.segs = g /\ d.segidx = c.segidx /\ d.snd_nxt = n /\ d.buf = <<>>
    <3>1. <<>> \in Seq(Nat)
      OBVIOUS
    <3>. QED  BY <2>1, <2>5, <2>7, <3>1 DEF Connection
  <2>. HIDE DEF d
  <2>10. IsSound(d)
    <3>1. Len(d.buf) <= MSS
      BY <2>9, ConnectionAssumption
    <3>. QED  BY <2>8, <2>9, <3>1 DEF IsSound, PayloadsAreThere
  <2>11. IsWhole(c) => IsWhole(d)
    BY <2>1, <2>5, <2>8, <2>9, SamePlaces
  <2>. QED  BY <2>2, <2>5, <2>9, <2>10, <2>11 DEF Keeps
<1>. QED  BY <1>1, <1>2

-----------------------------------------------------------------------------
(***************************************************************************)
(* The ACK scan, and the opening of a slot.                                *)
(***************************************************************************)

\* Clearing segments of the connection is clearing them in its ring.
LEMMA ClearSegmentsKeeps ==
    ASSUME NEW c, IsSound(c), NEW n \in 0 .. SegmentCount
    PROVE  LET d == ClearSegments(c, n)
           IN  /\ Keeps(c, d)
               /\ d.state = c.state /\ d.rcv_nxt = c.rcv_nxt /\ d.wnd = c.wnd
               /\ d.snd_nxt = c.snd_nxt /\ d.buf = c.buf
               /\ n > 0 => HasAvailableSegments(d)
<1>. DEFINE d == ClearSegments(c, n)
            r == Core(c)
            g == [i \in Slots |-> IF \E k \in 0 .. n - 1 : i = Slot(c.segidx, k)
                                  THEN FreeSegment ELSE c.segs[i]]
            x == Slot(c.segidx, n)
<1>1. c \in Connection /\ Len(c.buf) <= MSS /\ PayloadsAreThere(c)
  BY DEF IsSound
<1>2. d = [c EXCEPT !.segs = g, !.segidx = x]
  BY DEF ClearSegments
<1>3. ClearSegments(r, n) \in Ring /\ r \in Ring
  BY <1>1, CoreIsRing, ClearType
<1>4. ClearSegments(r, n) = [segs |-> g, segidx |-> x, snd_nxt |-> c.snd_nxt]
  <2>1. r.segs = c.segs /\ r.segidx = c.segidx /\ r.snd_nxt = c.snd_nxt
    BY DEF Core
  <2>2. ClearSegments(r, n) =
          [r EXCEPT !.segs = [i \in Slots |-> IF \E k \in 0 .. n - 1 : i = Slot(r.segidx, k)
                                              THEN FreeSegment ELSE r.segs[i]],
                    !.segidx = Slot(r.segidx, n)]
    BY DEF ClearSegments
  <2>3. [i \in Slots |-> IF \E k \in 0 .. n - 1 : i = Slot(r.segidx, k)
                         THEN FreeSegment ELSE r.segs[i]] = g /\ Slot(r.segidx, n) = x
    BY <2>1
  <2>4. ClearSegments(r, n).segs = g /\ ClearSegments(r, n).segidx = x
    <3>. HIDE DEF r, g, x
    <3>. QED  BY <1>3, <2>2, <2>3 DEF Ring
  <2>5. ClearSegments(r, n).snd_nxt = c.snd_nxt
    <3>. HIDE DEF r
    <3>. QED  BY <1>3, <2>1, <2>2 DEF Ring
  <2>. HIDE DEF r, g, x
  <2>. QED  BY <1>3, <2>4, <2>5 DEF Ring
<1>5. g \in [Slots -> Segment] /\ x \in Slots
  <2>1. g = ClearSegments(r, n).segs /\ x = ClearSegments(r, n).segidx
    <3>. HIDE DEF r, g, x
    <3>. QED  BY <1>4
  <2>. HIDE DEF r, g, x
  <2>. QED  BY <1>3, <2>1 DEF Ring
<1>6. \A i \in Slots : g[i] = FreeSegment \/ g[i] = c.segs[i]
  OBVIOUS
<1>7. n > 0 => g[c.segidx] = FreeSegment /\ c.segidx \in Slots
  <2>1. c.segidx \in Slots /\ Slot(c.segidx, 0) = c.segidx
    BY <1>1, ConnectionHas, RingAssumption DEF Slots, Slot
  <2>2. n > 0 => 0 \in 0 .. n - 1
    BY RingAssumption
  <2>. QED  BY <2>1, <2>2
<1>8. FreeSegment.len = 0
  BY DEF FreeSegment
<1>. HIDE DEF g, x
<1>9. /\ d \in Connection /\ d.segs = g /\ d.segidx = x
      /\ d.state = c.state /\ d.rcv_nxt = c.rcv_nxt /\ d.wnd = c.wnd
      /\ d.snd_nxt = c.snd_nxt /\ d.buf = c.buf
  <2>. HIDE DEF d
  <2>. QED  BY <1>1, <1>2, <1>5 DEF Connection
<1>10. Core(d) = ClearSegments(r, n)
  <2>. HIDE DEF d, r
  <2>. QED  BY <1>4, <1>9 DEF Core
<1>. HIDE DEF d
<1>11. PayloadsAreThere(d)
  BY <1>1, <1>6, <1>8, <1>9 DEF PayloadsAreThere
<1>12. ASSUME IsWhole(c) PROVE IsWhole(d)
  <2>. HIDE DEF r
  <2>1. PICK k \in 0 .. SegmentCount : IsLevel(r, k) /\ IsSpan(r, k, MSS)
    BY <1>12 DEF IsWhole, r
  <2>2. IsLevel(Core(d), IF n < k THEN k - n ELSE 0)
    BY <1>3, <1>10, <2>1, ClearedLevel
  <2>3. CASE n < k
    <3>1. n \in 0 .. k /\ k - n \in 0 .. SegmentCount
      BY <2>3, RingAssumption
    <3>2. IsSpan(Core(d), k - n, MSS)
      BY <1>3, <1>10, <2>1, <3>1, ClearedSpan
    <3>. QED  BY <2>2, <2>3, <3>1, <3>2 DEF IsWhole
  <2>4. CASE ~ (n < k)
    <3>1. 0 \in 0 .. SegmentCount /\ IsSpan(Core(d), 0, MSS)
      BY RingAssumption DEF IsSpan
    <3>. QED  BY <2>2, <2>4, <3>1 DEF IsWhole
  <2>. QED  BY <2>3, <2>4
<1>13. n > 0 => HasAvailableSegments(d)
  BY <1>7, <1>8, <1>9 DEF HasAvailableSegments
<1>. QED  BY <1>1, <1>9, <1>11, <1>12, <1>13 DEF Keeps, IsSound, d

\* The first part of process(e).  When data was acknowledged there is a segment
\* to answer with.
LEMMA ScannedKeeps ==
    ASSUME NEW c, IsSound(c), NEW f
    PROVE  LET d == Scanned(c, f)
           IN  /\ Keeps(c, d)
               /\ d.state = c.state /\ d.rcv_nxt = c.rcv_nxt
               /\ d.snd_nxt = c.snd_nxt /\ d.buf = c.buf
               /\ AckData(c, f) => HasAvailableSegments(d)
<1>1. CASE ~ AckData(c, f)
  <2>1. Scanned(c, f) = c
    BY <1>1 DEF Scanned
  <2>. QED  BY <1>1, <2>1 DEF Keeps
<1>2. CASE AckData(c, f)
  <2>. DEFINE n == Cleared(c, f.ack)
              b == ClearSegments(c, n)
              d == [b EXCEPT !.nrtx = 0]
  <2>1. n \in 0 .. SegmentCount /\ n > 0
    BY <1>2, ClearedType DEF AckData
  <2>2. Scanned(c, f) = d
    BY <1>2 DEF Scanned, AckScan
  <2>. HIDE DEF n
  <2>3. /\ Keeps(c, b)
        /\ b.state = c.state /\ b.rcv_nxt = c.rcv_nxt
        /\ b.snd_nxt = c.snd_nxt /\ b.buf = c.buf /\ HasAvailableSegments(b)
    BY <2>1, ClearSegmentsKeeps
  <2>. HIDE DEF b
  <2>4. b \in Connection /\ Len(b.buf) <= MSS /\ IsSound(b)
    BY <2>3 DEF Keeps, IsSound
  <2>5. /\ d \in Connection /\ d.state = b.state /\ d.rcv_nxt = b.rcv_nxt
        /\ d.segs = b.segs /\ d.segidx = b.segidx /\ d.snd_nxt = b.snd_nxt
        /\ d.buf = b.buf
    BY <2>4, ConnectionAssumption DEF Connection
  <2>. HIDE DEF d
  <2>6. Keeps(b, d) /\ HasAvailableSegments(d)
    BY <2>3, <2>4, <2>5, SameRingKeeps
  <2>7. Keeps(c, d)
    BY <2>3, <2>6, KeepsTwice
  <2>. QED  BY <2>2, <2>3, <2>5, <2>6, <2>7
<1>. QED  BY <1>1, <1>2

\* A slot that is taken begins whole if no segment was in flight.
LEMMA OpenedKeeps ==
    ASSUME NEW c, IsSound(c), HasAvailableSegments(c),
           NEW state \in States, NEW port \in Nat, NEW iss \in SeqNos,
           NEW rcv_nxt \in SeqNos, NEW wnd \in Nat, NEW nrtx \in 0 .. MaxRtx
    PROVE  LET d == Opened(c, state, port, iss, rcv_nxt, wnd, nrtx)
           IN  /\ IsSound(d) /\ HasAvailableSegments(d)
               /\ d.state = state /\ d.rcv_nxt = rcv_nxt
               /\ ~ HasOutstandingSegments(c) => IsWhole(d)
<1>. DEFINE d == Opened(c, state, port, iss, rcv_nxt, wnd, nrtx)
            r == Core(c)
            o == [r EXCEPT !.segidx = 0, !.snd_nxt = iss]
<1>1. c \in Connection /\ PayloadsAreThere(c)
  BY DEF IsSound
<1>2. 0 \in Slots /\ <<>> \in Seq(Nat)
  BY RingAssumption DEF Slots
<1>3. /\ d \in Connection /\ d.state = state /\ d.rcv_nxt = rcv_nxt
      /\ d.segs = c.segs /\ d.segidx = 0 /\ d.snd_nxt = iss /\ d.buf = <<>>
  BY <1>1, <1>2 DEF Opened, Connection
<1>. HIDE DEF d
<1>4. IsSound(d)
  <2>1. Len(d.buf) <= MSS
    BY <1>3, ConnectionAssumption
  <2>. QED  BY <1>1, <1>3, <2>1 DEF IsSound, PayloadsAreThere
<1>5. HasAvailableSegments(d)
  BY <1>3 DEF HasAvailableSegments
<1>6. Core(d) = o
  <2>1. r \in Ring /\ r.segs = c.segs
    BY <1>1, CoreIsRing DEF Core
  <2>. HIDE DEF r
  <2>2. o \in Ring /\ o.segs = r.segs /\ o.segidx = 0 /\ o.snd_nxt = iss
    BY <1>2, <2>1 DEF Ring
  <2>. HIDE DEF o
  <2>3. o = [segs |-> o.segs, segidx |-> o.segidx, snd_nxt |-> o.snd_nxt]
    BY <2>2 DEF Ring
  <2>. QED  BY <1>3, <2>1, <2>2, <2>3 DEF Core
<1>7. ASSUME ~ HasOutstandingSegments(c) PROVE IsWhole(d)
  <2>1. r \in Ring /\ ~ HasOutstandingSegments(r)
    BY <1>1, <1>7, CoreIsRing
  <2>. HIDE DEF r
  <2>2. IsLevel(o, 0)
    BY <2>1, OpenedShape
  <2>3. 0 \in 0 .. SegmentCount /\ IsSpan(o, 0, MSS)
    BY RingAssumption DEF IsSpan
  <2>. HIDE DEF o
  <2>. QED  BY <1>6, <2>2, <2>3 DEF IsWhole
<1>. QED  BY <1>3, <1>4, <1>5, <1>7 DEF d

-----------------------------------------------------------------------------
(***************************************************************************)
(* The application and its callbacks.                                      *)
(***************************************************************************)

LEMMA ApplicationHas ==
    ASSUME NEW a \in Application
    PROVE  /\ a.sent \in 0 .. MaxBytes /\ a.sent \in Nat /\ a.rcvd \in Seq(Nat)
           /\ a.log \in Seq({"Connected", "Closed", "Aborted", "TimedOut"})
           /\ a.iss \in SeqNos /\ a.irs \in SeqNos /\ a.clean \in BOOLEAN
BY HostAssumption DEF Application

\* An event is told.
LEMMA ToldIs ==
    ASSUME NEW a \in Application,
           NEW event \in {"Connected", "Closed", "Aborted", "TimedOut"}
    PROVE  LET b == Told(a, event)
           IN  /\ b \in Application
               /\ b.log = Append(a.log, event)
               /\ b.rcvd = a.rcvd /\ b.irs = a.irs /\ b.clean = a.clean
<1>. DEFINE l == Append(a.log, event)
<1>1. l \in Seq({"Connected", "Closed", "Aborted", "TimedOut"})
  BY ApplicationHas
<1>2. Told(a, event) = [a EXCEPT !.log = l]
  BY DEF Told
<1>. HIDE DEF l
<1>. QED  BY <1>1, <1>2 DEF Application, l

\* Data is given.
LEMMA GivenIs ==
    ASSUME NEW a \in Application, NEW dat \in Seq(Nat)
    PROVE  LET b == Given(a, dat)
           IN  /\ b \in Application
               /\ b.rcvd = a.rcvd \o dat
               /\ b.log = a.log /\ b.irs = a.irs /\ b.clean = a.clean
<1>. DEFINE t == a.rcvd \o dat
<1>1. t \in Seq(Nat)
  BY ApplicationHas
<1>2. Given(a, dat) = [a EXCEPT !.rcvd = t]
  BY DEF Given
<1>. HIDE DEF t
<1>. QED  BY <1>1, <1>2 DEF Application, t

\* More bytes are in the send buffer, and still no more than a segment has.
LEMMA WriteKeeps ==
    ASSUME NEW c, IsSound(c), NEW a \in Application, NEW n \in Nat,
           Len(c.buf) + n <= MSS
    PROVE  LET d == Write(c, a, n)
           IN  /\ Keeps(c, d)
               /\ d.state = c.state /\ d.rcv_nxt = c.rcv_nxt /\ d.snd_nxt = c.snd_nxt
               /\ HasAvailableSegments(d) <=> HasAvailableSegments(c)
<1>. DEFINE more == [p \in 1 .. n |-> a.sent + p]
            buf == c.buf \o more
            d == [c EXCEPT !.buf = buf]
<1>1. c \in Connection /\ c.buf \in Seq(Nat)
  BY ConnectionHas DEF IsSound
<1>2. more \in Seq(Nat) /\ Len(more) = n
  <2>1. more \in [1 .. n -> Nat]
    BY ApplicationHas
  <2>2. \A m \in Nat : \A s \in [1 .. m -> Nat] : s \in Seq(Nat) /\ Len(s) = m
    OBVIOUS
  <2>. HIDE DEF more
  <2>. QED  BY <2>1, <2>2
<1>. HIDE DEF more
<1>3. buf \in Seq(Nat) /\ Len(buf) = Len(c.buf) + n
  BY <1>1, <1>2, ConcatProperties
<1>4. Write(c, a, n) = d
  BY DEF Write, more
<1>. HIDE DEF buf
<1>5. /\ d \in Connection /\ d.state = c.state /\ d.rcv_nxt = c.rcv_nxt
      /\ d.segs = c.segs /\ d.segidx = c.segidx /\ d.snd_nxt = c.snd_nxt
      /\ d.buf = buf
  BY <1>1, <1>3 DEF Connection
<1>. HIDE DEF d
<1>6. Keeps(c, d) /\ (HasAvailableSegments(d) <=> HasAvailableSegments(c))
  BY <1>3, <1>5, SameRingKeeps
<1>. QED  BY <1>4, <1>5, <1>6

\* What is written fits into the room there is.
LEMMA RoomIs ==
    ASSUME NEW c, IsSound(c)
    PROVE  /\ Room(c) \in Nat /\ Len(c.buf) + Room(c) <= MSS
           /\ Bound(c) \in Nat /\ Bound(c) <= MSS /\ Len(c.buf) \in Nat
<1>1. Len(c.buf) \in Nat /\ c.wnd \in Nat /\ Len(c.buf) <= MSS /\ MSS \in Nat
  BY ConnectionHas, ConnectionAssumption DEF IsSound
<1>. QED  BY <1>1 DEF Room, Bound, CanSend

\* A callback writes, or asks to close or to abort.
LEMMA CalledKeeps ==
    ASSUME NEW c, IsSound(c), NEW a \in Application, NEW k \in Called(c, a)
    PROVE  /\ Keeps(c, k.c)
           /\ k.c.state = c.state /\ k.c.rcv_nxt = c.rcv_nxt
           /\ HasAvailableSegments(k.c) <=> HasAvailableSegments(c)
           /\ k.a \in Application
           /\ k.a.log = a.log /\ k.a.rcvd = a.rcvd /\ k.a.irs = a.irs
           /\ k.a.clean = a.clean
           /\ k.act \in Actions
<1>1. CASE \E act \in Reactions \ {"Continue"} : k = [act |-> act, c |-> c, a |-> a]
  <2>1. k.c = c /\ k.a = a /\ k.act \in Actions
    BY <1>1, HostAssumption
  <2>. QED  BY <2>1 DEF Keeps
<1>2. CASE \E n \in {m \in Replies \cup {0} : m <= Room(c) /\ a.sent + m <= MaxBytes} :
              k = Continues(Write(c, a, n), [a EXCEPT !.sent = @ + n])
  <2>1. PICK n \in Replies \cup {0} :
           /\ n <= Room(c) /\ a.sent + n <= MaxBytes
           /\ k = Continues(Write(c, a, n), [a EXCEPT !.sent = a.sent + n])
    BY <1>2
  <2>2. n \in Nat /\ a.sent + n \in 0 .. MaxBytes
    BY <2>1, HostAssumption, ApplicationHas
  <2>. DEFINE d == Write(c, a, n)
              x == a.sent + n
              b == [a EXCEPT !.sent = x]
  <2>3. k.c = d /\ k.a = b /\ k.act = "Continue"
    BY <2>1 DEF Continues
  <2>4. Len(c.buf) + n <= MSS
    BY <2>1, <2>2, RoomIs, ConnectionAssumption
  <2>5. /\ Keeps(c, d) /\ d.state = c.state /\ d.rcv_nxt = c.rcv_nxt
        /\ HasAvailableSegments(d) <=> HasAvailableSegments(c)
    BY <2>2, <2>4, WriteKeeps
  <2>. HIDE DEF x
  <2>6. /\ b \in Application /\ b.log = a.log /\ b.rcvd = a.rcvd /\ b.irs = a.irs
        /\ b.clean = a.clean
    BY <2>2 DEF Application, x
  <2>. HIDE DEF d, b
  <2>. QED  BY <2>3, <2>5, <2>6 DEF Actions
<1>. QED  BY <1>1, <1>2 DEF Called

\* Action::Abort and Action::Close: with all segments in use, a close is lost.
LEMMA EndedKeeps ==
    ASSUME NEW k, IsSound(k.c), k.act \in Actions, NEW wnd
    PROVE  LET d == Ended(k, wnd).c
           IN  /\ Keeps(k.c, d)
               /\ d.rcv_nxt = k.c.rcv_nxt
               /\ \/ d.state \in {"CLOSED", "FIN_WAIT_1"}
                  \/ d.state = k.c.state /\ ~ HasAvailableSegments(k.c)
<1>1. CASE k.act = "Abort"
  BY <1>1, SendAbortKeeps DEF Ended
<1>2. CASE k.act # "Abort"
  BY <1>2, SendCloseKeeps DEF Ended
<1>. QED  BY <1>1, <1>2

\* What goes out after the callbacks: the send buffer, an ACK, or nothing.
LEMMA FlushedKeeps ==
    ASSUME NEW c, IsSound(c), NEW wnd,
           NEW r, \/ HasAvailableSegments(c) /\ r = SendNoDelay(c, wnd)
                  \/ r \in SendAcks(c, wnd)
                  \/ r = Nothing(c)
    PROVE  Keeps(c, r.c) /\ r.c.state = c.state /\ r.c.rcv_nxt = c.rcv_nxt
<1>1. CASE HasAvailableSegments(c) /\ r = SendNoDelay(c, wnd)
  BY <1>1, SendNoDelayKeeps
<1>2. CASE r \in SendAcks(c, wnd)
  BY <1>2, SendAcksKeep
<1>3. CASE r = Nothing(c)
  BY <1>3 DEF Nothing, Result, Keeps
<1>. QED  BY <1>1, <1>2, <1>3

-----------------------------------------------------------------------------
(***************************************************************************)
(* What the application was told and given.                                *)
(***************************************************************************)

\* Append, by its length and its elements.
LEMMA AppendIs ==
    ASSUME NEW E, NEW s \in Seq(E), NEW x \in E, NEW t \in Seq(E),
           Len(t) = Len(s) + 1, \A i \in 1 .. Len(s) : t[i] = s[i],
           t[Len(s) + 1] = x
    PROVE  Append(s, x) = t
<1>. DEFINE u == Append(s, x)
<1>1. /\ u \in Seq(E) /\ Len(u) = Len(s) + 1 /\ u[Len(s) + 1] = x
      /\ \A i \in 1 .. Len(s) : u[i] = s[i]
  BY AppendProperties
<1>. HIDE DEF u
<1>2. \A i \in 1 .. Len(u) : u[i] = t[i]
  BY <1>1
<1>3. u = t
  BY <1>1, <1>2, SeqEqual
<1>. QED  BY <1>3 DEF u

\* Append to the logs that there are.
LEMMA AppendToPair ==
    ASSUME NEW E, NEW c \in E, NEW d \in E, NEW x \in E
    PROVE  Append(<<c>>, x) = <<c, x>> /\ Append(<<c, d>>, x) = <<c, d, x>>
<1>1. /\ <<c>> \in Seq(E) /\ <<c, x>> \in Seq(E)
      /\ Len(<<c, x>>) = Len(<<c>>) + 1 /\ <<c, x>>[Len(<<c>>) + 1] = x
      /\ \A i \in 1 .. Len(<<c>>) : <<c, x>>[i] = <<c>>[i]
  OBVIOUS
<1>2. /\ <<c, d>> \in Seq(E) /\ <<c, d, x>> \in Seq(E)
      /\ Len(<<c, d, x>>) = Len(<<c, d>>) + 1 /\ <<c, d, x>>[Len(<<c, d>>) + 1] = x
      /\ \A i \in 1 .. Len(<<c, d>>) : <<c, d, x>>[i] = <<c, d>>[i]
  OBVIOUS
<1>3. \A s, t \in Seq(E) :
          /\ Len(t) = Len(s) + 1 /\ t[Len(s) + 1] = x
          /\ \A i \in 1 .. Len(s) : t[i] = s[i]
          => Append(s, x) = t
  BY AppendIs
<1>4. Append(<<c>>, x) = <<c, x>>
  BY <1>1, <1>3
<1>5. Append(<<c, d>>, x) = <<c, d, x>>
  BY <1>2, <1>3
<1>. QED  BY <1>4, <1>5

\* The events are told in order.
LEMMA LogGrows ==
    ASSUME NEW state \in States, NEW log, LogFits(state, log)
    PROVE  /\ state \in Unreported => Append(log, "Connected") = <<"Connected">>
           /\ state \in Reported => Append(log, "Closed") = <<"Connected", "Closed">>
           /\ state # "CLOSED" =>
                 /\ LogFits("CLOSED", Append(log, "Aborted"))
                 /\ LogFits("CLOSED", Append(log, "TimedOut"))
<1>. DEFINE c == "Connected"
            d == "Closed"
            E == {c, d, "Aborted", "TimedOut"}
<1>1. /\ \A x \in E : Append(<<>>, x) = <<x>>
      /\ \A x \in E : Append(<<c>>, x) = <<c, x>>
      /\ \A x \in E : Append(<<c, d>>, x) = <<c, d, x>>
  <2>1. \A x \in E : Append(<<>>, x) = <<x>>
    OBVIOUS
  <2>2. c \in E /\ d \in E
    OBVIOUS
  <2>. HIDE DEF c, d, E
  <2>3. \A x \in E : Append(<<c>>, x) = <<c, x>> /\ Append(<<c, d>>, x) = <<c, d, x>>
    BY <2>2, AppendToPair
  <2>. QED  BY <2>1, <2>3
<1>2. state # "CLOSED" => state \in Unreported \cup Reported \cup Over
  BY DEF States, Unreported, Reported, Over
<1>3. ASSUME state # "CLOSED"
      PROVE  Append(log, "Aborted") \in Broken /\ Append(log, "TimedOut") \in Broken
  <2>1. CASE state \in Unreported
    BY <1>1, <2>1 DEF LogFits, Broken
  <2>2. CASE state \in Reported
    BY <1>1, <2>2 DEF LogFits, Broken
  <2>3. CASE state \in Over
    BY <1>1, <2>3 DEF LogFits, Broken
  <2>. QED  BY <1>2, <1>3, <2>1, <2>2, <2>3
<1>4. \A l \in Broken : LogFits("CLOSED", l)
  BY DEF LogFits, Unreported, Reported, Over
<1>5. state \in Unreported => Append(log, "Connected") = <<"Connected">>
  BY <1>1 DEF LogFits
<1>6. state \in Reported => Append(log, "Closed") = <<"Connected", "Closed">>
  BY <1>1 DEF LogFits
<1>. QED  BY <1>3, <1>4, <1>5, <1>6

\* How far rcv_nxt is with n bytes given.
At(n) == SeqAdd(SeqAdd(PeerSeq, 1), n)

LEMMA AtIs ==
    /\ SeqAdd(PeerSeq, 1) \in SeqNos
    /\ At(0) = SeqAdd(PeerSeq, 1)
    /\ \A n \in SeqNos : /\ At(n) \in SeqNos
                         /\ Position(At(n)) = IF n + 1 < SeqSpace THEN n + 1 ELSE 0
                         /\ n + 1 \in SeqNos => SeqAdd(At(n), 1) = At(n + 1)
<1>1. PeerSeq \in SeqNos /\ 1 \in SeqNos /\ 0 \in SeqNos
  BY PeerAssumption, RingAssumption DEF SeqNos
<1>2. SeqAdd(PeerSeq, 1) \in SeqNos
  BY <1>1, SeqAddType
<1>3. At(0) = SeqAdd(PeerSeq, 1)
  BY <1>2, RingAssumption DEF At, SeqAdd, SeqNos
<1>4. ASSUME NEW n \in SeqNos
      PROVE  /\ At(n) \in SeqNos
             /\ Position(At(n)) = IF n + 1 < SeqSpace THEN n + 1 ELSE 0
             /\ n + 1 \in SeqNos => SeqAdd(At(n), 1) = At(n + 1)
  <2>1. At(n) \in SeqNos
    BY <1>2, SeqAddType DEF At
  <2>2. Position(At(n)) = IF At(n) < PeerSeq THEN At(n) + SeqSpace - PeerSeq
                                             ELSE At(n) - PeerSeq
    BY DEF Position, AckDistance
  <2>3. At(n) = IF PeerSeq + 1 + n < SeqSpace THEN PeerSeq + 1 + n
                ELSE PeerSeq + 1 + n - SeqSpace
    BY <1>1, RingAssumption DEF At, SeqAdd, SeqNos
  <2>4. Position(At(n)) = IF n + 1 < SeqSpace THEN n + 1 ELSE 0
    BY <1>1, <2>2, <2>3, RingAssumption DEF SeqNos
  <2>5. n + 1 \in SeqNos => SeqAdd(At(n), 1) = At(n + 1)
    BY <1>1, RingAssumption DEF At, SeqAdd, SeqNos
  <2>. QED  BY <2>1, <2>4, <2>5
<1>. QED  BY <1>2, <1>3, <1>4

\* The payload of a frame of the peer is one byte, or none.
LEMMA PayloadIs ==
    ASSUME NEW f, IsPeerFrame(f)
    PROVE  /\ f.dat \in Seq(Nat) /\ Len(f.dat) \in SeqNos
           /\ f.dat # <<>> => Len(f.dat) = 1
           /\ f.dat = <<>> => Len(f.dat) = 0
<1>1. CASE f.dat = <<>>
  BY <1>1, RingAssumption DEF SeqNos
<1>2. CASE f.dat # <<>>
  <2>1. f.dat = <<Position(f.seq)>> /\ Position(f.seq) \in Nat
    BY <1>2, PeerAssumption DEF IsPeerFrame
  <2>2. Len(f.dat) = 1 /\ f.dat \in Seq(Nat)
    BY <2>1
  <2>. QED  BY <1>2, <2>2, RingAssumption DEF SeqNos
<1>. QED  BY <1>1, <1>2

\* The data of a frame at rcv_nxt goes on where the data before ended.
LEMMA DataGrows ==
    ASSUME NEW rcvd \in Seq(Nat), \A i \in DOMAIN rcvd : rcvd[i] = i,
           Len(rcvd) < SeqSpace,
           NEW f, IsPeerFrame(f), f.dat # <<>> => f.seq = At(Len(rcvd))
    PROVE  LET t == rcvd \o f.dat
           IN  /\ \A i \in DOMAIN t : t[i] = i
               /\ Len(t) < SeqSpace
               /\ SeqAdd(At(Len(rcvd)), Len(f.dat)) = At(Len(t))
<1>. DEFINE n == Len(rcvd)
<1>1. n \in SeqNos /\ f.dat \in Seq(Nat)
  BY PayloadIs, RingAssumption DEF SeqNos
<1>2. CASE f.dat = <<>>
  <2>1. rcvd \o f.dat = rcvd /\ Len(f.dat) = 0
    BY <1>2
  <2>2. SeqAdd(At(n), 0) = At(n)
    BY <1>1, AtIs, RingAssumption DEF SeqAdd, SeqNos
  <2>. HIDE DEF n
  <2>. QED  BY <2>1, <2>2 DEF n
<1>3. CASE f.dat # <<>>
  <2>. DEFINE p == Position(f.seq)
              t == rcvd \o f.dat
  <2>1. f.dat = <<p>> /\ p \in 1 .. PeerBytes /\ p = Position(At(n))
    BY <1>3 DEF IsPeerFrame
  <2>2. p = n + 1 /\ n + 1 \in SeqNos /\ n + 1 < SeqSpace
    <3>1. n \in SeqNos /\ p \in 1 .. PeerBytes /\ p = Position(At(n))
      BY <1>1, <2>1
    <3>. HIDE DEF p, n, t
    <3>2. p = IF n + 1 < SeqSpace THEN n + 1 ELSE 0
      BY <3>1, AtIs
    <3>3. p # 0 /\ n \in Nat /\ SeqSpace \in Nat
      BY <3>1, PeerAssumption, RingAssumption DEF SeqNos
    <3>. QED  BY <3>2, <3>3 DEF SeqNos
  <2>. HIDE DEF p
  <2>3. t = Append(rcvd, n + 1)
    BY <2>1, <2>2
  <2>4. Len(t) = n + 1 /\ DOMAIN t = 1 .. n + 1 /\ t[n + 1] = n + 1
        /\ \A i \in 1 .. n : t[i] = rcvd[i]
    BY <2>3
  <2>5. \A i \in DOMAIN t : t[i] = i
    BY <1>1, <2>4 DEF SeqNos
  <2>6. SeqAdd(At(n), 1) = At(n + 1) /\ Len(f.dat) = 1
    BY <1>1, <1>3, <2>2, AtIs, PayloadIs
  <2>7. Len(t) < SeqSpace /\ SeqAdd(At(n), Len(f.dat)) = At(Len(t))
    BY <2>2, <2>4, <2>6
  <2>. HIDE DEF t
  <2>. QED  BY <2>5, <2>7 DEF t
<1>. QED  BY <1>2, <1>3

-----------------------------------------------------------------------------
(***************************************************************************)
(* Steps of the host.                                                      *)
(***************************************************************************)

\* A step from connection c and application a to d and b.
Leads(c, a, d, b) ==
    /\ HostFits(d, b)
    /\ a.clean /\ c.state \in Closing /\ d.state \in Closing => d.snd_nxt = c.snd_nxt

\* The states in which rcv_nxt no longer says how much was given.
PastData == Reported \cup Over \cup {"CLOSED"}

LEMMA HostHas ==
    ASSUME NEW c, NEW a, HostFits(c, a)
    PROVE  /\ IsSound(c) /\ c \in Connection /\ c.state \in States
           /\ c.snd_nxt \in SeqNos /\ c.rcv_nxt \in SeqNos /\ c.port \in Nat
           /\ a \in Application /\ a.rcvd \in Seq(Nat) /\ a.clean \in BOOLEAN
           /\ a.clean => IsWhole(c)
           /\ LogFits(c.state, a.log) /\ DataFits(c, a)
BY ConnectionHas, ApplicationHas DEF HostFits, IsSound

\* What is to be shown of a step that keeps the connection sound.
LEMMA KeptLeads ==
    ASSUME NEW c, NEW a, HostFits(c, a), NEW d, NEW b, Keeps(c, d),
           b \in Application, b.clean = a.clean,
           LogFits(d.state, b.log), DataFits(d, b),
           IsWhole(c) /\ c.state \in Closing /\ d.state \in Closing
              => d.snd_nxt = c.snd_nxt
    PROVE  Leads(c, a, d, b)
BY DEF Leads, HostFits, Keeps

\* Nothing of what the application was told and given changes.
LEMMA SilentLeads ==
    ASSUME NEW c, NEW a, HostFits(c, a), NEW d, Keeps(c, d),
           d.state = c.state, d.rcv_nxt = c.rcv_nxt,
           IsWhole(c) /\ c.state \in Closing => d.snd_nxt = c.snd_nxt
    PROVE  Leads(c, a, d, a)
<1>1. DataFits(d, a)
  BY DEF HostFits, DataFits
<1>. QED  BY <1>1, HostHas, KeptLeads

\* Data that was given stays as it is when the connection is past it.
LEMMA PastDataFits ==
    ASSUME NEW c, NEW a, DataFits(c, a), NEW d, NEW b, b.rcvd = a.rcvd,
           d.state \in PastData, d.state # "ESTABLISHED"
    PROVE  DataFits(d, b)
BY DEF DataFits, PastData, Reported, Over, Unreported

\* The connection moves on, past the data.
LEMMA PastLeads ==
    ASSUME NEW c, NEW a, HostFits(c, a), NEW d, NEW b, Keeps(c, d),
           b \in Application, b.clean = a.clean, b.rcvd = a.rcvd,
           d.state \in PastData, d.state # "ESTABLISHED", LogFits(d.state, b.log),
           IsWhole(c) /\ c.state \in Closing /\ d.state \in Closing
              => d.snd_nxt = c.snd_nxt
    PROVE  Leads(c, a, d, b)
<1>1. DataFits(d, b)
  BY HostHas, PastDataFits
<1>. QED  BY <1>1, KeptLeads

\* The connection breaks: a RST, an abort, a timeout.
LEMMA BrokenLeads ==
    ASSUME NEW c, NEW a, HostFits(c, a), c.state # "CLOSED",
           NEW d, Keeps(c, d), d.state = "CLOSED",
           NEW event \in {"Aborted", "TimedOut"}
    PROVE  Leads(c, a, d, Told(a, event))
<1>. DEFINE b == Told(a, event)
<1>1. /\ b \in Application /\ b.clean = a.clean /\ b.rcvd = a.rcvd
      /\ b.log = Append(a.log, event)
  BY HostHas, ToldIs
<1>2. LogFits("CLOSED", b.log)
  BY <1>1, HostHas, LogGrows
<1>. HIDE DEF b
<1>3. "CLOSED" \in PastData /\ "CLOSED" \notin Closing
  BY DEF PastData, Closing
<1>4. Leads(c, a, d, b)
  BY <1>1, <1>2, <1>3, PastLeads
<1>. QED  BY <1>4 DEF b

\* The data of a frame at rcv_nxt is given.
LEMMA GivenFits ==
    ASSUME NEW c, NEW a, HostFits(c, a), c.state \in {"SYN_RCVD", "ESTABLISHED"},
           NEW f, IsPeerFrame(f), f.dat # <<>> => f.seq = c.rcv_nxt,
           NEW d, d.rcv_nxt = SeqAdd(c.rcv_nxt, Len(f.dat)),
           d.state \in PastData,
           NEW b, b.rcvd = a.rcvd \o f.dat, b.irs = a.irs
    PROVE  DataFits(d, b)
<1>. DEFINE n == Len(a.rcvd)
<1>1. /\ a.rcvd \in Seq(Nat) /\ n < SeqSpace /\ a.irs = PeerSeq
      /\ \A i \in DOMAIN a.rcvd : a.rcvd[i] = i
  BY HostHas DEF DataFits
<1>2. c.rcv_nxt = At(n)
  <2>1. CASE c.state = "ESTABLISHED"
    BY <2>1, HostHas DEF DataFits, At
  <2>2. CASE c.state = "SYN_RCVD"
    <3>1. a.rcvd = <<>> /\ c.rcv_nxt = SeqAdd(PeerSeq, 1)
      BY <2>2, HostHas DEF DataFits, Unreported
    <3>2. n = 0
      BY <3>1
    <3>. HIDE DEF n
    <3>. QED  BY <3>1, <3>2, AtIs
  <2>. QED  BY <2>1, <2>2
<1>. DEFINE t == a.rcvd \o f.dat
<1>3. /\ \A i \in DOMAIN t : t[i] = i
      /\ Len(t) < SeqSpace
      /\ SeqAdd(At(n), Len(f.dat)) = At(Len(t))
  BY <1>1, <1>2, DataGrows
<1>. HIDE DEF t, n
<1>4. d.state \notin Unreported
  BY DEF PastData, Unreported, Reported, Over
<1>5. b.rcvd = t /\ b.irs = PeerSeq /\ d.rcv_nxt = At(Len(t))
  BY <1>1, <1>2, <1>3 DEF t
<1>. QED  BY <1>3, <1>4, <1>5 DEF DataFits, At, Unreported

\* The state changes.
LEMMA StateKeeps ==
    ASSUME NEW c, IsSound(c), NEW state \in States
    PROVE  LET d == [c EXCEPT !.state = state]
           IN  /\ Keeps(c, d) /\ IsSound(d)
               /\ d.state = state /\ d.rcv_nxt = c.rcv_nxt /\ d.snd_nxt = c.snd_nxt
               /\ HasAvailableSegments(d) <=> HasAvailableSegments(c)
               /\ HasOutstandingSegments(d) <=> HasOutstandingSegments(c)
<1>. DEFINE d == [c EXCEPT !.state = state]
<1>1. c \in Connection /\ Len(c.buf) <= MSS
  BY DEF IsSound
<1>2. /\ d \in Connection /\ d.state = state /\ d.rcv_nxt = c.rcv_nxt
      /\ d.segs = c.segs /\ d.segidx = c.segidx /\ d.snd_nxt = c.snd_nxt
      /\ d.buf = c.buf
  BY <1>1 DEF Connection
<1>. HIDE DEF d
<1>3. /\ Keeps(c, d)
      /\ HasAvailableSegments(d) <=> HasAvailableSegments(c)
      /\ HasOutstandingSegments(d) <=> HasOutstandingSegments(c)
  BY <1>1, <1>2, SameRingKeeps
<1>. QED  BY <1>2, <1>3 DEF d, Keeps

\* The peer moves on in its stream.
LEMMA ReceivedKeeps ==
    ASSUME NEW c, IsSound(c), NEW n \in 0 .. SeqSpace
    PROVE  LET d == Received(c, n)
           IN  /\ Keeps(c, d) /\ IsSound(d)
               /\ d.state = c.state /\ d.rcv_nxt = SeqAdd(c.rcv_nxt, n)
               /\ d.snd_nxt = c.snd_nxt
               /\ HasAvailableSegments(d) <=> HasAvailableSegments(c)
               /\ HasOutstandingSegments(d) <=> HasOutstandingSegments(c)
<1>. DEFINE s == SeqAdd(c.rcv_nxt, n)
            d == [c EXCEPT !.rcv_nxt = s]
<1>1. c \in Connection /\ Len(c.buf) <= MSS
  BY DEF IsSound
<1>2. s \in SeqNos
  BY <1>1, ConnectionHas, RingAssumption DEF SeqAdd, SeqNos
<1>3. Received(c, n) = d
  BY DEF Received
<1>. HIDE DEF s
<1>4. /\ d \in Connection /\ d.state = c.state /\ d.rcv_nxt = s
      /\ d.segs = c.segs /\ d.segidx = c.segidx /\ d.snd_nxt = c.snd_nxt
      /\ d.buf = c.buf
  BY <1>1, <1>2 DEF Connection
<1>. HIDE DEF d
<1>5. /\ Keeps(c, d)
      /\ HasAvailableSegments(d) <=> HasAvailableSegments(c)
      /\ HasOutstandingSegments(d) <=> HasOutstandingSegments(c)
  BY <1>1, <1>4, SameRingKeeps
<1>. QED  BY <1>3, <1>4, <1>5 DEF s, Keeps

\* The peer announces a window.
LEMMA WindowKeeps ==
    ASSUME NEW c, IsSound(c), NEW w \in Nat
    PROVE  LET d == [c EXCEPT !.wnd = w]
           IN  /\ Keeps(c, d) /\ IsSound(d)
               /\ d.state = c.state /\ d.rcv_nxt = c.rcv_nxt /\ d.snd_nxt = c.snd_nxt
               /\ HasAvailableSegments(d) <=> HasAvailableSegments(c)
<1>. DEFINE d == [c EXCEPT !.wnd = w]
<1>1. c \in Connection /\ Len(c.buf) <= MSS
  BY DEF IsSound
<1>2. /\ d \in Connection /\ d.state = c.state /\ d.rcv_nxt = c.rcv_nxt
      /\ d.segs = c.segs /\ d.segidx = c.segidx /\ d.snd_nxt = c.snd_nxt
      /\ d.buf = c.buf
  BY <1>1 DEF Connection
<1>. HIDE DEF d
<1>3. /\ Keeps(c, d)
      /\ HasAvailableSegments(d) <=> HasAvailableSegments(c)
  BY <1>1, <1>2, SameRingKeeps
<1>. QED  BY <1>2, <1>3 DEF d, Keeps

\* What a frame that was accepted is.
LEMMA AcceptedIs ==
    ASSUME NEW f, IsPeerFrame(f), Accepted(f)
    PROVE  /\ conn.state # "CLOSED"
           /\ f.dat # <<>> => f.seq = conn.rcv_nxt
           /\ Len(f.dat) \in 0 .. SeqSpace /\ Len(f.dat) + 1 \in 0 .. SeqSpace
<1>1. conn.state # "CLOSED" /\ IsExpected(conn, f)
  BY DEF Accepted, Matches
<1>2. ASSUME f.dat # <<>> PROVE f.seq = conn.rcv_nxt
  <2>1. f.flags # SYNACK
    BY <1>2 DEF IsPeerFrame, SYNACK
  <2>. QED  BY <1>1, <1>2, <2>1 DEF IsExpected
<1>3. Len(f.dat) \in 0 .. SeqSpace /\ Len(f.dat) + 1 \in 0 .. SeqSpace
  <2>1. Len(f.dat) = 0 \/ Len(f.dat) = 1
    BY PayloadIs
  <2>2. 0 \in 0 .. SeqSpace /\ 1 \in 0 .. SeqSpace /\ 2 \in 0 .. SeqSpace
    BY RingAssumption
  <2>3. 0 + 1 = 1 /\ 1 + 1 = 2
    OBVIOUS
  <2>. QED  BY <2>1, <2>2, <2>3
<1>. QED  BY <1>1, <1>2, <1>3

-----------------------------------------------------------------------------
(***************************************************************************)
(* The actions, one by one: what comes in.                                 *)
(***************************************************************************)

\* A slot is taken: the new connection starts with nothing told and given.
LEMMA TakenLeads ==
    ASSUME HostFits(conn, app), HasAvailableSegments(conn),
           NEW state \in Unreported, NEW port \in Nat, NEW iss \in SeqNos,
           NEW rcv_nxt \in SeqNos, NEW w \in Nat, NEW nrtx \in 0 .. MaxRtx,
           NEW irs \in SeqNos,
           state = "SYN_RCVD" => irs = PeerSeq /\ rcv_nxt = SeqAdd(PeerSeq, 1),
           NEW flags, NEW wnd
    PROVE  LET o == Opened(conn, state, port, iss, rcv_nxt, w, nrtx)
           IN  Leads(conn, app, SendSegment(o, 1, flags, <<>>, wnd).c,
                     NewApp(iss, irs))
<1>. DEFINE o == Opened(conn, state, port, iss, rcv_nxt, w, nrtx)
            d == SendSegment(o, 1, flags, <<>>, wnd).c
            b == NewApp(iss, irs)
<1>1. state \in States /\ IsSound(conn)
  BY HostHas DEF States, Unreported
<1>2. /\ IsSound(o) /\ HasAvailableSegments(o)
      /\ o.state = state /\ o.rcv_nxt = rcv_nxt
      /\ ~ HasOutstandingSegments(conn) => IsWhole(o)
  BY <1>1, OpenedKeeps
<1>. HIDE DEF o
<1>3. Keeps(o, d) /\ d.state = o.state /\ d.rcv_nxt = o.rcv_nxt
  BY <1>2, SendFlagKeeps
<1>. HIDE DEF d
<1>4. /\ b \in Application /\ b.rcvd = <<>> /\ b.log = <<>> /\ b.irs = irs
      /\ b.clean => ~ HasOutstandingSegments(conn)
  <2>1. (~ HasOutstandingSegments(conn)) \in BOOLEAN
    BY DEF HasOutstandingSegments
  <2>2. <<>> \in Seq(Nat) /\ 0 \in 0 .. MaxBytes
        /\ <<>> \in Seq({"Connected", "Closed", "Aborted", "TimedOut"})
    BY HostAssumption
  <2>. DEFINE free == ~ HasOutstandingSegments(conn)
  <2>3. b = [sent |-> 0, rcvd |-> <<>>, log |-> <<>>, iss |-> iss, irs |-> irs,
             clean |-> free]
    BY DEF NewApp
  <2>4. free \in BOOLEAN /\ (free => ~ HasOutstandingSegments(conn))
    BY <2>1
  <2>. HIDE DEF free, b
  <2>. QED  BY <2>2, <2>3, <2>4 DEF Application
<1>. HIDE DEF b
<1>5. IsSound(d) /\ (b.clean => IsWhole(d))
  BY <1>2, <1>3, <1>4 DEF Keeps
<1>6. LogFits(d.state, b.log)
  BY <1>2, <1>3, <1>4 DEF LogFits, Unreported, Reported, Over
<1>7. DataFits(d, b)
  <2>1. Len(b.rcvd) = 0 /\ DOMAIN b.rcvd = {}
    BY <1>4
  <2>2. d.state # "ESTABLISHED"
    BY <1>2, <1>3 DEF Unreported
  <2>3. \A i \in DOMAIN b.rcvd : b.rcvd[i] = i
    BY <2>1
  <2>4. d.state = "SYN_RCVD" => b.irs = PeerSeq /\ d.rcv_nxt = SeqAdd(PeerSeq, 1)
    BY <1>2, <1>3, <1>4
  <2>. QED  BY <1>4, <2>1, <2>2, <2>3, <2>4, RingAssumption DEF DataFits
<1>8. d.state \notin Closing
  BY <1>2, <1>3 DEF Unreported, Closing
<1>. QED  BY <1>4, <1>5, <1>6, <1>7, <1>8 DEF Leads, HostFits, o, d, b

LEMMA OnSynLeads ==
    ASSUME HostFits(conn, app), NEW f, IsPeerFrame(f), NEW wnd, OnSyn(f, wnd)
    PROVE  Leads(conn, app, conn', app')
<1>1. PICK iss \in InitialSeqs :
         Become(SendSynAck(Opened(conn, "SYN_RCVD", f.port, iss,
                                  SeqAdd(f.seq, 1), f.wnd, 0), wnd),
                NewApp(iss, f.seq))
  BY DEF OnSyn
<1>2. /\ f.seq = PeerSeq /\ f.port \in Nat /\ f.wnd \in Nat /\ iss \in SeqNos
      /\ f.seq \in SeqNos /\ SeqAdd(f.seq, 1) \in SeqNos /\ 0 \in 0 .. MaxRtx
      /\ "SYN_RCVD" \in Unreported
  BY AtIs, HostAssumption, ConnectionAssumption
     DEF OnSyn, SYN, IsPeerFrame, Unreported
<1>3. HasAvailableSegments(conn)
  BY DEF OnSyn
<1>4. ASSUME NEW nrtx \in 0 .. MaxRtx, NEW state \in Unreported
      PROVE  LET o == Opened(conn, state, f.port, iss, SeqAdd(f.seq, 1), f.wnd, nrtx)
             IN  Leads(conn, app, SendSegment(o, 1, SYNACK, <<>>, wnd).c,
                       NewApp(iss, f.seq))
  BY <1>2, <1>3, TakenLeads
<1>. QED  BY <1>1, <1>2, <1>4 DEF Become, SendSynAck

\* The answers that change nothing.
LEMMA UnchangedLeads ==
    ASSUME HostFits(conn, app), conn' = conn, app' = app
    PROVE  Leads(conn, app, conn', app')
BY DEF Leads

LEMMA OnSynDroppedLeads ==
    ASSUME HostFits(conn, app), NEW f, OnSynDropped(f)
    PROVE  Leads(conn, app, conn', app')
BY UnchangedLeads DEF OnSynDropped, Become, Nothing, Result

LEMMA OnUnmatchedLeads ==
    ASSUME HostFits(conn, app), NEW f, OnUnmatched(f)
    PROVE  Leads(conn, app, conn', app')
BY UnchangedLeads DEF OnUnmatched, Become, Result

LEMMA OnResetLeads ==
    ASSUME HostFits(conn, app), NEW f, OnReset(f)
    PROVE  Leads(conn, app, conn', app')
<1>. DEFINE d == [conn EXCEPT !.state = "CLOSED"]
<1>1. conn.state # "CLOSED" /\ conn' = d /\ app' = Told(app, "Aborted")
  BY DEF OnReset, Matches, Become, Nothing, Result
<1>2. "CLOSED" \in States
  BY DEF States
<1>3. Keeps(conn, d) /\ d.state = "CLOSED"
  BY <1>2, HostHas, StateKeeps
<1>. HIDE DEF d
<1>. QED  BY <1>1, <1>3, BrokenLeads

LEMMA OnUnexpectedLeads ==
    ASSUME HostFits(conn, app), NEW f, NEW wnd, OnUnexpected(f, wnd)
    PROVE  Leads(conn, app, conn', app')
<1>1. PICK r \in SendAcks(conn, wnd) : conn' = r.c /\ app' = app
  BY DEF OnUnexpected, Become
<1>2. Keeps(conn, r.c) /\ r.c.state = conn.state /\ r.c.rcv_nxt = conn.rcv_nxt
      /\ r.c.snd_nxt = conn.snd_nxt
  BY HostHas, SendAcksKeep
<1>. QED  BY <1>1, <1>2, SilentLeads

LEMMA OnRexmitRequestLeads ==
    ASSUME HostFits(conn, app), NEW f, IsPeerFrame(f), NEW wnd, OnRexmitRequest(f, wnd)
    PROVE  Leads(conn, app, conn', app')
<1>. DEFINE b == Scanned(conn, f)
            c == [b EXCEPT !.wnd = f.wnd]
            d == Rexmit(c, wnd).c
<1>1. conn' = d /\ app' = app
  BY DEF OnRexmitRequest, Become
<1>2. Keeps(conn, b) /\ b.state = conn.state /\ b.rcv_nxt = conn.rcv_nxt
      /\ b.snd_nxt = conn.snd_nxt
  BY HostHas, ScannedKeeps
<1>. HIDE DEF b
<1>3. Keeps(b, c) /\ c.state = b.state /\ c.rcv_nxt = b.rcv_nxt /\ c.snd_nxt = b.snd_nxt
  BY <1>2, WindowKeeps DEF Keeps, IsPeerFrame
<1>. HIDE DEF c
<1>4. Keeps(c, d) /\ d.state = c.state /\ d.rcv_nxt = c.rcv_nxt
      /\ (IsWhole(c) => d.snd_nxt = c.snd_nxt)
  BY <1>3, RexmitKeeps DEF Keeps
<1>. HIDE DEF d
<1>5. Keeps(conn, d) /\ Keeps(conn, c)
  BY <1>2, <1>3, <1>4, KeepsTwice
<1>6. IsWhole(conn) => d.snd_nxt = conn.snd_nxt
  BY <1>2, <1>3, <1>4, <1>5 DEF Keeps
<1>. QED  BY <1>1, <1>2, <1>3, <1>4, <1>5, <1>6, SilentLeads

-----------------------------------------------------------------------------
(***************************************************************************)
(* The switch over the states.                                             *)
(***************************************************************************)

\* What the common part left of the connection.
LEMMA ReachedIs ==
    ASSUME HostFits(conn, app), NEW f, IsPeerFrame(f), NEW state, Reaches(state, f)
    PROVE  LET c == Scanned(conn, f)
           IN  /\ conn.state = state /\ IsSound(conn)
               /\ Keeps(conn, c) /\ IsSound(c)
               /\ c.state = state /\ c.rcv_nxt = conn.rcv_nxt /\ c.snd_nxt = conn.snd_nxt
               /\ AckData(conn, f) => HasAvailableSegments(c)
               /\ f.dat # <<>> => f.seq = conn.rcv_nxt
               /\ f.dat \in Seq(Nat) /\ Len(f.dat) \in 0 .. SeqSpace
               /\ Len(f.dat) + 1 \in 0 .. SeqSpace
<1>1. conn.state = state /\ Accepted(f)
  BY DEF Reaches
<1>. DEFINE c == Scanned(conn, f)
<1>2. /\ Keeps(conn, c) /\ c.state = conn.state /\ c.rcv_nxt = conn.rcv_nxt
      /\ c.snd_nxt = conn.snd_nxt
      /\ AckData(conn, f) => HasAvailableSegments(c)
  BY HostHas, ScannedKeeps
<1>. HIDE DEF c
<1>3. IsSound(c)
  BY <1>2 DEF Keeps
<1>. QED  BY <1>1, <1>2, <1>3, HostHas, AcceptedIs, PayloadIs DEF c

LEMMA InSynRcvdLeads ==
    ASSUME HostFits(conn, app), NEW f, IsPeerFrame(f), NEW wnd, InSynRcvd(f, wnd)
    PROVE  Leads(conn, app, conn', app')
<1>. DEFINE b == Scanned(conn, f)
            c == [b EXCEPT !.state = "ESTABLISHED"]
            up == Told(app, "Connected")
<1>1. Reaches("SYN_RCVD", f)
  BY DEF InSynRcvd
<1>2. /\ conn.state = "SYN_RCVD" /\ Keeps(conn, b) /\ IsSound(b)
      /\ b.rcv_nxt = conn.rcv_nxt
      /\ f.dat # <<>> => f.seq = conn.rcv_nxt
      /\ f.dat \in Seq(Nat) /\ Len(f.dat) \in 0 .. SeqSpace
  BY <1>1, ReachedIs
<1>3. \/ conn' = conn /\ app' = app
      \/ conn' = c /\ app' = up /\ f.dat = <<>>
      \/ \E r \in SendAcks(Received(c, Len(f.dat)), wnd) :
            conn' = r.c /\ app' = Given(up, f.dat)
  BY DEF InSynRcvd, Become, Nothing, Result
<1>4. /\ up \in Application /\ up.log = Append(app.log, "Connected")
      /\ up.rcvd = app.rcvd /\ up.irs = app.irs /\ up.clean = app.clean
  BY HostHas, ToldIs
<1>5. up.log = <<"Connected">>
  BY <1>2, <1>4, HostHas, LogGrows DEF Unreported
<1>. HIDE DEF b
<1>6. "ESTABLISHED" \in States
  BY DEF States
<1>7. /\ Keeps(b, c) /\ IsSound(c) /\ c.state = "ESTABLISHED"
      /\ c.rcv_nxt = b.rcv_nxt
  BY <1>2, <1>6, StateKeeps
<1>. HIDE DEF c, up
<1>8. /\ "ESTABLISHED" \in PastData /\ "ESTABLISHED" \notin Closing
      /\ LogFits("ESTABLISHED", <<"Connected">>)
      /\ "SYN_RCVD" \in {"SYN_RCVD", "ESTABLISHED"}
  BY DEF PastData, Reported, Closing, LogFits, Unreported, Over
<1>9. ASSUME conn' = c, app' = up, f.dat = <<>>
      PROVE  Leads(conn, app, conn', app')
  <2>1. /\ up.rcvd = app.rcvd \o f.dat /\ c.rcv_nxt = SeqAdd(conn.rcv_nxt, Len(f.dat))
    <3>1. Len(f.dat) = 0 /\ app.rcvd \o f.dat = app.rcvd
      BY <1>9, HostHas
    <3>2. SeqAdd(conn.rcv_nxt, 0) = conn.rcv_nxt
      BY HostHas, RingAssumption DEF SeqAdd, SeqNos
    <3>. QED  BY <1>2, <1>4, <1>7, <3>1, <3>2
  <2>2. DataFits(c, up)
    BY <1>2, <1>4, <1>7, <1>8, <2>1, GivenFits
  <2>3. Keeps(conn, c)
    BY <1>2, <1>7, KeepsTwice
  <2>. QED  BY <1>4, <1>5, <1>7, <1>8, <1>9, <2>2, <2>3, KeptLeads
<1>10. ASSUME NEW r \in SendAcks(Received(c, Len(f.dat)), wnd),
              conn' = r.c, app' = Given(up, f.dat)
       PROVE  Leads(conn, app, conn', app')
  <2>. DEFINE e == Received(c, Len(f.dat))
              g == Given(up, f.dat)
  <2>1. /\ Keeps(c, e) /\ IsSound(e) /\ e.state = c.state
        /\ e.rcv_nxt = SeqAdd(c.rcv_nxt, Len(f.dat))
    BY <1>2, <1>7, ReceivedKeeps
  <2>2. r \in SendAcks(e, wnd)
    BY <1>10
  <2>. HIDE DEF e
  <2>3. Keeps(e, r.c) /\ r.c.state = e.state /\ r.c.rcv_nxt = e.rcv_nxt
    BY <2>1, <2>2, SendAcksKeep
  <2>4. Keeps(conn, r.c)
    BY <1>2, <1>7, <2>1, <2>3, KeepsTwice
  <2>5. /\ g \in Application /\ g.rcvd = up.rcvd \o f.dat /\ g.log = up.log
        /\ g.irs = up.irs /\ g.clean = up.clean
    BY <1>2, <1>4, GivenIs
  <2>. HIDE DEF g
  <2>6. r.c.rcv_nxt = SeqAdd(conn.rcv_nxt, Len(f.dat)) /\ r.c.state = "ESTABLISHED"
        /\ g.rcvd = app.rcvd \o f.dat /\ g.irs = app.irs
    BY <1>2, <1>4, <1>7, <2>1, <2>3, <2>5
  <2>7. DataFits(r.c, g)
    BY <1>2, <1>8, <2>6, GivenFits
  <2>8. Leads(conn, app, r.c, g)
    BY <1>4, <1>5, <1>8, <2>4, <2>5, <2>6, <2>7, KeptLeads
  <2>. QED  BY <1>10, <2>8 DEF g
<1>. QED  BY <1>3, <1>9, <1>10, UnchangedLeads

LEMMA InSynSentLeads ==
    ASSUME HostFits(conn, app), NEW f, IsPeerFrame(f), NEW wnd, InSynSent(f, wnd)
    PROVE  Leads(conn, app, conn', app')
<1>. DEFINE b == Scanned(conn, f)
<1>1. Reaches("SYN_SENT", f)
  BY DEF InSynSent
<1>2. /\ conn.state = "SYN_SENT" /\ Keeps(conn, b) /\ IsSound(b)
      /\ b.rcv_nxt = conn.rcv_nxt
  BY <1>1, ReachedIs
<1>3. CASE AckData(conn, f) /\ f.flags = SYNACK
  <2>. DEFINE s == SeqAdd(f.seq, 1)
              c == [b EXCEPT !.state = "ESTABLISHED", !.rcv_nxt = s, !.wnd = f.wnd]
              o == [app EXCEPT !.irs = f.seq]
              up == Told(o, "Connected")
              g == Given(up, f.dat)
  <2>1. PICK r \in SendAcks(c, wnd) : conn' = r.c /\ app' = g
    BY <1>3 DEF InSynSent, Become
  <2>2. /\ f.seq = PeerSeq /\ f.dat = <<>> /\ f.seq \in SeqNos /\ f.wnd \in Nat
        /\ s \in SeqNos /\ s = SeqAdd(PeerSeq, 1)
    BY <1>3, AtIs DEF IsPeerFrame, SYNACK
  <2>. HIDE DEF b, s
  <2>3. /\ c \in Connection /\ Len(b.buf) <= MSS
        /\ c.segs = b.segs /\ c.segidx = b.segidx /\ c.snd_nxt = b.snd_nxt
        /\ c.buf = b.buf /\ c.state = "ESTABLISHED" /\ c.rcv_nxt = s
    BY <1>2, <2>2 DEF IsSound, Connection, States
  <2>. HIDE DEF c
  <2>4. Keeps(b, c)
    BY <1>2, <2>3, SameRingKeeps
  <2>5. Keeps(c, r.c) /\ r.c.state = "ESTABLISHED" /\ r.c.rcv_nxt = s
    BY <2>1, <2>3, <2>4, SendAcksKeep DEF Keeps
  <2>6. Keeps(conn, r.c)
    BY <1>2, <2>4, <2>5, KeepsTwice
  <2>7. /\ o \in Application /\ o.log = app.log /\ o.rcvd = app.rcvd
        /\ o.irs = PeerSeq /\ o.clean = app.clean
    BY <2>2, HostHas DEF Application
  <2>. HIDE DEF o
  <2>8. /\ up \in Application /\ up.log = Append(app.log, "Connected")
        /\ up.rcvd = app.rcvd /\ up.irs = PeerSeq /\ up.clean = app.clean
    BY <2>7, ToldIs
  <2>. HIDE DEF up
  <2>9. /\ g \in Application /\ g.log = up.log /\ g.rcvd = up.rcvd \o f.dat
        /\ g.irs = PeerSeq /\ g.clean = app.clean
    <3>1. f.dat \in Seq(Nat)
      BY PayloadIs
    <3>. QED  BY <2>8, <3>1, GivenIs
  <2>. HIDE DEF g
  <2>10. up.log = <<"Connected">> /\ up.rcvd = <<>>
    BY <1>2, <2>8, HostHas, LogGrows DEF Unreported, DataFits
  <2>11. g.rcvd = <<>>
    BY <2>2, <2>9, <2>10
  <2>12. DataFits(r.c, g)
    <3>1. Len(g.rcvd) = 0 /\ \A i \in DOMAIN g.rcvd : g.rcvd[i] = i
      BY <2>11
    <3>2. r.c.rcv_nxt = SeqAdd(SeqAdd(PeerSeq, 1), Len(g.rcvd))
      BY <2>2, <2>5, <3>1, AtIs DEF At
    <3>. QED  BY <2>5, <2>9, <2>11, <3>1, <3>2, RingAssumption DEF DataFits
  <2>13. LogFits("ESTABLISHED", g.log) /\ "ESTABLISHED" \notin Closing
    BY <2>9, <2>10 DEF LogFits, Unreported, Reported, Over, Closing
  <2>. QED  BY <2>1, <2>5, <2>6, <2>9, <2>12, <2>13, KeptLeads
<1>4. CASE ~ (AckData(conn, f) /\ f.flags = SYNACK)
  <2>. DEFINE d == SendAbort(b, wnd).c
  <2>1. conn' = d /\ app' = Told(app, "Aborted")
    BY <1>4 DEF InSynSent, Become
  <2>. HIDE DEF b
  <2>2. Keeps(b, d) /\ d.state = "CLOSED"
    BY <1>2, SendAbortKeeps
  <2>. HIDE DEF d
  <2>3. Keeps(conn, d)
    BY <1>2, <2>2, KeepsTwice
  <2>. QED  BY <1>2, <2>1, <2>2, <2>3, BrokenLeads
<1>. QED  BY <1>3, <1>4

LEMMA InEstablishedFinLeads ==
    ASSUME HostFits(conn, app), NEW f, IsPeerFrame(f), NEW wnd, InEstablishedFin(f, wnd)
    PROVE  Leads(conn, app, conn', app')
<1>. DEFINE b == Scanned(conn, f)
            n == Len(f.dat) + 1
            p == Received(b, n)
            c == [p EXCEPT !.state = "LAST_ACK"]
            d == SendFinAck(c, wnd).c
            g == Given(app, f.dat)
<1>1. Reaches("ESTABLISHED", f)
  BY DEF InEstablishedFin
<1>2. /\ conn.state = "ESTABLISHED" /\ Keeps(conn, b) /\ IsSound(b)
      /\ b.state = "ESTABLISHED" /\ b.rcv_nxt = conn.rcv_nxt /\ b.snd_nxt = conn.snd_nxt
      /\ f.dat \in Seq(Nat) /\ n \in 0 .. SeqSpace
  BY <1>1, ReachedIs
<1>3. CASE HasOutstandingSegments(b)
  <2>1. conn' = b /\ app' = app
    BY <1>3 DEF InEstablishedFin, Become, Nothing, Result
  <2>. HIDE DEF b
  <2>. QED  BY <1>2, <2>1, SilentLeads
<1>4. CASE ~ HasOutstandingSegments(b)
  <2>1. conn' = d /\ app' = g
    BY <1>4 DEF InEstablishedFin, Become
  <2>. HIDE DEF b, n
  <2>2. Keeps(b, p) /\ IsSound(p)
        /\ (HasOutstandingSegments(p) <=> HasOutstandingSegments(b))
    BY <1>2, ReceivedKeeps
  <2>. HIDE DEF p
  <2>3. "LAST_ACK" \in States
    BY DEF States
  <2>4. /\ Keeps(p, c) /\ IsSound(c) /\ c.state = "LAST_ACK"
        /\ (HasOutstandingSegments(c) <=> HasOutstandingSegments(p))
    BY <2>2, <2>3, StateKeeps
  <2>. HIDE DEF c
  <2>5. HasAvailableSegments(c)
    <3>1. 0 \in Slots
      BY RingAssumption DEF Slots
    <3>. QED  BY <1>4, <2>2, <2>4, <3>1
              DEF HasAvailableSegments, HasOutstandingSegments
  <2>6. Keeps(c, d) /\ d.state = "LAST_ACK"
    BY <2>4, <2>5, SendFlagKeeps DEF SendFinAck
  <2>. HIDE DEF d
  <2>7. Keeps(conn, d)
    BY <1>2, <2>2, <2>4, <2>6, KeepsTwice
  <2>8. /\ g \in Application /\ g.log = app.log /\ g.rcvd = app.rcvd \o f.dat
        /\ g.irs = app.irs /\ g.clean = app.clean
    BY <1>2, HostHas, GivenIs
  <2>. HIDE DEF g
  <2>9. g.log = <<"Connected">> /\ LogFits("LAST_ACK", g.log)
    BY <1>2, <2>8, HostHas DEF LogFits, Reported, Unreported, Over
  <2>10. DataFits(d, g)
    <3>1. (f.dat # <<>> => f.seq = conn.rcv_nxt) /\ f.dat \in Seq(Nat)
      BY <1>1, ReachedIs
    <3>2. \A e, h : /\ e.rcv_nxt = SeqAdd(conn.rcv_nxt, Len(f.dat))
                    /\ e.state \in PastData
                    /\ h.rcvd = app.rcvd \o f.dat /\ h.irs = app.irs
                    => DataFits(e, h)
      BY <1>2, <3>1, GivenFits
    <3>. DEFINE e == [state |-> "LAST_ACK", rcv_nxt |-> SeqAdd(conn.rcv_nxt, Len(f.dat))]
    <3>3. DataFits(e, g) /\ "LAST_ACK" \in PastData
      <4>1. "LAST_ACK" \in PastData
        BY DEF PastData, Reported
      <4>2. e.state = "LAST_ACK" /\ e.rcv_nxt = SeqAdd(conn.rcv_nxt, Len(f.dat))
        OBVIOUS
      <4>. HIDE DEF e
      <4>. QED  BY <2>8, <3>2, <4>1, <4>2
    <3>. HIDE DEF e
    <3>. QED  BY <2>6, <3>3, PastDataFits
  <2>11. "ESTABLISHED" \notin Closing
    BY DEF Closing
  <2>. QED  BY <1>2, <2>1, <2>6, <2>7, <2>8, <2>9, <2>10, <2>11, KeptLeads
<1>. QED  BY <1>3, <1>4

\* The callback asked for the end of the connection.
LEMMA EndedLeads ==
    ASSUME NEW c, NEW a, HostFits(c, a), c.state = "ESTABLISHED",
           NEW k, Keeps(c, k.c), k.c.state = "ESTABLISHED", k.act \in Actions,
           k.a \in Application, k.a.clean = a.clean, k.a.log = a.log,
           NEW wnd, DataFits(Ended(k, wnd).c, k.a)
    PROVE  Leads(c, a, Ended(k, wnd).c, k.a)
<1>. DEFINE d == Ended(k, wnd).c
<1>1. IsSound(k.c)
  BY DEF Keeps
<1>2. Keeps(k.c, d) /\ d.state \in {"CLOSED", "FIN_WAIT_1", "ESTABLISHED"}
  BY <1>1, EndedKeeps
<1>. HIDE DEF d
<1>3. Keeps(c, d)
  BY <1>2, KeepsTwice
<1>4. k.a.log = <<"Connected">>
  BY HostHas DEF LogFits, Reported
<1>5. LogFits(d.state, k.a.log)
  BY <1>2, <1>4 DEF LogFits, Reported, Unreported, Over
<1>6. "ESTABLISHED" \notin Closing
  BY DEF Closing
<1>7. DataFits(d, k.a)
  BY DEF d
<1>8. Leads(c, a, d, k.a)
  BY <1>3, <1>5, <1>6, <1>7, KeptLeads
<1>. QED  BY <1>8 DEF d

\* The connection stays as it is, with the data of a frame given.
LEMMA EstablishedLeads ==
    ASSUME NEW c, NEW a, HostFits(c, a), c.state = "ESTABLISHED",
           NEW d, Keeps(c, d), d.state = "ESTABLISHED",
           NEW b \in Application, b.clean = a.clean, b.log = a.log, DataFits(d, b)
    PROVE  Leads(c, a, d, b)
<1>1. LogFits(d.state, b.log)
  BY HostHas
<1>2. "ESTABLISHED" \notin Closing
  BY DEF Closing
<1>. QED  BY <1>1, <1>2, KeptLeads

\* m_newdata: onNewData is called, and may end the connection or write.
LEMMA NewDataLeads ==
    ASSUME HostFits(conn, app), conn.state = "ESTABLISHED",
           NEW f, IsPeerFrame(f), f.dat # <<>> => f.seq = conn.rcv_nxt,
           NEW k, Keeps(conn, k.c), k.c.state = "ESTABLISHED",
           k.c.rcv_nxt = SeqAdd(conn.rcv_nxt, Len(f.dat)),
           k.a \in Application, k.a.clean = app.clean, k.a.log = app.log,
           k.a.rcvd = app.rcvd, k.a.irs = app.irs,
           NEW wnd, NewData(k, f.dat, wnd)
    PROVE  Leads(conn, app, conn', app')
<1>. DEFINE g == Given(k.a, f.dat)
<1>1. f.dat \in Seq(Nat) /\ IsSound(k.c)
  BY PayloadIs DEF Keeps
<1>2. PICK r1 \in (IF DelayedAck THEN {Nothing(k.c)} ELSE SendAcks(k.c, wnd)) :
      \E k2 \in Called(r1.c, g) :
      \E r2 \in IF k2.act = "Continue"
                THEN Flushed(k2.c, CanSend(r1.c), TRUE, wnd)
                ELSE {Ended(k2, wnd)} :
          Become(Result(r2.c, r1.out \o r2.out), k2.a)
  BY DEF NewData
<1>3. PICK k2 \in Called(r1.c, g) :
      \E r2 \in IF k2.act = "Continue"
                THEN Flushed(k2.c, CanSend(r1.c), TRUE, wnd)
                ELSE {Ended(k2, wnd)} :
          conn' = r2.c /\ app' = k2.a
  BY <1>2 DEF Become, Result
<1>4. Keeps(k.c, r1.c) /\ r1.c.state = "ESTABLISHED" /\ r1.c.rcv_nxt = k.c.rcv_nxt
  <2>1. CASE DelayedAck
    <3>1. r1.c = k.c
      BY <1>2, <2>1 DEF Nothing, Result
    <3>. QED  BY <1>1, <3>1 DEF Keeps
  <2>2. CASE ~ DelayedAck
    <3>1. r1 \in SendAcks(k.c, wnd)
      BY <1>2, <2>2
    <3>. QED  BY <1>1, <3>1, SendAcksKeep
  <2>. QED  BY <2>1, <2>2
<1>5. /\ g \in Application /\ g.rcvd = app.rcvd \o f.dat /\ g.irs = app.irs
      /\ g.log = app.log /\ g.clean = app.clean
  BY <1>1, GivenIs, ZenonT(30)
<1>. HIDE DEF g
<1>6. IsSound(r1.c)
  BY <1>4 DEF Keeps
<1>7. /\ Keeps(r1.c, k2.c) /\ k2.c.state = "ESTABLISHED" /\ k2.c.rcv_nxt = k.c.rcv_nxt
      /\ HasAvailableSegments(k2.c) <=> HasAvailableSegments(r1.c)
      /\ k2.a \in Application /\ k2.a.log = app.log /\ k2.a.rcvd = app.rcvd \o f.dat
      /\ k2.a.irs = app.irs /\ k2.a.clean = app.clean /\ k2.act \in Actions
  BY <1>3, <1>4, <1>5, <1>6, CalledKeeps, ZenonT(30)
<1>8. Keeps(conn, k2.c) /\ IsSound(k2.c)
  <2>1. Keeps(conn, r1.c)
    BY <1>4, KeepsTwice
  <2>2. Keeps(conn, k2.c)
    BY <1>7, <2>1, KeepsTwice
  <2>. QED  BY <2>2 DEF Keeps
<1>9. \A d : /\ d.rcv_nxt = SeqAdd(conn.rcv_nxt, Len(f.dat))
             /\ d.state \in {"CLOSED", "FIN_WAIT_1", "ESTABLISHED"}
             => DataFits(d, k2.a)
  <2>. SUFFICES ASSUME NEW d, d.rcv_nxt = SeqAdd(conn.rcv_nxt, Len(f.dat)),
                       d.state \in {"CLOSED", "FIN_WAIT_1", "ESTABLISHED"}
                PROVE  DataFits(d, k2.a)
    OBVIOUS
  <2>1. d.state \in PastData
    BY DEF PastData, Reported
  <2>2. conn.state \in {"SYN_RCVD", "ESTABLISHED"}
    OBVIOUS
  <2>. QED  BY <1>7, <2>1, <2>2, GivenFits
<1>10. CASE k2.act = "Continue"
  <2>1. PICK r2 \in Flushed(k2.c, CanSend(r1.c), TRUE, wnd) : conn' = r2.c /\ app' = k2.a
    BY <1>3, <1>10
  <2>2. CanSend(r1.c) => HasAvailableSegments(k2.c)
    BY <1>7 DEF CanSend
  <2>3. Keeps(k2.c, r2.c) /\ r2.c.state = "ESTABLISHED" /\ r2.c.rcv_nxt = k.c.rcv_nxt
    <3>1. \/ HasAvailableSegments(k2.c) /\ r2 = SendNoDelay(k2.c, wnd)
          \/ r2 \in SendAcks(k2.c, wnd)
          \/ r2 = Nothing(k2.c)
      BY <2>1, <2>2 DEF Flushed
    <3>2. Keeps(k2.c, r2.c) /\ r2.c.state = k2.c.state /\ r2.c.rcv_nxt = k2.c.rcv_nxt
      BY <1>8, <3>1, FlushedKeeps, ZenonT(30)
    <3>. QED  BY <1>7, <3>2
  <2>4. DataFits(r2.c, k2.a)
    BY <1>9, <2>3
  <2>5. Keeps(conn, r2.c)
    BY <1>8, <2>3, KeepsTwice
  <2>. QED  BY <1>7, <2>1, <2>3, <2>4, <2>5, EstablishedLeads
<1>11. CASE k2.act # "Continue"
  <2>1. conn' = Ended(k2, wnd).c /\ app' = k2.a
    BY <1>3, <1>11
  <2>2. DataFits(Ended(k2, wnd).c, k2.a)
    <3>1. /\ Ended(k2, wnd).c.rcv_nxt = k2.c.rcv_nxt
          /\ Ended(k2, wnd).c.state \in {"CLOSED", "FIN_WAIT_1", "ESTABLISHED"}
      BY <1>7, <1>8, EndedKeeps
    <3>. QED  BY <1>7, <1>9, <3>1
  <2>. QED  BY <1>7, <1>8, <2>1, <2>2, EndedLeads
<1>. QED  BY <1>10, <1>11

LEMMA InEstablishedLeads ==
    ASSUME HostFits(conn, app), NEW f, IsPeerFrame(f), NEW wnd, InEstablished(f, wnd)
    PROVE  Leads(conn, app, conn', app')
<1>. DEFINE withAck == AckData(conn, f)
            b == Scanned(conn, f)
            e == Received(b, Len(f.dat))
            c == [e EXCEPT !.wnd = f.wnd]
<1>1. Reaches("ESTABLISHED", f)
  BY DEF InEstablished
<1>2. /\ conn.state = "ESTABLISHED" /\ Keeps(conn, b) /\ IsSound(b)
      /\ b.state = "ESTABLISHED" /\ b.rcv_nxt = conn.rcv_nxt
      /\ withAck => HasAvailableSegments(b)
      /\ f.dat # <<>> => f.seq = conn.rcv_nxt
      /\ f.dat \in Seq(Nat) /\ Len(f.dat) \in 0 .. SeqSpace
  BY <1>1, ReachedIs
<1>3. PICK k \in (IF withAck THEN Called(c, app) ELSE {Continues(c, app)}) :
         \/ /\ k.act # "Continue"
            /\ Become(Ended(k, wnd), k.a)
         \/ /\ k.act = "Continue" /\ f.dat # <<>>
            /\ NewData(k, f.dat, wnd)
         \/ /\ k.act = "Continue" /\ f.dat = <<>>
            /\ \E r \in IF withAck THEN Flushed(k.c, CanSend(k.c), FALSE, wnd)
                                ELSE {Nothing(k.c)} :
                  Become(r, k.a)
  BY DEF InEstablished
<1>. HIDE DEF withAck, b
<1>4. /\ Keeps(b, e) /\ IsSound(e) /\ e.state = "ESTABLISHED"
      /\ e.rcv_nxt = SeqAdd(conn.rcv_nxt, Len(f.dat))
      /\ HasAvailableSegments(e) <=> HasAvailableSegments(b)
  BY <1>2, ReceivedKeeps
<1>. HIDE DEF e
<1>5. /\ Keeps(e, c) /\ IsSound(c) /\ c.state = "ESTABLISHED"
      /\ c.rcv_nxt = SeqAdd(conn.rcv_nxt, Len(f.dat))
      /\ HasAvailableSegments(c) <=> HasAvailableSegments(e)
  BY <1>4, WindowKeeps DEF IsPeerFrame
<1>. HIDE DEF c
<1>6. /\ Keeps(c, k.c) /\ k.c.state = "ESTABLISHED"
      /\ k.c.rcv_nxt = SeqAdd(conn.rcv_nxt, Len(f.dat))
      /\ HasAvailableSegments(k.c) <=> HasAvailableSegments(c)
      /\ k.a \in Application /\ k.a.log = app.log /\ k.a.rcvd = app.rcvd
      /\ k.a.irs = app.irs /\ k.a.clean = app.clean /\ k.act \in Actions
      /\ k.act # "Continue" => withAck
  <2>1. CASE withAck
    <3>1. k \in Called(c, app)
      BY <1>3, <2>1
    <3>. QED  BY <1>5, <2>1, <3>1, HostHas, CalledKeeps
  <2>2. CASE ~ withAck
    <3>1. k = Continues(c, app)
      BY <1>3, <2>2
    <3>2. k.c = c /\ k.a = app /\ k.act = "Continue"
      BY <3>1 DEF Continues
    <3>. QED  BY <1>5, <3>2, HostHas DEF Keeps, Actions
  <2>. QED  BY <2>1, <2>2
<1>7. Keeps(conn, k.c) /\ IsSound(k.c)
  <2>1. Keeps(conn, e)
    BY <1>2, <1>4, KeepsTwice
  <2>2. Keeps(conn, c)
    BY <1>5, <2>1, KeepsTwice
  <2>3. Keeps(conn, k.c)
    BY <1>6, <2>2, KeepsTwice
  <2>. QED  BY <2>3 DEF Keeps
<1>8. CASE k.act # "Continue"
  <2>. DEFINE d == Ended(k, wnd).c
  <2>1. conn' = d /\ app' = k.a
    BY <1>3, <1>8 DEF Become
  <2>2. HasAvailableSegments(k.c)
    BY <1>2, <1>4, <1>5, <1>6, <1>8
  <2>3. d.state \in {"CLOSED", "FIN_WAIT_1"}
    BY <1>6, <1>7, <2>2, EndedKeeps
  <2>4. d.state \in PastData /\ d.state # "ESTABLISHED"
    BY <2>3 DEF PastData, Reported
  <2>5. DataFits(d, k.a)
    BY <1>6, <2>4, HostHas, PastDataFits
  <2>. QED  BY <1>2, <1>6, <1>7, <2>1, <2>5, EndedLeads
<1>9. CASE k.act = "Continue" /\ f.dat # <<>>
  <2>1. NewData(k, f.dat, wnd)
    BY <1>3, <1>9
  <2>. QED  BY <1>2, <1>6, <1>7, <2>1, NewDataLeads
<1>10. CASE k.act = "Continue" /\ f.dat = <<>>
  <2>1. PICK r \in (IF withAck THEN Flushed(k.c, CanSend(k.c), FALSE, wnd)
                            ELSE {Nothing(k.c)}) :
           conn' = r.c /\ app' = k.a
    BY <1>3, <1>10 DEF Become
  <2>2. Keeps(k.c, r.c) /\ r.c.state = "ESTABLISHED" /\ r.c.rcv_nxt = k.c.rcv_nxt
    <3>1. CASE withAck
      <4>1. r \in Flushed(k.c, CanSend(k.c), FALSE, wnd)
        BY <2>1, <3>1
      <4>2. CanSend(k.c) => HasAvailableSegments(k.c)
        BY DEF CanSend
      <4>3. \/ HasAvailableSegments(k.c) /\ r = SendNoDelay(k.c, wnd)
            \/ r \in SendAcks(k.c, wnd)
            \/ r = Nothing(k.c)
        BY <4>1, <4>2 DEF Flushed
      <4>. QED  BY <1>6, <1>7, <4>3, FlushedKeeps
    <3>2. CASE ~ withAck
      <4>1. r.c = k.c
        BY <2>1, <3>2 DEF Nothing, Result
      <4>. QED  BY <1>6, <1>7, <4>1 DEF Keeps
    <3>. QED  BY <3>1, <3>2
  <2>3. Keeps(conn, r.c)
    BY <1>7, <2>2, KeepsTwice
  <2>4. DataFits(r.c, k.a)
    <3>1. Len(f.dat) = 0
      BY <1>10
    <3>2. SeqAdd(conn.rcv_nxt, 0) = conn.rcv_nxt
      BY HostHas, RingAssumption DEF SeqAdd, SeqNos
    <3>3. r.c.rcv_nxt = conn.rcv_nxt
      BY <1>6, <2>2, <3>1, <3>2
    <3>. QED  BY <1>2, <1>6, <2>2, <3>3, HostHas DEF DataFits
  <2>. QED  BY <1>2, <1>6, <2>1, <2>2, <2>3, <2>4, EstablishedLeads
<1>. QED  BY <1>8, <1>9, <1>10

-----------------------------------------------------------------------------
(***************************************************************************)
(* The connection is closing: nothing is given any more, and snd_nxt rests. *)
(***************************************************************************)

\* A step among the states past the data that tells nothing.
LEMMA QuietLeads ==
    ASSUME NEW c, NEW a, HostFits(c, a), c.state # "CLOSED",
           NEW d, Keeps(c, d), d.snd_nxt = c.snd_nxt,
           \/ d.state \in Reported \ {"ESTABLISHED"} /\ c.state \in Reported
           \/ d.state \in Over /\ c.state \in Over
    PROVE  Leads(c, a, d, a)
<1>1. LogFits(d.state, a.log)
  BY HostHas DEF LogFits, Reported, Unreported, Over
<1>2. d.state \in PastData /\ d.state # "ESTABLISHED"
  BY DEF PastData, Over
<1>. QED  BY <1>1, <1>2, HostHas, PastLeads

\* The peer closed: the connection is reported closed.
LEMMA ClosedLeads ==
    ASSUME NEW c, NEW a, HostFits(c, a), c.state \in Reported,
           NEW d, Keeps(c, d), d.snd_nxt = c.snd_nxt, d.state \in Over \cup {"CLOSED"}
    PROVE  Leads(c, a, d, Told(a, "Closed"))
<1>. DEFINE b == Told(a, "Closed")
<1>1. /\ b \in Application /\ b.clean = a.clean /\ b.rcvd = a.rcvd
      /\ b.log = Append(a.log, "Closed")
  BY HostHas, ToldIs
<1>2. b.log = <<"Connected", "Closed">>
  BY <1>1, HostHas, LogGrows
<1>. HIDE DEF b
<1>3. LogFits(d.state, b.log)
  BY <1>2 DEF LogFits, Reported, Unreported, Over
<1>4. d.state \in PastData /\ d.state # "ESTABLISHED"
  BY DEF PastData, Over
<1>5. Leads(c, a, d, b)
  BY <1>1, <1>3, <1>4, PastLeads
<1>. QED  BY <1>5 DEF b

\* An ACK, or nothing.
LEMMA AckedKeeps ==
    ASSUME NEW c, IsSound(c), NEW wnd, NEW r, r \in SendAcks(c, wnd) \/ r = Nothing(c)
    PROVE  Keeps(c, r.c) /\ r.c.state = c.state /\ r.c.snd_nxt = c.snd_nxt
<1>1. CASE r \in SendAcks(c, wnd)
  BY <1>1, SendAcksKeep
<1>2. CASE r = Nothing(c)
  BY <1>2 DEF Nothing, Result, Keeps
<1>. QED  BY <1>1, <1>2

\* The peer moves on and the state changes.
LEMMA MovedKeeps ==
    ASSUME NEW c, IsSound(c), NEW n \in 0 .. SeqSpace, NEW state \in States
    PROVE  LET d == [Received(c, n) EXCEPT !.state = state]
           IN  /\ Keeps(c, d) /\ IsSound(d) /\ d.state = state /\ d.snd_nxt = c.snd_nxt
               /\ HasAvailableSegments(d) <=> HasAvailableSegments(c)
<1>. DEFINE e == Received(c, n)
            d == [e EXCEPT !.state = state]
<1>1. /\ Keeps(c, e) /\ IsSound(e) /\ e.snd_nxt = c.snd_nxt
      /\ HasAvailableSegments(e) <=> HasAvailableSegments(c)
  BY ReceivedKeeps
<1>. HIDE DEF e
<1>2. /\ Keeps(e, d) /\ IsSound(d) /\ d.state = state /\ d.snd_nxt = e.snd_nxt
      /\ HasAvailableSegments(d) <=> HasAvailableSegments(e)
  BY <1>1, StateKeeps
<1>. HIDE DEF d
<1>3. Keeps(c, d)
  BY <1>1, <1>2, KeepsTwice
<1>. QED  BY <1>1, <1>2, <1>3 DEF d, e

LEMMA InLastAckLeads ==
    ASSUME HostFits(conn, app), NEW f, IsPeerFrame(f), InLastAck(f)
    PROVE  Leads(conn, app, conn', app')
<1>. DEFINE b == Scanned(conn, f)
            d == [b EXCEPT !.state = "CLOSED"]
<1>1. Reaches("LAST_ACK", f)
  BY DEF InLastAck
<1>2. /\ conn.state = "LAST_ACK" /\ Keeps(conn, b) /\ IsSound(b)
      /\ b.snd_nxt = conn.snd_nxt
  BY <1>1, ReachedIs
<1>3. \/ conn' = d /\ app' = Told(app, "Closed")
      \/ conn' = conn /\ app' = app
  BY DEF InLastAck, Become, Nothing, Result
<1>. HIDE DEF b
<1>4. "CLOSED" \in States /\ "LAST_ACK" \in Reported
  BY DEF States, Reported
<1>5. Keeps(b, d) /\ d.state = "CLOSED" /\ d.snd_nxt = b.snd_nxt
  BY <1>2, <1>4, StateKeeps
<1>. HIDE DEF d
<1>6. Keeps(conn, d)
  BY <1>2, <1>5, KeepsTwice
<1>7. Leads(conn, app, d, Told(app, "Closed"))
  BY <1>2, <1>4, <1>5, <1>6, ClosedLeads
<1>. QED  BY <1>3, <1>7, UnchangedLeads

LEMMA InFinWait1Leads ==
    ASSUME HostFits(conn, app), NEW f, IsPeerFrame(f), NEW wnd, InFinWait1(f, wnd)
    PROVE  Leads(conn, app, conn', app')
<1>. DEFINE withAck == AckData(conn, f)
            next == IF withAck THEN "TIME_WAIT" ELSE "CLOSING"
            b == Scanned(conn, f)
            c == Received(b, Len(f.dat))
            d == [Received(c, 1) EXCEPT !.state = next]
            e == [c EXCEPT !.state = "FIN_WAIT_2"]
<1>1. Reaches("FIN_WAIT_1", f)
  BY DEF InFinWait1
<1>2. /\ conn.state = "FIN_WAIT_1" /\ Keeps(conn, b) /\ IsSound(b)
      /\ b.state = "FIN_WAIT_1" /\ b.snd_nxt = conn.snd_nxt
      /\ Len(f.dat) \in 0 .. SeqSpace
  BY <1>1, ReachedIs
<1>3. \/ \E r \in SendAcks(d, wnd) : conn' = r.c /\ app' = Told(app, "Closed")
      \/ conn' = e /\ app' = app
      \/ \E r : /\ r \in SendAcks(c, wnd) \/ r = Nothing(c)
                /\ conn' = r.c /\ app' = app
  BY DEF InFinWait1, Become, Nothing, Result
<1>4. next \in States /\ next \in Over /\ "FIN_WAIT_2" \in States /\ 1 \in 0 .. SeqSpace
  BY RingAssumption DEF States, Over
<1>. HIDE DEF b, withAck, next
<1>5. Keeps(b, c) /\ IsSound(c) /\ c.state = "FIN_WAIT_1" /\ c.snd_nxt = conn.snd_nxt
  BY <1>2, ReceivedKeeps
<1>. HIDE DEF c
<1>6. Keeps(conn, c)
  BY <1>2, <1>5, KeepsTwice
<1>7. Keeps(c, d) /\ IsSound(d) /\ d.state = next /\ d.snd_nxt = conn.snd_nxt
  BY <1>4, <1>5, MovedKeeps
<1>8. Keeps(c, e) /\ e.state = "FIN_WAIT_2" /\ e.snd_nxt = conn.snd_nxt
  BY <1>4, <1>5, StateKeeps
<1>. HIDE DEF d, e
<1>9. /\ "FIN_WAIT_1" \in Reported \ {"ESTABLISHED"}
      /\ "FIN_WAIT_2" \in Reported \ {"ESTABLISHED"} /\ "FIN_WAIT_1" # "CLOSED"
  BY DEF Reported
<1>10. CASE \E r \in SendAcks(d, wnd) : conn' = r.c /\ app' = Told(app, "Closed")
  <2>1. PICK r \in SendAcks(d, wnd) : conn' = r.c /\ app' = Told(app, "Closed")
    BY <1>10
  <2>2. Keeps(d, r.c) /\ r.c.state = next /\ r.c.snd_nxt = conn.snd_nxt
    BY <1>7, <2>1, AckedKeeps
  <2>3. Keeps(conn, d)
    BY <1>6, <1>7, KeepsTwice
  <2>4. Keeps(conn, r.c)
    BY <2>2, <2>3, KeepsTwice
  <2>. QED  BY <1>2, <1>4, <1>9, <2>1, <2>2, <2>4, ClosedLeads
<1>11. CASE conn' = e /\ app' = app
  <2>1. Keeps(conn, e)
    BY <1>6, <1>8, KeepsTwice
  <2>. QED  BY <1>2, <1>8, <1>9, <1>11, <2>1, QuietLeads
<1>12. CASE \E r : /\ r \in SendAcks(c, wnd) \/ r = Nothing(c)
                   /\ conn' = r.c /\ app' = app
  <2>1. PICK r : /\ r \in SendAcks(c, wnd) \/ r = Nothing(c)
                 /\ conn' = r.c /\ app' = app
    BY <1>12
  <2>2. Keeps(c, r.c) /\ r.c.state = "FIN_WAIT_1" /\ r.c.snd_nxt = conn.snd_nxt
    BY <1>5, <2>1, AckedKeeps
  <2>3. Keeps(conn, r.c)
    BY <1>6, <2>2, KeepsTwice
  <2>. QED  BY <1>2, <1>9, <2>1, <2>2, <2>3, QuietLeads
<1>. QED  BY <1>3, <1>10, <1>11, <1>12

LEMMA InFinWait2Leads ==
    ASSUME HostFits(conn, app), NEW f, IsPeerFrame(f), NEW wnd, InFinWait2(f, wnd)
    PROVE  Leads(conn, app, conn', app')
<1>. DEFINE b == Scanned(conn, f)
            c == Received(b, Len(f.dat))
            d == [Received(c, 1) EXCEPT !.state = "TIME_WAIT"]
<1>1. Reaches("FIN_WAIT_2", f)
  BY DEF InFinWait2
<1>2. /\ conn.state = "FIN_WAIT_2" /\ Keeps(conn, b) /\ IsSound(b)
      /\ b.state = "FIN_WAIT_2" /\ b.snd_nxt = conn.snd_nxt
      /\ Len(f.dat) \in 0 .. SeqSpace
  BY <1>1, ReachedIs
<1>3. \/ \E r \in SendAcks(d, wnd) : conn' = r.c /\ app' = Told(app, "Closed")
      \/ \E r : /\ r \in SendAcks(c, wnd) \/ r = Nothing(c)
                /\ conn' = r.c /\ app' = app
  BY DEF InFinWait2, Become, Nothing, Result
<1>4. "TIME_WAIT" \in States /\ "TIME_WAIT" \in Over /\ 1 \in 0 .. SeqSpace
  BY RingAssumption DEF States, Over
<1>. HIDE DEF b
<1>5. Keeps(b, c) /\ IsSound(c) /\ c.state = "FIN_WAIT_2" /\ c.snd_nxt = conn.snd_nxt
  BY <1>2, ReceivedKeeps
<1>. HIDE DEF c
<1>6. Keeps(conn, c)
  BY <1>2, <1>5, KeepsTwice
<1>7. Keeps(c, d) /\ IsSound(d) /\ d.state = "TIME_WAIT" /\ d.snd_nxt = conn.snd_nxt
  BY <1>4, <1>5, MovedKeeps
<1>. HIDE DEF d
<1>8. "FIN_WAIT_2" \in Reported \ {"ESTABLISHED"} /\ "FIN_WAIT_2" # "CLOSED"
  BY DEF Reported
<1>9. CASE \E r \in SendAcks(d, wnd) : conn' = r.c /\ app' = Told(app, "Closed")
  <2>1. PICK r \in SendAcks(d, wnd) : conn' = r.c /\ app' = Told(app, "Closed")
    BY <1>9
  <2>2. Keeps(d, r.c) /\ r.c.state = "TIME_WAIT" /\ r.c.snd_nxt = conn.snd_nxt
    BY <1>7, <2>1, AckedKeeps
  <2>3. Keeps(conn, d)
    BY <1>6, <1>7, KeepsTwice
  <2>4. Keeps(conn, r.c)
    BY <2>2, <2>3, KeepsTwice
  <2>. QED  BY <1>2, <1>4, <1>8, <2>1, <2>2, <2>4, ClosedLeads
<1>10. CASE \E r : /\ r \in SendAcks(c, wnd) \/ r = Nothing(c)
                   /\ conn' = r.c /\ app' = app
  <2>1. PICK r : /\ r \in SendAcks(c, wnd) \/ r = Nothing(c)
                 /\ conn' = r.c /\ app' = app
    BY <1>10
  <2>2. Keeps(c, r.c) /\ r.c.state = "FIN_WAIT_2" /\ r.c.snd_nxt = conn.snd_nxt
    BY <1>5, <2>1, AckedKeeps
  <2>3. Keeps(conn, r.c)
    BY <1>6, <2>2, KeepsTwice
  <2>. QED  BY <1>2, <1>8, <2>1, <2>2, <2>3, QuietLeads
<1>. QED  BY <1>3, <1>9, <1>10

LEMMA InTimeWaitLeads ==
    ASSUME HostFits(conn, app), NEW f, IsPeerFrame(f), NEW wnd, InTimeWait(f, wnd)
    PROVE  Leads(conn, app, conn', app')
<1>. DEFINE b == Scanned(conn, f)
<1>1. Reaches("TIME_WAIT", f)
  BY DEF InTimeWait
<1>2. /\ conn.state = "TIME_WAIT" /\ Keeps(conn, b) /\ IsSound(b)
      /\ b.state = "TIME_WAIT" /\ b.snd_nxt = conn.snd_nxt
  BY <1>1, ReachedIs
<1>3. PICK r \in SendAcks(b, wnd) : conn' = r.c /\ app' = app
  BY DEF InTimeWait, Become
<1>. HIDE DEF b
<1>4. Keeps(b, r.c) /\ r.c.state = "TIME_WAIT" /\ r.c.snd_nxt = conn.snd_nxt
  BY <1>2, <1>3, AckedKeeps
<1>5. Keeps(conn, r.c)
  BY <1>2, <1>4, KeepsTwice
<1>6. "TIME_WAIT" \in Over /\ "TIME_WAIT" # "CLOSED"
  BY DEF Over
<1>. QED  BY <1>2, <1>3, <1>4, <1>5, <1>6, QuietLeads

LEMMA InCloseLeads ==
    ASSUME HostFits(conn, app), NEW f, IsPeerFrame(f), NEW wnd, InClose(f, wnd)
    PROVE  Leads(conn, app, conn', app')
<1>. DEFINE b == Scanned(conn, f)
            c == [Received(b, Len(f.dat)) EXCEPT !.state = "FIN_WAIT_1"]
            d == SendFinAck(c, wnd).c
<1>1. Reaches("CLOSE", f)
  BY DEF InClose
<1>2. /\ conn.state = "CLOSE" /\ Keeps(conn, b) /\ IsSound(b)
      /\ b.state = "CLOSE" /\ b.snd_nxt = conn.snd_nxt
      /\ Len(f.dat) \in 0 .. SeqSpace
  BY <1>1, ReachedIs
<1>3. /\ "CLOSE" \in Reported \ {"ESTABLISHED"} /\ "CLOSE" # "CLOSED"
      /\ "FIN_WAIT_1" \in States /\ "CLOSE" \notin Closing
      /\ "FIN_WAIT_1" \in PastData /\ "FIN_WAIT_1" # "ESTABLISHED"
  BY DEF Reported, States, Closing, PastData
<1>4. CASE HasOutstandingSegments(b)
  <2>1. conn' = b /\ app' = app
    BY <1>4 DEF InClose, Become, Nothing, Result
  <2>. HIDE DEF b
  <2>. QED  BY <1>2, <1>3, <2>1, QuietLeads
<1>5. CASE ~ HasOutstandingSegments(b)
  <2>1. conn' = d /\ app' = app
    BY <1>5 DEF InClose, Become
  <2>. HIDE DEF b
  <2>2. HasAvailableSegments(b)
    <3>1. 0 \in Slots
      BY RingAssumption DEF Slots
    <3>. QED  BY <1>5, <3>1 DEF HasAvailableSegments, HasOutstandingSegments
  <2>3. Keeps(b, c) /\ IsSound(c) /\ c.state = "FIN_WAIT_1" /\ HasAvailableSegments(c)
    BY <1>2, <1>3, <2>2, MovedKeeps
  <2>. HIDE DEF c
  <2>4. Keeps(c, d) /\ d.state = "FIN_WAIT_1"
    BY <2>3, SendFlagKeeps DEF SendFinAck
  <2>. HIDE DEF d
  <2>5. Keeps(conn, d)
    BY <1>2, <2>3, <2>4, KeepsTwice
  <2>6. LogFits("FIN_WAIT_1", app.log)
    BY <1>2, HostHas DEF LogFits, Reported, Unreported, Over
  <2>. QED  BY <1>2, <1>3, <2>1, <2>4, <2>5, <2>6, HostHas, PastLeads
<1>. QED  BY <1>4, <1>5

LEMMA InClosingLeads ==
    ASSUME HostFits(conn, app), NEW f, IsPeerFrame(f), InClosing(f)
    PROVE  Leads(conn, app, conn', app')
<1>. DEFINE b == Scanned(conn, f)
            d == [b EXCEPT !.state = "TIME_WAIT"]
<1>1. Reaches("CLOSING", f)
  BY DEF InClosing
<1>2. /\ conn.state = "CLOSING" /\ Keeps(conn, b) /\ IsSound(b)
      /\ b.snd_nxt = conn.snd_nxt
  BY <1>1, ReachedIs
<1>3. (conn' = d \/ conn' = conn) /\ app' = app
  BY DEF InClosing, Become, Nothing, Result
<1>. HIDE DEF b
<1>4. /\ "TIME_WAIT" \in States /\ "TIME_WAIT" \in Over /\ "CLOSING" \in Over
      /\ "CLOSING" # "CLOSED"
  BY DEF States, Over
<1>5. Keeps(b, d) /\ d.state = "TIME_WAIT" /\ d.snd_nxt = b.snd_nxt
  BY <1>2, <1>4, StateKeeps
<1>. HIDE DEF d
<1>6. Keeps(conn, d)
  BY <1>2, <1>5, KeepsTwice
<1>7. Leads(conn, app, d, app)
  BY <1>2, <1>4, <1>5, <1>6, QuietLeads
<1>. QED  BY <1>3, <1>7, UnchangedLeads

-----------------------------------------------------------------------------
(***************************************************************************)
(* The API and the timers.                                                 *)
(***************************************************************************)

LEMMA ConnectLeads ==
    ASSUME HostFits(conn, app), Connect
    PROVE  Leads(conn, app, conn', app')
<1>1. PICK iss \in InitialSeqs, wnd \in Windows :
         Become(SendSyn(Opened(conn, "SYN_SENT", conn.port + 1, iss, 0, 0, 1), wnd),
                NewApp(iss, 0))
  BY DEF Connect
<1>2. HasAvailableSegments(conn)
  BY DEF Connect
<1>3. ASSUME NEW state \in Unreported, state # "SYN_RCVD", NEW rcv_nxt \in SeqNos,
             NEW w \in Nat, NEW nrtx \in 0 .. MaxRtx, NEW port \in Nat
      PROVE  LET o == Opened(conn, state, port, iss, rcv_nxt, w, nrtx)
             IN  Leads(conn, app, SendSegment(o, 1, SYN, <<>>, wnd).c,
                       NewApp(iss, rcv_nxt))
  <2>1. iss \in SeqNos
    BY HostAssumption
  <2>. QED  BY <1>2, <1>3, <2>1, TakenLeads
<1>4. /\ "SYN_SENT" \in Unreported /\ "SYN_SENT" # "SYN_RCVD" /\ 0 \in SeqNos
      /\ 0 \in Nat /\ 1 \in 0 .. MaxRtx /\ conn.port + 1 \in Nat
  BY HostHas, RingAssumption, ConnectionAssumption DEF Unreported, SeqNos
<1>. QED  BY <1>1, <1>3, <1>4 DEF Become, SendSyn

LEMMA SendLeads ==
    ASSUME HostFits(conn, app), NEW n \in Nat, Send(n)
    PROVE  Leads(conn, app, conn', app')
<1>. DEFINE room == Bound(conn) - Len(conn.buf)
            slen == IF n <= room THEN n ELSE room
            c == Write(conn, app, slen)
            x == app.sent + slen
            b == [app EXCEPT !.sent = x]
<1>1. /\ conn.state = "ESTABLISHED" /\ app.sent + n <= MaxBytes
      /\ Len(conn.buf) <= Bound(conn)
  BY DEF Send
<1>2. PICK wnd \in Windows :
         Become(CASE ~ HasAvailableSegments(c) -> Nothing(c)
                  [] HasAvailableSegments(c) /\ NoDelay -> SendNoDelay(c, wnd)
                  [] OTHER -> SendNagle(c, wnd), b)
  BY DEF Send
<1>3. PICK r : /\ \/ HasAvailableSegments(c) /\ r = SendNoDelay(c, wnd)
                  \/ r = Nothing(c)
               /\ conn' = r.c /\ app' = b
  <2>1. CASE ~ HasAvailableSegments(c)
    BY <1>2, <2>1 DEF Become
  <2>2. CASE HasAvailableSegments(c) /\ NoDelay
    BY <1>2, <2>2 DEF Become
  <2>3. CASE HasAvailableSegments(c) /\ ~ NoDelay
    <3>1. Become(SendNagle(c, wnd), b)
      BY <1>2, <2>3
    <3>2. SendNagle(c, wnd) = SendNoDelay(c, wnd) \/ SendNagle(c, wnd) = Nothing(c)
      BY DEF SendNagle, Nothing
    <3>. QED  BY <2>3, <3>1, <3>2 DEF Become
  <2>. QED  BY <2>1, <2>2, <2>3
<1>4. /\ slen \in Nat /\ Len(conn.buf) + slen <= MSS
      /\ x \in 0 .. MaxBytes
  <2>1. /\ Bound(conn) \in Nat /\ Bound(conn) <= MSS /\ Len(conn.buf) \in Nat
        /\ app.sent \in Nat /\ MSS \in Nat /\ MaxBytes \in Nat
    BY HostHas, RoomIs, ApplicationHas, ConnectionAssumption, HostAssumption
  <2>2. slen \in Nat /\ Len(conn.buf) + slen <= MSS /\ slen <= n
    BY <1>1, <2>1
  <2>. HIDE DEF slen
  <2>3. x \in 0 .. MaxBytes
    BY <1>1, <2>1, <2>2
  <2>. QED  BY <2>2, <2>3
<1>. HIDE DEF slen
<1>5. Keeps(conn, c) /\ c.state = "ESTABLISHED" /\ c.rcv_nxt = conn.rcv_nxt
  BY <1>1, <1>4, HostHas, WriteKeeps
<1>. HIDE DEF c, x
<1>6. /\ b \in Application /\ b.clean = app.clean /\ b.log = app.log
      /\ b.rcvd = app.rcvd /\ b.irs = app.irs
  <2>1. app \in Application
    BY HostHas
  <2>. QED  BY <1>4, <2>1 DEF Application
<1>. HIDE DEF b
<1>7. Keeps(c, r.c) /\ r.c.state = "ESTABLISHED" /\ r.c.rcv_nxt = conn.rcv_nxt
  <2>1. IsSound(c)
    BY <1>5 DEF Keeps
  <2>. QED  BY <1>3, <1>5, <2>1, FlushedKeeps
<1>8. DataFits(r.c, b)
  BY <1>1, <1>6, <1>7, HostHas DEF DataFits
<1>9. Keeps(conn, r.c)
  BY <1>5, <1>7, KeepsTwice
<1>. QED  BY <1>1, <1>3, <1>6, <1>7, <1>8, <1>9, EstablishedLeads

LEMMA CloseLeads ==
    ASSUME HostFits(conn, app), Close
    PROVE  Leads(conn, app, conn', app')
<1>1. PICK wnd \in Windows :
         Become(IF HasOutstandingSegments(conn)
                THEN Nothing([conn EXCEPT !.state = "CLOSE"])
                ELSE SendClose(conn, wnd), app)
  BY DEF Close
<1>2. conn.state = "ESTABLISHED"
  BY DEF Close
<1>3. /\ "CLOSE" \in States /\ "ESTABLISHED" \notin Closing
      /\ "CLOSE" \in PastData /\ "FIN_WAIT_1" \in PastData
      /\ "CLOSE" # "ESTABLISHED" /\ "FIN_WAIT_1" # "ESTABLISHED"
  BY DEF States, Closing, PastData, Reported
<1>4. LogFits("CLOSE", app.log) /\ LogFits("FIN_WAIT_1", app.log)
  BY <1>2, HostHas DEF LogFits, Reported, Unreported, Over
<1>5. CASE HasOutstandingSegments(conn)
  <2>. DEFINE d == [conn EXCEPT !.state = "CLOSE"]
  <2>1. conn' = d /\ app' = app
    BY <1>1, <1>5 DEF Become, Nothing, Result
  <2>2. Keeps(conn, d) /\ d.state = "CLOSE"
    BY <1>3, HostHas, StateKeeps
  <2>. HIDE DEF d
  <2>. QED  BY <1>2, <1>3, <1>4, <2>1, <2>2, HostHas, PastLeads
<1>6. CASE ~ HasOutstandingSegments(conn)
  <2>. DEFINE d == SendClose(conn, wnd).c
  <2>1. conn' = d /\ app' = app
    BY <1>1, <1>6 DEF Become
  <2>2. HasAvailableSegments(conn)
    <3>1. 0 \in Slots
      BY RingAssumption DEF Slots
    <3>. QED  BY <1>6, <3>1 DEF HasAvailableSegments, HasOutstandingSegments
  <2>3. Keeps(conn, d) /\ d.state = "FIN_WAIT_1"
    BY <2>2, HostHas, SendCloseKeeps
  <2>. HIDE DEF d
  <2>. QED  BY <1>2, <1>3, <1>4, <2>1, <2>3, HostHas, PastLeads
<1>. QED  BY <1>5, <1>6

LEMMA AbortLeads ==
    ASSUME HostFits(conn, app), Abort
    PROVE  Leads(conn, app, conn', app')
<1>1. PICK wnd : conn' = SendAbort(conn, wnd).c /\ app' = Told(app, "Aborted")
  BY DEF Abort, Become
<1>2. conn.state # "CLOSED"
  BY DEF Abort
<1>3. Keeps(conn, SendAbort(conn, wnd).c) /\ SendAbort(conn, wnd).c.state = "CLOSED"
  BY HostHas, SendAbortKeeps
<1>. QED  BY <1>1, <1>2, <1>3, BrokenLeads

LEMMA RexmitTimeoutLeads ==
    ASSUME HostFits(conn, app), RexmitTimeout
    PROVE  Leads(conn, app, conn', app')
<1>. DEFINE m == conn.nrtx + 1
            c == [conn EXCEPT !.nrtx = m]
<1>1. PICK wnd : conn' = Rexmit(c, wnd).c /\ app' = app
  BY DEF RexmitTimeout, Become
<1>2. conn \in Connection /\ Len(conn.buf) <= MSS /\ IsSound(conn) /\ m \in 0 .. MaxRtx
  BY HostHas, ConnectionHas, ConnectionAssumption DEF RexmitTimeout, IsSound
<1>. HIDE DEF m
<1>3. /\ c \in Connection /\ c.state = conn.state /\ c.rcv_nxt = conn.rcv_nxt
      /\ c.segs = conn.segs /\ c.segidx = conn.segidx /\ c.snd_nxt = conn.snd_nxt
      /\ c.buf = conn.buf
  BY <1>2 DEF Connection
<1>. HIDE DEF c
<1>4. Keeps(conn, c)
  BY <1>2, <1>3, SameRingKeeps
<1>. DEFINE d == Rexmit(c, wnd).c
<1>5. /\ Keeps(c, d) /\ d.state = c.state /\ d.rcv_nxt = c.rcv_nxt
      /\ IsWhole(c) => d.snd_nxt = c.snd_nxt
  BY <1>4, RexmitKeeps DEF Keeps
<1>. HIDE DEF d
<1>6. Keeps(conn, d)
  BY <1>4, <1>5, KeepsTwice
<1>7. IsWhole(conn) => d.snd_nxt = conn.snd_nxt
  BY <1>3, <1>4, <1>5 DEF Keeps
<1>8. Leads(conn, app, d, app)
  BY <1>3, <1>5, <1>6, <1>7, SilentLeads
<1>. QED  BY <1>1, <1>8 DEF d

LEMMA TimedOutLeads ==
    ASSUME HostFits(conn, app), TimedOut
    PROVE  Leads(conn, app, conn', app')
<1>1. PICK wnd : conn' = SendAbort(conn, wnd).c /\ app' = Told(app, "TimedOut")
  BY DEF TimedOut, Become
<1>2. conn.state # "CLOSED"
  BY DEF TimedOut, TimerRuns
<1>3. Keeps(conn, SendAbort(conn, wnd).c) /\ SendAbort(conn, wnd).c.state = "CLOSED"
  BY HostHas, SendAbortKeeps
<1>. QED  BY <1>1, <1>2, <1>3, BrokenLeads

LEMMA WaitExpiresLeads ==
    ASSUME HostFits(conn, app), WaitExpires
    PROVE  Leads(conn, app, conn', app')
<1>. DEFINE d == [conn EXCEPT !.state = "CLOSED"]
<1>1. conn' = d /\ app' = app
  BY DEF WaitExpires, Become, Nothing, Result
<1>2. conn.state \in {"TIME_WAIT", "FIN_WAIT_2"}
  BY DEF WaitExpires, Waits
<1>3. /\ "CLOSED" \in States /\ "CLOSED" \in PastData /\ "CLOSED" \notin Closing
      /\ "CLOSED" # "ESTABLISHED"
  BY DEF States, PastData, Closing
<1>4. Keeps(conn, d) /\ d.state = "CLOSED"
  BY <1>3, HostHas, StateKeeps
<1>. HIDE DEF d
<1>5. LogFits("CLOSED", app.log)
  BY <1>2, HostHas DEF LogFits, Reported, Unreported, Over
<1>. QED  BY <1>1, <1>3, <1>4, <1>5, HostHas, PastLeads

-----------------------------------------------------------------------------
(***************************************************************************)
(* The invariant.                                                          *)
(***************************************************************************)

LEMMA ReceiveLeads ==
    ASSUME HostInv, Receive
    PROVE  Leads(conn, app, conn', app') /\ inp' = <<>>
<1>1. HostFits(conn, app)
  BY DEF HostInv
<1>2. PICK f : inp = <<f>> /\ IsPeerFrame(f)
  BY DEF HostInv, Receive
<1>3. Head(inp) = f /\ Tail(inp) = <<>>
  BY <1>2
<1>4. PICK wnd \in Windows :
         \/ OnSyn(f, wnd) \/ OnSynDropped(f) \/ OnUnmatched(f)
         \/ OnReset(f) \/ OnUnexpected(f, wnd) \/ OnRexmitRequest(f, wnd)
         \/ InSynRcvd(f, wnd) \/ InSynSent(f, wnd)
         \/ InEstablishedFin(f, wnd) \/ InEstablished(f, wnd)
         \/ InLastAck(f) \/ InFinWait1(f, wnd) \/ InFinWait2(f, wnd)
         \/ InTimeWait(f, wnd) \/ InClose(f, wnd) \/ InClosing(f)
  BY <1>3 DEF Receive
<1>5. inp' = <<>>
  BY <1>3 DEF Receive, Take
<1>6. Leads(conn, app, conn', app')
  BY <1>1, <1>2, <1>4, OnSynLeads, OnSynDroppedLeads, OnUnmatchedLeads,
     OnResetLeads, OnUnexpectedLeads, OnRexmitRequestLeads,
     InSynRcvdLeads, InSynSentLeads, InEstablishedFinLeads, InEstablishedLeads,
     InLastAckLeads, InFinWait1Leads, InFinWait2Leads,
     InTimeWaitLeads, InCloseLeads, InClosingLeads
<1>. QED  BY <1>5, <1>6

\* The calls and the timers.
LEMMA OwnStepLeads ==
    ASSUME HostFits(conn, app),
           Connect \/ Close \/ Abort \/ (\E n \in 1 .. MaxBytes : Send(n)) \/ Timers
    PROVE  Leads(conn, app, conn', app') /\ inp' = inp
<1>1. CASE \E n \in 1 .. MaxBytes : Send(n)
  <2>1. PICK n \in 1 .. MaxBytes : Send(n)
    BY <1>1
  <2>2. n \in Nat
    BY HostAssumption
  <2>. QED  BY <2>1, <2>2, SendLeads DEF Send
<1>2. CASE Connect
  BY <1>2, ConnectLeads DEF Connect
<1>3. CASE Close
  BY <1>3, CloseLeads DEF Close
<1>4. CASE Abort
  BY <1>4, AbortLeads DEF Abort
<1>5. CASE Timers
  BY <1>5, RexmitTimeoutLeads, TimedOutLeads, WaitExpiresLeads
     DEF Timers, RexmitTimeout, TimedOut, WaitExpires
<1>. QED  BY <1>1, <1>2, <1>3, <1>4, <1>5

\* What the peer sends has its byte at its sequence number.
LEMMA PeerFrames ==
    ASSUME HostFits(conn, app), PeerSends
    PROVE  \E f : inp' = <<f>> /\ IsPeerFrame(f)
<1>1. PICK port \in PeerPorts, flags \in PeerFlags, a \in SeqNos, wnd \in Windows :
      \E s \in PeerSeqNos(flags) : \E dat \in PeerPayloads(flags, s) :
          inp' = <<[port |-> port, flags |-> flags, seq |-> s, ack |-> a,
                    dat |-> dat, wnd |-> wnd]>>
  BY DEF PeerSends
<1>2. PICK s \in PeerSeqNos(flags) : \E dat \in PeerPayloads(flags, s) :
          inp' = <<[port |-> port, flags |-> flags, seq |-> s, ack |-> a,
                    dat |-> dat, wnd |-> wnd]>>
  BY <1>1
<1>3. PICK dat \in PeerPayloads(flags, s) :
          inp' = <<[port |-> port, flags |-> flags, seq |-> s, ack |-> a,
                    dat |-> dat, wnd |-> wnd]>>
  BY <1>2
<1>. DEFINE f == [port |-> port, flags |-> flags, seq |-> s, ack |-> a,
                  dat |-> dat, wnd |-> wnd]
<1>4. port \in Nat /\ wnd \in Nat
  BY HostHas, HostAssumption DEF PeerPorts
<1>5. s \in SeqNos /\ ("SYN" \in flags => s = PeerSeq)
  <2>1. \A d \in PeerOffsets : SeqAdd(conn.rcv_nxt, d) \in SeqNos
    BY HostHas, PeerAssumption, SeqAddType
  <2>. QED  BY <2>1, PeerAssumption DEF PeerSeqNos
<1>6. /\ dat # <<>> => dat = <<Position(s)>> /\ Position(s) \in 1 .. PeerBytes
      /\ "SYN" \in flags => dat = <<>>
  BY DEF PeerPayloads
<1>7. f.port = port /\ f.flags = flags /\ f.seq = s /\ f.dat = dat /\ f.wnd = wnd
  OBVIOUS
<1>8. inp' = <<f>>
  BY <1>3
<1>. HIDE DEF f
<1>9. IsPeerFrame(f)
  BY <1>4, <1>5, <1>6, <1>7 DEF IsPeerFrame
<1>. QED  BY <1>8, <1>9

\* Every step of the host and of its peer.
LEMMA StepLeads ==
    ASSUME HostInv, [Next \/ PeerSends]_vars
    PROVE  Leads(conn, app, conn', app') /\ HostInv'
<1>1. HostFits(conn, app)
  BY DEF HostInv
<1>2. CASE Receive
  BY <1>2, ReceiveLeads DEF HostInv, Leads
<1>3. CASE Connect \/ Close \/ Abort \/ (\E n \in 1 .. MaxBytes : Send(n)) \/ Timers
  <2>1. Leads(conn, app, conn', app') /\ inp' = inp
    BY <1>1, <1>3, OwnStepLeads
  <2>. QED  BY <2>1 DEF HostInv, Leads
<1>4. CASE PeerSends
  <2>1. conn' = conn /\ app' = app
    BY <1>4 DEF PeerSends
  <2>2. Leads(conn, app, conn', app')
    BY <1>1, <2>1, UnchangedLeads
  <2>3. \E f : inp' = <<f>> /\ IsPeerFrame(f)
    BY <1>1, <1>4, PeerFrames
  <2>. QED  BY <2>2, <2>3 DEF HostInv, Leads
<1>5. CASE UNCHANGED vars
  <2>1. conn' = conn /\ app' = app /\ inp' = inp
    BY <1>5 DEF vars
  <2>. QED  BY <1>1, <2>1, UnchangedLeads DEF HostInv
<1>. QED  BY <1>2, <1>3, <1>4, <1>5 DEF Next

\* What holds of a host at every moment: its ring, what the application was told
\* and given, and the frame on its way in fit together.
THEOREM HostInvariant == Spec => []HostInv
<1>1. Init => HostInv
  <2>. SUFFICES ASSUME Init PROVE HostInv
    OBVIOUS
  <2>1. 0 \in SeqNos /\ 0 \in Slots /\ 0 \in 0 .. MaxRtx /\ "CLOSED" \in States
        /\ <<>> \in Seq(Nat) /\ FreeSegment \in Segment /\ FreeSegment.len = 0
    BY RingAssumption, ConnectionAssumption
       DEF SeqNos, Slots, States, FreeSegment, Segment
  <2>2. /\ NoConnection.segs = [i \in Slots |-> FreeSegment]
        /\ NoConnection.segidx = 0 /\ NoConnection.snd_nxt = 0
        /\ NoConnection.buf = <<>> /\ NoConnection.state = "CLOSED"
    BY DEF NoConnection
  <2>3. NoConnection \in Connection
    <3>1. [i \in Slots |-> FreeSegment] \in [Slots -> Segment]
      BY <2>1
    <3>. DEFINE g == [i \in Slots |-> FreeSegment]
    <3>2. NoConnection =
            [state |-> "CLOSED", port |-> 0, rcv_nxt |-> 0, snd_nxt |-> 0,
             wnd |-> 0, nrtx |-> 0, buf |-> <<>>, segidx |-> 0, segs |-> g]
      BY DEF NoConnection
    <3>. HIDE DEF g
    <3>. QED  BY <2>1, <3>1, <3>2 DEF Connection, g
  <2>4. IsSound(NoConnection)
    <3>1. \A i \in Slots : NoConnection.segs[i].len = 0
      BY <2>1, <2>2
    <3>2. Len(NoConnection.buf) <= MSS
      BY <2>2, ConnectionAssumption
    <3>. QED  BY <2>3, <3>1, <3>2 DEF IsSound, PayloadsAreThere
  <2>5. IsWhole(NoConnection)
    <3>. DEFINE r == Core(NoConnection)
    <3>1. \A i \in Slots : r.segs[i].len = 0
      BY <2>1, <2>2 DEF Core
    <3>2. r \in Ring
      BY <2>3, CoreIsRing
    <3>3. 0 \in 0 .. SegmentCount /\ IsSpan(r, 0, MSS)
      BY RingAssumption DEF IsSpan
    <3>. HIDE DEF r
    <3>4. IsLevel(r, 0)
      <4>1. \A j \in Slots : Slot(0, j) \in Slots
        BY RingAssumption DEF Slots, Slot
      <4>2. \A j \in Slots : Nth(r, j).len = 0
        BY <2>2, <3>1, <4>1 DEF Nth, Core, r
      <4>3. \A j \in Slots : ~ (j < 0)
        BY RingAssumption DEF Slots
      <4>4. 0 .. 0 - 1 = {}
        OBVIOUS
      <4>. QED  BY <4>2, <4>3, <4>4 DEF IsLevel
    <3>. QED  BY <3>3, <3>4 DEF IsWhole, r
  <2>6. app \in Application /\ app.rcvd = <<>> /\ app.log = <<>>
    <3>1. <<>> \in Seq({"Connected", "Closed", "Aborted", "TimedOut"})
          /\ 0 \in 0 .. MaxBytes
      BY HostAssumption
    <3>. QED  BY <2>1, <3>1 DEF Init, Application
  <2>7. LogFits("CLOSED", app.log)
    BY <2>6 DEF LogFits, Unreported, Reported, Over
  <2>8. DataFits(NoConnection, app)
    <3>1. Len(app.rcvd) = 0 /\ \A i \in DOMAIN app.rcvd : app.rcvd[i] = i
      BY <2>6
    <3>. QED  BY <2>2, <2>6, <3>1, RingAssumption DEF DataFits
  <2>9. conn = NoConnection /\ inp = <<>>
    BY DEF Init
  <2>. QED  BY <2>2, <2>4, <2>5, <2>6, <2>7, <2>8, <2>9 DEF HostInv, HostFits
<1>2. HostInv /\ [Next \/ PeerSends]_vars => HostInv'
  BY StepLeads
<1>. QED  BY <1>1, <1>2, PTL DEF Spec

\* A connection, its send buffer and its segments keep to their types, and so
\* does what the application saw of it.
THEOREM HostIsTyped == Spec => []TypeOK
<1>1. HostInv => TypeOK
  BY HostHas, ApplicationHas DEF HostInv, TypeOK
<1>. QED  BY <1>1, HostInvariant, PTL

\* Whatever the peer acknowledges, the branches of process() that push, clear,
\* swap and resend segments agree on which ones are in flight: they are in a row
\* from the oldest, each begins where the one before ends, and the last ends at
\* m_snd_nxt.
THEOREM SegmentsStayContiguous == Spec => []ContiguousInFlight
<1>1. HostInv => ContiguousInFlight
  BY HostHas, WholeIsInShape DEF HostInv, ContiguousInFlight
<1>. QED  BY <1>1, HostInvariant, PTL

\* Once the FIN of sendClose() or of the answer to a FIN is out, no frame, timer
\* or call moves m_snd_nxt: a retransmission never takes the oldest segment for a
\* new one.
THEOREM NothingFollowsTheFin == Spec => NothingAfterFin
<1>1. HostInv /\ [Next \/ PeerSends]_vars
      => [app.clean /\ conn.state \in Closing /\ conn'.state \in Closing
            => conn'.snd_nxt = conn.snd_nxt]_vars
  BY StepLeads DEF Leads
<1>. QED  BY <1>1, HostInvariant, PTL DEF Spec, NothingAfterFin

\* onNewData() is given the stream of the peer without a gap, and in ESTABLISHED
\* m_rcv_nxt is one past what it was given.
THEOREM DataIsGivenInOrder == Spec => []DataIsGiven
<1>1. HostInv => DataIsGiven
  BY HostHas DEF HostInv, DataIsGiven, GivenInOrder, AcknowledgedIsGiven, DataFits
<1>. QED  BY <1>1, HostInvariant, PTL

\* onConnected() comes first and once, onClosed() once, and after an end only a
\* reset or a timeout of a connection that was already closed.
THEOREM EventsComeInOrder == Spec => []EventOrder
<1>1. HostInv => EventOrder
  <2>. SUFFICES ASSUME HostInv PROVE EventOrder
    OBVIOUS
  <2>. DEFINE ends == {i \in DOMAIN app.log : app.log[i] # "Connected"}
  <2>1. conn.state \in States /\ LogFits(conn.state, app.log)
    BY HostHas DEF HostInv
  <2>2. app.log \in Broken \cup {<<>>, <<"Connected">>, <<"Connected", "Closed">>}
    BY <2>1 DEF LogFits, States, Unreported, Reported, Over
  <2>3. conn.state \in {"ESTABLISHED", "CLOSE", "FIN_WAIT_1", "FIN_WAIT_2", "LAST_ACK"}
           => app.log = <<"Connected">>
    BY <2>1 DEF LogFits, Reported
  <2>4. \A i \in DOMAIN app.log : app.log[i] = "Connected" => i = 1
    BY <2>2 DEF Broken
  <2>5. \A i, j \in ends :
           i < j => app.log[i] = "Closed" /\ app.log[j] \in {"Aborted", "TimedOut"}
    BY <2>2 DEF Broken
  <2>. QED  BY <2>3, <2>4, <2>5 DEF EventOrder
<1>. QED  BY <1>1, HostInvariant, PTL
=============================================================================
