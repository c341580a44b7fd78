-------------------------- MODULE Transports_proofs --------------------------
(***************************************************************************)
(* Proofs about a link between two devices, for every depth of the FIFO or *)
(* of the pool, any frames and any number of faults: the frame that the    *)
(* processor looks at stays as it is, and every device implements Link.    *)
(***************************************************************************)
EXTENDS Transports, SequenceTheorems, TLAPS

\* The callers that the theorems are about: only where a device has several buffers
\* to give, a list or the pool of TAP, are several prepared at a time.
OneAtATime == Asynchronous \cap {"shm", "npipe"} = {}

\* The frames of the stack fit the TAP device.
FramesFit == \A len \in FrameLens : len <= Mtu

-----------------------------------------------------------------------------
(***************************************************************************)
(* The inductive invariant: the types, what the sender holds, and for each *)
(* device where the frames are that were sent and not taken.               *)
(***************************************************************************)
Contents == Frames \cup {Blank}

\* A TAP device may cut a frame off.
Received == [id : Nat, len : Nat]

HeldEntry == [buf : FifoSlots, frame : Contents]

\* Is the processor looking at a frame that was not discarded yet?
Front == IF receiver.at = "front" THEN 1 ELSE 0

TypeInv ==
    /\ kind \in Kinds /\ wrapped \in BOOLEAN
    /\ fifo \in FifoType
    /\ content \in [FifoSlots \cup {Null} -> Contents]
    /\ pool \in Seq(FifoSlots) /\ line \in Seq(Entry)
    /\ held \in Seq(HeldEntry)
    /\ checked \in 0 .. Depth
    /\ sender \in Entry /\ receiver \in Entry
    /\ written \in 0 .. MaxFrames
    /\ sent \in Seq(Frames) /\ taken \in Seq(Received)

\* The buffers of the sender are different ones and hold what was written to them.
HeldInv ==
    /\ \A i, j \in DOMAIN held : held[i].buf = held[j].buf => i = j
    /\ \A i \in DOMAIN held : held[i].frame # Blank => content[held[i].buf] = held[i].frame
    /\ kind \in {"shm", "npipe"} => Len(held) <= 1

\* fifo and shm: the entries between the counters are the last frames that were sent.
CountersInv ==
    /\ fifo.read_count <= fifo.write_count
    /\ fifo.write_count - fifo.read_count <= Depth
    /\ fifo.write_count = Len(sent)
    /\ Len(taken) = fifo.read_count + Front
    /\ \A n \in fifo.read_count .. fifo.write_count - 1 : content[n % Depth] = sent[n + 1]

\* fifo and shm: the processor looks at the first entry.
ReaderInv ==
    /\ receiver.at \in {"idle", "front"}
    /\ receiver.at = "front" =>
        /\ fifo.read_count < fifo.write_count
        /\ receiver.buf = fifo.read_count % Depth
        /\ receiver.frame = content[receiver.buf]

\* fifo and shm: what is about to be published is after the last entry.
WriterInv ==
    /\ sender.at \in {"idle", "publish", "thrown"}
    /\ sender.at = "publish" =>
        /\ fifo.write_count - fifo.read_count < Depth
        /\ sender.buf = fifo.write_count % Depth
        /\ sender.frame \in Frames /\ sender.frame = content[sender.buf]

\* shm: one slot is prepared at most, and it is the one that commit() publishes.
PreparedInv ==
    /\ fifo.write_count <= fifo.prepare_count
    /\ fifo.prepare_count - fifo.read_count <= Depth
    /\ sender.at = "idle" => fifo.prepare_count = fifo.write_count + Len(held)
    /\ sender.at = "publish" => held = <<>> /\ fifo.prepare_count = fifo.write_count + 1
    /\ \A i \in DOMAIN held : held[i].buf = fifo.write_count % Depth

\* list: the packets on their way are others than the sender's, and hold the last
\* frames that were sent.
ListInv ==
    /\ sender.at \in {"idle", "thrown"}
    /\ \A i, j \in DOMAIN line : line[i].buf = line[j].buf => i = j
    /\ \A i \in DOMAIN line : line[i].buf \in FifoSlots
    /\ \A i \in DOMAIN line, j \in DOMAIN held : line[i].buf # held[j].buf
    /\ Len(taken) + Len(line) = Len(sent) + Front /\ Front <= Len(taken)
    /\ \A i \in DOMAIN line : content[line[i].buf] = sent[Len(taken) - Front + i]
    /\ receiver.at \in {"idle", "front"}
    /\ receiver.at = "front" =>
        /\ line # <<>>
        /\ receiver.buf = line[1].buf
        /\ receiver.frame = content[receiver.buf]

\* npipe: has the receiver read the length of a frame that it has not read?
Half == IF receiver.at = "length" THEN 1 ELSE 0

\* npipe: lengths and frames alternate, and the frames are the last that were sent.
PipeInv ==
    /\ receiver.at \in {"idle", "length", "gone", "lost"}
    /\ sender.at \in {"idle", "payload", "gone", "lost", "thrown"}
    /\ sender.at = "payload" => sender.frame \in Frames /\ sender.frame = content[sender.buf]
    /\ receiver.at \in {"idle", "length"} =>
        /\ Len(taken) <= Len(sent)
        /\ Len(line) + Half \in {2 * (Len(sent) - Len(taken)), 2 * (Len(sent) - Len(taken)) + 1}
        /\ sender.at = "idle" => Len(line) + Half = 2 * (Len(sent) - Len(taken))
        /\ sender.at = "payload" => Len(line) + Half = 2 * (Len(sent) - Len(taken)) + 1
        /\ \A n \in 1 .. Len(sent) - Len(taken) :
                line[2 * n - Half].frame = sent[Len(taken) + n]

\* tap: the buffers of the pool are different ones, and others than the sender's; the
\* frames in the descriptor are the last that were sent.
TapInv ==
    /\ sender.at \in {"idle", "thrown"}
    /\ \A i, j \in DOMAIN pool : pool[i] = pool[j] => i = j
    /\ \A i \in DOMAIN pool, j \in DOMAIN held : pool[i] # held[j].buf
    /\ Len(sent) = Len(taken) + Len(line)
    /\ \A i \in DOMAIN line : line[i].frame = sent[Len(taken) + i]
    /\ receiver.at = "idle"

KindInv ==
    /\ Shared => CountersInv /\ ReaderInv /\ WriterInv
    /\ kind = "fifo" => held = <<>>
    /\ kind = "shm" => PreparedInv
    /\ kind = "list" => ListInv
    /\ kind = "npipe" => PipeInv
    /\ kind = "tap" => TapInv

LinkInv == TypeInv /\ HeldInv /\ KindInv

-----------------------------------------------------------------------------
(***************************************************************************)
(* Lemmas about slots and sequences.                                       *)
(***************************************************************************)

\* A counter is reduced to one of the slots.
LEMMA SlotIs ==
    ASSUME NEW n \in Nat
    PROVE  n % Depth \in FifoSlots
<1>1. Depth \in Nat /\ Depth > 0
  BY FifoAssumption
<1>. QED  BY <1>1 DEF FifoSlots

\* Numbers less than a depth apart have different slots: multiples of the depth are a
\* depth apart.
LEMMA SlotsDiffer ==
    ASSUME NEW a \in Nat, NEW b \in Nat, a < b, b - a < Depth
    PROVE  a % Depth # b % Depth
<1>. DEFINE d == Depth
            p == a \div d
            q == b \div d
<1>1. d \in Nat /\ d > 0
  BY FifoAssumption
<1>2. SUFFICES ASSUME a % d = b % d
               PROVE  FALSE
  OBVIOUS
<1>3. a = d * p + (a % d) /\ b = d * q + (b % d) /\ p \in Int /\ q \in Int /\ a % d \in Nat
  BY <1>1
<1>. HIDE DEF p, q
<1>4. d * q - d * p = b - a /\ d * q \in Int /\ d * p \in Int
  BY <1>1, <1>2, <1>3
<1>5. d * (q - p) = d * q - d * p
  BY <1>1, <1>3
<1>6. q - p >= 1
  <2>. SUFFICES ASSUME q - p <= 0
                PROVE  FALSE
    BY <1>3
  <2>1. d * (q - p) <= 0
    BY <1>1, <1>3
  <2>. QED  BY <2>1, <1>4, <1>5
<1>7. d * (q - p) >= d
  BY <1>1, <1>3, <1>6
<1>. QED  BY <1>1, <1>4, <1>5, <1>7

\* What Append() makes of a sequence.
LEMMA AppendIs ==
    ASSUME NEW S, NEW s \in Seq(S), NEW e \in S
    PROVE  /\ Append(s, e) \in Seq(S)
           /\ Len(Append(s, e)) = Len(s) + 1
           /\ DOMAIN Append(s, e) = 1 .. Len(s) + 1
           /\ \A i \in 1 .. Len(s) : Append(s, e)[i] = s[i]
           /\ Append(s, e)[Len(s) + 1] = e
BY AppendProperties

\* What Head() and Tail() make of one.
LEMMA TailIs ==
    ASSUME NEW S, NEW s \in Seq(S), s # <<>>
    PROVE  /\ Tail(s) \in Seq(S)
           /\ Len(s) \in Nat \ {0}
           /\ Len(Tail(s)) = Len(s) - 1
           /\ DOMAIN Tail(s) = 1 .. Len(s) - 1
           /\ \A i \in 1 .. Len(s) - 1 : Tail(s)[i] = s[i + 1]
           /\ Head(s) = s[1] /\ s[1] \in S
<1>1. Len(s) \in Nat \ {0}
  BY EmptySeq
<1>. QED  BY <1>1, HeadTailProperties

\* What is left of what the sender holds when one entry goes.
LEMMA RemoveIs ==
    ASSUME held \in Seq(HeldEntry), NEW i \in DOMAIN held
    PROVE  /\ Remove(i) \in Seq(HeldEntry)
           /\ Len(Remove(i)) = Len(held) - 1
           /\ DOMAIN Remove(i) = 1 .. Len(held) - 1
           /\ \A j \in 1 .. Len(held) - 1 :
                Remove(i)[j] = held[IF j < i THEN j ELSE j + 1]
<1>. DEFINE l == SubSeq(held, 1, i - 1)
            r == SubSeq(held, i + 1, Len(held))
<1>1. Len(held) \in Nat /\ i \in 1 .. Len(held)
  OBVIOUS
<1>2. l \in Seq(HeldEntry) /\ Len(l) = i - 1 /\ \A j \in 1 .. i - 1 : l[j] = held[j]
  BY <1>1, SubSeqProperties
<1>3. r \in Seq(HeldEntry) /\ Len(r) = Len(held) - i
        /\ \A j \in 1 .. Len(held) - i : r[j] = held[i + j]
  BY <1>1, SubSeqProperties
<1>. HIDE DEF l, r
<1>4. l \o r \in Seq(HeldEntry) /\ Len(l \o r) = Len(held) - 1
  BY <1>1, <1>2, <1>3, ConcatProperties
<1>5. ASSUME NEW j \in 1 .. Len(held) - 1
      PROVE  (l \o r)[j] = held[IF j < i THEN j ELSE j + 1]
  <2>1. (l \o r)[j] = IF j <= Len(l) THEN l[j] ELSE r[j - Len(l)]
    BY <1>1, <1>2, <1>3, ConcatProperties
  <2>2. CASE j < i
    BY <1>1, <1>2, <2>1, <2>2
  <2>3. CASE j >= i
    <3>1. j - Len(l) \in 1 .. Len(held) - i /\ i + (j - Len(l)) = j + 1
      BY <1>1, <1>2, <2>3
    <3>2. r[j - Len(l)] = held[i + (j - Len(l))]
      BY <1>3, <3>1
    <3>3. ~ (j <= Len(l)) /\ ~ (j < i)
      BY <1>1, <1>2, <2>3
    <3>. QED  BY <2>1, <3>1, <3>2, <3>3
  <2>4. i \in Nat /\ j \in Nat
    BY <1>1
  <2>5. j < i \/ j >= i
    BY <2>4
  <2>. QED  BY <2>5, <2>2, <2>3
<1>6. Remove(i) = l \o r
  BY DEF Remove, l, r
<1>. QED  BY <1>1, <1>4, <1>5, <1>6

-----------------------------------------------------------------------------
(***************************************************************************)
(* The sender prepares and writes.                                         *)
(***************************************************************************)

\* What is written into the slot after the last entry does not reach an entry that is
\* waiting, nor the one that the processor looks at.
LEMMA NextSlotIsFree ==
    ASSUME TypeInv, CountersInv, ReaderInv, content' \in [FifoSlots \cup {Null} -> Contents],
           fifo.write_count - fifo.read_count < Depth,
           fifo'.read_count = fifo.read_count, fifo'.write_count = fifo.write_count,
           \A c \in FifoSlots : c # fifo.write_count % Depth => content'[c] = content[c],
           UNCHANGED <<sent, taken, receiver>>
    PROVE  CountersInv' /\ ReaderInv'
<1>1. /\ fifo.read_count \in Nat /\ fifo.write_count \in Nat /\ Depth \in Nat
      /\ fifo.read_count <= fifo.write_count
  BY FifoAssumption DEF TypeInv, FifoType, CountersInv
<1>2. ASSUME NEW n \in fifo.read_count .. fifo.write_count - 1
      PROVE  n % Depth \in FifoSlots /\ content'[n % Depth] = content[n % Depth]
  <2>1. n \in Nat /\ n < fifo.write_count /\ fifo.write_count - n < Depth
    BY <1>1
  <2>2. n % Depth # fifo.write_count % Depth
    BY <1>1, <2>1, SlotsDiffer
  <2>. QED  BY <2>1, <2>2, SlotIs
<1>3. CountersInv'
  BY <1>2 DEF CountersInv, Front
<1>4. ReaderInv'
  <2>. SUFFICES ASSUME receiver.at = "front"
                PROVE  receiver.frame = content'[receiver.buf]
    BY DEF ReaderInv
  <2>1. receiver.buf = fifo.read_count % Depth /\ receiver.frame = content[receiver.buf]
        /\ fifo.read_count \in fifo.read_count .. fifo.write_count - 1
    BY <1>1 DEF ReaderInv
  <2>. QED  BY <1>2, <2>1
<1>. QED  BY <1>3, <1>4

\* A buffer that the sender does not hold yet is granted.
LEMMA GrantedHolds ==
    ASSUME TypeInv, HeldInv, NEW b \in FifoSlots, Granted(b), UNCHANGED kind,
           \A i \in DOMAIN held : held[i].buf # b,
           kind \in {"shm", "npipe"} => held = <<>>
    PROVE  /\ held' \in Seq(HeldEntry)
           /\ content' \in [FifoSlots \cup {Null} -> Contents]
           /\ checked' \in 0 .. Depth
           /\ HeldInv'
           /\ Len(held') = Len(held) + 1
           /\ DOMAIN held' = 1 .. Len(held) + 1
           /\ \A i \in 1 .. Len(held) : held'[i] = held[i]
           /\ held'[Len(held) + 1].buf = b
           /\ \A c \in FifoSlots : c # b => content'[c] = content[c]
<1>. DEFINE e == [buf |-> b, frame |-> Blank]
<1>1. e \in HeldEntry /\ e.buf = b /\ e.frame = Blank
  BY DEF HeldEntry, Contents
<1>2. held \in Seq(HeldEntry) /\ content \in [FifoSlots \cup {Null} -> Contents]
      /\ checked \in 0 .. Depth /\ Len(held) \in Nat /\ DOMAIN held = 1 .. Len(held)
  BY DEF TypeInv
<1>3. held' = Append(held, e)
  BY DEF Granted
<1>. HIDE DEF e
<1>4. /\ held' \in Seq(HeldEntry) /\ Len(held') = Len(held) + 1
      /\ DOMAIN held' = 1 .. Len(held) + 1
      /\ \A i \in 1 .. Len(held) : held'[i] = held[i]
      /\ held'[Len(held) + 1] = e
  BY <1>1, <1>2, <1>3, AppendIs
<1>5. content' \in [FifoSlots \cup {Null} -> Contents]
      /\ \A c \in FifoSlots : c # b => content'[c] = content[c]
  BY <1>2 DEF Granted, Erased, Contents
<1>6. checked' \in 0 .. Depth
  <2>1. b \in 0 .. Depth
    BY FifoAssumption DEF FifoSlots
  <2>2. checked' = IF wrapped THEN b ELSE checked
    BY DEF Granted
  <2>3. wrapped \in BOOLEAN
    BY DEF TypeInv
  <2>4. checked' \in {b, checked}
    BY <2>2, <2>3
  <2>. QED  BY <1>2, <2>1, <2>4
<1>7. ASSUME NEW i \in DOMAIN held', NEW j \in DOMAIN held', held'[i].buf = held'[j].buf
      PROVE  i = j
  <2>1. CASE i \in 1 .. Len(held) /\ j \in 1 .. Len(held)
    BY <1>2, <1>4, <1>7, <2>1 DEF HeldInv
  <2>2. CASE i = Len(held) + 1 \/ j = Len(held) + 1
    BY <1>1, <1>2, <1>4, <1>7, <2>2
  <2>. QED  BY <1>2, <1>4, <2>1, <2>2
<1>8. ASSUME NEW i \in DOMAIN held', held'[i].frame # Blank
      PROVE  content'[held'[i].buf] = held'[i].frame
  <2>1. i \in DOMAIN held /\ held'[i] = held[i]
    BY <1>1, <1>2, <1>4, <1>8
  <2>2. held[i] \in HeldEntry /\ held[i].buf # b
    BY <1>2, <2>1
  <2>3. held[i].buf \in FifoSlots
    BY <2>2 DEF HeldEntry
  <2>. QED  BY <1>5, <1>8, <2>1, <2>2, <2>3 DEF HeldInv
<1>9. kind' \in {"shm", "npipe"} => Len(held') <= 1
  BY <1>4
<1>. QED  BY <1>1, <1>4, <1>5, <1>6, <1>7, <1>8, <1>9 DEF HeldInv

\* The buffer that prepare() grants is the sender's alone.
LEMMA PrepareKeeps ==
    ASSUME LinkInv, OneAtATime, PrepareBuffer
    PROVE  LinkInv'
<1>1. /\ sender.at = "idle" /\ sender' = sender /\ receiver' = receiver /\ kind' = kind
      /\ sent' = sent /\ taken' = taken /\ wrapped' = wrapped /\ written' = written
  BY DEF PrepareBuffer, Idle
<1>2. TypeInv /\ HeldInv /\ KindInv /\ Len(held) \in Nat /\ DOMAIN held = 1 .. Len(held)
  BY DEF LinkInv, TypeInv
<1>3. ASSUME kind \in {"shm", "npipe"}
      PROVE  held = <<>> /\ Len(held) = 0
  <2>1. Len(held) < 1
    BY <1>3 DEF PrepareBuffer, Fits, OneAtATime
  <2>. QED  BY <1>2, <2>1, EmptySeq DEF TypeInv
<1>4. CASE PrepareShm
  <2>1. kind = "shm" /\ held = <<>> /\ Len(held) = 0
    BY <1>3, <1>4 DEF PrepareShm
  <2>2. CountersInv /\ ReaderInv /\ WriterInv /\ PreparedInv
    BY <1>2, <2>1 DEF KindInv, Shared
  <2>3. /\ fifo.prepare_count \in Nat /\ fifo.write_count \in Nat /\ fifo.read_count \in Nat
        /\ Depth \in Nat /\ fifo \in FifoType
    BY <1>2, FifoAssumption DEF TypeInv, FifoType
  <2>4. fifo.prepare_count = fifo.write_count
        /\ fifo.write_count - fifo.read_count < Depth
    BY <1>1, <1>4, <2>1, <2>2, <2>3 DEF PreparedInv, CountersInv, PrepareShm, IsFull
  <2>5. ~ MustCommit(fifo)
    BY <2>3, <2>4 DEF MustCommit
  <2>. DEFINE b == fifo.write_count % Depth
  <2>6. Granted(b) /\ fifo' = [fifo EXCEPT !.prepare_count = @ + 1] /\ b \in FifoSlots
    <3>1. PrepareSlot(fifo) = b
      BY <2>4 DEF PrepareSlot
    <3>. QED  BY <1>4, <2>3, <2>5, <3>1, SlotIs DEF PrepareShm, Prepare
  <2>7. /\ fifo' \in FifoType /\ fifo'.prepare_count = fifo.prepare_count + 1
        /\ fifo'.write_count = fifo.write_count /\ fifo'.read_count = fifo.read_count
    BY <2>3, <2>6 DEF FifoType
  <2>. HIDE DEF b
  <2>8. /\ held' \in Seq(HeldEntry)
        /\ content' \in [FifoSlots \cup {Null} -> Contents]
        /\ checked' \in 0 .. Depth
        /\ HeldInv'
        /\ Len(held') = 1 /\ DOMAIN held' = 1 .. 1
        /\ held'[1].buf = b
        /\ \A c \in FifoSlots : c # b => content'[c] = content[c]
    <3>. \A i \in DOMAIN held : held[i].buf # b
      BY <2>1
    <3>1. /\ held' \in Seq(HeldEntry)
          /\ content' \in [FifoSlots \cup {Null} -> Contents]
          /\ checked' \in 0 .. Depth
          /\ HeldInv'
          /\ Len(held') = Len(held) + 1 /\ DOMAIN held' = 1 .. Len(held) + 1
          /\ held'[Len(held) + 1].buf = b
          /\ \A c \in FifoSlots : c # b => content'[c] = content[c]
      BY <1>1, <1>2, <2>1, <2>6, GrantedHolds
    <3>. QED  BY <2>1, <3>1
  <2>9. TypeInv'
    BY <1>1, <1>2, <1>4, <2>7, <2>8 DEF TypeInv, PrepareShm
  <2>10. CountersInv' /\ ReaderInv'
    BY <1>1, <1>2, <2>2, <2>4, <2>7, <2>8, NextSlotIsFree DEF b
  <2>11. WriterInv'
    BY <1>1 DEF WriterInv
  <2>12. PreparedInv'
    BY <1>1, <2>3, <2>4, <2>7, <2>8 DEF PreparedInv, b
  <2>. QED  BY <1>1, <2>1, <2>8, <2>9, <2>10, <2>11, <2>12 DEF LinkInv, KindInv
<1>5. CASE PrepareList
  <2>1. PICK b \in FifoSlots \ InUse : Granted(b)
    BY <1>5 DEF PrepareList
  <2>2. kind = "list" /\ UNCHANGED device /\ ListInv /\ line \in Seq(Entry)
    BY <1>2, <1>5 DEF PrepareList, KindInv, TypeInv
  <2>3. (\A i \in DOMAIN held : held[i].buf # b) /\ (\A i \in DOMAIN line : line[i].buf # b)
    BY <2>1 DEF InUse
  <2>4. /\ held' \in Seq(HeldEntry)
        /\ content' \in [FifoSlots \cup {Null} -> Contents]
        /\ checked' \in 0 .. Depth
        /\ HeldInv'
        /\ DOMAIN held' = 1 .. Len(held) + 1
        /\ \A i \in 1 .. Len(held) : held'[i] = held[i]
        /\ held'[Len(held) + 1].buf = b
        /\ \A c \in FifoSlots : c # b => content'[c] = content[c]
    BY <1>1, <1>2, <2>1, <2>2, <2>3, GrantedHolds
  <2>5. TypeInv'
    BY <1>1, <1>2, <2>2, <2>4 DEF TypeInv, device
  <2>6. line' = line
    BY <2>2 DEF device
  <2>7. ASSUME NEW i \in DOMAIN line
        PROVE  /\ content'[line[i].buf] = content[line[i].buf]
               /\ \A j \in DOMAIN held' : line[i].buf # held'[j].buf
    <3>1. content'[line[i].buf] = content[line[i].buf]
      BY <2>2, <2>3, <2>4 DEF ListInv
    <3>2. ASSUME NEW j \in DOMAIN held'
          PROVE  line[i].buf # held'[j].buf
      <4>1. j = Len(held) + 1 \/ j \in 1 .. Len(held)
        BY <1>2, <2>4
      <4>. QED  BY <1>2, <2>2, <2>3, <2>4, <4>1 DEF ListInv
    <3>. QED  BY <3>1, <3>2
  <2>8. ASSUME receiver.at = "front"
        PROVE  receiver.frame = content'[receiver.buf]
    <3>1. line # <<>> /\ receiver.buf = line[1].buf /\ receiver.frame = content[receiver.buf]
      BY <2>2, <2>8 DEF ListInv
    <3>2. 1 \in DOMAIN line
      BY <2>2, <3>1, EmptySeq
    <3>. QED  BY <2>7, <3>1, <3>2
  <2>9. ListInv'
    BY <1>1, <2>2, <2>6, <2>7, <2>8 DEF ListInv, Front
  <2>. QED  BY <1>1, <2>2, <2>4, <2>5, <2>9 DEF LinkInv, KindInv, Shared
<1>6. CASE PreparePipe
  <2>1. kind = "npipe" /\ UNCHANGED device /\ Granted(0) /\ held = <<>> /\ PipeInv
    BY <1>2, <1>3, <1>6 DEF PreparePipe, KindInv
  <2>2. 0 \in FifoSlots
    BY FifoAssumption DEF FifoSlots
  <2>3. /\ held' \in Seq(HeldEntry)
        /\ content' \in [FifoSlots \cup {Null} -> Contents]
        /\ checked' \in 0 .. Depth
        /\ HeldInv'
    <3>. \A i \in DOMAIN held : held[i].buf # 0
      BY <2>1
    <3>. QED  BY <1>1, <1>2, <2>1, <2>2, GrantedHolds
  <2>4. TypeInv'
    BY <1>1, <1>2, <2>1, <2>3 DEF TypeInv, device
  <2>5. PipeInv'
    BY <1>1, <2>1 DEF PipeInv, Half, device
  <2>. QED  BY <1>1, <2>1, <2>3, <2>4, <2>5 DEF LinkInv, KindInv, Shared
<1>7. CASE PrepareTap
  <2>1. /\ kind = "tap" /\ pool # <<>> /\ Granted(Head(pool)) /\ pool' = Tail(pool)
        /\ fifo' = fifo /\ line' = line /\ TapInv /\ pool \in Seq(FifoSlots)
    BY <1>2, <1>7 DEF PrepareTap, KindInv, TypeInv
  <2>. DEFINE b == Head(pool)
  <2>2. /\ pool' \in Seq(FifoSlots) /\ Len(pool) \in Nat \ {0}
        /\ DOMAIN pool' = 1 .. Len(pool) - 1 /\ DOMAIN pool = 1 .. Len(pool)
        /\ \A i \in 1 .. Len(pool) - 1 : pool'[i] = pool[i + 1]
        /\ b = pool[1] /\ b \in FifoSlots
    BY <2>1, TailIs
  <2>. HIDE DEF b
  <2>3. \A i \in DOMAIN held : held[i].buf # b
    BY <2>1, <2>2 DEF TapInv
  <2>4. /\ held' \in Seq(HeldEntry)
        /\ content' \in [FifoSlots \cup {Null} -> Contents]
        /\ checked' \in 0 .. Depth
        /\ HeldInv'
        /\ DOMAIN held' = 1 .. Len(held) + 1
        /\ \A i \in 1 .. Len(held) : held'[i] = held[i]
        /\ held'[Len(held) + 1].buf = b
    BY <1>1, <1>2, <2>1, <2>2, <2>3, GrantedHolds DEF b
  <2>5. TypeInv'
    BY <1>1, <1>2, <2>1, <2>2, <2>4 DEF TypeInv
  <2>6. \A i, j \in DOMAIN pool' : pool'[i] = pool'[j] => i = j
    BY <2>1, <2>2 DEF TapInv
  <2>7. ASSUME NEW i \in DOMAIN pool', NEW j \in DOMAIN held'
        PROVE  pool'[i] # held'[j].buf
    <3>1. i + 1 \in DOMAIN pool /\ i + 1 # 1 /\ 1 \in DOMAIN pool /\ pool'[i] = pool[i + 1]
      BY <2>2
    <3>2. CASE j = Len(held) + 1
      <4>1. held'[j].buf = pool[1]
        BY <2>2, <2>4, <3>2
      <4>2. pool[i + 1] # pool[1]
        BY <2>1, <3>1 DEF TapInv
      <4>. QED  BY <3>1, <4>1, <4>2
    <3>3. CASE j \in 1 .. Len(held)
      <4>1. j \in DOMAIN held /\ held'[j] = held[j]
        BY <1>2, <2>4, <3>3
      <4>. QED  BY <2>1, <3>1, <4>1 DEF TapInv
    <3>. QED  BY <1>2, <2>4, <3>2, <3>3
  <2>8. TapInv'
    BY <1>1, <2>1, <2>6, <2>7 DEF TapInv
  <2>. QED  BY <1>1, <2>1, <2>4, <2>5, <2>8 DEF LinkInv, KindInv, Shared
<1>. QED  BY <1>4, <1>5, <1>6, <1>7 DEF PrepareBuffer

\* What the sender writes reaches no buffer but the one it writes to, and that one is
\* its own.
LEMMA WriteKeeps ==
    ASSUME LinkInv, NEW i \in DOMAIN held, NEW len \in FrameLens, Write(i, len)
    PROVE  LinkInv'
<1>. DEFINE f == [id |-> written + 1, len |-> len]
            b == held[i].buf
<1>1. /\ held' = [held EXCEPT ![i].frame = f]
      /\ content' = [content EXCEPT ![b] = f]
      /\ written' = written + 1 /\ written < MaxFrames
      /\ sender.at = "idle" /\ sender' = sender /\ receiver' = receiver /\ kind' = kind
      /\ sent' = sent /\ taken' = taken /\ wrapped' = wrapped /\ checked' = checked
      /\ fifo' = fifo /\ pool' = pool /\ line' = line
  BY DEF Write, Idle, device
<1>2. /\ TypeInv /\ HeldInv /\ KindInv /\ Len(held) \in Nat /\ DOMAIN held = 1 .. Len(held)
      /\ held \in Seq(HeldEntry) /\ held[i] \in HeldEntry
      /\ content \in [FifoSlots \cup {Null} -> Contents] /\ written \in 0 .. MaxFrames
  BY DEF LinkInv, TypeInv
<1>3. written + 1 \in 1 .. MaxFrames
  BY <1>1, <1>2, TransportsAssumption
<1>4. f \in Frames /\ f \in Contents /\ b \in FifoSlots
  BY <1>2, <1>3 DEF Frames, Contents, HeldEntry
<1>. HIDE DEF f
<1>5. /\ held' \in Seq(HeldEntry) /\ DOMAIN held' = DOMAIN held /\ Len(held') = Len(held)
      /\ \A j \in DOMAIN held : held'[j].buf = held[j].buf
      /\ \A j \in DOMAIN held : j # i => held'[j] = held[j]
      /\ held'[i].frame = f
  BY <1>1, <1>2, <1>4 DEF HeldEntry
<1>. HIDE DEF b
<1>6. /\ content' \in [FifoSlots \cup {Null} -> Contents] /\ content'[b] = f
      /\ \A c \in FifoSlots : c # b => content'[c] = content[c]
  BY <1>1, <1>2, <1>4
<1>7. TypeInv'
  <2>1. written' \in 0 .. MaxFrames
    BY <1>1, <1>3
  <2>. QED  BY <1>1, <1>2, <1>5, <1>6, <2>1 DEF TypeInv
<1>8. HeldInv'
  <2>1. ASSUME NEW j \in DOMAIN held', held'[j].frame # Blank
        PROVE  content'[held'[j].buf] = held'[j].frame
    <3>1. CASE j = i
      BY <1>5, <1>6, <3>1 DEF b
    <3>2. CASE j # i
      <4>1. held[j].buf # b /\ held[j] \in HeldEntry
        BY <1>2, <1>5, <3>2 DEF HeldInv, b
      <4>2. held[j].buf \in FifoSlots
        BY <4>1 DEF HeldEntry
      <4>. QED  BY <1>2, <1>5, <1>6, <2>1, <3>2, <4>1, <4>2 DEF HeldInv
    <3>. QED  BY <3>1, <3>2
  <2>2. \A j, k \in DOMAIN held' : held'[j].buf = held'[k].buf => j = k
    BY <1>2, <1>5 DEF HeldInv
  <2>3. kind' \in {"shm", "npipe"} => Len(held') <= 1
    BY <1>1, <1>2, <1>5 DEF HeldInv
  <2>. QED  BY <2>1, <2>2, <2>3 DEF HeldInv
<1>9. kind # "fifo"
  <2>. SUFFICES ASSUME kind = "fifo"
                PROVE  FALSE
    OBVIOUS
  <2>1. held = <<>>
    BY <1>2 DEF KindInv
  <2>. QED  BY <2>1
<1>10. CASE kind = "shm"
  <2>1. CountersInv /\ ReaderInv /\ WriterInv /\ PreparedInv
    BY <1>2, <1>10 DEF KindInv, Shared
  <2>2. b = fifo.write_count % Depth
    BY <2>1 DEF PreparedInv, b
  <2>3. fifo.write_count - fifo.read_count < Depth
    <3>1. /\ fifo.prepare_count \in Nat /\ fifo.write_count \in Nat
          /\ fifo.read_count \in Nat /\ Depth \in Nat
      BY <1>2, FifoAssumption DEF TypeInv, FifoType
    <3>2. Len(held) >= 1
      BY <1>2
    <3>. QED  BY <1>1, <1>2, <2>1, <3>1, <3>2 DEF PreparedInv
  <2>4. CountersInv' /\ ReaderInv'
    BY <1>1, <1>2, <1>6, <2>1, <2>2, <2>3, NextSlotIsFree
  <2>5. WriterInv' /\ PreparedInv'
    BY <1>1, <1>5, <2>1 DEF WriterInv, PreparedInv
  <2>. QED  BY <1>1, <1>7, <1>8, <1>10, <2>4, <2>5 DEF LinkInv, KindInv
<1>11. CASE kind = "list"
  <2>1. ListInv /\ line \in Seq(Entry)
    BY <1>2, <1>11 DEF KindInv, TypeInv
  <2>2. ASSUME NEW j \in DOMAIN line
        PROVE  content'[line[j].buf] = content[line[j].buf]
    BY <1>6, <2>1 DEF ListInv, b
  <2>3. ASSUME receiver.at = "front"
        PROVE  receiver.frame = content'[receiver.buf]
    <3>1. line # <<>> /\ receiver.buf = line[1].buf /\ receiver.frame = content[receiver.buf]
      BY <2>1, <2>3 DEF ListInv
    <3>2. 1 \in DOMAIN line
      BY <2>1, <3>1, EmptySeq
    <3>. QED  BY <2>2, <3>1, <3>2
  <2>4. ListInv'
    BY <1>1, <1>5, <2>1, <2>2, <2>3 DEF ListInv, Front
  <2>. QED  BY <1>1, <1>7, <1>8, <1>11, <2>4 DEF LinkInv, KindInv, Shared
<1>12. CASE kind = "npipe"
  <2>1. PipeInv'
    BY <1>1, <1>2, <1>12 DEF KindInv, PipeInv, Half
  <2>. QED  BY <1>1, <1>7, <1>8, <1>12, <2>1 DEF LinkInv, KindInv, Shared
<1>13. CASE kind = "tap"
  <2>1. TapInv'
    BY <1>1, <1>2, <1>5, <1>13 DEF KindInv, TapInv
  <2>. QED  BY <1>1, <1>7, <1>8, <1>13, <2>1 DEF LinkInv, KindInv, Shared
<1>. QED  BY <1>2, <1>9, <1>10, <1>11, <1>12, <1>13, TransportsAssumption DEF TypeInv

-----------------------------------------------------------------------------
(***************************************************************************)
(* The sender commits, pushes and publishes.                               *)
(***************************************************************************)

\* The sender keeps its other buffers when it gives one away.
LEMMA RemovedHolds ==
    ASSUME TypeInv, HeldInv, NEW i \in DOMAIN held, held' = Remove(i),
           content' = content, kind' = kind
    PROVE  /\ held' \in Seq(HeldEntry)
           /\ Len(held') = Len(held) - 1 /\ Len(held) \in Nat \ {0}
           /\ HeldInv'
           /\ \A j \in DOMAIN held' : held'[j].buf # held[i].buf
           /\ \A j \in DOMAIN held' : \E k \in DOMAIN held : held'[j] = held[k]
<1>1. /\ held \in Seq(HeldEntry) /\ Len(held) \in Nat /\ DOMAIN held = 1 .. Len(held)
      /\ i \in 1 .. Len(held)
  BY DEF TypeInv
<1>2. /\ held' \in Seq(HeldEntry) /\ Len(held') = Len(held) - 1
      /\ DOMAIN held' = 1 .. Len(held) - 1
      /\ \A j \in 1 .. Len(held) - 1 : held'[j] = held[IF j < i THEN j ELSE j + 1]
  BY <1>1, RemoveIs
<1>. DEFINE at(j) == IF j < i THEN j ELSE j + 1
<1>3. ASSUME NEW j \in DOMAIN held'
      PROVE  at(j) \in DOMAIN held /\ at(j) # i /\ held'[j] = held[at(j)]
  <2>1. at(j) \in DOMAIN held /\ at(j) # i
    BY <1>1, <1>2
  <2>. QED  BY <1>2, <2>1
<1>4. ASSUME NEW j \in DOMAIN held', NEW k \in DOMAIN held', at(j) = at(k)
      PROVE  j = k
  <2>1. i \in Int /\ j \in Int /\ k \in Int
    BY <1>1, <1>2
  <2>. QED  BY <1>4, <2>1
<1>. HIDE DEF at
<1>5. \A j, k \in DOMAIN held' : held'[j].buf = held'[k].buf => j = k
  BY <1>3, <1>4 DEF HeldInv
<1>6. \A j \in DOMAIN held' : held'[j].frame # Blank => content'[held'[j].buf] = held'[j].frame
  BY <1>3 DEF HeldInv
<1>7. kind' \in {"shm", "npipe"} => Len(held') <= 1
  BY <1>1, <1>2 DEF HeldInv
<1>8. \A j \in DOMAIN held' : held'[j].buf # held[i].buf
  BY <1>3 DEF HeldInv
<1>9. \A j \in DOMAIN held' : \E k \in DOMAIN held : held'[j] = held[k]
  BY <1>3
<1>. QED  BY <1>1, <1>2, <1>5, <1>6, <1>7, <1>8, <1>9 DEF HeldInv

\* Whatever commit() does with the buffer, the frame is where it belongs.
LEMMA CommitKeeps ==
    ASSUME LinkInv, NEW i \in DOMAIN held, CommitBuffer(i)
    PROVE  LinkInv' /\ (UNCHANGED sent \/ \E f \in Frames : sent' = Append(sent, f))
<1>. DEFINE e == held[i]
<1>1. /\ sender.at = "idle" /\ e.frame # Blank /\ held' = Remove(i)
      /\ receiver' = receiver /\ kind' = kind /\ content' = content
      /\ taken' = taken /\ wrapped' = wrapped /\ checked' = checked /\ written' = written
  BY DEF CommitBuffer, Idle
<1>2. /\ TypeInv /\ HeldInv /\ KindInv /\ DOMAIN held = 1 .. Len(held)
      /\ held \in Seq(HeldEntry) /\ e \in HeldEntry
      /\ sent \in Seq(Frames) /\ taken \in Seq(Received) /\ line \in Seq(Entry)
      /\ Len(sent) \in Nat /\ Len(taken) \in Nat /\ Len(line) \in Nat
      /\ DOMAIN line = 1 .. Len(line)
  BY DEF LinkInv, TypeInv
<1>3. /\ held' \in Seq(HeldEntry)
      /\ Len(held') = Len(held) - 1 /\ Len(held) \in Nat \ {0}
      /\ HeldInv'
      /\ \A j \in DOMAIN held' : held'[j].buf # e.buf
      /\ \A j \in DOMAIN held' : \E k \in DOMAIN held : held'[j] = held[k]
  BY <1>1, <1>2, RemovedHolds
<1>4. e.frame \in Frames /\ e.buf \in FifoSlots /\ content[e.buf] = e.frame
  <2>1. content[e.buf] = e.frame
    BY <1>1, <1>2 DEF HeldInv
  <2>. QED  BY <1>1, <1>2, <2>1 DEF HeldEntry, Contents
<1>5. e.buf \in 0 .. Depth /\ Null \in 0 .. Depth
  BY <1>4, FifoAssumption DEF FifoSlots, Null
<1>6. kind # "fifo"
  <2>. SUFFICES ASSUME kind = "fifo"
                PROVE  FALSE
    OBVIOUS
  <2>1. held = <<>>
    BY <1>2 DEF KindInv
  <2>. QED  BY <2>1
<1>. HIDE DEF e
<1>7. ASSUME UNCHANGED <<fifo, pool, line, sent>>, sender' \in Entry,
             \/ sender'.at = "thrown"
             \/ /\ kind = "shm" /\ sender'.at = "publish"
                /\ sender'.buf = e.buf /\ sender'.frame = e.frame
             \/ kind = "npipe" /\ sender'.at = "lost" /\ receiver.at = "gone"
             \/ kind = "tap" /\ sender' = sender
      PROVE  LinkInv'
  <2>1. TypeInv'
    BY <1>1, <1>2, <1>3, <1>7 DEF TypeInv
  <2>2. CASE kind = "shm"
    <3>1. CountersInv /\ ReaderInv /\ WriterInv /\ PreparedInv
      BY <1>2, <2>2 DEF KindInv, Shared
    <3>2. /\ fifo.prepare_count \in Nat /\ fifo.write_count \in Nat
          /\ fifo.read_count \in Nat /\ Depth \in Nat
      BY <1>2, FifoAssumption DEF TypeInv, FifoType
    <3>3. Len(held) = 1 /\ Len(held') = 0 /\ held' = <<>>
      <4>1. Len(held) = 1 /\ Len(held') = 0
        BY <1>2, <1>3, <2>2 DEF HeldInv
      <4>. QED  BY <1>3, <4>1, EmptySeq
    <3>4. fifo.prepare_count = fifo.write_count + 1 /\ e.buf = fifo.write_count % Depth
      BY <1>1, <3>1, <3>3 DEF PreparedInv, e
    <3>5. fifo.write_count - fifo.read_count < Depth
      BY <3>1, <3>2, <3>4 DEF PreparedInv
    <3>6. CountersInv' /\ ReaderInv'
      BY <1>1, <1>7, <3>1 DEF CountersInv, ReaderInv, Front
    <3>7. WriterInv'
      BY <1>1, <1>4, <1>7, <2>2, <3>4, <3>5 DEF WriterInv
    <3>8. PreparedInv'
      BY <1>7, <2>2, <3>1, <3>3, <3>4 DEF PreparedInv
    <3>. QED  BY <1>1, <1>3, <2>1, <2>2, <3>6, <3>7, <3>8 DEF LinkInv, KindInv
  <2>3. CASE kind = "list"
    <3>1. ListInv'
      BY <1>1, <1>2, <1>3, <1>7, <2>3 DEF KindInv, ListInv, Front
    <3>. QED  BY <1>1, <1>3, <2>1, <2>3, <3>1 DEF LinkInv, KindInv, Shared
  <2>4. CASE kind = "npipe"
    <3>1. PipeInv'
      BY <1>1, <1>2, <1>3, <1>7, <2>4 DEF KindInv, PipeInv, Half
    <3>. QED  BY <1>1, <1>3, <2>1, <2>4, <3>1 DEF LinkInv, KindInv, Shared
  <2>5. CASE kind = "tap"
    <3>1. TapInv'
      BY <1>1, <1>2, <1>3, <1>7, <2>5 DEF KindInv, TapInv
    <3>. QED  BY <1>1, <1>3, <2>1, <2>5, <3>1 DEF LinkInv, KindInv, Shared
  <2>. QED  BY <1>2, <1>6, <2>2, <2>3, <2>4, <2>5, TransportsAssumption DEF TypeInv
<1>8. CASE CommitThrows(e)
  <2>1. UNCHANGED <<fifo, pool, line, sent>> /\ sender' = [Idle EXCEPT !.at = "thrown"]
    BY <1>8 DEF CommitThrows, device
  <2>2. sender' \in Entry /\ sender'.at = "thrown"
    BY <1>5, <2>1 DEF Entry, Idle
  <2>. QED  BY <1>7, <2>1, <2>2
<1>9. CASE CommitShm(e)
  <2>1. /\ UNCHANGED <<fifo, pool, line, sent>> /\ kind = "shm"
        /\ sender' = [at |-> "publish", buf |-> e.buf, frame |-> e.frame]
    BY <1>9 DEF CommitShm, device
  <2>2. sender' \in Entry /\ sender'.at = "publish" /\ sender'.buf = e.buf
        /\ sender'.frame = e.frame
    BY <1>4, <1>5, <2>1 DEF Entry
  <2>. QED  BY <1>7, <2>1, <2>2
<1>10. CASE CommitList(e)
  <2>. DEFINE p == [at |-> "packet", buf |-> e.buf, frame |-> Blank]
  <2>1. /\ kind = "list" /\ line' = Append(line, p) /\ sent' = Append(sent, e.frame)
        /\ fifo' = fifo /\ pool' = pool /\ sender' = sender
    BY <1>10 DEF CommitList, Accepted
  <2>2. p \in Entry /\ p.buf = e.buf
    BY <1>5 DEF Entry
  <2>. HIDE DEF p
  <2>3. /\ line' \in Seq(Entry) /\ Len(line') = Len(line) + 1
        /\ DOMAIN line' = 1 .. Len(line) + 1
        /\ \A j \in 1 .. Len(line) : line'[j] = line[j]
        /\ line'[Len(line) + 1].buf = e.buf
    BY <1>2, <2>1, <2>2, AppendIs
  <2>4. /\ sent' \in Seq(Frames) /\ Len(sent') = Len(sent) + 1
        /\ \A j \in 1 .. Len(sent) : sent'[j] = sent[j]
        /\ sent'[Len(sent) + 1] = e.frame
    BY <1>2, <1>4, <2>1, AppendIs
  <2>5. TypeInv'
    BY <1>1, <1>2, <1>3, <2>1, <2>3, <2>4 DEF TypeInv
  <2>6. ListInv
    BY <1>2, <2>1 DEF KindInv
  <2>7. \A j \in 1 .. Len(line) : line[j].buf # e.buf
    <3>1. \A j \in DOMAIN line : line[j].buf # e.buf
      BY <2>6 DEF ListInv, e
    <3>2. DOMAIN line = 1 .. Len(line)
      BY <1>2
    <3>. QED  BY <3>1, <3>2
  <2>8. /\ Front \in Nat /\ Front' = Front /\ Front <= Len(taken)
        /\ Len(taken) + Len(line) = Len(sent) + Front
        /\ Len(line) \in Nat /\ Len(sent) \in Nat /\ Len(taken) \in Nat
        /\ receiver.at = "front" => line # <<>>
    BY <1>1, <1>2, <2>6 DEF Front, ListInv
  <2>9. ASSUME NEW j \in DOMAIN line', NEW k \in DOMAIN line', line'[j].buf = line'[k].buf
        PROVE  j = k
    <3>1. CASE j \in 1 .. Len(line) /\ k \in 1 .. Len(line)
      BY <1>2, <2>3, <2>6, <2>9, <3>1 DEF ListInv
    <3>2. CASE j = Len(line) + 1 /\ k \in 1 .. Len(line)
      BY <2>3, <2>7, <2>9, <3>2
    <3>3. CASE k = Len(line) + 1 /\ j \in 1 .. Len(line)
      BY <2>3, <2>7, <2>9, <3>3
    <3>4. CASE j = Len(line) + 1 /\ k = Len(line) + 1
      BY <3>4
    <3>5. (j \in 1 .. Len(line) \/ j = Len(line) + 1)
            /\ (k \in 1 .. Len(line) \/ k = Len(line) + 1)
      BY <2>3, <2>8
    <3>. QED  BY <3>1, <3>2, <3>3, <3>4, <3>5
  <2>10. ASSUME NEW j \in DOMAIN line'
         PROVE  /\ line'[j].buf \in FifoSlots
                /\ \A k \in DOMAIN held' : line'[j].buf # held'[k].buf
                /\ content'[line'[j].buf] = sent'[Len(taken) - Front + j]
    <3>1. CASE j = Len(line) + 1
      <4>1. Len(taken) - Front + j = Len(sent) + 1
        BY <2>8, <3>1
      <4>. QED  BY <1>1, <1>3, <1>4, <2>3, <2>4, <3>1, <4>1
    <3>2. CASE j \in 1 .. Len(line)
      <4>1. line'[j] = line[j] /\ j \in DOMAIN line
        BY <1>2, <2>3, <3>2
      <4>2. line[j].buf \in FifoSlots /\ content[line[j].buf] = sent[Len(taken) - Front + j]
        BY <2>6, <4>1 DEF ListInv
      <4>3. Len(taken) - Front + j \in 1 .. Len(sent)
        BY <1>2, <2>8, <3>2
      <4>4. \A k \in DOMAIN held' : line[j].buf # held'[k].buf
        BY <1>3, <2>6, <4>1 DEF ListInv
      <4>. QED  BY <1>1, <2>4, <4>1, <4>2, <4>3, <4>4
    <3>. QED  BY <1>2, <2>3, <3>1, <3>2
  <2>11. Len(taken') + Len(line') = Len(sent') + Front'
    <3>. taken' = taken /\ Len(line') = Len(line) + 1 /\ Len(sent') = Len(sent) + 1
      BY <1>1, <2>3, <2>4
    <3>. QED  BY <2>8
  <2>12. receiver'.at = "front" =>
            /\ line' # <<>>
            /\ receiver'.buf = line'[1].buf
            /\ receiver'.frame = content'[receiver'.buf]
    <3>. SUFFICES ASSUME receiver.at = "front"
                  PROVE  line' # <<>> /\ receiver.buf = line'[1].buf
                            /\ receiver.frame = content[receiver.buf]
      BY <1>1
    <3>1. 1 \in 1 .. Len(line)
      BY <1>2, <2>8, EmptySeq
    <3>. QED  BY <2>3, <2>6, <3>1, <1>2 DEF ListInv
  <2>13. ListInv'
    BY <1>1, <2>1, <2>6, <2>8, <2>9, <2>10, <2>11, <2>12 DEF ListInv
  <2>. QED  BY <1>1, <1>3, <1>4, <2>1, <2>5, <2>13 DEF LinkInv, KindInv, Shared
<1>11. CASE CommitPipe(e)
  <2>1. kind = "npipe" /\ fifo' = fifo /\ pool' = pool /\ sent' = sent
    BY <1>11 DEF CommitPipe
  <2>2. CASE receiver.at = "gone"
    <3>1. line' = line /\ sender' = [Idle EXCEPT !.at = "lost"]
      BY <1>11, <2>2 DEF CommitPipe
    <3>2. sender' \in Entry /\ sender'.at = "lost"
      BY <1>5, <3>1 DEF Entry, Idle
    <3>. QED  BY <1>7, <2>1, <2>2, <3>1, <3>2
  <2>3. CASE receiver.at # "gone"
    <3>. DEFINE p == [Idle EXCEPT !.at = "length"]
    <3>1. /\ line' = Append(line, p)
          /\ sender' = [at |-> "payload", buf |-> e.buf, frame |-> e.frame]
      BY <1>11, <2>3 DEF CommitPipe
    <3>2. p \in Entry
      BY <1>5 DEF Entry, Idle
    <3>. HIDE DEF p
    <3>3. /\ line' \in Seq(Entry) /\ Len(line') = Len(line) + 1
          /\ \A j \in 1 .. Len(line) : line'[j] = line[j]
      BY <1>2, <3>1, <3>2, AppendIs
    <3>4. sender' \in Entry /\ sender'.at = "payload" /\ sender'.buf = e.buf
            /\ sender'.frame = e.frame
      BY <1>4, <1>5, <3>1 DEF Entry
    <3>5. TypeInv'
      BY <1>1, <1>2, <1>3, <2>1, <3>3, <3>4 DEF TypeInv
    <3>6. PipeInv
      BY <1>2, <2>1 DEF KindInv
    <3>7. Half' = Half /\ Half \in {0, 1}
      BY <1>1 DEF Half
    <3>8. ASSUME receiver.at \in {"idle", "length"}
          PROVE  /\ Len(taken) <= Len(sent)
                 /\ Len(line) + Half = 2 * (Len(sent) - Len(taken))
                 /\ Len(line') + Half = 2 * (Len(sent) - Len(taken)) + 1
                 /\ \A n \in 1 .. Len(sent) - Len(taken) :
                        line'[2 * n - Half].frame = sent[Len(taken) + n]
      <4>1. /\ Len(taken) <= Len(sent)
            /\ Len(line) + Half = 2 * (Len(sent) - Len(taken))
            /\ \A n \in 1 .. Len(sent) - Len(taken) :
                        line[2 * n - Half].frame = sent[Len(taken) + n]
        BY <1>1, <3>6, <3>8 DEF PipeInv
      <4>2. Len(line') + Half = 2 * (Len(sent) - Len(taken)) + 1
        BY <1>2, <3>3, <3>7, <4>1
      <4>3. ASSUME NEW n \in 1 .. Len(sent) - Len(taken)
            PROVE  line'[2 * n - Half] = line[2 * n - Half]
        <5>1. 2 * n - Half \in 1 .. Len(line)
          BY <1>2, <3>7, <4>1
        <5>. QED  BY <3>3, <5>1
      <4>. QED  BY <4>1, <4>2, <4>3
    <3>9. PipeInv'
      BY <1>1, <1>4, <2>1, <3>4, <3>6, <3>7, <3>8 DEF PipeInv
    <3>. QED  BY <1>1, <1>3, <2>1, <3>5, <3>9 DEF LinkInv, KindInv, Shared
  <2>. QED  BY <2>2, <2>3
<1>12. CASE CommitTap(e)
  <2>1. kind = "tap" /\ fifo' = fifo /\ sender' = sender
    BY <1>12 DEF CommitTap
  <2>2. CASE UNCHANGED <<pool, line, sent>>
    BY <1>2, <1>7, <2>1, <2>2 DEF TypeInv
  <2>3. CASE ~ UNCHANGED <<pool, line, sent>>
    <3>. DEFINE p == [at |-> "packet", buf |-> Null, frame |-> content[e.buf]]
    <3>1. /\ line' = Append(line, p) /\ pool' = Append(pool, e.buf)
          /\ sent' = Append(sent, e.frame)
      BY <1>12, <2>3 DEF CommitTap, Accepted
    <3>2. p \in Entry /\ p.frame = e.frame
      BY <1>4, <1>5 DEF Entry
    <3>. HIDE DEF p
    <3>3. /\ line' \in Seq(Entry) /\ Len(line') = Len(line) + 1
          /\ DOMAIN line' = 1 .. Len(line) + 1
          /\ \A j \in 1 .. Len(line) : line'[j] = line[j]
          /\ line'[Len(line) + 1] = p
      BY <1>2, <3>1, <3>2, AppendIs
    <3>4. /\ sent' \in Seq(Frames) /\ Len(sent') = Len(sent) + 1
          /\ \A j \in 1 .. Len(sent) : sent'[j] = sent[j]
          /\ sent'[Len(sent) + 1] = e.frame
      BY <1>2, <1>4, <3>1, AppendIs
    <3>5. pool \in Seq(FifoSlots) /\ Len(pool) \in Nat /\ DOMAIN pool = 1 .. Len(pool)
      BY <1>2 DEF TypeInv
    <3>6. /\ pool' \in Seq(FifoSlots) /\ DOMAIN pool' = 1 .. Len(pool) + 1
          /\ \A j \in 1 .. Len(pool) : pool'[j] = pool[j]
          /\ pool'[Len(pool) + 1] = e.buf
      BY <1>4, <3>1, <3>5, AppendIs
    <3>7. TypeInv'
      BY <1>1, <1>2, <1>3, <2>1, <3>3, <3>4, <3>6 DEF TypeInv
    <3>8. TapInv
      BY <1>2, <2>1 DEF KindInv
    <3>9. \A j \in 1 .. Len(pool) : pool[j] # e.buf
      BY <3>5, <3>8 DEF TapInv, e
    <3>10. ASSUME NEW j \in DOMAIN pool', NEW k \in DOMAIN pool', pool'[j] = pool'[k]
           PROVE  j = k
      <4>1. CASE j \in 1 .. Len(pool) /\ k \in 1 .. Len(pool)
        BY <3>5, <3>6, <3>8, <3>10, <4>1 DEF TapInv
      <4>2. CASE j = Len(pool) + 1 \/ k = Len(pool) + 1
        BY <3>5, <3>6, <3>9, <3>10, <4>2
      <4>. QED  BY <3>5, <3>6, <4>1, <4>2
    <3>11. ASSUME NEW j \in DOMAIN pool', NEW k \in DOMAIN held'
           PROVE  pool'[j] # held'[k].buf
      <4>1. CASE j = Len(pool) + 1
        BY <1>3, <3>6, <4>1
      <4>2. CASE j \in 1 .. Len(pool)
        BY <1>3, <3>5, <3>6, <3>8, <4>2 DEF TapInv
      <4>. QED  BY <3>5, <3>6, <4>1, <4>2
    <3>12. ASSUME NEW j \in DOMAIN line'
           PROVE  line'[j].frame = sent'[Len(taken) + j]
      <4>1. Len(sent) = Len(taken) + Len(line)
        BY <3>8 DEF TapInv
      <4>2. CASE j = Len(line) + 1
        BY <1>2, <3>2, <3>3, <3>4, <4>1, <4>2
      <4>3. CASE j \in 1 .. Len(line)
        <5>1. Len(taken) + j \in 1 .. Len(sent) /\ j \in DOMAIN line
          BY <1>2, <4>1, <4>3
        <5>. QED  BY <3>3, <3>4, <3>8, <4>3, <5>1 DEF TapInv
      <4>. QED  BY <1>2, <3>3, <4>2, <4>3
    <3>13. TapInv'
      <4>1. Len(sent') = Len(taken') + Len(line')
        BY <1>1, <1>2, <3>3, <3>4, <3>8 DEF TapInv
      <4>. QED  BY <1>1, <2>1, <3>8, <3>10, <3>11, <3>12, <4>1 DEF TapInv
    <3>. QED  BY <1>1, <1>3, <1>4, <2>1, <3>1, <3>7, <3>13 DEF LinkInv, KindInv, Shared
  <2>. QED  BY <2>2, <2>3, <1>12 DEF CommitTap
<1>. QED  BY <1>8, <1>9, <1>10, <1>11, <1>12 DEF CommitBuffer, e

\* push() fills the slot after the last entry.
LEMMA PushKeeps ==
    ASSUME LinkInv, NEW len \in FrameLens, Push(len)
    PROVE  LinkInv'
<1>. DEFINE f == [id |-> written + 1, len |-> len]
            b == fifo.write_count % Depth
<1>1. /\ kind = "fifo" /\ kind' = kind /\ ~ IsFull(fifo) /\ written < MaxFrames
      /\ content' = [content EXCEPT ![b] = f] /\ written' = written + 1
      /\ sender' = [at |-> "publish", buf |-> b, frame |-> f]
      /\ UNCHANGED <<wrapped, fifo, pool, line, held, checked, receiver, sent, taken>>
  BY DEF Push, PushSlot, device
<1>2. /\ TypeInv /\ HeldInv /\ CountersInv /\ ReaderInv /\ held = <<>>
      /\ content \in [FifoSlots \cup {Null} -> Contents] /\ written \in 0 .. MaxFrames
      /\ fifo.write_count \in Nat /\ fifo.read_count \in Nat
  BY <1>1 DEF LinkInv, TypeInv, FifoType, KindInv, Shared
<1>3. Depth \in Nat /\ fifo.write_count - fifo.read_count < Depth
  BY <1>1, <1>2, FifoAssumption DEF IsFull, CountersInv
<1>4. written + 1 \in 1 .. MaxFrames
  BY <1>1, <1>2, TransportsAssumption
<1>5. f \in Frames /\ f \in Contents /\ b \in FifoSlots /\ b \in 0 .. Depth
  <2>1. f \in Frames
    BY <1>4 DEF Frames
  <2>2. b \in FifoSlots
    BY <1>2, SlotIs
  <2>. HIDE DEF f, b
  <2>3. b \in 0 .. Depth
    BY <1>3, <2>2 DEF FifoSlots
  <2>. QED  BY <2>1, <2>2, <2>3 DEF Contents
<1>. HIDE DEF f, b
<1>6. /\ content' \in [FifoSlots \cup {Null} -> Contents] /\ content'[b] = f
      /\ \A c \in FifoSlots : c # b => content'[c] = content[c]
  BY <1>1, <1>2, <1>5
<1>7. sender' \in Entry /\ sender'.at = "publish" /\ sender'.buf = b /\ sender'.frame = f
  BY <1>1, <1>5 DEF Entry, Contents
<1>8. TypeInv'
  <2>1. written' \in 0 .. MaxFrames
    BY <1>1, <1>4
  <2>. QED  BY <1>1, <1>2, <1>6, <1>7, <2>1 DEF TypeInv
<1>9. HeldInv'
  BY <1>1, <1>2 DEF HeldInv
<1>10. CountersInv' /\ ReaderInv'
  BY <1>1, <1>2, <1>3, <1>6, NextSlotIsFree DEF b
<1>11. WriterInv'
  BY <1>1, <1>3, <1>5, <1>6, <1>7 DEF WriterInv, b
<1>. QED  BY <1>1, <1>2, <1>8, <1>9, <1>10, <1>11 DEF LinkInv, KindInv, Shared

\* The frame is published as the last one.
LEMMA PublishKeeps ==
    ASSUME LinkInv, PublishSlot
    PROVE  LinkInv' /\ \E f \in Frames : sent' = Append(sent, f)
<1>. DEFINE f == sender.frame
            w == fifo.write_count
<1>1. /\ sender.at = "publish" /\ sent' = Append(sent, f) /\ sender' = Idle
      /\ fifo' = IF kind = "shm" THEN Commit(fifo) ELSE Publish(fifo)
      /\ UNCHANGED <<kind, wrapped, pool, line, content, held, checked, receiver, written, taken>>
  BY DEF PublishSlot, Accepted
<1>2. /\ TypeInv /\ HeldInv /\ KindInv /\ fifo \in FifoType /\ w \in Nat
      /\ fifo.read_count \in Nat /\ fifo.prepare_count \in Nat /\ Depth \in Nat
      /\ sent \in Seq(Frames) /\ Len(sent) \in Nat
  BY FifoAssumption DEF LinkInv, TypeInv, FifoType
<1>3. Shared
  <2>1. kind # "list" /\ kind # "npipe" /\ kind # "tap"
    BY <1>1, <1>2 DEF KindInv, ListInv, PipeInv, TapInv
  <2>. QED  BY <1>2, <2>1, TransportsAssumption DEF TypeInv, Shared
<1>4. CountersInv /\ ReaderInv /\ WriterInv
  BY <1>2, <1>3 DEF KindInv
<1>5. f \in Frames /\ content[w % Depth] = f /\ w - fifo.read_count < Depth
        /\ w = Len(sent) /\ fifo.read_count <= w
  BY <1>1, <1>4 DEF WriterInv, CountersInv
<1>6. fifo' = Publish(fifo)
  <2>1. CASE kind = "shm"
    <3>1. fifo.prepare_count = w + 1
      BY <1>1, <1>2, <2>1 DEF KindInv, PreparedInv
    <3>2. ~ MustPrepare(fifo)
      BY <1>2, <3>1 DEF MustPrepare
    <3>. QED  BY <1>1, <2>1, <3>2 DEF Commit
  <2>2. CASE kind # "shm"
    BY <1>1, <2>2
  <2>. QED  BY <2>1, <2>2
<1>7. /\ fifo' \in FifoType /\ fifo'.write_count = w + 1
      /\ fifo'.read_count = fifo.read_count /\ fifo'.prepare_count = fifo.prepare_count
  BY <1>2, <1>6 DEF FifoType, Publish
<1>. HIDE DEF f, w
<1>8. /\ sent' \in Seq(Frames) /\ Len(sent') = Len(sent) + 1
      /\ \A n \in 1 .. Len(sent) : sent'[n] = sent[n]
      /\ sent'[Len(sent) + 1] = f
  BY <1>1, <1>2, <1>5, AppendIs
<1>9. sender' \in Entry /\ sender'.at = "idle"
  BY <1>1, <1>2 DEF Entry, Idle, Null
<1>10. TypeInv'
  BY <1>1, <1>2, <1>7, <1>8, <1>9 DEF TypeInv
<1>11. HeldInv'
  BY <1>1, <1>2 DEF HeldInv
<1>12. CountersInv'
  <2>1. ASSUME NEW n \in fifo'.read_count .. fifo'.write_count - 1
        PROVE  content'[n % Depth] = sent'[n + 1]
    <3>1. CASE n = w
      BY <1>1, <1>5, <1>8, <3>1
    <3>2. CASE n # w
      <4>1. n \in fifo.read_count .. w - 1 /\ n + 1 \in 1 .. Len(sent)
        BY <1>2, <1>5, <1>7, <3>2
      <4>2. content[n % Depth] = sent[n + 1]
        BY <1>4, <4>1 DEF CountersInv, w
      <4>. QED  BY <1>1, <1>8, <4>1, <4>2
    <3>. QED  BY <3>1, <3>2
  <2>2. /\ fifo'.read_count <= fifo'.write_count
        /\ fifo'.write_count - fifo'.read_count <= Depth
        /\ fifo'.write_count = Len(sent')
    BY <1>2, <1>5, <1>7, <1>8
  <2>3. Len(taken') = fifo'.read_count + Front'
    BY <1>1, <1>4, <1>7 DEF CountersInv, Front
  <2>. QED  BY <2>1, <2>2, <2>3 DEF CountersInv
<1>13. ReaderInv'
  BY <1>1, <1>2, <1>4, <1>7 DEF ReaderInv, w
<1>14. WriterInv'
  BY <1>9 DEF WriterInv
<1>15. kind = "shm" => PreparedInv'
  <2>. SUFFICES ASSUME kind = "shm"
                PROVE  PreparedInv'
    OBVIOUS
  <2>1. held = <<>> /\ fifo.prepare_count = w + 1 /\ fifo.prepare_count - fifo.read_count <= Depth
    BY <1>1, <1>2 DEF KindInv, PreparedInv, w
  <2>. QED  BY <1>1, <1>2, <1>7, <1>9, <2>1 DEF PreparedInv
<1>16. kind = "fifo" => held' = <<>>
  BY <1>1, <1>2 DEF KindInv
<1>. QED  BY <1>1, <1>3, <1>5, <1>10, <1>11, <1>12, <1>13, <1>14, <1>15, <1>16
          DEF LinkInv, KindInv, Shared

\* npipe: the frame follows its length.
LEMMA PayloadKeeps ==
    ASSUME LinkInv, WritePayload
    PROVE  LinkInv' /\ (UNCHANGED sent \/ \E f \in Frames : sent' = Append(sent, f))
<1>1. /\ sender.at = "payload"
      /\ UNCHANGED <<kind, wrapped, fifo, pool, content, held, checked, receiver, written, taken>>
  BY DEF WritePayload
<1>2. /\ TypeInv /\ HeldInv /\ KindInv /\ Depth \in Nat
      /\ sent \in Seq(Frames) /\ taken \in Seq(Received) /\ line \in Seq(Entry)
      /\ Len(sent) \in Nat /\ Len(taken) \in Nat /\ Len(line) \in Nat
  BY FifoAssumption DEF LinkInv, TypeInv
<1>3. kind = "npipe"
  <2>1. kind # "list" /\ kind # "fifo" /\ kind # "shm" /\ kind # "tap"
    BY <1>1, <1>2 DEF KindInv, ListInv, WriterInv, TapInv, Shared
  <2>. QED  BY <1>2, <2>1, TransportsAssumption DEF TypeInv
<1>4. PipeInv /\ sender.frame \in Frames /\ content[sender.buf] = sender.frame
  BY <1>1, <1>2, <1>3 DEF KindInv, PipeInv
<1>5. HeldInv'
  BY <1>1, <1>2 DEF HeldInv
<1>6. CASE receiver.at = "gone"
  <2>1. sender' = [Idle EXCEPT !.at = "lost"] /\ line' = line /\ sent' = sent
    BY <1>6 DEF WritePayload
  <2>2. sender' \in Entry /\ sender'.at = "lost"
    BY <1>2, <2>1 DEF Entry, Idle, Null
  <2>3. TypeInv'
    BY <1>1, <1>2, <2>1, <2>2 DEF TypeInv
  <2>4. PipeInv'
    BY <1>1, <1>4, <1>6, <2>1, <2>2 DEF PipeInv, Half
  <2>. QED  BY <1>1, <1>3, <1>5, <2>1, <2>3, <2>4 DEF LinkInv, KindInv, Shared
<1>7. CASE receiver.at # "gone"
  <2>. DEFINE f == sender.frame
              p == [at |-> "frame", buf |-> Null, frame |-> content[sender.buf]]
  <2>1. line' = Append(line, p) /\ sent' = Append(sent, f) /\ sender' = Idle
    BY <1>7 DEF WritePayload, Accepted
  <2>2. p \in Entry /\ p.frame = f /\ sender' \in Entry /\ sender'.at = "idle"
    BY <1>2, <1>4, <2>1 DEF Entry, Idle, Null
  <2>3. f \in Frames
    BY <1>4
  <2>. HIDE DEF f, p
  <2>4. /\ line' \in Seq(Entry) /\ Len(line') = Len(line) + 1
        /\ \A j \in 1 .. Len(line) : line'[j] = line[j]
        /\ line'[Len(line) + 1] = p
    BY <1>2, <2>1, <2>2, AppendIs
  <2>5. /\ sent' \in Seq(Frames) /\ Len(sent') = Len(sent) + 1
        /\ \A n \in 1 .. Len(sent) : sent'[n] = sent[n]
        /\ sent'[Len(sent) + 1] = f
    BY <1>2, <2>1, <2>3, AppendIs
  <2>6. TypeInv'
    BY <1>1, <1>2, <2>2, <2>4, <2>5 DEF TypeInv
  <2>7. Half' = Half /\ Half \in Nat /\ Half <= 1
    BY <1>1 DEF Half
  <2>8. ASSUME receiver.at \in {"idle", "length"}
        PROVE  /\ Len(taken) <= Len(sent')
               /\ Len(line') + Half = 2 * (Len(sent') - Len(taken))
               /\ \A n \in 1 .. Len(sent') - Len(taken) :
                        line'[2 * n - Half].frame = sent'[Len(taken) + n]
    <3>1. /\ Len(taken) <= Len(sent)
          /\ Len(line) + Half = 2 * (Len(sent) - Len(taken)) + 1
          /\ \A n \in 1 .. Len(sent) - Len(taken) :
                        line[2 * n - Half].frame = sent[Len(taken) + n]
      BY <1>1, <1>4, <2>8 DEF PipeInv
    <3>2. ASSUME NEW n \in 1 .. Len(sent') - Len(taken)
          PROVE  line'[2 * n - Half].frame = sent'[Len(taken) + n]
      <4>1. CASE n = Len(sent) + 1 - Len(taken)
        <5>1. 2 * n - Half = Len(line) + 1 /\ Len(taken) + n = Len(sent) + 1
          <6>1. /\ Len(sent) \in Nat /\ Len(taken) \in Nat /\ Len(line) \in Nat
                /\ Len(line) + Half = 2 * (Len(sent) - Len(taken)) + 1
            BY <1>2, <3>1
          <6>. QED  BY <2>7, <4>1, <6>1
        <5>. QED  BY <2>2, <2>4, <2>5, <5>1
      <4>2. CASE n # Len(sent) + 1 - Len(taken)
        <5>1. n \in 1 .. Len(sent) - Len(taken)
          BY <1>2, <2>5, <3>1, <4>2
        <5>2. 2 * n - Half \in 1 .. Len(line) /\ Len(taken) + n \in 1 .. Len(sent)
          BY <1>2, <2>7, <3>1, <5>1
        <5>. QED  BY <2>4, <2>5, <3>1, <5>1, <5>2
      <4>. QED  BY <4>1, <4>2
    <3>3. Len(taken) <= Len(sent') /\ Len(line') + Half = 2 * (Len(sent') - Len(taken))
      BY <1>2, <2>4, <2>5, <2>7, <3>1
    <3>. QED  BY <3>2, <3>3
  <2>9. PipeInv'
    BY <1>1, <1>4, <2>2, <2>7, <2>8 DEF PipeInv
  <2>. QED  BY <1>1, <1>3, <1>5, <2>1, <2>3, <2>6, <2>9 DEF LinkInv, KindInv, Shared
<1>. QED  BY <1>6, <1>7

-----------------------------------------------------------------------------
(***************************************************************************)
(* The receiver.                                                           *)
(***************************************************************************)

\* A step that takes nothing, or the first frame that was not taken.
TakesInOrder ==
    \/ UNCHANGED taken
    \/ Len(taken) < Len(sent) /\ taken' = Append(taken, sent[Len(taken) + 1])

\* What is left to be shown of a step of the receiver.
LEMMA ReceiverStep ==
    ASSUME LinkInv,
           UNCHANGED <<kind, wrapped, pool, content, held, checked, sender, written, sent>>
    PROVE  /\ HeldInv'
           /\ fifo' \in FifoType /\ line' \in Seq(Entry) /\ receiver' \in Entry
                /\ taken' \in Seq(Received) => TypeInv'
           /\ Shared' = Shared
           /\ sent \in Seq(Frames) /\ Len(sent) \in Nat
           /\ taken \in Seq(Received) /\ Len(taken) \in Nat
           /\ line \in Seq(Entry) /\ Len(line) \in Nat
           /\ fifo \in FifoType /\ fifo.write_count \in Nat /\ fifo.read_count \in Nat
           /\ fifo.prepare_count \in Nat /\ Depth \in Nat
<1>1. TypeInv /\ HeldInv /\ Depth \in Nat
  BY FifoAssumption DEF LinkInv
<1>2. HeldInv'
  BY <1>1 DEF HeldInv
<1>3. fifo' \in FifoType /\ line' \in Seq(Entry) /\ receiver' \in Entry
        /\ taken' \in Seq(Received) => TypeInv'
  BY <1>1 DEF TypeInv
<1>4. /\ sent \in Seq(Frames) /\ taken \in Seq(Received) /\ line \in Seq(Entry)
      /\ fifo \in FifoType
  BY <1>1 DEF TypeInv
<1>5. fifo.write_count \in Nat /\ fifo.read_count \in Nat /\ fifo.prepare_count \in Nat
  BY <1>4 DEF FifoType
<1>6. Shared' = Shared
  BY DEF Shared
<1>7. Len(sent) \in Nat /\ Len(taken) \in Nat /\ Len(line) \in Nat
  BY <1>4
<1>. QED  BY <1>1, <1>7, <1>2, <1>3, <1>4, <1>5, <1>6

\* The frame that is next joins what was taken.
LEMMA TakenIs ==
    ASSUME sent \in Seq(Frames), taken \in Seq(Received), Len(taken) < Len(sent),
           taken' = Append(taken, sent[Len(taken) + 1])
    PROVE  taken' \in Seq(Received) /\ Len(taken') = Len(taken) + 1
<1>1. sent[Len(taken) + 1] \in Frames
  <2>1. Len(taken) \in Nat /\ Len(sent) \in Nat
    OBVIOUS
  <2>2. Len(taken) + 1 \in 1 .. Len(sent)
    BY <2>1
  <2>. QED  BY <2>2
<1>2. sent[Len(taken) + 1] \in Received
  <2>1. FrameLens \subseteq Nat
    BY TransportsAssumption
  <2>2. ASSUME NEW f \in Frames
        PROVE  f \in Received
    <3>1. f = [id |-> f.id, len |-> f.len] /\ f.id \in Nat /\ f.len \in FrameLens
      BY DEF Frames
    <3>2. f.len \in Nat
      BY <2>1, <3>1
    <3>. QED  BY <3>1, <3>2 DEF Received
  <2>. QED  BY <1>1, <2>2
<1>. QED  BY <1>2, AppendIs

\* fifo and shm: the entry at the read counter is the frame that is next.
LEMMA FirstEntryIs ==
    ASSUME LinkInv, Shared, receiver.at = "idle", ~ IsEmpty(fifo)
    PROVE  /\ fifo.read_count < fifo.write_count
           /\ Len(taken) = fifo.read_count /\ Len(taken) < Len(sent)
           /\ content[FrontSlot(fifo)] = sent[Len(taken) + 1]
           /\ content[FrontSlot(fifo)] \in Contents
           /\ FrontSlot(fifo) \in FifoSlots
<1>1. /\ CountersInv /\ fifo.write_count \in Nat /\ fifo.read_count \in Nat
      /\ content \in [FifoSlots \cup {Null} -> Contents]
  BY DEF LinkInv, KindInv, TypeInv, FifoType
<1>2. fifo.read_count < fifo.write_count /\ Len(taken) = fifo.read_count
        /\ fifo.write_count = Len(sent)
  BY <1>1 DEF CountersInv, IsEmpty, Front
<1>3. fifo.read_count \in fifo.read_count .. fifo.write_count - 1
  BY <1>1, <1>2
<1>4. FrontSlot(fifo) \in FifoSlots
  BY <1>1, SlotIs DEF FrontSlot
<1>5. content[FrontSlot(fifo)] = sent[Len(taken) + 1]
  BY <1>1, <1>2, <1>3 DEF CountersInv, FrontSlot
<1>. QED  BY <1>1, <1>2, <1>4, <1>5

\* fifo and shm: an entry is popped.
LEMMA PoppedIs ==
    ASSUME LinkInv, Shared, Pop(fifo) = fifo', fifo.read_count < fifo.write_count,
           receiver'.at = "idle", Len(taken') = fifo.read_count + 1,
           UNCHANGED <<kind, content, held, sender, sent>>
    PROVE  /\ fifo' \in FifoType
           /\ CountersInv' /\ ReaderInv' /\ WriterInv' /\ (kind = "shm" => PreparedInv')
<1>1. /\ CountersInv /\ ReaderInv /\ WriterInv /\ (kind = "shm" => PreparedInv)
      /\ fifo \in FifoType /\ fifo.write_count \in Nat /\ fifo.read_count \in Nat
      /\ fifo.prepare_count \in Nat /\ Depth \in Nat
  BY FifoAssumption DEF LinkInv, KindInv, TypeInv, FifoType
<1>2. /\ fifo' \in FifoType /\ fifo'.read_count = fifo.read_count + 1
      /\ fifo'.write_count = fifo.write_count /\ fifo'.prepare_count = fifo.prepare_count
  BY <1>1 DEF Pop, IsEmpty, FifoType
<1>3. CountersInv'
  <2>1. /\ fifo.read_count + 1 <= fifo.write_count
        /\ fifo.write_count - (fifo.read_count + 1) <= Depth
    BY <1>1 DEF CountersInv
  <2>2. fifo'.write_count = Len(sent') /\ Len(taken') = fifo'.read_count + Front'
    BY <1>1, <1>2 DEF CountersInv, Front
  <2>3. ASSUME NEW n \in fifo'.read_count .. fifo'.write_count - 1
        PROVE  content'[n % Depth] = sent'[n + 1]
    <3>1. n \in fifo.read_count .. fifo.write_count - 1
      BY <1>1, <1>2
    <3>. QED  BY <1>1, <3>1 DEF CountersInv
  <2>. QED  BY <1>2, <2>1, <2>2, <2>3 DEF CountersInv
<1>4. ReaderInv'
  BY DEF ReaderInv
<1>5. WriterInv'
  BY <1>1, <1>2 DEF WriterInv
<1>6. kind = "shm" => PreparedInv'
  BY <1>1, <1>2 DEF PreparedInv
<1>. QED  BY <1>2, <1>3, <1>4, <1>5, <1>6

\* fifo and shm: the processor is handed the first entry, which is popped after.
LEMMA PollSharedKeeps ==
    ASSUME LinkInv, PollSlot \/ PopSlot \/ DropSlot,
           UNCHANGED <<kind, wrapped, content, held, checked, sender, written, sent>>
    PROVE  LinkInv' /\ TakesInOrder
<1>1. Shared /\ pool' = pool /\ line' = line
  BY DEF PollSlot, PopSlot, DropSlot, Shared, device
<1>2. KindInv /\ CountersInv /\ ReaderInv /\ WriterInv /\ (kind = "fifo" => held = <<>>)
        /\ (kind = "shm" => PreparedInv)
  BY <1>1 DEF LinkInv, KindInv
<1>3. /\ HeldInv'
      /\ fifo' \in FifoType /\ receiver' \in Entry /\ taken' \in Seq(Received) => TypeInv'
      /\ Shared' = Shared
      /\ sent \in Seq(Frames) /\ taken \in Seq(Received) /\ Len(taken) \in Nat
      /\ fifo \in FifoType /\ Depth \in Nat
      /\ fifo.read_count \in Nat
  BY <1>1, ReceiverStep
<1>4. ASSUME TypeInv', CountersInv', ReaderInv', WriterInv', kind = "shm" => PreparedInv'
      PROVE  LinkInv'
  BY <1>1, <1>2, <1>3, <1>4 DEF LinkInv, KindInv, Shared
<1>5. Idle \in Entry /\ Idle.at = "idle"
  BY <1>3 DEF Idle, Entry, Null
<1>6. CASE PollSlot
  <2>. DEFINE b == FrontSlot(fifo)
  <2>1. /\ receiver.at = "idle" /\ ~ IsEmpty(fifo) /\ fifo' = fifo
        /\ receiver' = [at |-> "front", buf |-> b, frame |-> content[b]]
        /\ taken' = Append(taken, content[b])
    BY <1>5, <1>6 DEF PollSlot, Handed, device
  <2>2. /\ fifo.read_count < fifo.write_count
        /\ Len(taken) = fifo.read_count /\ Len(taken) < Len(sent)
        /\ content[b] = sent[Len(taken) + 1] /\ content[b] \in Contents /\ b \in FifoSlots
    BY <1>1, <2>1, FirstEntryIs
  <2>3. b = fifo.read_count % Depth
    BY DEF FrontSlot
  <2>. HIDE DEF b
  <2>4. taken' \in Seq(Received) /\ Len(taken') = Len(taken) + 1 /\ TakesInOrder
    BY <1>3, <2>1, <2>2, TakenIs DEF TakesInOrder
  <2>5. b \in 0 .. Depth
    BY <1>3, <2>2 DEF FifoSlots
  <2>6. receiver' \in Entry /\ receiver'.at = "front" /\ receiver'.buf = b
        /\ receiver'.frame = content[b]
    BY <2>1, <2>2, <2>5 DEF Entry, Contents
  <2>7. TypeInv'
    BY <1>3, <2>1, <2>4, <2>6
  <2>8. CountersInv'
    BY <1>2, <1>3, <2>1, <2>2, <2>4, <2>6 DEF CountersInv, Front
  <2>9. ReaderInv' /\ WriterInv' /\ (kind = "shm" => PreparedInv')
    BY <1>2, <2>1, <2>2, <2>3, <2>6 DEF ReaderInv, WriterInv, PreparedInv
  <2>. QED  BY <1>4, <2>4, <2>7, <2>8, <2>9
<1>7. CASE PopSlot
  <2>1. receiver.at = "front" /\ fifo' = Pop(fifo) /\ receiver' = Idle /\ taken' = taken
    BY <1>7 DEF PopSlot
  <2>2. fifo.read_count < fifo.write_count /\ Len(taken') = fifo.read_count + 1
    BY <1>2, <2>1 DEF ReaderInv, CountersInv, Front
  <2>3. /\ fifo' \in FifoType
        /\ CountersInv' /\ ReaderInv' /\ WriterInv' /\ (kind = "shm" => PreparedInv')
    BY <1>1, <1>5, <2>1, <2>2, PoppedIs
  <2>. QED  BY <1>3, <1>4, <1>5, <2>1, <2>3 DEF TakesInOrder
<1>8. CASE DropSlot
  <2>1. /\ receiver.at = "idle" /\ ~ IsEmpty(fifo) /\ fifo' = Pop(fifo) /\ receiver' = receiver
        /\ taken' = Append(taken, content[FrontSlot(fifo)])
    BY <1>5, <1>8 DEF DropSlot, Handed
  <2>2. /\ fifo.read_count < fifo.write_count
        /\ Len(taken) = fifo.read_count /\ Len(taken) < Len(sent)
        /\ content[FrontSlot(fifo)] = sent[Len(taken) + 1]
    BY <1>1, <2>1, FirstEntryIs
  <2>3. taken' \in Seq(Received) /\ Len(taken') = fifo.read_count + 1 /\ TakesInOrder
    BY <1>3, <2>1, <2>2, TakenIs DEF TakesInOrder
  <2>4. /\ fifo' \in FifoType
        /\ CountersInv' /\ ReaderInv' /\ WriterInv' /\ (kind = "shm" => PreparedInv')
    BY <1>1, <2>1, <2>2, <2>3, PoppedIs
  <2>5. receiver' \in Entry
    BY <2>1 DEF LinkInv, TypeInv
  <2>. QED  BY <1>3, <1>4, <2>3, <2>4, <2>5
<1>. QED  BY <1>6, <1>7, <1>8

\* list: the first packet is discarded.
LEMMA DiscardedIs ==
    ASSUME LinkInv, kind = "list", line # <<>>, line' = Tail(line),
           receiver'.at = "idle", Len(taken') = Len(taken) - Front + 1,
           UNCHANGED <<content, held, sender, sent>>
    PROVE  line' \in Seq(Entry) /\ ListInv'
<1>1. /\ ListInv /\ line \in Seq(Entry) /\ DOMAIN line = 1 .. Len(line)
      /\ Len(sent) \in Nat /\ Len(taken) \in Nat
  BY DEF LinkInv, KindInv, TypeInv
<1>2. /\ line' \in Seq(Entry) /\ Len(line) \in Nat \ {0} /\ Len(line') = Len(line) - 1
      /\ DOMAIN line' = 1 .. Len(line) - 1
      /\ \A i \in 1 .. Len(line) - 1 : line'[i] = line[i + 1]
  BY <1>1, TailIs
<1>3. Front \in Nat /\ Front' = 0 /\ Front <= Len(taken)
        /\ Len(taken) + Len(line) = Len(sent) + Front
  BY <1>1 DEF Front, ListInv
<1>4. ASSUME NEW i \in DOMAIN line'
      PROVE  /\ i + 1 \in DOMAIN line /\ line'[i] = line[i + 1]
             /\ content[line'[i].buf] = sent[Len(taken') - Front' + i]
  <2>1. i + 1 \in DOMAIN line /\ line'[i] = line[i + 1] /\ i \in Nat
    BY <1>1, <1>2
  <2>2. content[line[i + 1].buf] = sent[Len(taken) - Front + (i + 1)]
    BY <1>1, <2>1 DEF ListInv
  <2>3. Len(taken) - Front + (i + 1) = Len(taken') - Front' + i
    BY <1>1, <1>3, <2>1
  <2>. QED  BY <2>1, <2>2, <2>3
<1>5. ASSUME NEW i \in DOMAIN line', NEW j \in DOMAIN line', line'[i].buf = line'[j].buf
      PROVE  i = j
  <2>1. i + 1 = j + 1
    BY <1>1, <1>4, <1>5 DEF ListInv
  <2>. QED  BY <1>2, <2>1
<1>6. Len(taken') + Len(line') = Len(sent') + Front' /\ Front' <= Len(taken')
  BY <1>1, <1>2, <1>3
<1>. QED  BY <1>1, <1>2, <1>4, <1>5, <1>6 DEF ListInv

\* list: the processor is handed the first packet, which is discarded after.
LEMMA PollListKeeps ==
    ASSUME LinkInv, PollList \/ PopList \/ DropList,
           UNCHANGED <<kind, wrapped, content, held, checked, sender, written, sent>>
    PROVE  LinkInv' /\ TakesInOrder
<1>1. kind = "list" /\ fifo' = fifo /\ pool' = pool /\ ListInv
  BY DEF PollList, PopList, DropList, device, LinkInv, KindInv
<1>2. /\ HeldInv'
      /\ fifo' \in FifoType /\ line' \in Seq(Entry) /\ receiver' \in Entry
            /\ taken' \in Seq(Received) => TypeInv'
      /\ sent \in Seq(Frames) /\ Len(sent) \in Nat
      /\ taken \in Seq(Received) /\ Len(taken) \in Nat
      /\ line \in Seq(Entry) /\ Len(line) \in Nat /\ fifo \in FifoType /\ Depth \in Nat
  BY <1>1, ReceiverStep
<1>3. ASSUME line' \in Seq(Entry), receiver' \in Entry, taken' \in Seq(Received), ListInv'
      PROVE  LinkInv'
  BY <1>1, <1>2, <1>3 DEF LinkInv, KindInv, Shared
<1>4. Idle \in Entry /\ Idle.at = "idle"
  BY <1>2 DEF Idle, Entry, Null
<1>. DEFINE b == Head(line).buf
<1>5. ASSUME line # <<>>
      PROVE  b = line[1].buf /\ 1 \in DOMAIN line /\ b \in FifoSlots /\ b \in 0 .. Depth
  <2>1. b = line[1].buf /\ 1 \in DOMAIN line
    BY <1>2, <1>5, TailIs
  <2>2. b \in FifoSlots
    BY <1>1, <2>1 DEF ListInv
  <2>. HIDE DEF b
  <2>. QED  BY <1>2, <2>1, <2>2 DEF FifoSlots
<1>. HIDE DEF b
<1>6. ASSUME receiver.at = "idle", line # <<>>
      PROVE  /\ Front = 0 /\ Len(taken) < Len(sent)
             /\ content[b] = sent[Len(taken) + 1] /\ content[b] \in Contents
  <2>1. Front = 0
    BY <1>6 DEF Front
  <2>2. Len(taken) + Len(line) = Len(sent) /\ Len(line) > 0
    BY <1>1, <1>2, <1>6, <2>1, EmptySeq DEF ListInv
  <2>3. content[b] = sent[Len(taken) - 0 + 1]
    BY <1>1, <1>5, <1>6, <2>1 DEF ListInv
  <2>4. content[b] \in Contents
    BY <1>5, <1>6 DEF LinkInv, TypeInv
  <2>. QED  BY <1>2, <2>1, <2>2, <2>3, <2>4
<1>7. CASE PollList
  <2>1. /\ receiver.at = "idle" /\ line # <<>> /\ line' = line
        /\ receiver' = [at |-> "front", buf |-> b, frame |-> content[b]]
        /\ taken' = Append(taken, content[b])
    BY <1>4, <1>7 DEF PollList, Handed, device, b
  <2>2. /\ taken' \in Seq(Received) /\ Len(taken') = Len(taken) + 1 /\ TakesInOrder
    BY <1>2, <1>6, <2>1, TakenIs DEF TakesInOrder
  <2>3. receiver' \in Entry /\ receiver'.at = "front" /\ receiver'.buf = b
        /\ receiver'.frame = content[b]
    BY <1>5, <1>6, <2>1 DEF Entry, Contents
  <2>4. Front = 0 /\ Front' = 1 /\ Len(taken') - Front' = Len(taken) - Front
    BY <1>2, <1>6, <2>1, <2>2, <2>3 DEF Front
  <2>5. Len(taken') + Len(line') = Len(sent') + Front' /\ Front' <= Len(taken')
    <3>1. Len(taken) + Len(line) = Len(sent) + Front
      BY <1>1 DEF ListInv
    <3>2. line' = line /\ sent' = sent /\ Len(line) \in Nat /\ Len(sent) \in Nat
            /\ Len(taken) \in Nat
      BY <1>2, <2>1
    <3>. QED  BY <2>2, <2>4, <3>1, <3>2
  <2>6. \A i \in DOMAIN line' : content'[line'[i].buf] = sent'[Len(taken') - Front' + i]
    BY <1>1, <2>1, <2>4 DEF ListInv
  <2>7. ListInv'
    BY <1>1, <1>5, <2>1, <2>3, <2>5, <2>6 DEF ListInv
  <2>. QED  BY <1>2, <1>3, <2>1, <2>2, <2>3, <2>7
<1>8. CASE PopList
  <2>1. receiver.at = "front" /\ line' = Tail(line) /\ receiver' = Idle /\ taken' = taken
    BY <1>8 DEF PopList
  <2>2. line # <<>> /\ Front = 1
    BY <1>1, <2>1 DEF ListInv, Front
  <2>3. Len(taken') = Len(taken) - Front + 1
    BY <1>2, <2>1, <2>2
  <2>4. line' \in Seq(Entry) /\ ListInv'
    BY <1>1, <1>4, <2>1, <2>2, <2>3, DiscardedIs
  <2>. QED  BY <1>2, <1>3, <1>4, <2>1, <2>4 DEF TakesInOrder
<1>9. CASE DropList
  <2>1. /\ receiver.at = "idle" /\ line # <<>> /\ line' = Tail(line) /\ receiver' = receiver
        /\ taken' = Append(taken, content[b])
    BY <1>4, <1>9 DEF DropList, Handed, b
  <2>2. taken' \in Seq(Received) /\ Len(taken') = Len(taken) + 1 /\ TakesInOrder
    BY <1>2, <1>6, <2>1, TakenIs DEF TakesInOrder
  <2>3. Len(taken') = Len(taken) - Front + 1
    BY <1>2, <1>6, <2>1, <2>2
  <2>4. line' \in Seq(Entry) /\ ListInv'
    BY <1>1, <2>1, <2>3, DiscardedIs
  <2>5. receiver' \in Entry
    BY <2>1 DEF LinkInv, TypeInv
  <2>. QED  BY <1>3, <2>2, <2>4, <2>5
<1>. QED  BY <1>7, <1>8, <1>9

\* npipe: a length is read, and then the frame that follows it.
LEMMA PollPipeKeeps ==
    ASSUME LinkInv, PollPipe \/ PollLost,
           UNCHANGED <<kind, wrapped, content, held, checked, sender, written, sent>>
    PROVE  LinkInv' /\ TakesInOrder
<1>1. kind = "npipe" /\ fifo' = fifo /\ pool' = pool /\ PipeInv
  BY DEF PollPipe, PollLost, device, LinkInv, KindInv
<1>2. /\ HeldInv'
      /\ fifo' \in FifoType /\ line' \in Seq(Entry) /\ receiver' \in Entry
            /\ taken' \in Seq(Received) => TypeInv'
      /\ sent \in Seq(Frames) /\ taken \in Seq(Received) /\ line \in Seq(Entry)
      /\ fifo \in FifoType /\ Depth \in Nat
  BY <1>1, ReceiverStep
<1>3. Len(sent) \in Nat /\ Len(taken) \in Nat /\ Len(line) \in Nat
  BY <1>2
<1>4. ASSUME line' \in Seq(Entry), receiver' \in Entry, taken' \in Seq(Received), PipeInv'
      PROVE  LinkInv'
  BY <1>1, <1>2, <1>4 DEF LinkInv, KindInv, Shared
<1>. DEFINE To(a) == [Idle EXCEPT !.at = a]
<1>5. /\ Idle \in Entry /\ Idle.at = "idle"
      /\ To("length") \in Entry /\ To("length").at = "length"
      /\ To("lost") \in Entry /\ To("lost").at = "lost"
  BY <1>2 DEF Idle, Entry, Null
<1>6. CASE PollLost
  <2>1. receiver' = To("lost") /\ line' = line /\ taken' = taken
    BY <1>6 DEF PollLost, device
  <2>2. PipeInv'
    BY <1>1, <1>5, <2>1 DEF PipeInv
  <2>. QED  BY <1>2, <1>4, <1>5, <2>1, <2>2 DEF TakesInOrder
<1>7. CASE PollPipe
  <2>1. line # <<>> /\ line' = Tail(line)
    BY <1>7 DEF PollPipe
  <2>2. /\ line' \in Seq(Entry) /\ Len(line) \in Nat \ {0} /\ Len(line') = Len(line) - 1
        /\ \A i \in 1 .. Len(line) - 1 : line'[i] = line[i + 1]
        /\ Head(line) = line[1]
    BY <1>2, <2>1, TailIs
  <2>. DEFINE w == Len(sent) - Len(taken)
  <2>3. ASSUME receiver.at \in {"idle", "length"}
        PROVE  /\ w \in Nat
               /\ Len(line) + Half \in {2 * w, 2 * w + 1}
               /\ sender.at = "idle" => Len(line) + Half = 2 * w
               /\ sender.at = "payload" => Len(line) + Half = 2 * w + 1
               /\ \A n \in 1 .. w : line[2 * n - Half].frame = sent[Len(taken) + n]
    BY <1>1, <1>3, <2>3 DEF PipeInv
  <2>4. CASE receiver = Idle /\ receiver' = To("length") /\ taken' = taken
    <3>1. Half = 0 /\ Half' = 1 /\ receiver.at = "idle" /\ receiver'.at = "length"
      BY <1>5, <2>4 DEF Half
    <3>2. /\ Len(line) \in {2 * w, 2 * w + 1} /\ w \in Nat
          /\ sender.at = "idle" => Len(line) = 2 * w
          /\ sender.at = "payload" => Len(line) = 2 * w + 1
          /\ \A n \in 1 .. w : line[2 * n].frame = sent[Len(taken) + n]
      <4>1. /\ Len(line) + 0 \in {2 * w, 2 * w + 1} /\ w \in Nat
            /\ sender.at = "idle" => Len(line) + 0 = 2 * w
            /\ sender.at = "payload" => Len(line) + 0 = 2 * w + 1
            /\ \A n \in 1 .. w : line[2 * n - 0].frame = sent[Len(taken) + n]
        BY <2>3, <3>1
      <4>2. \A n \in 1 .. w : 2 * n - 0 = 2 * n
        BY <4>1
      <4>. QED  BY <2>2, <4>1, <4>2
    <3>3. Len(line') + Half' = Len(line)
      BY <2>2, <3>1
    <3>4. ASSUME NEW n \in 1 .. w
          PROVE  line'[2 * n - Half'].frame = sent[Len(taken) + n]
      <4>1. 2 * n - 1 \in 1 .. Len(line) - 1 /\ (2 * n - 1) + 1 = 2 * n
        BY <2>2, <3>2
      <4>. QED  BY <2>2, <3>1, <3>2, <4>1
    <3>5. Len(taken) <= Len(sent)
      BY <1>3, <3>2
    <3>6. PipeInv'
      BY <1>1, <2>4, <3>1, <3>2, <3>3, <3>4, <3>5 DEF PipeInv
    <3>. QED  BY <1>2, <1>4, <1>5, <2>2, <2>4, <3>6 DEF TakesInOrder
  <2>5. CASE /\ receiver.at = "length" /\ receiver' = Idle
             /\ taken' = Append(taken, Head(line).frame)
    <3>1. Half = 1 /\ Half' = 0 /\ receiver'.at = "idle"
      BY <1>5, <2>5 DEF Half
    <3>2. /\ Len(line) + 1 \in {2 * w, 2 * w + 1} /\ w \in Nat
          /\ sender.at = "idle" => Len(line) + 1 = 2 * w
          /\ sender.at = "payload" => Len(line) + 1 = 2 * w + 1
          /\ \A n \in 1 .. w : line[2 * n - 1].frame = sent[Len(taken) + n]
      BY <2>3, <2>5, <3>1
    <3>3. w >= 1
      BY <2>2, <3>2
    <3>4. Len(taken) < Len(sent) /\ Head(line).frame = sent[Len(taken) + 1]
      <4>1. 1 \in 1 .. w /\ 2 * 1 - 1 = 1 /\ Len(taken) < Len(sent)
        BY <1>3, <3>2, <3>3
      <4>2. line[2 * 1 - 1].frame = sent[Len(taken) + 1]
        BY <3>2, <4>1
      <4>. QED  BY <2>2, <4>1, <4>2
    <3>5. taken' \in Seq(Received) /\ Len(taken') = Len(taken) + 1 /\ TakesInOrder
      BY <1>2, <2>5, <3>4, TakenIs DEF TakesInOrder
    <3>6. Len(sent') - Len(taken') = w - 1 /\ Len(taken') <= Len(sent')
      BY <1>3, <3>4, <3>5
    <3>7. /\ Len(line') + Half' \in {2 * (w - 1), 2 * (w - 1) + 1}
          /\ sender.at = "idle" => Len(line') + Half' = 2 * (w - 1)
          /\ sender.at = "payload" => Len(line') + Half' = 2 * (w - 1) + 1
      BY <2>2, <3>1, <3>2
    <3>8. ASSUME NEW n \in 1 .. w - 1
          PROVE  line'[2 * n - Half'].frame = sent'[Len(taken') + n]
      <4>1. /\ 2 * n - 0 \in 1 .. Len(line) - 1 /\ (2 * n - 0) + 1 = 2 * (n + 1) - 1
            /\ n + 1 \in 1 .. w
        BY <2>2, <3>2
      <4>2. Len(taken') + n = Len(taken) + (n + 1)
        BY <1>3, <3>5
      <4>. QED  BY <2>2, <3>1, <3>2, <4>1, <4>2
    <3>. HIDE DEF w
    <3>9. PipeInv'
      BY <1>1, <3>1, <3>6, <3>7, <3>8 DEF PipeInv
    <3>. QED  BY <1>2, <1>4, <1>5, <2>2, <2>5, <3>5, <3>9
  <2>. QED  BY <1>7, <2>4, <2>5 DEF PollPipe, Handed
<1>. QED  BY <1>6, <1>7

\* tap: the first frame of the descriptor is read.  If it fits it is not cut off.
LEMMA PollTapKeeps ==
    ASSUME LinkInv, PollTap,
           UNCHANGED <<kind, wrapped, content, held, checked, sender, written, sent>>
    PROVE  LinkInv' /\ (FramesFit => TakesInOrder)
<1>. DEFINE cut == [Head(line).frame EXCEPT !.len = IF @ > Mtu THEN Mtu ELSE @]
<1>1. /\ kind = "tap" /\ fifo' = fifo /\ pool' = pool /\ TapInv /\ line # <<>>
      /\ taken' = Append(taken, cut) /\ line' = Tail(line) /\ receiver' = receiver
  BY DEF PollTap, Handed, LinkInv, KindInv
<1>2. /\ HeldInv'
      /\ fifo' \in FifoType /\ line' \in Seq(Entry) /\ receiver' \in Entry
            /\ taken' \in Seq(Received) => TypeInv'
      /\ sent \in Seq(Frames) /\ taken \in Seq(Received) /\ line \in Seq(Entry)
      /\ fifo \in FifoType /\ receiver \in Entry
  BY <1>1, ReceiverStep DEF LinkInv, TypeInv
<1>3. Len(sent) \in Nat /\ Len(taken) \in Nat
  BY <1>2
<1>4. /\ line' \in Seq(Entry) /\ Len(line) \in Nat \ {0} /\ Len(line') = Len(line) - 1
      /\ DOMAIN line' = 1 .. Len(line) - 1 /\ DOMAIN line = 1 .. Len(line)
      /\ \A i \in 1 .. Len(line) - 1 : line'[i] = line[i + 1]
      /\ Head(line) = line[1]
  BY <1>1, <1>2, TailIs
<1>5. Len(sent) = Len(taken) + Len(line) /\ Len(taken) < Len(sent)
  BY <1>1, <1>3, <1>4 DEF TapInv
<1>6. Head(line).frame = sent[Len(taken) + 1] /\ sent[Len(taken) + 1] \in Frames
  <2>1. 1 \in DOMAIN line /\ Len(taken) + 1 \in 1 .. Len(sent)
    BY <1>3, <1>4, <1>5
  <2>2. line[1].frame = sent[Len(taken) + 1]
    BY <1>1, <2>1 DEF TapInv
  <2>. QED  BY <1>2, <1>4, <2>1, <2>2
<1>7. PICK f \in Frames : f = Head(line).frame
  BY <1>6
<1>8. f = [id |-> f.id, len |-> f.len] /\ f.id \in Nat /\ f.len \in FrameLens
        /\ f.len \in Nat /\ Mtu \in Nat
  <2>1. f = [id |-> f.id, len |-> f.len] /\ f.id \in Nat /\ f.len \in FrameLens
    BY DEF Frames
  <2>. QED  BY <2>1, TransportsAssumption
<1>9. cut = [id |-> f.id, len |-> IF f.len > Mtu THEN Mtu ELSE f.len]
  BY <1>7, <1>8
<1>10. cut \in Received
  BY <1>8, <1>9 DEF Received
<1>11. ASSUME FramesFit
       PROVE  cut = sent[Len(taken) + 1]
  <2>1. ~ (f.len > Mtu)
    BY <1>8, <1>11 DEF FramesFit
  <2>. QED  BY <1>6, <1>7, <1>8, <1>9, <2>1
<1>. HIDE DEF cut
<1>12. taken' \in Seq(Received) /\ Len(taken') = Len(taken) + 1
  BY <1>1, <1>2, <1>10, AppendIs
<1>13. TypeInv'
  BY <1>1, <1>2, <1>4, <1>12
<1>14. ASSUME NEW i \in DOMAIN line'
       PROVE  line'[i].frame = sent'[Len(taken') + i]
  <2>1. i + 1 \in DOMAIN line /\ line'[i] = line[i + 1]
    BY <1>4
  <2>2. Len(taken') + i = Len(taken) + (i + 1)
    BY <1>3, <1>4, <1>12
  <2>. QED  BY <1>1, <2>1, <2>2 DEF TapInv
<1>15. Len(sent') = Len(taken') + Len(line')
  BY <1>3, <1>4, <1>5, <1>12
<1>16. TapInv'
  BY <1>1, <1>14, <1>15 DEF TapInv
<1>. QED  BY <1>1, <1>2, <1>5, <1>11, <1>13, <1>16 DEF LinkInv, KindInv, Shared, TakesInOrder

\* Every step of poll() and drop().
LEMMA PollKeeps ==
    ASSUME LinkInv, Poll \/ Drop
    PROVE  /\ LinkInv' /\ UNCHANGED sent
           /\ FramesFit => TakesInOrder
<1>1. UNCHANGED <<kind, wrapped, content, held, checked, sender, written, sent>>
  BY DEF Poll, Drop
<1>2. CASE PollSlot \/ PopSlot \/ DropSlot
  BY <1>1, <1>2, PollSharedKeeps
<1>3. CASE PollList \/ PopList \/ DropList
  BY <1>1, <1>3, PollListKeeps
<1>4. CASE PollPipe \/ PollLost
  BY <1>1, <1>4, PollPipeKeeps
<1>5. CASE PollTap
  BY <1>1, <1>5, PollTapKeeps
<1>. QED  BY <1>1, <1>2, <1>3, <1>4, <1>5 DEF Poll, Drop

\* npipe: when a process ends, what was sent before can still be read in order.
LEMMA ProcessEndsKeeps ==
    ASSUME LinkInv, ProcessEnds
    PROVE  LinkInv' /\ UNCHANGED <<sent, taken>>
<1>1. /\ kind = "npipe"
      /\ UNCHANGED <<kind, wrapped, fifo, pool, line, content, held, checked, written, sent, taken>>
  BY DEF ProcessEnds, device
<1>2. TypeInv /\ HeldInv /\ PipeInv /\ Depth \in Nat
  BY <1>1, FifoAssumption DEF LinkInv, KindInv
<1>3. HeldInv'
  BY <1>1, <1>2 DEF HeldInv
<1>. DEFINE g == [Idle EXCEPT !.at = "gone"]
<1>4. g \in Entry /\ g.at = "gone"
  BY <1>2 DEF Idle, Entry, Null
<1>. HIDE DEF g
<1>5. CASE sender.at \in {"idle", "payload"} /\ sender' = g /\ receiver' = receiver
  <2>1. TypeInv'
    BY <1>1, <1>2, <1>4, <1>5 DEF TypeInv
  <2>2. PipeInv'
    BY <1>1, <1>2, <1>4, <1>5 DEF PipeInv, Half
  <2>. QED  BY <1>1, <1>3, <2>1, <2>2 DEF LinkInv, KindInv, Shared
<1>6. CASE receiver' = g /\ sender' = sender
  <2>1. TypeInv'
    BY <1>1, <1>2, <1>4, <1>6 DEF TypeInv
  <2>2. PipeInv'
    BY <1>1, <1>2, <1>4, <1>6 DEF PipeInv
  <2>. QED  BY <1>1, <1>3, <2>1, <2>2 DEF LinkInv, KindInv, Shared
<1>. QED  BY <1>5, <1>6 DEF ProcessEnds, g

-----------------------------------------------------------------------------
(***************************************************************************)
(* The theorems.                                                           *)
(***************************************************************************)

\* A new link carries nothing, and its pool has every buffer once.
LEMMA InitIsLinkInv == Init => LinkInv
<1>. SUFFICES ASSUME Init
              PROVE  LinkInv
  OBVIOUS
<1>1. /\ kind \in Kinds /\ wrapped \in BOOLEAN /\ fifo = NewFifo
      /\ content = [b \in FifoSlots \cup {Null} |-> Blank]
      /\ pool = (IF kind = "tap" THEN NewPool ELSE <<>>)
      /\ line = <<>> /\ held = <<>> /\ checked = Null /\ sender = Idle /\ receiver = Idle
      /\ written = 0 /\ sent = <<>> /\ taken = <<>>
      /\ Depth \in Nat /\ MaxFrames \in Nat
  BY FifoAssumption, TransportsAssumption DEF Init
<1>2. fifo \in FifoType /\ fifo.read_count = 0 /\ fifo.write_count = 0 /\ fifo.prepare_count = 0
  BY <1>1 DEF FifoType, NewFifo
<1>3. Idle \in Entry /\ Idle.at = "idle"
  BY <1>1 DEF Idle, Entry, Null
<1>4. /\ NewPool \in Seq(FifoSlots) /\ DOMAIN NewPool = 1 .. Depth
      /\ \A i \in 1 .. Depth : NewPool[i] = i - 1
  BY <1>1 DEF NewPool, FifoSlots
<1>5. content \in [FifoSlots \cup {Null} -> Contents]
  BY <1>1 DEF Contents
<1>6. /\ Len(held) = 0 /\ held \in Seq(HeldEntry) /\ DOMAIN held = {}
      /\ Len(line) = 0 /\ line \in Seq(Entry) /\ DOMAIN line = {}
      /\ Len(sent) = 0 /\ sent \in Seq(Frames)
      /\ Len(taken) = 0 /\ taken \in Seq(Received)
  BY <1>1
<1>7. TypeInv
  <2>1. pool \in Seq(FifoSlots)
    BY <1>1, <1>4
  <2>2. wrapped \in BOOLEAN /\ checked \in 0 .. Depth /\ written \in 0 .. MaxFrames
    BY <1>1 DEF Null
  <2>. QED  BY <1>1, <1>2, <1>3, <1>5, <1>6, <2>1, <2>2 DEF TypeInv
<1>8. HeldInv
  BY <1>6 DEF HeldInv
<1>9. CountersInv /\ ReaderInv /\ WriterInv /\ PreparedInv
  BY <1>1, <1>2, <1>3, <1>6 DEF CountersInv, ReaderInv, WriterInv, PreparedInv, Front
<1>10. ListInv
  BY <1>1, <1>3, <1>6 DEF ListInv, Front
<1>11. PipeInv
  BY <1>1, <1>3, <1>6 DEF PipeInv, Half
<1>12. kind = "tap" => TapInv
  <2>. SUFFICES ASSUME kind = "tap"
                PROVE  TapInv
    OBVIOUS
  <2>1. pool = NewPool
    BY <1>1
  <2>2. \A i, j \in DOMAIN pool : pool[i] = pool[j] => i = j
    BY <1>1, <1>4, <2>1
  <2>. QED  BY <1>1, <1>3, <1>6, <2>2 DEF TapInv
<1>. QED  BY <1>1, <1>7, <1>8, <1>9, <1>10, <1>11, <1>12 DEF LinkInv, KindInv

\* Every step keeps the invariant, adds at most one frame to those that were sent, and
\* takes the frames in their order.
LEMMA StepKeepsLinkInv ==
    ASSUME LinkInv, OneAtATime, Next
    PROVE  /\ LinkInv'
           /\ \/ UNCHANGED taken /\ \E f \in Frames : sent' = Append(sent, f)
              \/ UNCHANGED sent /\ (FramesFit => TakesInOrder)
<1>1. CASE PrepareBuffer
  BY <1>1, PrepareKeeps DEF PrepareBuffer, TakesInOrder
<1>2. ASSUME NEW i \in DOMAIN held, CommitBuffer(i)
      PROVE  /\ LinkInv' /\ UNCHANGED taken
             /\ (UNCHANGED sent \/ \E f \in Frames : sent' = Append(sent, f))
  <2>1. UNCHANGED taken
    BY <1>2 DEF CommitBuffer
  <2>. QED  BY <1>2, <2>1, CommitKeeps
<1>3. ASSUME NEW i \in DOMAIN held, NEW len \in FrameLens, Write(i, len)
      PROVE  LinkInv' /\ UNCHANGED <<sent, taken>>
  <2>1. UNCHANGED <<sent, taken>>
    BY <1>3 DEF Write
  <2>. QED  BY <1>3, <2>1, WriteKeeps
<1>4. ASSUME NEW len \in FrameLens, Push(len)
      PROVE  LinkInv' /\ UNCHANGED <<sent, taken>>
  <2>1. UNCHANGED <<sent, taken>>
    BY <1>4 DEF Push
  <2>. QED  BY <1>4, <2>1, PushKeeps
<1>5. CASE PublishSlot
  <2>1. UNCHANGED taken
    BY <1>5 DEF PublishSlot
  <2>. QED  BY <1>5, <2>1, PublishKeeps
<1>6. CASE WritePayload
  <2>1. UNCHANGED taken
    BY <1>6 DEF WritePayload
  <2>. QED  BY <1>6, <2>1, PayloadKeeps DEF TakesInOrder
<1>7. CASE Poll \/ Drop
  BY <1>7, PollKeeps
<1>8. CASE ProcessEnds
  BY <1>8, ProcessEndsKeeps DEF TakesInOrder
<1>. QED  BY <1>1, <1>2, <1>3, <1>4, <1>5, <1>6, <1>7, <1>8 DEF Next, TakesInOrder

\* Stuttering steps keep it.
LEMMA SameLinkInv ==
    ASSUME LinkInv, UNCHANGED vars
    PROVE  LinkInv'
<1>1. /\ UNCHANGED <<kind, wrapped, fifo, pool, line, content, held, checked, sender, receiver,
                     written, sent, taken>>
  BY DEF vars, device, ends
<1>2. TypeInv'
  BY <1>1 DEF LinkInv, TypeInv
<1>3. HeldInv'
  BY <1>1 DEF LinkInv, HeldInv
<1>4. (CountersInv' <=> CountersInv) /\ (ReaderInv' <=> ReaderInv) /\ (WriterInv' <=> WriterInv)
        /\ (PreparedInv' <=> PreparedInv) /\ (ListInv' <=> ListInv) /\ (TapInv' <=> TapInv)
  BY <1>1 DEF CountersInv, ReaderInv, WriterInv, PreparedInv, ListInv, TapInv, Front
<1>5. PipeInv' <=> PipeInv
  BY <1>1 DEF PipeInv, Half
<1>. QED  BY <1>1, <1>2, <1>3, <1>4, <1>5 DEF LinkInv, KindInv, Shared

\* The invariant holds of every link.
THEOREM LinkInvariant ==
    ASSUME OneAtATime
    PROVE  Spec => []LinkInv
<1>1. LinkInv /\ [Next]_vars => LinkInv'
  BY StepKeepsLinkInv, SameLinkInv
<1>. QED  BY InitIsLinkInv, <1>1, PTL DEF Spec

\* The frame that the processor is handed in place stays as it is until the entry is
\* popped: by poll() of fifo, shm and list, whatever the sender does meanwhile.
THEOREM FrontStays ==
    ASSUME OneAtATime
    PROVE  Spec => []FrontIsStable
<1>1. LinkInv => FrontIsStable
  BY TransportsAssumption
     DEF LinkInv, KindInv, TypeInv, Shared, ReaderInv, ListInv, PipeInv, TapInv, FrontIsStable
<1>. QED  BY LinkInvariant, <1>1, PTL

\* Every device gives the frames that commit() accepted to the processor of the other
\* end once, unchanged and in order.
THEOREM DevicesAreLinks ==
    ASSUME OneAtATime, FramesFit
    PROVE  Spec => ImplementsLink
<1>1. Init => L!Init
  BY DEF Init, L!Init
<1>2. LinkInv /\ [Next]_vars => [L!Next]_L!vars
  <2>. SUFFICES ASSUME LinkInv, [Next]_vars
                PROVE  [L!Next]_L!vars
    OBVIOUS
  <2>1. CASE Next
    BY <2>1, StepKeepsLinkInv DEF TakesInOrder, L!Next, L!Send, L!Take, L!vars
  <2>2. CASE UNCHANGED vars
    BY <2>2 DEF vars, L!vars
  <2>. QED  BY <2>1, <2>2
<1>. QED  BY LinkInvariant, <1>1, <1>2, PTL DEF Spec, ImplementsLink, L!Spec
=============================================================================
