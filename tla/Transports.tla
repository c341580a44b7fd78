----------------------------- MODULE Transports -----------------------------
(***************************************************************************)
(* One direction of a link between two devices: the stack of the sender    *)
(* prepares buffers, writes frames into them and commits them; the loop of *)
(* the receiver polls.  The link is one of                                 *)
(*   fifo   a FIFO used directly, with push()                              *)
(*   shm    the shared-memory device over a FIFO                           *)
(*   list   the device over a list of packets                              *)
(*   npipe  the device over named pipes, two processes                     *)
(*   tap    the device over a TAP descriptor and its pool of buffers       *)
(* and may be wrapped by the erase and check devices.  Sender and receiver *)
(* interleave at every access to what they share.  Stores of one thread    *)
(* are seen by the other in program order, as on x86.                      *)
(***************************************************************************)
EXTENDS Fifo, Sequences

CONSTANTS
    Kinds,          \* the links in question
    Asynchronous,   \* those whose callers prepare several buffers at a time
    MaxHeld,        \* the number of buffers such a caller holds at most
    FrameLens,      \* lengths of frames
    Mtu,            \* m_mtu of the TAP device
    MaxFrames,      \* bound: frames that the sender writes
    MaxFaults       \* bound: failures of write() and processes that end

ASSUME TransportsAssumption ==
    /\ Kinds \subseteq {"fifo", "shm", "list", "npipe", "tap"}
    /\ MaxHeld \in Nat \ {0}
    /\ FrameLens \subseteq Nat \ {0}
    /\ Mtu \in Nat
    /\ MaxFrames \in Nat /\ MaxFaults \in Nat

VARIABLES
    kind,           \* the link
    wrapped,        \* is the sender's device wrapped by erase and check?
    fifo,           \* fifo, shm: the counters
    content,        \* what each buffer or slot holds
    pool,           \* tap: m_buffers
    line,           \* list, npipe, tap: what is on its way
    held,           \* the buffers the sender prepared, oldest first
    checked,        \* check: m_buffer
    sender,         \* where the sender is in an operation
    receiver,       \* where the receiver is in one
    written,        \* how many frames were written
    faults,         \* how many failures there were
    sent,           \* history: the frames that commit() accepted
    taken           \* history: the frames handed to the processor

device == <<fifo, pool, line>>
ends == <<held, checked, sender, receiver>>
vars == <<kind, wrapped, device, content, ends, written, faults, sent, taken>>

Frames == [id : 1 .. MaxFrames, len : FrameLens]
Blank == [id |-> 0, len |-> 0]
Null == Depth
Idle == [at |-> "idle", buf |-> Null, frame |-> Blank]
Shared == kind \in {"fifo", "shm"}

\* tap: the buffers that the constructor allocates.
NewPool == [i \in 1 .. Depth |-> i - 1]

Init ==
    /\ kind \in Kinds
    /\ wrapped \in (IF kind = "fifo" THEN {FALSE} ELSE BOOLEAN)
    /\ fifo = NewFifo
    /\ content = [b \in FifoSlots \cup {Null} |-> Blank]
    /\ pool = IF kind = "tap" THEN NewPool ELSE <<>>
    /\ line = <<>>
    /\ held = <<>>
    /\ checked = Null
    /\ sender = Idle
    /\ receiver = Idle
    /\ written = 0 /\ faults = 0
    /\ sent = <<>> /\ taken = <<>>

-----------------------------------------------------------------------------
(***************************************************************************)
(* The sender.                                                             *)
(***************************************************************************)
Fits == Len(held) < IF kind \in Asynchronous THEN MaxHeld ELSE 1

\* erase: a buffer that is granted is blank.
Erased(b) == [content EXCEPT ![b] = Blank]

\* prepare() of the wrapped device, and of erase and check around it.
Granted(b) ==
    /\ held' = Append(held, [buf |-> b, frame |-> Blank])
    /\ content' = IF wrapped THEN Erased(b) ELSE content
    /\ checked' = IF wrapped THEN b ELSE checked

\* Mutation: the counter of the prepared slots stays where it is.
PrepareShmUncounted ==
    /\ kind = "shm" /\ ~ MustCommit(fifo)
    /\ Granted(PrepareSlot(fifo))
    /\ UNCHANGED device

\* shm: the test is full() and the result of the FIFO's prepare is not looked
\* at, so that with every slot prepared the buffer is no buffer.
PrepareShm ==
    /\ kind = "shm" /\ ~ IsFull(fifo)
    /\ Granted(IF MustCommit(fifo) THEN Null ELSE PrepareSlot(fifo))
    /\ fifo' = Prepare(fifo)
    /\ UNCHANGED <<pool, line>>

\* list: a packet is allocated.
InUse == {held[i].buf : i \in DOMAIN held} \cup {line[i].buf : i \in DOMAIN line}
            \cup {receiver.buf}

PrepareList ==
    /\ kind = "list"
    /\ \E b \in FifoSlots \ InUse : Granted(b)
    /\ UNCHANGED device

\* npipe: the device has one buffer and hands it out each time.
PreparePipe ==
    /\ kind = "npipe"
    /\ Granted(0)
    /\ UNCHANGED device

PrepareTap ==
    /\ kind = "tap" /\ pool # <<>>
    /\ Granted(Head(pool))
    /\ pool' = Tail(pool)
    /\ UNCHANGED <<fifo, line>>

PrepareBuffer ==
    /\ sender = Idle /\ Fits /\ written < MaxFrames
    /\ PrepareShm \/ PrepareList \/ PreparePipe \/ PrepareTap
    /\ UNCHANGED <<kind, wrapped, sender, receiver, written, faults, sent, taken>>

\* The stack writes a frame into a buffer it holds.
Write(i, len) ==
    LET f == [id |-> written + 1, len |-> len] IN
    /\ sender = Idle /\ written < MaxFrames /\ held[i].frame = Blank
    /\ held' = [held EXCEPT ![i].frame = f]
    /\ content' = [content EXCEPT ![held[i].buf] = f]
    /\ written' = written + 1
    /\ UNCHANGED <<kind, wrapped, device, checked, sender, receiver, faults, sent, taken>>

Remove(i) == SubSeq(held, 1, i - 1) \o SubSeq(held, i + 1, Len(held))

Accepted(e) == sent' = Append(sent, e.frame)

\* check: commit() looks at the buffer that was prepared last and throws if it
\* is empty.
Throws == wrapped /\ content[checked] = Blank

CommitThrows(e) ==
    /\ Throws
    /\ sender' = [Idle EXCEPT !.at = "thrown"]
    /\ UNCHANGED <<device, faults, sent>>

\* shm: the length is stored first and the slot published after.
CommitShm(e) ==
    /\ kind = "shm" /\ ~ Throws
    /\ sender' = [at |-> "publish", buf |-> e.buf, frame |-> e.frame]
    /\ UNCHANGED <<device, faults, sent>>

CommitList(e) ==
    /\ kind = "list" /\ ~ Throws
    /\ line' = Append(line, [at |-> "packet", buf |-> e.buf, frame |-> Blank])
    /\ Accepted(e)
    /\ UNCHANGED <<fifo, pool, sender, faults>>

\* npipe: the length and the frame are two writes, that fail with EPIPE when the
\* reader is gone.
CommitPipe(e) ==
    /\ kind = "npipe" /\ ~ Throws
    /\ IF receiver.at = "gone"
       THEN sender' = [Idle EXCEPT !.at = "lost"] /\ UNCHANGED line
       ELSE /\ line' = Append(line, [Idle EXCEPT !.at = "length"])
            /\ sender' = [at |-> "payload", buf |-> e.buf, frame |-> e.frame]
    /\ UNCHANGED <<fifo, pool, faults, sent>>

\* tap: a buffer whose write failed does not come back to the pool.
CommitTap(e) ==
    /\ kind = "tap" /\ ~ Throws
    /\ \/ /\ line' = Append(line, [at |-> "packet", buf |-> Null, frame |-> content[e.buf]])
          /\ pool' = Append(pool, e.buf)
          /\ Accepted(e)
          /\ UNCHANGED faults
       \/ /\ faults < MaxFaults
          /\ faults' = faults + 1
          /\ UNCHANGED <<pool, line, sent>>
    /\ UNCHANGED <<fifo, sender>>

CommitBuffer(i) ==
    /\ sender = Idle /\ held[i].frame # Blank
    /\ \/ CommitThrows(held[i]) \/ CommitShm(held[i]) \/ CommitList(held[i])
       \/ CommitPipe(held[i]) \/ CommitTap(held[i])
    /\ held' = Remove(i)
    /\ UNCHANGED <<kind, wrapped, content, checked, receiver, written, taken>>

\* fifo: push() copies the data into the slot and publishes it after.
Push(len) ==
    LET f == [id |-> written + 1, len |-> len] IN
    /\ kind = "fifo" /\ sender = Idle /\ written < MaxFrames
    /\ ~ IsFull(fifo)
    /\ content' = [content EXCEPT ![PushSlot(fifo)] = f]
    /\ sender' = [at |-> "publish", buf |-> PushSlot(fifo), frame |-> f]
    /\ written' = written + 1
    /\ UNCHANGED <<kind, wrapped, device, held, checked, receiver, faults, sent, taken>>

\* The counter is increased: after a push(), or by the commit() of shm.
PublishSlot ==
    /\ sender.at = "publish"
    /\ fifo' = IF kind = "shm" THEN Commit(fifo) ELSE Publish(fifo)
    /\ Accepted(sender)
    /\ sender' = Idle
    /\ UNCHANGED <<kind, wrapped, pool, line, content, held, checked, receiver, written,
                   faults, taken>>

\* npipe: the second write.
WritePayload ==
    /\ sender.at = "payload"
    /\ IF receiver.at = "gone"
       THEN sender' = [Idle EXCEPT !.at = "lost"] /\ UNCHANGED <<line, sent>>
       ELSE /\ line' = Append(line, [at |-> "frame", buf |-> Null,
                                     frame |-> content[sender.buf]])
            /\ Accepted(sender)
            /\ sender' = Idle
    /\ UNCHANGED <<kind, wrapped, fifo, pool, content, held, checked, receiver, written,
                   faults, taken>>

-----------------------------------------------------------------------------
(***************************************************************************)
(* The receiver: poll(), or wait(), which differs in looking twice.        *)
(***************************************************************************)
Handed(f) == taken' = Append(taken, f)

\* Mutation: the entry is popped before it is processed.
PollSlotPops ==
    /\ Shared /\ receiver = Idle /\ ~ IsEmpty(fifo)
    /\ receiver' = [at |-> "front", buf |-> FrontSlot(fifo), frame |-> content[FrontSlot(fifo)]]
    /\ Handed(content[FrontSlot(fifo)])
    /\ fifo' = Pop(fifo)
    /\ UNCHANGED <<pool, line>>

\* The processor is handed the entry in place, and it is popped after.
PollSlot ==
    /\ Shared /\ receiver = Idle /\ ~ IsEmpty(fifo)
    /\ receiver' = [at |-> "front", buf |-> FrontSlot(fifo), frame |-> content[FrontSlot(fifo)]]
    /\ Handed(content[FrontSlot(fifo)])
    /\ UNCHANGED device

PopSlot ==
    /\ Shared /\ receiver.at = "front"
    /\ fifo' = Pop(fifo)
    /\ receiver' = Idle
    /\ UNCHANGED <<pool, line, taken>>

\* drop() of shm and of list discards the first frame.
DropSlot ==
    /\ kind = "shm" /\ receiver = Idle /\ ~ IsEmpty(fifo)
    /\ fifo' = Pop(fifo)
    /\ Handed(content[FrontSlot(fifo)])
    /\ UNCHANGED <<pool, line, receiver>>

PollList ==
    /\ kind = "list" /\ receiver = Idle /\ line # <<>>
    /\ receiver' = [at |-> "front", buf |-> Head(line).buf, frame |-> content[Head(line).buf]]
    /\ Handed(content[Head(line).buf])
    /\ UNCHANGED device

PopList ==
    /\ kind = "list" /\ receiver.at = "front"
    /\ line' = Tail(line)
    /\ receiver' = Idle
    /\ UNCHANGED <<fifo, pool, taken>>

DropList ==
    /\ kind = "list" /\ receiver = Idle /\ line # <<>>
    /\ line' = Tail(line)
    /\ Handed(content[Head(line).buf])
    /\ UNCHANGED <<fifo, pool, receiver>>

\* Mutation: a frame that is not there yet is not waited for.
PollPipeGivesUp ==
    /\ kind = "npipe"
    /\ \/ receiver = Idle /\ line # <<>> /\ receiver' = [Idle EXCEPT !.at = "length"]
          /\ line' = Tail(line) /\ UNCHANGED taken
       \/ receiver.at = "length" /\ line = <<>> /\ receiver' = Idle
          /\ UNCHANGED <<line, taken>>
       \/ receiver.at = "length" /\ line # <<>> /\ receiver' = Idle /\ Handed(Head(line).frame)
          /\ line' = Tail(line)
    /\ UNCHANGED <<fifo, pool>>

\* npipe: the length is read, and then the frame, for which poll() spins.
PollPipe ==
    /\ kind = "npipe" /\ line # <<>>
    /\ \/ receiver = Idle /\ receiver' = [Idle EXCEPT !.at = "length"] /\ UNCHANGED taken
       \/ receiver.at = "length" /\ receiver' = Idle /\ Handed(Head(line).frame)
    /\ line' = Tail(line)
    /\ UNCHANGED <<fifo, pool>>

\* npipe: end of file, between frames or within one.
PollLost ==
    /\ kind = "npipe" /\ line = <<>> /\ sender.at = "gone"
    /\ receiver.at \in {"idle", "length"}
    /\ receiver' = [Idle EXCEPT !.at = "lost"]
    /\ UNCHANGED <<device, taken>>

\* tap: at most m_mtu bytes are read.
PollTap ==
    /\ kind = "tap" /\ receiver = Idle /\ line # <<>>
    /\ Handed([Head(line).frame EXCEPT !.len = IF @ > Mtu THEN Mtu ELSE @])
    /\ line' = Tail(line)
    /\ UNCHANGED <<fifo, pool, receiver>>

Poll ==
    /\ \/ PollSlot \/ PopSlot \/ PollList \/ PopList
       \/ PollPipe \/ PollLost \/ PollTap
    /\ UNCHANGED <<kind, wrapped, content, held, checked, sender, written, faults, sent>>

Drop ==
    /\ DropSlot \/ DropList
    /\ UNCHANGED <<kind, wrapped, content, held, checked, sender, written, faults, sent>>

\* npipe: one of the two processes ends, between any two writes or reads.
ProcessEnds ==
    /\ kind = "npipe" /\ faults < MaxFaults
    /\ faults' = faults + 1
    /\ \/ sender.at \in {"idle", "payload"} /\ sender' = [Idle EXCEPT !.at = "gone"]
          /\ UNCHANGED receiver
       \/ receiver.at \in {"idle", "length"} /\ receiver' = [Idle EXCEPT !.at = "gone"]
          /\ UNCHANGED sender
    /\ UNCHANGED <<kind, wrapped, device, content, held, checked, written, sent, taken>>

Next ==
    \/ PrepareBuffer
    \/ \E i \in DOMAIN held : CommitBuffer(i) \/ \E len \in FrameLens : Write(i, len)
    \/ \E len \in FrameLens : Push(len)
    \/ PublishSlot \/ WritePayload
    \/ Poll \/ Drop
    \/ ProcessEnds

Spec == Init /\ [][Next]_vars

\* The two threads go on with what they have begun, and the receiver polls.
FairSpec == Spec /\ WF_vars(PublishSlot \/ WritePayload) /\ WF_vars(Poll)

-----------------------------------------------------------------------------
(***************************************************************************)
(* Properties.                                                             *)
(***************************************************************************)

\* The counters of a FIFO keep their order and never span more than its slots:
\* reads do not pass writes, writes do not pass what was prepared, and nothing
\* is prepared over an entry that was not popped.
CountersInOrder ==
    /\ fifo.read_count <= fifo.write_count
    /\ fifo.write_count - fifo.read_count <= Depth
    /\ kind = "shm" =>
        /\ fifo.write_count <= fifo.prepare_count
        /\ fifo.prepare_count - fifo.read_count <= Depth

Entry == [at : {"idle", "publish", "payload", "length", "front", "packet", "frame",
                "gone", "lost", "thrown"},
          buf : 0 .. Depth, frame : Frames \cup {Blank}]

\* Type invariant: what prepare() grants is a buffer of the device, the counters
\* are in order, what waits and what arrived are frames.
TypeOK ==
    /\ kind \in Kinds /\ wrapped \in BOOLEAN
    /\ fifo \in FifoType
    /\ content \in [FifoSlots \cup {Null} -> Frames \cup {Blank}]
    /\ pool \in Seq(FifoSlots) /\ line \in Seq(Entry)
    /\ held \in Seq([buf : FifoSlots, frame : Frames \cup {Blank}])
    /\ checked \in 0 .. Depth
    /\ sender \in Entry /\ receiver \in Entry
    /\ sent \in Seq(Frames) /\ taken \in Seq(Frames \cup {Blank})
    /\ CountersInOrder

\* The frame that the processor is looking at, in place, does not change before
\* process() returns: neither a push nor a stack that writes to a buffer of its
\* own reaches the slot that the receiver has not popped yet.
FrontIsStable == receiver.at = "front" => content[receiver.buf] = receiver.frame

\* Whatever the device, its ends see a link: every frame that commit() or push()
\* accepted is taken once, unchanged and in order.
L == INSTANCE Link
ImplementsLink == L!Spec

\* poll() in a loop takes every frame that was accepted, unless its process has
\* ended; a full FIFO therefore has room again.
EverythingIsTaken ==
    \A n \in 1 .. MaxFrames : Len(sent) >= n ~> Len(taken) >= n \/ receiver.at = "gone"
=============================================================================
