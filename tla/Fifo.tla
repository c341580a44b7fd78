-------------------------------- MODULE Fifo --------------------------------
(***************************************************************************)
(* The FIFO of fixed-size entries that two threads share: free-running     *)
(* counters of what was prepared, written and read, reduced to a slot when *)
(* an entry is accessed.  The writer alone changes prepare_count and       *)
(* write_count, the reader alone read_count.  The counters have 64 bits    *)
(* and are numbers here; the users of this module bound them.              *)
(***************************************************************************)
EXTENDS Naturals

CONSTANT Depth      \* the number of slots

\* tulips_fifo_create() refuses a depth of 0.
ASSUME FifoAssumption == Depth \in Nat \ {0}

FifoSlots == 0 .. Depth - 1

FifoType == [prepare_count : Nat, write_count : Nat, read_count : Nat]

\* tulips_fifo_create() clears the whole block.
NewFifo == [prepare_count |-> 0, write_count |-> 0, read_count |-> 0]

IsEmpty(f) == f.read_count = f.write_count

IsFull(f) == f.write_count - f.read_count = Depth

MustPrepare(f) == f.prepare_count = f.write_count

MustCommit(f) == f.prepare_count - f.read_count = Depth

\* front(), push() and prepare() each reach the slot of their own counter.
FrontSlot(f) == f.read_count % Depth

PushSlot(f) == f.write_count % Depth

PrepareSlot(f) == f.prepare_count % Depth

\* push() and commit() publish the next slot in the order of the counter,
\* whichever was filled.
Publish(f) == [f EXCEPT !.write_count = @ + 1]

Prepare(f) == IF MustCommit(f) THEN f ELSE [f EXCEPT !.prepare_count = @ + 1]

Commit(f) == IF MustPrepare(f) THEN f ELSE Publish(f)

Pop(f) == IF IsEmpty(f) THEN f ELSE [f EXCEPT !.read_count = @ + 1]
=============================================================================
