--------------------------- MODULE CircularBuffer ---------------------------
(***************************************************************************)
(* The buffer behind a BIO.  Its memory is mapped twice in a row, so that  *)
(* a copy that starts in the first image may end in the second one; only   *)
(* the start of a copy is brought into the image, by m_mask.               *)
(***************************************************************************)
EXTENDS Naturals, Sequences

CONSTANTS
    Size            \* m_size, the pages of the buffer

ASSUME SizeAssumption == Size \in Nat \ {0}

Mask == Size - 1

\* And[m][n] is m & n.
And[m \in Nat] ==
    [n \in Nat |->
        IF m = 0 \/ n = 0 THEN 0 ELSE (m % 2) * (n % 2) + 2 * And[m \div 2][n \div 2]]

\* data holds one image, the other is the same memory.
EmptyBuffer(byte) == [data |-> [i \in 0 .. Size - 1 |-> byte], read |-> 0, write |-> 0]

Available(b) == b.write - b.read

Left(b) == Size - Available(b)

ReadAt(b) == And[b.read][Mask]

WriteAt(b) == And[b.write][Mask]

Least(m, n) == IF m < n THEN m ELSE n

\* The first n bytes from readAt() on.
Peek(b, n) ==
    LET at == ReadAt(b) IN [i \in 1 .. n |-> b.data[(at + i - 1) % Size]]

Skip(b, n) == [b EXCEPT !.read = @ + Least(n, Available(b))]

\* write() takes what is left room for; the caller sees how much it was.
Write(b, s) ==
    LET n == Least(Len(s), Left(b))
        at == WriteAt(b)
        from(i) == (i + Size - at) % Size
    IN [b EXCEPT !.write = @ + n,
                 !.data = [i \in 0 .. Size - 1 |->
                             IF from(i) < n THEN s[from(i) + 1] ELSE @[i]]]
=============================================================================
