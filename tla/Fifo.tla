-------------------------------- MODULE Fifo --------------------------------
(* What a pipe promises: a bounded queue of bytes, read in the order in    *)
(* which they were written, none lost and none twice.                      *)
EXTENDS Naturals, Sequences

CONSTANTS Byte, Capacity

VARIABLES
  q,      \* the bytes in the pipe
  out     \* the byte handed out last

FifoInit == q = <<>> /\ out \in Byte

Put(b) == Len(q) < Capacity /\ q' = Append(q, b) /\ UNCHANGED out

Get == q # <<>> /\ out' = Head(q) /\ q' = Tail(q)

FifoSpec == FifoInit /\ [][(\E b \in Byte : Put(b)) \/ Get]_<<q, out>>
=============================================================================
