----------------------------- MODULE MCSpinlock -----------------------------
(* Small instances of Spinlock for TLC. *)
EXTENDS Spinlock, TLC

\* CPUs and threads are interchangeable.
Symm == Permutations(CPU) \cup Permutations(Thread)
=============================================================================
