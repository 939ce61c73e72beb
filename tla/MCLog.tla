------------------------------- MODULE MCLog -------------------------------
(* Small instances of Log for TLC. *)
EXTENDS Log, TLC

\* Blocks and processes are interchangeable.
Symm == Permutations(Block) \cup Permutations(Proc)
=============================================================================
