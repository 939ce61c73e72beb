----------------------------- MODULE MCBufCache -----------------------------
(* Small instances of BufCache for TLC. *)
EXTENDS BufCache, TLC

\* Processes and contents are interchangeable.
Symm == Permutations(Proc) \cup Permutations(Val)
=============================================================================
