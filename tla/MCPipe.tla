------------------------------- MODULE MCPipe -------------------------------
(* Small instances of Pipe for TLC. *)
EXTENDS Pipe, TLC

\* Readers, writers and bytes are interchangeable.
Symm ==
  Permutations(Reader) \cup Permutations(Writer) \cup Permutations(Byte)
=============================================================================
