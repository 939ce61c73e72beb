----------------------------- MODULE MCFileData -----------------------------
(* A small instance of FileData for TLC.                                   *)
EXTENDS FileData

\* One file of three bytes, with an indirect block, and an empty one.
MCImage == [i \in Inode |-> IF i = 1 THEN <<1, 2, 1>> ELSE <<>>]
=============================================================================
