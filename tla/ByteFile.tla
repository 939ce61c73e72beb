------------------------------ MODULE ByteFile ------------------------------
(***************************************************************************)
(* What read() and write() promise to the processes that share files: a    *)
(* file is a sequence of bytes, each chunk of a write and each read        *)
(* happens at once, at the offset of the open file, which it moves.        *)
(***************************************************************************)
EXTENDS Integers, Sequences

CONSTANTS Proc, Handle, Inode, None, Byte, Sizes, Chunk, MaxBytes

VARIABLES
  content,  \* the bytes of each file
  file,     \* the open files: inode and offset
  got       \* the bytes that a process got from its last read

bvars == <<content, file, got>>

\* The bytes s from position o on (counted from 0) replaced by n bytes v.
Overwrite(s, o, n, v) ==
  [k \in 1 .. IF o + n > Len(s) THEN o + n ELSE Len(s) |->
     IF k > o /\ k <= o + n THEN v ELSE s[k]]

WriteChunk(h, n, v) ==
  /\ file[h].ip # None
  /\ file[h].off + n <= MaxBytes
  /\ content' = [content EXCEPT ![file[h].ip] = Overwrite(@, file[h].off, n, v)]
  /\ file' = [file EXCEPT ![h].off = @ + n]
  /\ got' = got

Read(p, h, n) ==
  /\ file[h].ip # None
  /\ LET s == content[file[h].ip]
         end == IF file[h].off + n > Len(s) THEN Len(s) ELSE file[h].off + n IN
     /\ got' = [got EXCEPT ![p] = SubSeq(s, file[h].off + 1, end)]
     /\ file' = [file EXCEPT ![h].off = end]
  /\ content' = content

Forget(p) == got' = [got EXCEPT ![p] = <<>>] /\ UNCHANGED <<content, file>>

\* A file is opened at its first byte, or closed.
Attach(h, i) ==
  /\ file' = [file EXCEPT ![h] = [ip |-> i, off |-> 0]]
  /\ UNCHANGED <<content, got>>

Remove(i) ==
  /\ \A h \in Handle : file[h].ip # i
  /\ content' = [content EXCEPT ![i] = <<>>]
  /\ UNCHANGED <<file, got>>

Next ==
  \/ \E h \in Handle, n \in 1 .. Chunk, v \in Byte : WriteChunk(h, n, v)
  \/ \E p \in Proc, h \in Handle, n \in Sizes : Read(p, h, n)
  \/ \E p \in Proc : Forget(p)
  \/ \E h \in Handle, i \in Inode \cup {None} : Attach(h, i)
  \/ \E i \in Inode : Remove(i)

Spec ==
  /\ DOMAIN content = Inode
  /\ file = [h \in Handle |-> [ip |-> None, off |-> 0]]
  /\ got = [p \in Proc |-> <<>>]
  /\ [][Next]_bvars
=============================================================================
