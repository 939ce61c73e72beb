------------------------------ MODULE FileData ------------------------------
(***************************************************************************)
(* The contents of files: block allocation, bmap(), itrunc(), readi() and  *)
(* writei() (fs.c) under fileread() and filewrite() (file.c), for open     *)
(* files that processes share.  The inode's lock is held over a chunk of a *)
(* write and over a read; each block of the loop is a step, so processes   *)
(* that work on different files allocate and free blocks in any order.     *)
(* A block number takes the room of a byte: an indirect block is a block   *)
(* of bytes read as numbers.                                               *)
(***************************************************************************)
EXTENDS Integers, Sequences, FiniteSets, SequencesExt

CONSTANTS
  Proc, Handle, Inode,
  None,      \* no inode
  BSIZE, NDIRECT,
  NBLOCKS,   \* data blocks of the disk
  Chunk,     \* the bytes that one transaction writes, filewrite()'s max
  Byte,      \* the bytes that are written
  Sizes,     \* the sizes of reads and writes
  Image,     \* the contents that mkfs gives to the files
  MaxOps     \* the bound on the number of calls

NINDIRECT == BSIZE
MAXFILE == NDIRECT + NINDIRECT

ASSUME DataAssumption ==
  /\ None \notin Inode
  /\ BSIZE \in Nat \ {0} /\ NDIRECT \in Nat /\ NBLOCKS \in Nat
  /\ Chunk \in Nat \ {0} /\ MaxOps \in Nat
  /\ Byte \subseteq Nat /\ Sizes \subseteq Nat
  /\ Image \in [Inode -> Seq(Byte)]

Block == 1 .. NBLOCKS

VARIABLES
  used,      \* the blocks marked in the bitmap
  data,      \* the bytes of each block, as the buffer cache has them
  inode,     \* the cached inode: size and addrs
  dinode,    \* the inode that iupdate() wrote
  lock,      \* the process that holds the inode's lock, or None
  file,      \* the open files: inode and offset
  op,        \* the call that each process is in
  got,       \* the bytes of its last read
  ops,       \* the number of calls made
  panic

vars == <<used, data, inode, dinode, lock, file, op, got, ops, panic>>

Zeroes == [k \in 0 .. BSIZE - 1 |-> 0]
Empty == [size |-> 0, addrs |-> [k \in 0 .. NDIRECT |-> 0]]

Idle == [what |-> "none", h |-> None, ip |-> None, n |-> 0, i |-> 0,
         n1 |-> 0, tot |-> 0, v |-> 0]

Least(S) == CHOOSE b \in S : \A c \in S : b <= c
Minimum(a, b) == IF a < b THEN a ELSE b

-----------------------------------------------------------------------------
(* Blocks.  A disk is a record of used, data and the inodes.               *)

Disk == [used |-> used, data |-> data, inode |-> inode]

\* The blocks that are not marked; balloc() takes the first of them.
FreeBlocks(d) == Block \ d.used

\* bzero()
Bzero(d, b) == [d.data EXCEPT ![b] = Zeroes]

\* balloc(), for a disk that has a free block.
Balloc(d) ==
  LET b == Least(FreeBlocks(d)) IN
  [d EXCEPT !.used = @ \cup {b}, !.data = Bzero(d, b)]

\* bmap() with bn < NDIRECT: what it does to the disk.
BmapDirect(d, i, bn) ==
  IF d.inode[i].addrs[bn] # 0 THEN d
  ELSE [Balloc(d) EXCEPT !.inode[i].addrs[bn] = Least(FreeBlocks(d))]

\* The block of indirect addresses is itself an address of the inode.
BmapIndirect(d, i, bn) ==
  LET e == BmapDirect(d, i, NDIRECT)
      a == e.inode[i].addrs[NDIRECT] IN
  IF e.data[a][bn - NDIRECT] # 0 THEN e
  ELSE [Balloc(e) EXCEPT !.data[a][bn - NDIRECT] = Least(FreeBlocks(e))]

Bmap(d, i, bn) ==
  IF bn < NDIRECT THEN BmapDirect(d, i, bn) ELSE BmapIndirect(d, i, bn)

\* The address that bmap() returns, 0 where it would allocate.
Addr(d, i, bn) ==
  IF bn < NDIRECT THEN d.inode[i].addrs[bn]
  ELSE IF d.inode[i].addrs[NDIRECT] = 0 THEN 0
  ELSE d.data[d.inode[i].addrs[NDIRECT]][bn - NDIRECT]

\* How many blocks bmap() has to allocate.
Allocates(d, i, bn) ==
  IF Addr(d, i, bn) # 0 THEN 0
  ELSE IF bn >= NDIRECT /\ d.inode[i].addrs[NDIRECT] = 0 THEN 2 ELSE 1

\* memmove() of n bytes v into the block of byte o of the file.
Fill(d, i, o, n, v) ==
  [d EXCEPT !.data[Addr(d, i, o \div BSIZE)] =
     [k \in DOMAIN @ |->
        IF k >= o % BSIZE /\ k < (o % BSIZE) + n THEN v ELSE @[k]]]

\* mkfs: iappend() of one byte after the other, from the first block on.
Iappend(d, i, v) ==
  LET o == d.inode[i].size IN
  [Fill(Bmap(d, i, o \div BSIZE), i, o, 1, v) EXCEPT !.inode[i].size = o + 1]

\* mkfs: main() copies the files one by one; balloc() marks what they took.
MkfsDisk ==
  LET blank == [used |-> {}, data |-> [b \in Block |-> Zeroes],
                inode |-> [i \in Inode |-> Empty]]
      copied(d, i) ==
        FoldLeft(LAMBDA e, v : Iappend(e, i, v), d, Image[i])
  IN FoldLeft(copied, blank, SetToSeq(Inode))

Init ==
  /\ used = MkfsDisk.used /\ data = MkfsDisk.data
  /\ inode = MkfsDisk.inode /\ dinode = MkfsDisk.inode
  /\ lock = [i \in Inode |-> None]
  /\ file = [h \in Handle |-> [ip |-> None, off |-> 0]]
  /\ op = [p \in Proc |-> Idle]
  /\ got = [p \in Proc |-> <<>>]
  /\ ops = 0 /\ panic = ""

-----------------------------------------------------------------------------
(* Calls                                                                   *)

Begin(p, rec) ==
  /\ panic = "" /\ op[p] = Idle /\ ops < MaxOps
  /\ op' = [op EXCEPT ![p] = rec]
  /\ ops' = ops + 1

\* sys_open(): f->off = 0.  The file can be open already.
Open(p, h, i) ==
  /\ Begin(p, Idle)
  /\ file[h].ip = None
  /\ file' = [file EXCEPT ![h] = [ip |-> i, off |-> 0]]
  /\ UNCHANGED <<used, data, inode, dinode, lock, got, panic>>

\* fileclose(); nobody else is in a call on it.
Close(p, h) ==
  /\ panic = "" /\ op[p] = Idle /\ file[h].ip # None
  /\ \A q \in Proc : op[q].h # h
  /\ file' = [file EXCEPT ![h] = [ip |-> None, off |-> 0]]
  /\ UNCHANGED <<used, data, inode, dinode, lock, op, got, ops, panic>>

\* read(h, n) and write(h, n bytes v)
Call(p, what, h, n, v) ==
  /\ file[h].ip # None
  /\ Begin(p, [Idle EXCEPT !.what = what, !.h = h, !.ip = file[h].ip,
                           !.n = n, !.v = v])
  /\ got' = [got EXCEPT ![p] = <<>>]
  /\ UNCHANGED <<used, data, inode, dinode, lock, file, panic>>

\* ilock(f->ip) is held.
Holds(p, what) ==
  /\ panic = "" /\ op[p].what = what
  /\ lock[op[p].ip] = p

\* Mutant of Locks: another process may have it.
LocksAny(p) == lock' = [lock EXCEPT ![op[p].ip] = p]

Locks(p) ==
  /\ lock[op[p].ip] = None
  /\ lock' = [lock EXCEPT ![op[p].ip] = p]

\* The loops of readi() and writei() have bytes to go.
More(p) == op[p].tot < op[p].n1

Pos(p) == file[op[p].h].off + op[p].tot

\* m = min(n - tot, BSIZE - off % BSIZE)
Step(p) == Minimum(op[p].n1 - op[p].tot, BSIZE - (Pos(p) % BSIZE))

\* The call is over.
Return(p) == op' = [op EXCEPT ![p] = Idle]

-----------------------------------------------------------------------------
(* fileread(), readi()                                                     *)

\* n = ip->size - off where the read would go past the end.
Left(i, o, n) == IF o + n > inode[i].size THEN inode[i].size - o ELSE n

\* The inode is locked; an offset past the end is an error.
ReadBegin(p) ==
  /\ panic = "" /\ op[p].what = "read" /\ Locks(p)
  /\ LET o == file[op[p].h].off
         i == op[p].ip IN
     op' = [op EXCEPT ![p].what = "reading",
                      ![p].n1 = IF o > inode[i].size THEN 0
                                ELSE Left(i, o, op[p].n)]
  /\ UNCHANGED <<used, data, inode, dinode, file, got, ops, panic>>

ReadBlock(p) ==
  /\ Holds(p, "reading") /\ More(p)
  /\ LET a == Addr(Disk, op[p].ip, Pos(p) \div BSIZE)
         m == Step(p) IN
     /\ got' = [got EXCEPT ![p] = @ \o
                  [k \in 1 .. m |-> data[a][(Pos(p) % BSIZE) + k - 1]]]
     /\ op' = [op EXCEPT ![p].tot = @ + m]
  /\ UNCHANGED <<used, data, inode, dinode, lock, file, ops, panic>>

ReadEnd(p) ==
  /\ Holds(p, "reading") /\ ~More(p)
  /\ file' = [file EXCEPT ![op[p].h].off = @ + op[p].tot]
  /\ lock' = [lock EXCEPT ![op[p].ip] = None]
  /\ Return(p)
  /\ UNCHANGED <<used, data, inode, dinode, got, ops, panic>>

-----------------------------------------------------------------------------
(* filewrite(), writei()                                                   *)

\* A chunk begins: the offset is read under the inode's lock.
WriteBegin(p) ==
  /\ panic = "" /\ op[p].what = "write" /\ op[p].i < op[p].n /\ Locks(p)
  /\ op' = [op EXCEPT ![p].what = "writing", ![p].tot = 0,
                      ![p].n1 = Minimum(op[p].n - op[p].i, Chunk)]
  /\ UNCHANGED <<used, data, inode, dinode, file, got, ops, panic>>

\* The checks at the head of writei().
TooLong(p) ==
  \/ file[op[p].h].off > inode[op[p].ip].size
  \/ file[op[p].h].off + op[p].n1 > MAXFILE * BSIZE

\* writei() returns -1 and so does filewrite(), with the chunks before written.
WriteFails(p) ==
  /\ Holds(p, "writing") /\ op[p].tot = 0 /\ TooLong(p)
  /\ lock' = [lock EXCEPT ![op[p].ip] = None]
  /\ Return(p)
  /\ UNCHANGED <<used, data, inode, dinode, file, got, ops, panic>>

\* One block: bmap() allocates it if need be.
WriteBlock(p) ==
  /\ Holds(p, "writing") /\ ~TooLong(p) /\ More(p)
  /\ LET i == op[p].ip
         bn == Pos(p) \div BSIZE
         m == Step(p)
         d == Fill(Bmap(Disk, i, bn), i, Pos(p), m, op[p].v) IN
     IF Allocates(Disk, i, bn) > Cardinality(FreeBlocks(Disk))
     THEN /\ panic' = "balloc: out of blocks"
          /\ UNCHANGED <<used, data, inode, op>>
     ELSE /\ used' = d.used /\ data' = d.data /\ inode' = d.inode
          /\ op' = [op EXCEPT ![p].tot = @ + m]
          /\ panic' = panic
  /\ UNCHANGED <<dinode, lock, file, got, ops>>

\* The size and iupdate(); the offset moves before the lock is given up.
WriteEnd(p) ==
  /\ Holds(p, "writing") /\ ~TooLong(p) /\ ~More(p)
  /\ LET i == op[p].ip
         h == op[p].h
         grown == file[h].off + op[p].n1 IN
     /\ IF grown > inode[i].size
        THEN /\ inode' = [inode EXCEPT ![i].size = grown]
             /\ dinode' = [dinode EXCEPT ![i] = inode'[i]]
        ELSE UNCHANGED <<inode, dinode>>
     /\ file' = [file EXCEPT ![h].off = grown]
     /\ lock' = [lock EXCEPT ![i] = None]
     /\ op' = [op EXCEPT ![p].what = "write", ![p].i = @ + op[p].n1]
  /\ UNCHANGED <<used, data, got, ops, panic>>

WriteReturn(p) ==
  /\ panic = "" /\ op[p].what = "write" /\ op[p].i >= op[p].n
  /\ Return(p)
  /\ UNCHANGED <<used, data, inode, dinode, lock, file, got, ops, panic>>

-----------------------------------------------------------------------------
(* itrunc(), when iput() frees an inode that nobody has open               *)

Opened(i) == \E h \in Handle : file[h].ip = i

TruncBegin(p, i) ==
  /\ ~Opened(i) /\ lock[i] = None
  /\ Begin(p, [Idle EXCEPT !.what = "trunc", !.ip = i])
  /\ lock' = [lock EXCEPT ![i] = p]
  /\ UNCHANGED <<used, data, inode, dinode, file, got, panic>>

\* bfree()
Bfree(b) ==
  IF b \in used THEN used' = used \ {b} /\ panic' = panic
  ELSE panic' = "freeing free block" /\ used' = used

\* The addresses of the inode that are not zero, the indirect block's left out.
Direct(i) == {k \in 0 .. NDIRECT - 1 : inode[i].addrs[k] # 0}

TruncDirect(p) ==
  /\ Holds(p, "trunc") /\ Direct(op[p].ip) # {}
  /\ LET i == op[p].ip
         k == Least(Direct(i)) IN
     /\ Bfree(inode[i].addrs[k])
     /\ inode' = [inode EXCEPT ![i].addrs[k] = 0]
  /\ UNCHANGED <<data, dinode, lock, file, op, got, ops>>

\* The entries of the indirect block from number tot on; it is not written.
Indirect(p) ==
  {j \in op[p].tot .. NINDIRECT - 1 :
     data[inode[op[p].ip].addrs[NDIRECT]][j] # 0}

\* Mutant of TruncRest: the blocks behind the indirect block are forgotten.
TruncRestNot(p) == {}

TruncRest(p) ==
  IF inode[op[p].ip].addrs[NDIRECT] = 0 THEN {} ELSE Indirect(p)

TruncIndirect(p) ==
  /\ Holds(p, "trunc") /\ Direct(op[p].ip) = {} /\ TruncRest(p) # {}
  /\ LET j == Least(TruncRest(p)) IN
     /\ Bfree(data[inode[op[p].ip].addrs[NDIRECT]][j])
     /\ op' = [op EXCEPT ![p].tot = j + 1]
  /\ UNCHANGED <<data, inode, dinode, lock, file, got, ops>>

\* The indirect block itself, the size, iupdate().
TruncEnd(p) ==
  /\ Holds(p, "trunc") /\ Direct(op[p].ip) = {} /\ TruncRest(p) = {}
  /\ LET i == op[p].ip
         a == inode[i].addrs[NDIRECT] IN
     /\ IF a # 0 THEN Bfree(a) ELSE UNCHANGED <<used, panic>>
     /\ inode' = [inode EXCEPT ![i] = Empty]
     /\ dinode' = [dinode EXCEPT ![i] = Empty]
     /\ lock' = [lock EXCEPT ![i] = None]
  /\ Return(p)
  /\ UNCHANGED <<data, file, got, ops>>

-----------------------------------------------------------------------------
Next ==
  \E p \in Proc :
    \/ \E h \in Handle :
         \/ \E i \in Inode : Open(p, h, i)
         \/ Close(p, h)
         \/ \E n \in Sizes, v \in Byte : Call(p, "write", h, n, v)
         \/ \E n \in Sizes : Call(p, "read", h, n, 0)
    \/ ReadBegin(p) \/ ReadBlock(p) \/ ReadEnd(p)
    \/ WriteBegin(p) \/ WriteFails(p) \/ WriteBlock(p) \/ WriteEnd(p)
    \/ WriteReturn(p)
    \/ \E i \in Inode : TruncBegin(p, i)
    \/ TruncDirect(p) \/ TruncIndirect(p) \/ TruncEnd(p)

Spec == Init /\ [][Next]_vars

-----------------------------------------------------------------------------
(* Properties                                                              *)

\* The entries of its indirect block that itrunc() has freed already.
Gone(i) ==
  IF \E p \in Proc : op[p].what = "trunc" /\ op[p].ip = i
  THEN op[CHOOSE p \in Proc : op[p].what = "trunc" /\ op[p].ip = i].tot ELSE 0

\* The places of an inode where the number of a block is, with the number.
Addresses(i) ==
  {<<i, k, inode[i].addrs[k]>> : k \in 0 .. NDIRECT}
  \cup IF inode[i].addrs[NDIRECT] = 0 THEN {}
       ELSE {<<i, NDIRECT + 1 + j, data[inode[i].addrs[NDIRECT]][j]>> :
               j \in Gone(i) .. NINDIRECT - 1}

InUse == {x \in UNION {Addresses(i) : i \in Inode} : x[3] # 0}

\* A block belongs to one place of one inode, and the bitmap marks exactly the
\* blocks that have an owner, however the steps of balloc(), bmap() and itrunc()
\* for different files interleave: none is shared and none is lost.
BlocksOwnedOnce ==
  /\ \A x, y \in InUse : x[3] = y[3] => x = y
  /\ used = {x[3] : x \in InUse}

\* The bytes of a file, through the addresses of its inode.
Bytes(i) ==
  [k \in 1 .. inode[i].size |->
     data[Addr(Disk, i, (k - 1) \div BSIZE)][(k - 1) % BSIZE]]

Writer(p) == op[p].what = "writing" /\ ~TooLong(p)

Abstract == INSTANCE ByteFile WITH
  MaxBytes <- MAXFILE * BSIZE,
  content <-
    [i \in Inode |->
       IF \E p \in Proc : Writer(p) /\ op[p].ip = i
       THEN LET p == CHOOSE q \in Proc : Writer(q) /\ op[q].ip = i
                o == file[op[p].h].off IN
            [k \in 1 .. IF o + op[p].n1 > inode[i].size THEN o + op[p].n1
                                                        ELSE inode[i].size |->
               IF k > o /\ k <= o + op[p].n1 THEN op[p].v ELSE Bytes(i)[k]]
       ELSE IF \E p \in Proc : op[p].what = "trunc" /\ op[p].ip = i THEN <<>>
       ELSE Bytes(i)],
  file <-
    [h \in Handle |->
       IF \E p \in Proc : Writer(p) /\ op[p].h = h
       THEN LET p == CHOOSE q \in Proc : Writer(q) /\ op[q].h = h IN
            [file[h] EXCEPT !.off = @ + op[p].n1]
       ELSE file[h]],
  got <- [p \in Proc |-> IF op[p].what = "reading" THEN <<>> ELSE got[p]]

\* Processes that share files see sequences of bytes: each chunk of a write
\* goes in at once at the offset of the open file, a read returns the bytes
\* that are there and no others, and a new file is empty, whatever the blocks
\* held before.
ImplementsBytes == Abstract!Spec
=============================================================================
