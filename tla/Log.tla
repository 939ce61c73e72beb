-------------------------------- MODULE Log --------------------------------
(***************************************************************************)
(* The redo log of the file system (log.c) over the buffer cache and the   *)
(* disk: group commit, crashes at any disk write, and recovery.            *)
(*                                                                         *)
(* A step is one critical section of log.lock or one bwrite(), the unit    *)
(* that a crash can separate.  A block's contents are the number of the    *)
(* operation that wrote it last.                                           *)
(***************************************************************************)
EXTENDS Integers, Sequences, FiniteSets

CONSTANTS
  Block,        \* home locations on the disk
  Proc,         \* processes that make file-system calls
  Absent,       \* "not in the buffer cache", or no block
  MAXOPBLOCKS,  \* param.h: blocks reserved for one operation
  LOGSIZE,      \* param.h: blocks the header has room for
  SIZE,         \* log.size, from the superblock: the header and the log blocks
  OPBLOCKS,     \* bound: distinct blocks an operation really writes
  MAXOPS        \* bound: operations begun in a behaviour

ASSUME LogAssumption ==
  /\ Absent \notin Block \cup Nat
  /\ IsFiniteSet(Proc)
  /\ MAXOPBLOCKS \in Nat \ {0}
  /\ LOGSIZE \in Nat /\ LOGSIZE >= MAXOPBLOCKS
  /\ SIZE \in Nat \ {0}
  /\ OPBLOCKS \in 1 .. MAXOPBLOCKS
  \* log.size counts the header block too, and log_write() wants a free entry
  \* even for a block it absorbs: operations leave a little of their reservation.
  /\ LOGSIZE - (MAXOPBLOCKS - OPBLOCKS) < SIZE - 1
  /\ MAXOPS \in Nat

Val == 0 .. MAXOPS

VARIABLES
  \* the disk
  disk,         \* home locations
  logblk,       \* the log blocks, log.start + 1 on
  head,         \* the block numbers in the on-disk header
  \* memory
  cache,        \* the data of the buffers in the cache
  dirty,        \* the blocks whose buffer is B_DIRTY
  lh,           \* log.lh
  outstanding, committing,
  pc,           \* where each process is
  cur,          \* the buffer it has locked, between bread() and brelse()
  wrote,        \* the blocks its operation has logged
  op,           \* the number of its operation
  step, tail,   \* commit() or recover_from_log(): the loop it is in
  nops, panicked

diskVars == <<disk, logblk, head>>
logVars == <<lh, outstanding, committing>>
procVars == <<pc, cur, wrote, op>>
commitVars == <<step, tail>>
vars == <<diskVars, cache, dirty, logVars, procVars, commitVars, nops, panicked>>

\* "boot": before and during initlog(); "sleep": in sleep(&log).
Places == {"boot", "idle", "begin", "sleep", "op", "log_write", "commit"}
Steps == {"none", "read_head", "write_log", "write_head", "install", "erase",
          "done"}

\* A disk that mkfs made, in the first boot.
Init ==
  /\ disk = [b \in Block |-> 0]
  /\ logblk = [i \in 1 .. SIZE - 1 |-> 0]
  /\ head = <<>>
  /\ cache = [b \in Block |-> Absent]
  /\ dirty = {}
  /\ lh = <<>> /\ outstanding = 0 /\ committing = FALSE
  /\ pc = [p \in Proc |-> "boot"]
  /\ cur = [p \in Proc |-> Absent]
  /\ wrote = [p \in Proc |-> {}]
  /\ op = [p \in Proc |-> 0]
  /\ step = "read_head" /\ tail = 1
  /\ nops = 0
  /\ panicked = FALSE

-----------------------------------------------------------------------------
(* The buffer cache, as log.c and its callers use it                       *)

\* What bread(b) returns.
Bread(b) == IF cache[b] = Absent THEN disk[b] ELSE cache[b]

\* Mutant of Evictable: B_DIRTY is not looked at.
EvictableAny(b) == cache[b] # Absent /\ \A p \in Proc : cur[p] # b

\* bget() recycles a buffer that nobody holds and that is not B_DIRTY.
Evictable(b) ==
  cache[b] # Absent /\ b \notin dirty /\ \A p \in Proc : cur[p] # b

\* The cache makes room.
Evict(b) ==
  /\ Evictable(b)
  /\ cache' = [cache EXCEPT ![b] = Absent]
  /\ UNCHANGED <<diskVars, dirty, logVars, procVars, commitVars, nops, panicked>>

-----------------------------------------------------------------------------
(* begin_op() and end_op()                                                 *)

\* A file-system call starts.
Call(p) ==
  /\ pc[p] = "idle" /\ nops < MAXOPS
  /\ nops' = nops + 1
  /\ pc' = [pc EXCEPT ![p] = "begin"]
  /\ op' = [op EXCEPT ![p] = nops + 1]
  /\ UNCHANGED <<diskVars, cache, dirty, logVars, cur, wrote, commitVars, panicked>>

\* Mutant of Admit: a commit in progress does not hold new operations back.
AdmitCommitting == Len(lh) + (outstanding + 1) * MAXOPBLOCKS <= LOGSIZE

\* Mutant of Admit: nothing is reserved for the operation that starts.
AdmitUnreserved == ~committing /\ Len(lh) + outstanding * MAXOPBLOCKS <= LOGSIZE

\* begin_op() lets an operation start: no commit in progress, and room for it
\* on top of what is logged and reserved.
Admit == ~committing /\ Len(lh) + (outstanding + 1) * MAXOPBLOCKS <= LOGSIZE

\* log.outstanding += 1
Entering == outstanding + 1

BeginOp(p) ==
  /\ pc[p] = "begin" /\ Admit
  /\ outstanding' = Entering
  /\ pc' = [pc EXCEPT ![p] = "op"]
  /\ wrote' = [wrote EXCEPT ![p] = {}]
  /\ UNCHANGED <<diskVars, cache, dirty, lh, committing, cur, op, commitVars, nops, panicked>>

\* sleep(&log, &log.lock)
BeginSleep(p) ==
  /\ pc[p] = "begin" /\ ~Admit
  /\ pc' = [pc EXCEPT ![p] = "sleep"]
  /\ UNCHANGED <<diskVars, cache, dirty, logVars, cur, wrote, op, commitVars, nops, panicked>>

\* wakeup(&log) together with p's own move to place l.
WakeAndGoto(p, l) ==
  [q \in Proc |-> IF q = p THEN l ELSE IF pc[q] = "sleep" THEN "begin" ELSE pc[q]]

\* Mutant of NotLast: nobody is woken.
NotLastSilent(p) == [pc EXCEPT ![p] = "idle"]

\* end_op() of an operation that is not the last one.
NotLast(p) == WakeAndGoto(p, "idle")

\* commit() writes only if (log.lh.n > 0).
FirstStep == IF lh = <<>> THEN "done" ELSE "write_log"

\* end_op(): the last operation out commits for all, if there is anything.
EndOp(p) ==
  /\ pc[p] = "op"
  /\ outstanding' = outstanding - 1
  /\ panicked' = committing
  /\ IF outstanding = 1
     THEN /\ committing' = TRUE
          /\ pc' = [pc EXCEPT ![p] = "commit"]
          /\ step' = FirstStep
          /\ tail' = 1
     ELSE /\ pc' = NotLast(p)
          /\ UNCHANGED <<committing, commitVars>>
  /\ UNCHANGED <<diskVars, cache, dirty, lh, cur, wrote, op, nops>>

-----------------------------------------------------------------------------
(* bread(); modify; log_write(); brelse()                                  *)

\* log_write()'s test.
NoRoom == Len(lh) >= LOGSIZE \/ Len(lh) >= SIZE - 1

\* The operation locks a buffer, changes it and enters log_write(), which tests
\* the room in the log without log.lock.
Modify(p, b) ==
  /\ pc[p] = "op" /\ \A q \in Proc : cur[q] # b
  /\ Cardinality(wrote[p] \cup {b}) <= OPBLOCKS
  /\ cache' = [cache EXCEPT ![b] = op[p]]
  /\ cur' = [cur EXCEPT ![p] = b]
  /\ IF NoRoom \/ outstanding < 1
     THEN panicked' = TRUE /\ UNCHANGED pc
     ELSE pc' = [pc EXCEPT ![p] = "log_write"] /\ UNCHANGED panicked
  /\ UNCHANGED <<diskVars, dirty, logVars, wrote, op, commitVars, nops>>

\* The header with b in it: a block that is there already is absorbed.
Logged(b) == IF \E i \in 1 .. Len(lh) : lh[i] = b THEN lh ELSE Append(lh, b)

\* log_write() with log.lock: record the block and pin the buffer; brelse().
LogWrite(p) ==
  /\ pc[p] = "log_write"
  /\ lh' = Logged(cur[p])
  /\ dirty' = dirty \cup {cur[p]}
  /\ wrote' = [wrote EXCEPT ![p] = @ \cup {cur[p]}]
  /\ cur' = [cur EXCEPT ![p] = Absent]
  /\ pc' = [pc EXCEPT ![p] = "op"]
  /\ UNCHANGED <<diskVars, cache, outstanding, committing, op, commitVars, nops, panicked>>

-----------------------------------------------------------------------------
(* commit() and recover_from_log(): one action per bwrite()                *)

\* The last iteration of the loop over the header.
Last == tail >= Len(lh)

\* write_log(): copy the cached block into the log.
WriteLog ==
  /\ step = "write_log"
  /\ logblk' = [logblk EXCEPT ![tail] = Bread(lh[tail])]
  /\ step' = IF Last THEN "write_head" ELSE step
  /\ tail' = IF Last THEN 1 ELSE tail + 1
  /\ UNCHANGED <<disk, head, cache, dirty, logVars, procVars, nops, panicked>>

\* write_head(): the commit point.
WriteHead ==
  /\ step = "write_head"
  /\ head' = lh
  /\ step' = "install"
  /\ UNCHANGED <<disk, logblk, cache, dirty, logVars, procVars, tail, nops, panicked>>

\* install_trans(): copy a log block home; iderw() clears B_DIRTY.
InstallTrans ==
  /\ step = "install" /\ tail <= Len(lh)
  /\ disk' = [disk EXCEPT ![lh[tail]] = logblk[tail]]
  /\ cache' = [cache EXCEPT ![lh[tail]] = logblk[tail]]
  /\ dirty' = dirty \ {lh[tail]}
  /\ tail' = tail + 1
  /\ UNCHANGED <<logblk, head, logVars, procVars, step, nops, panicked>>

\* log.lh.n = 0; write_head(): erase the transaction.
Erase ==
  /\ step = "install" /\ tail > Len(lh)
  /\ lh' = <<>>
  /\ head' = <<>>
  /\ step' = "done"
  /\ UNCHANGED <<disk, logblk, cache, dirty, outstanding, committing, procVars, tail, nops, panicked>>

\* The end of end_op(): let the waiting operations in.
EndCommit(p) ==
  /\ pc[p] = "commit" /\ step = "done"
  /\ committing' = FALSE
  /\ step' = "none"
  /\ pc' = WakeAndGoto(p, "idle")
  /\ UNCHANGED <<diskVars, cache, dirty, lh, outstanding, cur, wrote, op, tail, nops, panicked>>

\* read_head()
ReadHead ==
  /\ step = "read_head"
  /\ lh' = head
  /\ step' = "install"
  /\ tail' = 1
  /\ UNCHANGED <<diskVars, cache, dirty, outstanding, committing, procVars, nops, panicked>>

\* The end of initlog(): system calls may start.
BootDone ==
  /\ step = "done" /\ \A p \in Proc : pc[p] = "boot"
  /\ step' = "none"
  /\ pc' = [p \in Proc |-> "idle"]
  /\ UNCHANGED <<diskVars, cache, dirty, logVars, cur, wrote, op, tail, nops, panicked>>

\* The power fails, or the operator resets a machine that panicked: memory is
\* as main() initializes it, the disk as it was.
Crash ==
  /\ cache' = [b \in Block |-> Absent]
  /\ dirty' = {}
  /\ lh' = <<>> /\ outstanding' = 0 /\ committing' = FALSE
  /\ pc' = [p \in Proc |-> "boot"]
  /\ cur' = [p \in Proc |-> Absent]
  /\ wrote' = [p \in Proc |-> {}]
  /\ op' = [p \in Proc |-> 0]
  /\ step' = "read_head" /\ tail' = 1
  /\ panicked' = FALSE
  /\ UNCHANGED <<diskVars, nops>>

-----------------------------------------------------------------------------
ProcStep(p) ==
  \/ BeginOp(p) \/ BeginSleep(p) \/ EndOp(p) \/ LogWrite(p)
  \/ EndCommit(p)

CommitStep == WriteLog \/ WriteHead \/ InstallTrans \/ Erase \/ ReadHead \/ BootDone

Next ==
  \/ /\ ~panicked
     /\ \/ \E p \in Proc : Call(p) \/ ProcStep(p)
        \/ \E p \in Proc, b \in Block : Modify(p, b)
        \/ \E b \in Block : Evict(b)
        \/ CommitStep
  \/ Crash

Spec == Init /\ [][Next]_vars

-----------------------------------------------------------------------------
(* Properties                                                              *)

\* Every variable has its type.
TypeOK ==
  /\ disk \in [Block -> Val]
  /\ logblk \in [1 .. SIZE - 1 -> Val]
  /\ head \in Seq(Block)
  /\ cache \in [Block -> Val \cup {Absent}]
  /\ dirty \subseteq Block
  /\ lh \in Seq(Block)
  /\ outstanding \in Nat
  /\ committing \in BOOLEAN
  /\ pc \in [Proc -> Places]
  /\ cur \in [Proc -> Block \cup {Absent}]
  /\ wrote \in [Proc -> SUBSET Block]
  /\ op \in [Proc -> Val]
  /\ step \in Steps
  /\ tail \in Nat
  /\ nops \in 0 .. MAXOPS
  /\ panicked \in BOOLEAN

\* What recovery would make of the disk as it is: the home locations, with the
\* blocks named in the on-disk header replaced by their log copies.
Recovered ==
  [b \in Block |->
     IF \E i \in 1 .. Len(head) : head[i] = b
     THEN logblk[CHOOSE i \in 1 .. Len(head) : head[i] = b]
     ELSE disk[b]]

Booting == \A p \in Proc : pc[p] = "boot"

\* What the running system reads.
View == [b \in Block |-> Bread(b)]

Current == IF Booting THEN Recovered ELSE View

\* The processes inside an operation.
Active == {p \in Proc : pc[p] \in {"op", "log_write"}}

\* The log implements TxDisk: through every crash, in commit and in recovery
\* too, the writes of a group of system calls survive together or not at all
\* (log.c:11-15).
Tx == INSTANCE TxDisk WITH
        Op <- Proc,
        durable <- Recovered,
        current <- Current,
        active <- Active

ImplementsTxDisk == Tx!TxSpec

\* What the running operations may still add to the header: <<p, n>> stands for
\* the n-th block that p's operation logs.
Room ==
  {r \in Proc \X (1 .. OPBLOCKS) :
     r[1] \in Active /\ r[2] > Cardinality(wrote[r[1]])}

\* Whatever blocks the operations that begin_op() let in still write, none of
\* them panics in log_write(): with all of them in the header there is room
\* left in the log.  log_write() tests this without log.lock, while others are
\* between the test and their own entry.
ReservationHolds == Active # {} => Len(lh) + Cardinality(Room) < SIZE - 1

\* end_op()'s assertion: nobody is inside an operation during a commit.
CommitAlone ==
  committing => outstanding = 0 /\ \A p \in Proc : pc[p] \notin {"op", "log_write"}

\* Nobody is left asleep in begin_op(): while a process is, it could not go on
\* either, for a commit or for want of room, and there is somebody who will
\* call wakeup(&log), at the end of the commit or of an operation, the last
\* one or not.
BeginNotMissed ==
  \A p \in Proc : pc[p] = "sleep" => ~Admit /\ (committing \/ outstanding > 0)
=============================================================================
