------------------------------ MODULE BufCache ------------------------------
(***************************************************************************)
(* The buffer cache (bio.c), the sleep-lock of each buffer (sleeplock.c)   *)
(* and the disk driver (ide.c), used by processes that read blocks, change *)
(* them and leave them to the log (log_write) or write them (bwrite).      *)
(*                                                                         *)
(* A step is one critical section of bcache.lock, of a sleep-lock's        *)
(* spinlock or of idelock, or one look at a buffer that the process has    *)
(* locked.  sleep() gives its spinlock up and goes to sleep in one step,   *)
(* which is what the module Proc shows of it.  There is one disk.          *)
(***************************************************************************)
EXTENDS Integers, Sequences, FiniteSets

CONSTANTS
  Block,       \* block numbers: < is the order in which callers lock them
  Val,         \* contents of a block
  Proc,
  None,        \* no block, no process, no disk command
  NBUF,        \* param.h: buffers in the cache
  DiskErrors,  \* the disk may fail a command
  HOLDS,       \* bound: buffers that a process has locked at a time
  MAXPIN       \* bound: buffers that wait for the log to commit

ASSUME BufAssumption ==
  /\ Block \subseteq Nat
  /\ None \notin Block \cup Proc
  /\ IsFiniteSet(Proc)
  /\ NBUF \in Nat \ {0}
  /\ DiskErrors \in BOOLEAN
  /\ HOLDS \in Nat \ {0}
  /\ MAXPIN \in Nat

Buf == 1 .. NBUF

VARIABLES
  \* struct buf
  blockno, valid, dirty, data, refcnt,
  locked,     \* the process that holds b->lock, or None
  lru,        \* the list from bcache.head.next on
  idequeue,
  cmd,        \* the command the disk is busy with, or None
  disk,
  \* each process
  pc,         \* where it is
  want,       \* the argument of the bread() it is in, or None
  tgt,        \* the buffer it is at work on inside bio.c and ide.c
  mine,       \* the buffers it has locked
  got         \* the contents that bread() returned last

bufVars == <<blockno, valid, dirty, data>>
ideVars == <<idequeue, cmd, disk>>
vars == <<bufVars, refcnt, locked, lru, ideVars, pc, want, tgt, mine, got>>

\* "run": the caller's code; "lock": acquiresleep(); "bread": the test of
\* B_VALID; "iderw": before idelock; "_asleep": SLEEPING; "ide_woken": the loop
\* of iderw(); "brelse": after releasesleep(); "panic": stopped in bget().
Places == {"run", "lock", "lock_asleep", "bread", "iderw", "ide_asleep",
           "ide_woken", "brelse", "panic"}

Commands == [write : BOOLEAN, blockno : Block, data : Val]

\* binit(); flags, dev and refcnt are zero like all of bss, and dev 0 matches
\* no block of the file system.
Init ==
  /\ blockno = [b \in Buf |-> None]
  /\ valid = [b \in Buf |-> FALSE]
  /\ dirty = [b \in Buf |-> FALSE]
  /\ disk \in [Block -> Val]
  /\ \E v \in Val : data = [b \in Buf |-> v]
  /\ refcnt = [b \in Buf |-> 0]
  /\ locked = [b \in Buf |-> None]
  /\ lru = [i \in Buf |-> NBUF + 1 - i]
  /\ idequeue = <<>> /\ cmd = None
  /\ pc = [p \in Proc |-> "run"]
  /\ want = [p \in Proc |-> None]
  /\ tgt = [p \in Proc |-> 1]
  /\ mine = [p \in Proc |-> {}]
  /\ got = None

Goto(p, l) == pc' = [pc EXCEPT ![p] = l]

\* A process that panics in bget() never releases bcache.lock.
Panicked == \E p \in Proc : pc[p] = "panic"

\* wakeup(): the processes that sleep at place l for b go on at m.
Wakeup(l, b, m) ==
  [p \in Proc |-> IF pc[p] = l /\ tgt[p] = b THEN m ELSE pc[p]]

-----------------------------------------------------------------------------
(* bget()                                                                  *)

\* The place of a call of bread(): callers lock a second buffer only further on
\* in one order (a log block and then the block it is for, an indirect block
\* and then the bitmap).
MayBread(p, blk) ==
  /\ pc[p] = "run" /\ ~Panicked
  /\ Cardinality(mine[p]) < HOLDS
  /\ \A b \in mine[p] : blockno[b] < blk

\* Mutant of Cached: buffers whose data has not arrived are overlooked.
CachedValid(blk) == {b \in Buf : blockno[b] = blk /\ valid[b]}

Cached(blk) == {b \in Buf : blockno[b] = blk}

\* Mutants of Recyclable: B_DIRTY, or the references, are not looked at.
RecyclableDirty(b) == refcnt[b] = 0
RecyclableInUse(b) == locked[b] = None /\ ~dirty[b]

Recyclable(b) == refcnt[b] = 0 /\ ~dirty[b]

\* The block has a buffer.
BgetCached(p, blk) ==
  /\ MayBread(p, blk)
  /\ \E b \in Cached(blk) :
       /\ refcnt' = [refcnt EXCEPT ![b] = @ + 1]
       /\ tgt' = [tgt EXCEPT ![p] = b]
  /\ want' = [want EXCEPT ![p] = blk]
  /\ Goto(p, "lock")
  /\ UNCHANGED <<bufVars, locked, lru, ideVars, mine, got>>

\* b->flags = 0
Flags(b) == [valid EXCEPT ![b] = FALSE]

\* It has none: the least recently used buffer that is free becomes its own.
BgetRecycle(p, blk) ==
  /\ MayBread(p, blk)
  /\ Cached(blk) = {}
  /\ \E i \in Buf :
       LET b == lru[i] IN
       /\ Recyclable(b) /\ \A j \in i + 1 .. NBUF : ~Recyclable(lru[j])
       /\ blockno' = [blockno EXCEPT ![b] = blk]
       /\ valid' = Flags(b)
       /\ dirty' = [dirty EXCEPT ![b] = FALSE]
       /\ refcnt' = [refcnt EXCEPT ![b] = 1]
       /\ tgt' = [tgt EXCEPT ![p] = b]
  /\ want' = [want EXCEPT ![p] = blk]
  /\ Goto(p, "lock")
  /\ UNCHANGED <<data, locked, lru, ideVars, mine, got>>

\* panic("bget: no buffers")
BgetPanic(p, blk) ==
  /\ MayBread(p, blk)
  /\ Cached(blk) = {} /\ \A b \in Buf : ~Recyclable(b)
  /\ Goto(p, "panic")
  /\ UNCHANGED <<bufVars, refcnt, locked, lru, ideVars, want, tgt, mine, got>>

-----------------------------------------------------------------------------
(* acquiresleep() and releasesleep()                                       *)

Unlocked(b) == locked[b] = None

Acquiresleep(p) ==
  /\ pc[p] = "lock" /\ Unlocked(tgt[p])
  /\ locked' = [locked EXCEPT ![tgt[p]] = p]
  /\ mine' = [mine EXCEPT ![p] = @ \cup {tgt[p]}]
  /\ Goto(p, "bread")
  /\ UNCHANGED <<bufVars, refcnt, lru, ideVars, want, tgt, got>>

AcquiresleepSleep(p) ==
  /\ pc[p] = "lock" /\ ~Unlocked(tgt[p])
  /\ Goto(p, "lock_asleep")
  /\ UNCHANGED <<bufVars, refcnt, locked, lru, ideVars, want, tgt, mine, got>>

\* Mutant of ReleaseWakes: no wakeup.
ReleaseSilent(p, b) == [pc EXCEPT ![p] = "brelse"]

\* wakeup(lk)
ReleaseWakes(p, b) ==
  [Wakeup("lock_asleep", b, "lock") EXCEPT ![p] = "brelse"]

\* brelse() up to the end of releasesleep()
Releasesleep(p, b) ==
  /\ pc[p] = "run" /\ b \in mine[p]
  /\ locked' = [locked EXCEPT ![b] = None]
  /\ mine' = [mine EXCEPT ![p] = @ \ {b}]
  /\ tgt' = [tgt EXCEPT ![p] = b]
  /\ pc' = ReleaseWakes(p, b)
  /\ UNCHANGED <<bufVars, refcnt, lru, ideVars, want, got>>

\* Mutant of Unref: the reference stays.
UnrefNot(b) == refcnt

\* b->refcnt--
Unref(b) == [refcnt EXCEPT ![b] = @ - 1]

\* b is taken out of the list and put back at its head.
MoveFirst(b) ==
  LET k == CHOOSE i \in Buf : lru[i] = b IN
  [i \in Buf |-> IF i = 1 THEN b ELSE IF i <= k THEN lru[i - 1] ELSE lru[i]]

\* The rest of brelse(): the last user makes it the most recently used buffer.
Brelse(p) ==
  /\ pc[p] = "brelse" /\ ~Panicked
  /\ refcnt' = Unref(tgt[p])
  /\ lru' = IF refcnt'[tgt[p]] = 0 THEN MoveFirst(tgt[p]) ELSE lru
  /\ Goto(p, "run")
  /\ UNCHANGED <<bufVars, locked, ideVars, want, tgt, mine, got>>

-----------------------------------------------------------------------------
(* bread(), bwrite() and log_write()                                       *)

\* bread() returns.
Return(p) ==
  /\ got' = data[tgt[p]]
  /\ want' = [want EXCEPT ![p] = None]

\* B_VALID
BreadHit(p) ==
  /\ pc[p] = "bread" /\ valid[tgt[p]]
  /\ Return(p)
  /\ Goto(p, "run")
  /\ UNCHANGED <<bufVars, refcnt, locked, lru, ideVars, tgt, mine>>

BreadMiss(p) ==
  /\ pc[p] = "bread" /\ ~valid[tgt[p]]
  /\ Goto(p, "iderw")
  /\ UNCHANGED <<bufVars, refcnt, locked, lru, ideVars, want, tgt, mine, got>>

\* The caller changes the contents and calls bwrite().
Bwrite(p, b, v) ==
  /\ pc[p] = "run" /\ b \in mine[p]
  /\ data' = [data EXCEPT ![b] = v]
  /\ dirty' = [dirty EXCEPT ![b] = TRUE]
  /\ tgt' = [tgt EXCEPT ![p] = b]
  /\ Goto(p, "iderw")
  /\ UNCHANGED <<blockno, valid, refcnt, locked, lru, ideVars, want, mine, got>>

\* The buffers that wait for a commit.
InIderw == {"iderw", "ide_asleep", "ide_woken"}
Pinned ==
  {b \in Buf : dirty[b] /\ \A p \in Proc : pc[p] \in InIderw => tgt[p] # b}

\* The caller changes the contents and calls log_write(): B_DIRTY keeps the
\* buffer in the cache until the log has been committed.
LogWrite(p, b, v) ==
  /\ pc[p] = "run" /\ b \in mine[p]
  /\ Cardinality(Pinned \cup {b}) <= MAXPIN
  /\ data' = [data EXCEPT ![b] = v]
  /\ dirty' = [dirty EXCEPT ![b] = TRUE]
  /\ UNCHANGED <<blockno, valid, refcnt, locked, lru, ideVars, pc, want, tgt,
                 mine, got>>

-----------------------------------------------------------------------------
(* ide.c                                                                   *)

\* The command for b: a write takes its data now.
Idestart(b) == [write |-> dirty[b], blockno |-> blockno[b], data |-> data[b]]

\* Append b to the queue, start the disk if it is the first, and sleep.
Iderw(p) ==
  /\ pc[p] = "iderw"
  /\ idequeue' = Append(idequeue, tgt[p])
  /\ cmd' = IF idequeue = <<>> THEN Idestart(tgt[p]) ELSE cmd
  /\ Goto(p, "ide_asleep")
  /\ UNCHANGED <<bufVars, refcnt, locked, lru, disk, want, tgt, mine, got>>

\* The loop of iderw() ends: the buffer is valid and clean.  (A process that
\* were woken too early would be stuck here, and IdeServes would fail.)
IderwDone(p) ==
  /\ pc[p] = "ide_woken"
  /\ valid[tgt[p]] /\ ~dirty[tgt[p]]
  /\ Goto(p, "run")
  /\ IF want[p] # None THEN Return(p) ELSE UNCHANGED <<want, got>>
  /\ UNCHANGED <<bufVars, refcnt, locked, lru, ideVars, tgt, mine>>

\* Start disk on next buf in queue.
StartNext(q) == IF q = <<>> THEN None ELSE Idestart(Head(q))

\* Mutant of IdeWakes: no wakeup.
IdeSilent(b) == pc

\* wakeup(b)
IdeWakes(b) == Wakeup("ide_asleep", b, "ide_woken")

\* The disk has finished its command, or failed it, and interrupts.
Ideintr(ok) ==
  /\ cmd # None /\ idequeue # <<>>
  /\ LET b == Head(idequeue) IN
     /\ disk' = IF cmd.write /\ ok THEN [disk EXCEPT ![cmd.blockno] = cmd.data]
                                   ELSE disk
     /\ data' = IF ~dirty[b] /\ ok THEN [data EXCEPT ![b] = disk[cmd.blockno]]
                                   ELSE data
     /\ valid' = [valid EXCEPT ![b] = TRUE]
     /\ dirty' = [dirty EXCEPT ![b] = FALSE]
     /\ pc' = IdeWakes(b)
  /\ idequeue' = Tail(idequeue)
  /\ cmd' = StartNext(Tail(idequeue))
  /\ UNCHANGED <<blockno, refcnt, locked, lru, want, tgt, mine, got>>

\* An interrupt without a request.
IdeintrSpurious ==
  /\ idequeue = <<>>
  /\ UNCHANGED vars

-----------------------------------------------------------------------------
Outcomes == IF DiskErrors THEN BOOLEAN ELSE {TRUE}

Interrupt == \E ok \in Outcomes : Ideintr(ok)

\* The calls a process makes.
Calls(p) ==
  \/ \E blk \in Block :
       BgetCached(p, blk) \/ BgetRecycle(p, blk) \/ BgetPanic(p, blk)
  \/ \E b \in Buf, v \in Val : Bwrite(p, b, v) \/ LogWrite(p, b, v)

\* What goes on inside a call.
Steps(p) ==
  \/ Acquiresleep(p) \/ AcquiresleepSleep(p) \/ Brelse(p)
  \/ BreadHit(p) \/ BreadMiss(p) \/ Iderw(p) \/ IderwDone(p)

Next ==
  \/ \E p \in Proc :
       Calls(p) \/ Steps(p) \/ \E b \in Buf : Releasesleep(p, b)
  \/ Interrupt
  \/ IdeintrSpurious

Spec == Init /\ [][Next]_vars

\* A call goes on, the disk answers, and a caller comes to its brelse().
FairSpec ==
  /\ Spec
  /\ \A p \in Proc : WF_vars(Steps(p))
  /\ \A p \in Proc, b \in Buf : SF_vars(Releasesleep(p, b))
  /\ WF_vars(Interrupt)

-----------------------------------------------------------------------------
(* Properties                                                              *)

TypeOK ==
  /\ blockno \in [Buf -> Block \cup {None}]
  /\ valid \in [Buf -> BOOLEAN] /\ dirty \in [Buf -> BOOLEAN]
  /\ data \in [Buf -> Val]
  /\ refcnt \in [Buf -> 0 .. Cardinality(Proc) * HOLDS]
  /\ locked \in [Buf -> Proc \cup {None}]
  /\ lru \in [Buf -> Buf] /\ \A i, j \in Buf : lru[i] = lru[j] => i = j
  /\ idequeue \in Seq(Buf) /\ cmd \in Commands \cup {None}
  /\ disk \in [Block -> Val]
  /\ pc \in [Proc -> Places]
  /\ want \in [Proc -> Block \cup {None}]
  /\ tgt \in [Proc -> Buf]
  /\ mine \in [Proc -> SUBSET Buf]
  /\ got \in Val \cup {None}

\* A block never has two buffers, whoever looks for it while its buffer is
\* locked, empty or being read: bget() searches and recycles under one lock.
OneBufferPerBlock ==
  \A b, c \in Buf : blockno[b] = blockno[c] => b = c \/ blockno[b] = None

\* A process inside bget() or brelse() has only a reference to its buffer; the
\* buffer is nevertheless still the one for the block it asked for when it gets
\* the lock, because bget() recycles no buffer that is referenced.
TargetIsWanted ==
  \A p \in Proc : want[p] # None => blockno[tgt[p]] = want[p]

\* "bget: no buffers" is true when it is said: every buffer waits for a commit
\* or some process is using it.  No reference leaks in brelse(), no buffer stays
\* dirty after its request, and the search of the LRU list misses none.
PanicMeansFull ==
  Panicked =>
    \A b \in Buf :
      \/ b \in Pinned
      \/ \E p \in Proc : b \in mine[p]
      \/ \E p \in Proc :
           tgt[p] = b /\ pc[p] \in {"lock", "lock_asleep", "brelse"}

\* The cache's contents, locks and results are those of a plain store of
\* blocks: no update is lost in a recycled buffer, no block has two holders,
\* and bread() returns what the last holder left.
Users(blk) == {b \in Buf : blockno[b] = blk /\ locked[b] # None}
Copies(blk) == {b \in Buf : blockno[b] = blk /\ valid[b]}
CacheVal ==
  [blk \in Block |-> IF Copies(blk) = {} THEN disk[blk]
                     ELSE data[CHOOSE b \in Copies(blk) : TRUE]]
CacheHolder ==
  [blk \in Block |-> IF Users(blk) = {} THEN None
                     ELSE locked[CHOOSE b \in Users(blk) : TRUE]]
Store == INSTANCE BlockStore WITH val <- CacheVal, holder <- CacheHolder
ImplementsStore == Store!StoreSpec

\* Every request to the disk is answered, whatever else is queued and whether
\* the disk fails or not: ideintr() starts the next one and wakes the sleeper.
IdeServes ==
  \A p \in Proc : pc[p] = "iderw" ~> pc[p] = "run"

\* A process that sleeps for a buffer is woken to try again: its holder, which
\* may itself wait for a buffer further on or for the disk, comes to brelse().
LockComesFree ==
  \A p \in Proc : pc[p] = "lock_asleep" ~> pc[p] = "lock"
=============================================================================
