--------------------------- MODULE BufCacheProofs ---------------------------
(* Proofs about BufCache: any numbers of buffers, blocks and processes, any *)
(* number of buffers locked at a time.                                      *)
EXTENDS BufCache, FiniteSetTheorems, TLAPS

\* The types of TypeOK, but for the bound on refcnt, which follows from RefInv.
TypeInv ==
  /\ blockno \in [Buf -> Block \cup {None}]
  /\ valid \in [Buf -> BOOLEAN] /\ dirty \in [Buf -> BOOLEAN]
  /\ data \in [Buf -> Val]
  /\ refcnt \in [Buf -> Nat]
  /\ locked \in [Buf -> Proc \cup {None}]
  /\ idequeue \in Seq(Buf) /\ cmd \in Commands \cup {None}
  /\ disk \in [Block -> Val]
  /\ pc \in [Proc -> Places]
  /\ want \in [Proc -> Block \cup {None}]
  /\ tgt \in [Proc -> Buf]
  /\ mine \in [Proc -> SUBSET Buf]
  /\ got \in Val \cup {None}

\* The list holds every buffer once.
LruInv ==
  /\ lru \in [Buf -> Buf]
  /\ \A i, j \in Buf : lru[i] = lru[j] => i = j
  /\ \A b \in Buf : \E i \in Buf : lru[i] = b

\* b->lock is held by the process that has b, and by nobody else.
LockInv == \A b \in Buf, p \in Proc : b \in mine[p] <=> locked[b] = p

\* Where a process has its buffer locked and where it has only a reference, and
\* where it is inside bread().
InBget == {"lock", "lock_asleep"}
PlaceInv ==
  \A p \in Proc :
    /\ pc[p] \in InBget \cup {"bread"} => want[p] # None
    /\ pc[p] \in {"run", "brelse", "panic"} => want[p] = None
    /\ pc[p] \in InIderw \cup {"bread"} => tgt[p] \in mine[p]
    /\ pc[p] \in InBget \cup {"brelse"} => tgt[p] \notin mine[p]

\* The processes that use b: they have it, or wait for its lock, or are about to
\* give their reference back.
Refs(b) ==
  {p \in Proc : b \in mine[p] \/ (tgt[p] = b /\ pc[p] \in InBget \cup {"brelse"})}

\* refcnt counts them, and a buffer in use is the buffer of some block.
RefInv ==
  \A b \in Buf : /\ refcnt[b] = Cardinality(Refs(b))
                 /\ Refs(b) # {} => blockno[b] # None

\* Each request in the queue has its sleeper and is there once; the disk is at
\* work on the first.
QueueInv ==
  /\ \A i \in 1 .. Len(idequeue) :
       \E p \in Proc : pc[p] = "ide_asleep" /\ tgt[p] = idequeue[i]
  /\ \A i, j \in 1 .. Len(idequeue) : idequeue[i] = idequeue[j] => i = j
  /\ idequeue # <<>> => cmd = Idestart(Head(idequeue))

\* A buffer is empty only on the way to its first read; a dirty one has data; a
\* clean one that has data agrees with the disk, if the disk does not fail.
DataInv ==
  /\ \A b \in Buf : (dirty[b] => valid[b]) /\ (valid[b] => blockno[b] # None)
  /\ \A p \in Proc : \A b \in mine[p] :
       valid[b] \/ (tgt[p] = b /\ pc[p] \in {"bread", "iderw", "ide_asleep"})
  /\ ~DiskErrors =>
       \A b \in Buf : valid[b] /\ ~dirty[b] => data[b] = disk[blockno[b]]

\* Once bget() has panicked nobody frees a buffer.
PanicInv == Panicked => \A b \in Buf : ~Recyclable(b)

IInv ==
  /\ TypeInv
  /\ LruInv
  /\ LockInv
  /\ PlaceInv
  /\ RefInv
  /\ OneBufferPerBlock
  /\ TargetIsWanted
  /\ QueueInv
  /\ DataInv
  /\ PanicInv

-----------------------------------------------------------------------------
(* Facts about the parts                                                   *)

USE BufAssumption

\* refcnt is zero exactly when nobody uses the buffer.
LEMMA RefFacts ==
  ASSUME RefInv, NEW b \in Buf
  PROVE  /\ IsFiniteSet(Refs(b)) /\ refcnt[b] \in Nat
         /\ refcnt[b] = 0 <=> Refs(b) = {}
<1>1. Refs(b) \subseteq Proc
  BY DEF Refs
<1>2. IsFiniteSet(Refs(b))
  BY <1>1, FS_Subset
<1> DEFINE R == Refs(b)
<1> HIDE DEF R
<1>3. Cardinality(R) \in Nat /\ (Cardinality(R) = 0 <=> R = {})
  BY <1>2, FS_CardinalityType, FS_EmptySet DEF R
<1> QED BY <1>2, <1>3 DEF RefInv, R

\* A step that changes nobody's use of a buffer, and no reference count.
LEMMA RefFrame ==
  ASSUME RefInv, UNCHANGED <<refcnt, blockno>>,
         \A b \in Buf : Refs(b)' = Refs(b)
  PROVE  RefInv'
BY DEF RefInv

\* A step that leaves the queue, and the buffers in it, alone.
LEMMA QueueFrame ==
  ASSUME TypeInv, QueueInv, UNCHANGED <<idequeue, cmd>>,
         \A p \in Proc : pc[p] = "ide_asleep" =>
           /\ pc'[p] = "ide_asleep" /\ tgt'[p] = tgt[p]
           /\ dirty'[tgt[p]] = dirty[tgt[p]] /\ data'[tgt[p]] = data[tgt[p]]
           /\ blockno'[tgt[p]] = blockno[tgt[p]]
  PROVE  QueueInv'
<1>1. \A i \in 1 .. Len(idequeue) :
        \E p \in Proc : pc'[p] = "ide_asleep" /\ tgt'[p] = idequeue[i]
  BY DEF QueueInv
<1>2. ASSUME idequeue # <<>>
      PROVE  cmd = Idestart(Head(idequeue))'
  <2>1. idequeue \in Seq(Buf)
    BY DEF TypeInv
  <2>2. 1 \in 1 .. Len(idequeue) /\ Head(idequeue) = idequeue[1]
    BY <1>2, <2>1
  <2>3. PICK p \in Proc : pc[p] = "ide_asleep" /\ tgt[p] = idequeue[1]
    BY <2>2 DEF QueueInv
  <2> QED BY <1>2, <2>2, <2>3 DEF QueueInv, Idestart
<1> QED BY <1>1, <1>2 DEF QueueInv

-----------------------------------------------------------------------------
(* The inductive step, one lemma per action                                *)

\* BgetPanic: bget() found no buffer that is free.
LEMMA BgetPanicStep ==
  ASSUME IInv, NEW p \in Proc, NEW blk \in Block, BgetPanic(p, blk)
  PROVE  IInv'
<1> USE DEF IInv, bufVars, ideVars, BgetPanic, MayBread, Goto
<1>1. TypeInv'
  BY DEF TypeInv, Places
<1>2. LruInv'
  BY DEF LruInv
<1>3. LockInv'
  BY DEF TypeInv, LockInv, PlaceInv
<1>4. PlaceInv'
  BY DEF TypeInv, PlaceInv, InBget, InIderw
<1>5. RefInv'
  <2>1. \A b \in Buf : Refs(b)' = Refs(b)
    BY DEF TypeInv, PlaceInv, Refs, InBget, InIderw
  <2> QED BY <2>1, RefFrame
<1>6. OneBufferPerBlock'
  BY DEF OneBufferPerBlock
<1>7. TargetIsWanted'
  BY DEF TypeInv, PlaceInv, TargetIsWanted
<1>8. QueueInv'
  BY QueueFrame DEF TypeInv
<1>9. DataInv'
  BY DEF TypeInv, DataInv
<1>10. PanicInv'
  BY DEF TypeInv, PanicInv, Panicked, Recyclable
<1> QED BY <1>1, <1>2, <1>3, <1>4, <1>5, <1>6, <1>7, <1>8, <1>9, <1>10

\* Acquiresleep: a reference becomes a lock.
LEMMA AcquiresleepStep ==
  ASSUME IInv, NEW p \in Proc, Acquiresleep(p)
  PROVE  IInv'
<1> USE DEF IInv, bufVars, ideVars, Acquiresleep, Unlocked, Goto
<1>1. TypeInv'
  BY DEF TypeInv, Places
<1>2. LruInv'
  BY DEF LruInv
<1>3. LockInv'
  BY DEF TypeInv, LockInv, PlaceInv
<1>4. PlaceInv'
  BY DEF TypeInv, PlaceInv, InBget, InIderw
<1>5. RefInv'
  <2>1. \A b \in Buf : Refs(b)' = Refs(b)
    BY DEF TypeInv, PlaceInv, Refs, InBget, InIderw
  <2> QED BY <2>1, RefFrame
<1>6. OneBufferPerBlock'
  BY DEF OneBufferPerBlock
<1>7. TargetIsWanted'
  BY DEF TypeInv, PlaceInv, TargetIsWanted
<1>8. QueueInv'
  BY QueueFrame DEF TypeInv
<1>9. DataInv'
  BY DEF TypeInv, DataInv
<1>10. PanicInv'
  BY DEF TypeInv, PanicInv, Panicked, Recyclable
<1> QED BY <1>1, <1>2, <1>3, <1>4, <1>5, <1>6, <1>7, <1>8, <1>9, <1>10

\* AcquiresleepSleep: the reference stays.
LEMMA AcquiresleepSleepStep ==
  ASSUME IInv, NEW p \in Proc, AcquiresleepSleep(p)
  PROVE  IInv'
<1> USE DEF IInv, bufVars, ideVars, AcquiresleepSleep, Goto
<1>1. TypeInv'
  BY DEF TypeInv, Places
<1>2. LruInv'
  BY DEF LruInv
<1>3. LockInv'
  BY DEF TypeInv, LockInv, PlaceInv
<1>4. PlaceInv'
  BY DEF TypeInv, PlaceInv, InBget, InIderw
<1>5. RefInv'
  <2>1. \A b \in Buf : Refs(b)' = Refs(b)
    BY DEF TypeInv, PlaceInv, Refs, InBget, InIderw
  <2> QED BY <2>1, RefFrame
<1>6. OneBufferPerBlock'
  BY DEF OneBufferPerBlock
<1>7. TargetIsWanted'
  BY DEF TypeInv, PlaceInv, TargetIsWanted
<1>8. QueueInv'
  BY QueueFrame DEF TypeInv
<1>9. DataInv'
  BY DEF TypeInv, DataInv
<1>10. PanicInv'
  BY DEF TypeInv, PanicInv, Panicked, Recyclable
<1> QED BY <1>1, <1>2, <1>3, <1>4, <1>5, <1>6, <1>7, <1>8, <1>9, <1>10

\* Releasesleep: a lock becomes a reference.
LEMMA ReleasesleepStep ==
  ASSUME IInv, NEW p \in Proc, NEW c \in Buf, Releasesleep(p, c)
  PROVE  IInv'
<1> USE DEF IInv, bufVars, ideVars, Releasesleep, ReleaseWakes, Wakeup
<1>1. TypeInv'
  BY DEF TypeInv, Places
<1>2. LruInv'
  BY DEF LruInv
<1>3. LockInv'
  BY DEF TypeInv, LockInv, PlaceInv
<1>4. PlaceInv'
  BY DEF TypeInv, PlaceInv, InBget, InIderw
<1>5. RefInv'
  <2>1. \A b \in Buf : Refs(b)' = Refs(b)
    BY DEF TypeInv, PlaceInv, Refs, InBget, InIderw
  <2> QED BY <2>1, RefFrame
<1>6. OneBufferPerBlock'
  BY DEF OneBufferPerBlock
<1>7. TargetIsWanted'
  BY DEF TypeInv, PlaceInv, TargetIsWanted
<1>8. QueueInv'
  BY QueueFrame DEF TypeInv
<1>9. DataInv'
  <2>1. ASSUME NEW q \in Proc, NEW b \in mine'[q]
        PROVE  valid[b] \/ (tgt'[q] = b /\ pc'[q] \in {"bread", "iderw", "ide_asleep"})
    <3>1. b \in mine[q]
      BY <2>1 DEF TypeInv
    <3>2. CASE q = p
      BY <3>1, <3>2 DEF TypeInv, DataInv
    <3>3. CASE q # p
      <4>1. tgt'[q] = tgt[q] /\ (pc'[q] = pc[q] \/ pc[q] = "lock_asleep")
        BY <3>3 DEF TypeInv
      <4> QED BY <3>1, <4>1 DEF DataInv
    <3> QED BY <3>2, <3>3
  <2> QED BY <2>1 DEF DataInv
<1>10. PanicInv'
  BY DEF TypeInv, PanicInv, Panicked, Recyclable
<1> QED BY <1>1, <1>2, <1>3, <1>4, <1>5, <1>6, <1>7, <1>8, <1>9, <1>10

\* BreadHit: the buffer has data.
LEMMA BreadHitStep ==
  ASSUME IInv, NEW p \in Proc, BreadHit(p)
  PROVE  IInv'
<1> USE DEF IInv, bufVars, ideVars, BreadHit, Return, Goto
<1>1. TypeInv'
  BY DEF TypeInv, Places
<1>2. LruInv'
  BY DEF LruInv
<1>3. LockInv'
  BY DEF TypeInv, LockInv, PlaceInv
<1>4. PlaceInv'
  BY DEF TypeInv, PlaceInv, InBget, InIderw
<1>5. RefInv'
  <2>1. \A b \in Buf : Refs(b)' = Refs(b)
    BY DEF TypeInv, PlaceInv, Refs, InBget, InIderw
  <2> QED BY <2>1, RefFrame
<1>6. OneBufferPerBlock'
  BY DEF OneBufferPerBlock
<1>7. TargetIsWanted'
  BY DEF TypeInv, PlaceInv, TargetIsWanted
<1>8. QueueInv'
  BY QueueFrame DEF TypeInv
<1>9. DataInv'
  BY DEF TypeInv, DataInv
<1>10. PanicInv'
  BY DEF TypeInv, PanicInv, Panicked, Recyclable
<1> QED BY <1>1, <1>2, <1>3, <1>4, <1>5, <1>6, <1>7, <1>8, <1>9, <1>10

\* BreadMiss: the buffer is on the way to its first read.
LEMMA BreadMissStep ==
  ASSUME IInv, NEW p \in Proc, BreadMiss(p)
  PROVE  IInv'
<1> USE DEF IInv, bufVars, ideVars, BreadMiss, Goto
<1>1. TypeInv'
  BY DEF TypeInv, Places
<1>2. LruInv'
  BY DEF LruInv
<1>3. LockInv'
  BY DEF TypeInv, LockInv, PlaceInv
<1>4. PlaceInv'
  BY DEF TypeInv, PlaceInv, InBget, InIderw
<1>5. RefInv'
  <2>1. \A b \in Buf : Refs(b)' = Refs(b)
    BY DEF TypeInv, PlaceInv, Refs, InBget, InIderw
  <2> QED BY <2>1, RefFrame
<1>6. OneBufferPerBlock'
  BY DEF OneBufferPerBlock
<1>7. TargetIsWanted'
  BY DEF TypeInv, PlaceInv, TargetIsWanted
<1>8. QueueInv'
  BY QueueFrame DEF TypeInv
<1>9. DataInv'
  BY DEF TypeInv, DataInv
<1>10. PanicInv'
  BY DEF TypeInv, PanicInv, Panicked, Recyclable
<1> QED BY <1>1, <1>2, <1>3, <1>4, <1>5, <1>6, <1>7, <1>8, <1>9, <1>10

\* Bwrite: only the holder makes a buffer dirty.
LEMMA BwriteStep ==
  ASSUME IInv, NEW p \in Proc, NEW c \in Buf, NEW v \in Val, Bwrite(p, c, v)
  PROVE  IInv'
<1> USE DEF IInv, bufVars, ideVars, Bwrite, Goto
<1>1. TypeInv'
  BY DEF TypeInv, Places
<1>2. LruInv'
  BY DEF LruInv
<1>3. LockInv'
  BY DEF TypeInv, LockInv, PlaceInv
<1>4. PlaceInv'
  BY DEF TypeInv, PlaceInv, InBget, InIderw
<1>5. RefInv'
  <2>1. \A b \in Buf : Refs(b)' = Refs(b)
    BY DEF TypeInv, PlaceInv, Refs, InBget, InIderw
  <2> QED BY <2>1, RefFrame
<1>6. OneBufferPerBlock'
  BY DEF OneBufferPerBlock
<1>7. TargetIsWanted'
  BY DEF TypeInv, PlaceInv, TargetIsWanted
<1>8. QueueInv'
  <2>1. \A q \in Proc : pc[q] = "ide_asleep" => q # p /\ tgt[q] \in Buf /\ tgt[q] # c
    BY DEF TypeInv, LockInv, PlaceInv, InIderw
  <2> QED BY <2>1, QueueFrame DEF TypeInv
<1>9. DataInv'
  BY DEF TypeInv, DataInv
<1>10. PanicInv'
  BY DEF TypeInv, PanicInv, Panicked, Recyclable
<1> QED BY <1>1, <1>2, <1>3, <1>4, <1>5, <1>6, <1>7, <1>8, <1>9, <1>10

\* LogWrite: only the holder makes a buffer dirty.
LEMMA LogWriteStep ==
  ASSUME IInv, NEW p \in Proc, NEW c \in Buf, NEW v \in Val, LogWrite(p, c, v)
  PROVE  IInv'
<1> USE DEF IInv, bufVars, ideVars, LogWrite
<1>1. TypeInv'
  BY DEF TypeInv, Places
<1>2. LruInv'
  BY DEF LruInv
<1>3. LockInv'
  BY DEF TypeInv, LockInv, PlaceInv
<1>4. PlaceInv'
  BY DEF TypeInv, PlaceInv, InBget, InIderw
<1>5. RefInv'
  <2>1. \A b \in Buf : Refs(b)' = Refs(b)
    BY DEF TypeInv, PlaceInv, Refs, InBget, InIderw
  <2> QED BY <2>1, RefFrame
<1>6. OneBufferPerBlock'
  BY DEF OneBufferPerBlock
<1>7. TargetIsWanted'
  BY DEF TypeInv, PlaceInv, TargetIsWanted
<1>8. QueueInv'
  <2>1. \A q \in Proc : pc[q] = "ide_asleep" => q # p /\ tgt[q] \in Buf /\ tgt[q] # c
    BY DEF TypeInv, LockInv, PlaceInv, InIderw
  <2> QED BY <2>1, QueueFrame DEF TypeInv
<1>9. DataInv'
  BY DEF TypeInv, DataInv
<1>10. PanicInv'
  BY DEF TypeInv, PanicInv, Panicked, Recyclable
<1> QED BY <1>1, <1>2, <1>3, <1>4, <1>5, <1>6, <1>7, <1>8, <1>9, <1>10

\* IderwDone: the buffer was read or written.
LEMMA IderwDoneStep ==
  ASSUME IInv, NEW p \in Proc, IderwDone(p)
  PROVE  IInv'
<1> USE DEF IInv, bufVars, ideVars, IderwDone, Return, Goto
<1>1. TypeInv'
  <2>1. /\ want' \in [Proc -> Block \cup {None}]
        /\ got' \in Val \cup {None}
        /\ pc' \in [Proc -> Places]
    <3>1. CASE want[p] # None
      <4>1. /\ want' = [want EXCEPT ![p] = None] /\ got' = data[tgt[p]]
            /\ tgt[p] \in Buf
        BY <3>1 DEF TypeInv
      <4> QED BY <4>1 DEF TypeInv, Places
    <3>2. CASE want[p] = None
      BY <3>2 DEF TypeInv, Places
    <3> QED BY <3>1, <3>2
  <2> QED BY <2>1 DEF TypeInv
<1>2. LruInv'
  BY DEF LruInv
<1>3. LockInv'
  BY DEF TypeInv, LockInv, PlaceInv
<1>4. PlaceInv'
  BY DEF TypeInv, PlaceInv, InBget, InIderw
<1>5. RefInv'
  <2>1. \A b \in Buf : Refs(b)' = Refs(b)
    BY DEF TypeInv, PlaceInv, Refs, InBget, InIderw
  <2> QED BY <2>1, RefFrame
<1>6. OneBufferPerBlock'
  BY DEF OneBufferPerBlock
<1>7. TargetIsWanted'
  BY DEF TypeInv, PlaceInv, TargetIsWanted
<1>8. QueueInv'
  BY QueueFrame DEF TypeInv
<1>9. DataInv'
  BY DEF TypeInv, DataInv
<1>10. PanicInv'
  BY DEF TypeInv, PanicInv, Panicked, Recyclable
<1> QED BY <1>1, <1>2, <1>3, <1>4, <1>5, <1>6, <1>7, <1>8, <1>9, <1>10

\* BgetCached: one more process uses the buffer.
LEMMA BgetCachedStep ==
  ASSUME IInv, NEW p \in Proc, NEW blk \in Block, BgetCached(p, blk)
  PROVE  IInv'
<1>a. PICK b \in Buf : /\ blockno[b] = blk
                       /\ refcnt' = [refcnt EXCEPT ![b] = @ + 1]
                       /\ tgt' = [tgt EXCEPT ![p] = b]
  BY DEF BgetCached, Cached
<1>b. /\ pc[p] = "run" /\ ~Panicked /\ b \notin mine[p]
      /\ want' = [want EXCEPT ![p] = blk]
      /\ pc' = [pc EXCEPT ![p] = "lock"]
      /\ UNCHANGED <<bufVars, locked, lru, ideVars, mine, got>>
  BY <1>a DEF BgetCached, MayBread, Goto
<1>c. blk # None
  OBVIOUS
<1> USE <1>a, <1>b, <1>c DEF IInv, bufVars, ideVars
<1>1. TypeInv'
  BY DEF TypeInv, Places
<1>2. LruInv'
  BY DEF LruInv
<1>3. LockInv'
  BY DEF LockInv
<1>4. PlaceInv'
  BY DEF TypeInv, PlaceInv, InBget, InIderw
<1>5. RefInv'
  <2>1. \A c \in Buf \ {b} : Refs(c)' = Refs(c) /\ refcnt'[c] = refcnt[c]
    BY DEF TypeInv, Refs, InBget
  <2>2. Refs(b)' = Refs(b) \cup {p} /\ p \notin Refs(b)
    BY DEF TypeInv, Refs, InBget
  <2>3. Cardinality(Refs(b)') = Cardinality(Refs(b)) + 1
    <3> DEFINE R == Refs(b)
    <3>1. IsFiniteSet(R) /\ p \notin R
      BY <2>2, RefFacts
    <3> HIDE DEF R
    <3>2. Cardinality(R \cup {p}) = Cardinality(R) + 1
      BY <3>1, FS_AddElement
    <3> QED BY <2>2, <3>2 DEF R
  <2>4. refcnt'[b] = Cardinality(Refs(b)')
    BY <2>3 DEF TypeInv, RefInv
  <2> QED BY <2>1, <2>4 DEF RefInv
<1>6. OneBufferPerBlock'
  BY DEF OneBufferPerBlock
<1>7. TargetIsWanted'
  BY DEF TypeInv, TargetIsWanted
<1>8. QueueInv'
  BY QueueFrame DEF TypeInv
<1>9. DataInv'
  BY DEF TypeInv, DataInv
<1>10. PanicInv'
  BY DEF TypeInv, PanicInv, Panicked
<1> QED BY <1>1, <1>2, <1>3, <1>4, <1>5, <1>6, <1>7, <1>8, <1>9, <1>10

\* BgetRecycle: nobody uses the buffer that is taken, so nobody has it locked,
\* waits for it or has it in the queue of the disk.
LEMMA BgetRecycleStep ==
  ASSUME IInv, NEW p \in Proc, NEW blk \in Block, BgetRecycle(p, blk)
  PROVE  IInv'
<1>a. PICK b \in Buf : /\ refcnt[b] = 0 /\ ~dirty[b]
                       /\ blockno' = [blockno EXCEPT ![b] = blk]
                       /\ valid' = [valid EXCEPT ![b] = FALSE]
                       /\ dirty' = [dirty EXCEPT ![b] = FALSE]
                       /\ refcnt' = [refcnt EXCEPT ![b] = 1]
                       /\ tgt' = [tgt EXCEPT ![p] = b]
  BY DEF BgetRecycle, Recyclable, Flags, IInv, LruInv
<1>b. /\ pc[p] = "run" /\ ~Panicked
      /\ \A c \in Buf : blockno[c] # blk
      /\ want' = [want EXCEPT ![p] = blk]
      /\ pc' = [pc EXCEPT ![p] = "lock"]
      /\ UNCHANGED <<data, locked, lru, ideVars, mine, got>>
  BY DEF BgetRecycle, MayBread, Cached, Goto
<1>c. blk # None
  OBVIOUS
<1>d. Refs(b) = {}
  BY <1>a, RefFacts DEF IInv
<1>e. \A q \in Proc : /\ b \notin mine[q]
                      /\ tgt[q] = b => pc[q] \in {"run", "panic"}
  BY <1>d DEF IInv, TypeInv, Places, PlaceInv, InIderw, Refs, InBget
<1> USE <1>a, <1>b, <1>c, <1>e DEF IInv, ideVars
<1>1. TypeInv'
  BY DEF TypeInv, Places
<1>2. LruInv'
  BY DEF LruInv
<1>3. LockInv'
  BY DEF LockInv
<1>4. PlaceInv'
  BY DEF TypeInv, PlaceInv, InBget, InIderw
<1>5. RefInv'
  <2>1. \A c \in Buf \ {b} :
          Refs(c)' = Refs(c) /\ refcnt'[c] = refcnt[c] /\ blockno'[c] = blockno[c]
    BY DEF TypeInv, Refs, InBget
  <2>2. Refs(b)' = {p}
    <3>1. ASSUME NEW q \in Proc
          PROVE  (b \in mine'[q] \/ (tgt'[q] = b /\ pc'[q] \in InBget \cup {"brelse"})) <=> q = p
      <4>1. CASE q = p
        BY <4>1 DEF TypeInv, InBget
      <4>2. CASE q # p
        BY <4>2 DEF TypeInv, InBget
      <4> QED BY <4>1, <4>2
    <3> QED BY <3>1 DEF Refs
  <2>3. Cardinality({p}) = 1
    BY FS_Singleton
  <2>4. refcnt'[b] = 1 /\ blockno'[b] = blk
    BY DEF TypeInv
  <2>5. refcnt'[b] = Cardinality(Refs(b)')
    BY <2>2, <2>3, <2>4
  <2> QED BY <2>1, <2>4, <2>5 DEF RefInv
<1>6. OneBufferPerBlock'
  BY DEF TypeInv, OneBufferPerBlock
<1>7. TargetIsWanted'
  <2>1. ASSUME NEW q \in Proc, want'[q] # None
        PROVE  blockno'[tgt'[q]] = want'[q]
    <3>1. CASE q = p
      BY <3>1 DEF TypeInv
    <3>2. CASE q # p
      <4>1. want'[q] = want[q] /\ tgt'[q] = tgt[q] /\ tgt[q] \in Buf
        BY <3>2 DEF TypeInv
      <4>2. pc[q] \notin {"run", "panic"}
        BY <2>1, <4>1 DEF PlaceInv
      <4> QED BY <2>1, <4>1, <4>2 DEF TypeInv, TargetIsWanted
    <3> QED BY <3>1, <3>2
  <2> QED BY <2>1 DEF TargetIsWanted
<1>8. QueueInv'
  BY QueueFrame DEF TypeInv
<1>9. DataInv'
  <2>1. \A c \in Buf \ {b} : /\ valid'[c] = valid[c] /\ dirty'[c] = dirty[c]
                             /\ blockno'[c] = blockno[c]
    BY DEF TypeInv
  <2>2. ~valid'[b] /\ ~dirty'[b]
    BY DEF TypeInv
  <2>3. \A q \in Proc : \A c \in mine[q] :
          valid'[c] \/ (tgt'[q] = c /\ pc'[q] \in {"bread", "iderw", "ide_asleep"})
    BY <2>1 DEF TypeInv, DataInv
  <2> QED BY <2>1, <2>2, <2>3 DEF DataInv
<1>10. PanicInv'
  BY DEF TypeInv, PanicInv, Panicked
<1> QED BY <1>1, <1>2, <1>3, <1>4, <1>5, <1>6, <1>7, <1>8, <1>9, <1>10

\* The buffer moved to the head is in the list once, like all the others.
LEMMA MoveFirstPermutes ==
  ASSUME LruInv, NEW b \in Buf, lru' = MoveFirst(b)
  PROVE  LruInv'
<1>0. /\ lru \in [Buf -> Buf]
      /\ \A i, j \in Buf : lru[i] = lru[j] => i = j
      /\ \A c \in Buf : \E i \in Buf : lru[i] = c
  BY DEF LruInv
<1>a. Buf = 1 .. NBUF /\ NBUF \in Nat
  BY DEF Buf
<1> DEFINE k == CHOOSE i \in Buf : lru[i] = b
<1>1. k \in Buf /\ lru[k] = b
  BY <1>0
<1>2. lru' = [i \in Buf |-> IF i = 1 THEN b ELSE IF i <= k THEN lru[i - 1] ELSE lru[i]]
  BY DEF MoveFirst
<1> HIDE DEF k
<1> DEFINE from(i) == IF i = 1 THEN k ELSE IF i <= k THEN i - 1 ELSE i
<1>3. ASSUME NEW i \in Buf
      PROVE  from(i) \in Buf /\ lru'[i] = lru[from(i)]
  <2>1. from(i) \in Buf
    BY <1>a, <1>1
  <2> QED BY <1>1, <1>2, <2>1
<1>4. \A i, j \in Buf : from(i) = from(j) => i = j
  <2> SUFFICES ASSUME NEW i \in Buf, NEW j \in Buf, from(i) = from(j)
               PROVE  i = j
    OBVIOUS
  <2>1. i \in Int /\ j \in Int /\ k \in Int /\ i >= 1 /\ j >= 1
    BY <1>a, <1>1
  <2> QED BY <2>1
<1>5. ASSUME NEW j \in Buf
      PROVE  \E i \in Buf : from(i) = j
  <2>1. CASE j = k
    <3>1. 1 \in Buf /\ from(1) = j
      BY <1>a, <2>1
    <3> QED BY <3>1
  <2>2. CASE j < k
    <3>1. j + 1 \in Buf /\ from(j + 1) = j
      BY <1>a, <1>1, <2>2
    <3> QED BY <3>1
  <2>3. CASE j > k
    <3>1. from(j) = j
      BY <1>a, <1>1, <2>3
    <3> QED BY <3>1
  <2> QED BY <1>a, <1>1, <2>1, <2>2, <2>3
<1> HIDE DEF from
<1>6. lru' \in [Buf -> Buf]
  <2>1. \A i \in Buf : lru'[i] \in Buf
    BY <1>0, <1>3, Zenon
  <2>2. lru' = [i \in Buf |-> lru'[i]]
    BY <1>2
  <2> QED BY <2>1, <2>2
<1>7. \A i, j \in Buf : lru'[i] = lru'[j] => i = j
  <2> SUFFICES ASSUME NEW i \in Buf, NEW j \in Buf, lru'[i] = lru'[j]
               PROVE  i = j
    OBVIOUS
  <2>1. from(i) \in Buf /\ from(j) \in Buf /\ lru[from(i)] = lru[from(j)]
    BY <1>3, Zenon
  <2>2. from(i) = from(j)
    BY <1>0, <2>1, Zenon
  <2> QED BY <1>4, <2>2
<1>8. \A c \in Buf : \E i \in Buf : lru'[i] = c
  <2> SUFFICES ASSUME NEW c \in Buf PROVE \E i \in Buf : lru'[i] = c
    OBVIOUS
  <2>1. PICK j \in Buf : lru[j] = c
    BY <1>0
  <2>2. PICK i \in Buf : from(i) = j
    BY <1>5
  <2> QED BY <1>3, <2>1, <2>2, Zenon
<1> QED BY <1>6, <1>7, <1>8 DEF LruInv

\* Brelse: one process less uses the buffer.
LEMMA BrelseStep ==
  ASSUME IInv, NEW p \in Proc, Brelse(p)
  PROVE  IInv'
<1>0. PICK b \in Buf : b = tgt[p]
  BY DEF IInv, TypeInv
<1>a. /\ pc[p] = "brelse" /\ ~Panicked /\ b \in Buf /\ b \notin mine[p]
      /\ refcnt' = [refcnt EXCEPT ![b] = @ - 1]
      /\ lru' = lru \/ lru' = MoveFirst(b)
      /\ pc' = [pc EXCEPT ![p] = "run"]
      /\ UNCHANGED <<bufVars, locked, ideVars, want, tgt, mine, got>>
  BY <1>0 DEF Brelse, Unref, Goto, IInv, TypeInv, PlaceInv
<1>b. p \in Refs(b)
  BY <1>0, <1>a DEF Refs
<1>c. refcnt[b] \in Nat \ {0} /\ IsFiniteSet(Refs(b))
  BY <1>a, <1>b, RefFacts DEF IInv
<1> USE <1>0, <1>a, <1>b, <1>c DEF IInv, bufVars, ideVars
<1>1. TypeInv'
  BY DEF TypeInv, Places
<1>2. LruInv'
  <2>1. CASE lru' = lru
    BY <2>1 DEF LruInv
  <2>2. CASE lru' = MoveFirst(b)
    BY <2>2, MoveFirstPermutes
  <2> QED BY <2>1, <2>2
<1>3. LockInv'
  BY DEF LockInv
<1>4. PlaceInv'
  BY DEF TypeInv, PlaceInv, InBget, InIderw
<1>5. RefInv'
  <2>1. \A c \in Buf \ {b} : Refs(c)' = Refs(c) /\ refcnt'[c] = refcnt[c]
    BY DEF TypeInv, Refs, InBget
  <2>2. Refs(b)' = Refs(b) \ {p}
    <3>1. ASSUME NEW q \in Proc
          PROVE  (b \in mine'[q] \/ (tgt'[q] = b /\ pc'[q] \in InBget \cup {"brelse"}))
                 <=> q \in Refs(b) \ {p}
      <4>1. CASE q = p
        BY <4>1 DEF TypeInv, InBget
      <4>2. CASE q # p
        BY <4>2 DEF TypeInv, InBget, Refs
      <4> QED BY <4>1, <4>2
    <3> QED BY <3>1 DEF Refs
  <2>3. Cardinality(Refs(b)') = Cardinality(Refs(b)) - 1
    <3> DEFINE R == Refs(b)
    <3>1. IsFiniteSet(R) /\ p \in R
      OBVIOUS
    <3> HIDE DEF R
    <3>2. Cardinality(R \ {p}) = Cardinality(R) - 1
      BY <3>1, FS_RemoveElement
    <3> QED BY <2>2, <3>2 DEF R
  <2>4. refcnt'[b] = Cardinality(Refs(b)')
    BY <2>3 DEF TypeInv, RefInv
  <2>5. blockno'[b] # None
    BY DEF RefInv
  <2> QED BY <2>1, <2>4, <2>5 DEF RefInv
<1>6. OneBufferPerBlock'
  BY DEF OneBufferPerBlock
<1>7. TargetIsWanted'
  BY DEF TargetIsWanted
<1>8. QueueInv'
  BY QueueFrame DEF TypeInv
<1>9. DataInv'
  BY DEF TypeInv, DataInv
<1>10. PanicInv'
  BY DEF TypeInv, PanicInv, Panicked
<1> QED BY <1>1, <1>2, <1>3, <1>4, <1>5, <1>6, <1>7, <1>8, <1>9, <1>10

\* The sleeper that a request in the queue belongs to has the buffer locked, so
\* it is the only process at work on it.
LEMMA Owner ==
  ASSUME IInv, NEW i \in 1 .. Len(idequeue)
  PROVE  \E p \in Proc : /\ pc[p] = "ide_asleep" /\ tgt[p] = idequeue[i]
                         /\ idequeue[i] \in Buf /\ idequeue[i] \in mine[p]
                         /\ \A q \in Proc : idequeue[i] \in mine[q] => q = p
<1>1. PICK p \in Proc : pc[p] = "ide_asleep" /\ tgt[p] = idequeue[i]
  BY DEF IInv, QueueInv
<1>2. tgt[p] \in Buf /\ tgt[p] \in mine[p]
  BY <1>1 DEF IInv, TypeInv, PlaceInv, InIderw
<1>3. \A q \in Proc : tgt[p] \in mine[q] => q = p
  BY <1>2 DEF IInv, LockInv
<1> QED BY <1>1, <1>2, <1>3

\* Iderw: the buffer is not in the queue yet, for its one holder is not asleep.
LEMMA IderwStep ==
  ASSUME IInv, NEW p \in Proc, Iderw(p)
  PROVE  IInv'
<1>0. PICK b \in Buf : b = tgt[p]
  BY DEF IInv, TypeInv
<1>a. /\ pc[p] = "iderw" /\ b \in mine[p]
      /\ idequeue' = Append(idequeue, b)
      /\ cmd' = IF idequeue = <<>> THEN Idestart(b) ELSE cmd
      /\ pc' = [pc EXCEPT ![p] = "ide_asleep"]
      /\ UNCHANGED <<bufVars, refcnt, locked, lru, disk, want, tgt, mine, got>>
  BY <1>0 DEF Iderw, Goto, IInv, PlaceInv, InIderw
<1>b. \A i \in 1 .. Len(idequeue) : idequeue[i] # b
  BY <1>a, Owner
<1>c. blockno[b] \in Block
  <2>1. Refs(b) # {}
    BY <1>a DEF Refs
  <2> QED BY <2>1 DEF IInv, RefInv, TypeInv
<1>d. idequeue \in Seq(Buf)
  BY DEF IInv, TypeInv
<1> USE <1>0, <1>a, <1>c DEF IInv, bufVars
<1>1. TypeInv'
  <2>1. Idestart(b) \in Commands
    BY DEF TypeInv, Idestart, Commands
  <2>2. cmd' \in Commands \cup {None}
    BY <2>1 DEF TypeInv
  <2>3. idequeue' \in Seq(Buf)
    BY <1>d
  <2>4. pc' \in [Proc -> Places]
    BY DEF TypeInv, Places
  <2> QED BY <2>2, <2>3, <2>4 DEF TypeInv
<1>2. LruInv'
  BY DEF LruInv
<1>3. LockInv'
  BY DEF LockInv
<1>4. PlaceInv'
  BY DEF TypeInv, PlaceInv, InBget, InIderw
<1>5. RefInv'
  <2>1. \A c \in Buf : Refs(c)' = Refs(c)
    BY DEF TypeInv, Refs, InBget
  <2> QED BY <2>1, RefFrame
<1>6. OneBufferPerBlock'
  BY DEF OneBufferPerBlock
<1>7. TargetIsWanted'
  BY DEF TargetIsWanted
<1>8. QueueInv'
  <2> DEFINE n == Len(idequeue)
  <2>1. /\ n \in Nat /\ Len(idequeue') = n + 1
        /\ idequeue'[n + 1] = b /\ \A i \in 1 .. n : idequeue'[i] = idequeue[i]
    BY <1>d
  <2>2. \A i \in 1 .. n + 1 :
          \E q \in Proc : pc'[q] = "ide_asleep" /\ tgt'[q] = idequeue'[i]
    <3>1. pc'[p] = "ide_asleep" /\ tgt'[p] = b
      BY DEF TypeInv
    <3>2. \A i \in 1 .. n : \E q \in Proc : pc[q] = "ide_asleep" /\ tgt[q] = idequeue[i]
      BY DEF QueueInv
    <3>3. \A q \in Proc : pc[q] = "ide_asleep" => pc'[q] = "ide_asleep"
      BY DEF TypeInv
    <3>4. ASSUME NEW i \in 1 .. n + 1
          PROVE  \E q \in Proc : pc'[q] = "ide_asleep" /\ tgt'[q] = idequeue'[i]
      <4>1. CASE i = n + 1
        BY <2>1, <3>1, <4>1
      <4>2. CASE i # n + 1
        <5>1. i \in 1 .. n
          BY <2>1, <4>2
        <5> QED BY <2>1, <3>2, <3>3, <5>1
      <4> QED BY <4>1, <4>2
    <3> QED BY <3>4
  <2>3. \A i, j \in 1 .. n + 1 : idequeue'[i] = idequeue'[j] => i = j
    <3>1. ASSUME NEW i \in 1 .. n + 1, NEW j \in 1 .. n + 1, idequeue'[i] = idequeue'[j]
          PROVE  i = j
      <4>1. CASE i \in 1 .. n /\ j \in 1 .. n
        BY <2>1, <3>1, <4>1 DEF QueueInv
      <4>2. CASE i = n + 1 /\ j \in 1 .. n
        BY <1>b, <2>1, <3>1, <4>2
      <4>3. CASE j = n + 1 /\ i \in 1 .. n
        BY <1>b, <2>1, <3>1, <4>3
      <4>4. CASE i = n + 1 /\ j = n + 1
        BY <4>4
      <4> QED BY <2>1, <4>1, <4>2, <4>3, <4>4
    <3> QED BY <3>1
  <2>4. cmd' = Idestart(Head(idequeue'))
    <3>1. CASE idequeue = <<>>
      <4>1. Head(idequeue') = b
        BY <3>1
      <4> QED BY <3>1, <4>1
    <3>2. CASE idequeue # <<>>
      <4>1. Head(idequeue') = Head(idequeue)
        BY <1>d, <3>2
      <4> QED BY <3>2, <4>1 DEF QueueInv
    <3> QED BY <3>1, <3>2
  <2>5. Idestart(Head(idequeue'))  = Idestart(Head(idequeue))'
    BY DEF Idestart
  <2> QED BY <2>1, <2>2, <2>3, <2>4, <2>5 DEF QueueInv
<1>9. DataInv'
  BY DEF TypeInv, DataInv
<1>10. PanicInv'
  BY DEF TypeInv, PanicInv, Panicked, Recyclable
<1> QED BY <1>1, <1>2, <1>3, <1>4, <1>5, <1>6, <1>7, <1>8, <1>9, <1>10

\* What an interrupt of the disk does: the first request of the queue, which is
\* the disk's command, is answered.
LEMMA IdeintrFacts ==
  ASSUME IInv, NEW ok \in Outcomes, Ideintr(ok)
  PROVE  \E b \in Buf, p \in Proc :
           /\ b = Head(idequeue) /\ b = idequeue[1] /\ blockno[b] \in Block
           /\ b \in mine[p] /\ tgt[p] = b /\ pc[p] = "ide_asleep"
           /\ \A q \in Proc : b \in mine[q] => q = p
           /\ disk' = IF dirty[b] /\ ok THEN [disk EXCEPT ![blockno[b]] = data[b]] ELSE disk
           /\ data' = IF ~dirty[b] /\ ok THEN [data EXCEPT ![b] = disk[blockno[b]]] ELSE data
           /\ valid' = [valid EXCEPT ![b] = TRUE]
           /\ dirty' = [dirty EXCEPT ![b] = FALSE]
           /\ pc' = [q \in Proc |-> IF pc[q] = "ide_asleep" /\ tgt[q] = b
                                   THEN "ide_woken" ELSE pc[q]]
           /\ idequeue # <<>> /\ idequeue' = Tail(idequeue)
           /\ cmd' = IF idequeue' = <<>> THEN None ELSE Idestart(Head(idequeue'))
           /\ UNCHANGED <<blockno, refcnt, locked, lru, want, tgt, mine, got>>
<1>1. idequeue # <<>> /\ idequeue \in Seq(Buf)
  BY DEF Ideintr, IInv, TypeInv
<1>2. 1 \in 1 .. Len(idequeue) /\ Head(idequeue) = idequeue[1]
  BY <1>1
<1>3. PICK p \in Proc : /\ pc[p] = "ide_asleep" /\ tgt[p] = idequeue[1]
                        /\ idequeue[1] \in Buf /\ idequeue[1] \in mine[p]
                        /\ \A q \in Proc : idequeue[1] \in mine[q] => q = p
  BY <1>2, Owner
<1>4. PICK b \in Buf : b = idequeue[1]
  BY <1>3
<1>5. blockno[b] \in Block
  <2>1. Refs(b) # {}
    BY <1>3, <1>4 DEF Refs
  <2> QED BY <2>1 DEF IInv, RefInv, TypeInv
<1>6. cmd = [write |-> dirty[b], blockno |-> blockno[b], data |-> data[b]]
  BY <1>1, <1>2, <1>4 DEF IInv, QueueInv, Idestart
<1>7. cmd.write = dirty[b] /\ cmd.blockno = blockno[b] /\ cmd.data = data[b]
  BY <1>6
<1>8. /\ disk' = IF dirty[b] /\ ok THEN [disk EXCEPT ![blockno[b]] = data[b]] ELSE disk
      /\ data' = IF ~dirty[b] /\ ok THEN [data EXCEPT ![b] = disk[blockno[b]]] ELSE data
      /\ valid' = [valid EXCEPT ![b] = TRUE]
      /\ dirty' = [dirty EXCEPT ![b] = FALSE]
  BY <1>2, <1>4, <1>7 DEF Ideintr
<1>9. /\ pc' = [q \in Proc |-> IF pc[q] = "ide_asleep" /\ tgt[q] = b
                              THEN "ide_woken" ELSE pc[q]]
      /\ idequeue' = Tail(idequeue)
      /\ cmd' = IF idequeue' = <<>> THEN None ELSE Idestart(Head(idequeue'))
      /\ UNCHANGED <<blockno, refcnt, locked, lru, want, tgt, mine, got>>
  BY <1>2, <1>4 DEF Ideintr, IdeWakes, Wakeup, StartNext
<1> QED BY <1>1, <1>2, <1>3, <1>4, <1>5, <1>8, <1>9

\* Ideintr: only the buffer of the first request changes, and the other requests
\* are for other buffers.
LEMMA IdeintrStep ==
  ASSUME IInv, NEW ok \in Outcomes, Ideintr(ok)
  PROVE  IInv'
<1>0. PICK b \in Buf, p \in Proc :
           /\ b = Head(idequeue) /\ b = idequeue[1] /\ blockno[b] \in Block
           /\ b \in mine[p] /\ tgt[p] = b /\ pc[p] = "ide_asleep"
           /\ \A q \in Proc : b \in mine[q] => q = p
           /\ disk' = IF dirty[b] /\ ok THEN [disk EXCEPT ![blockno[b]] = data[b]] ELSE disk
           /\ data' = IF ~dirty[b] /\ ok THEN [data EXCEPT ![b] = disk[blockno[b]]] ELSE data
           /\ valid' = [valid EXCEPT ![b] = TRUE]
           /\ dirty' = [dirty EXCEPT ![b] = FALSE]
           /\ pc' = [q \in Proc |-> IF pc[q] = "ide_asleep" /\ tgt[q] = b
                                   THEN "ide_woken" ELSE pc[q]]
           /\ idequeue # <<>> /\ idequeue' = Tail(idequeue)
           /\ cmd' = IF idequeue' = <<>> THEN None ELSE Idestart(Head(idequeue'))
           /\ UNCHANGED <<blockno, refcnt, locked, lru, want, tgt, mine, got>>
  BY IdeintrFacts
<1> DEFINE n == Len(idequeue)
<1>a. /\ n \in Nat \ {0} /\ Len(idequeue') = n - 1 /\ idequeue' \in Seq(Buf)
      /\ \A i \in 1 .. n - 1 : idequeue'[i] = idequeue[i + 1]
  BY <1>0 DEF IInv, TypeInv
<1>b. \A i \in 1 .. n - 1 : idequeue'[i] # b /\ idequeue'[i] \in Buf
  <2>1. ASSUME NEW i \in 1 .. n - 1
        PROVE  idequeue'[i] # b /\ idequeue'[i] \in Buf
    <3>1. 1 \in 1 .. n /\ i + 1 \in 1 .. n /\ i + 1 # 1
      BY <1>a
    <3> QED BY <1>0, <1>a, <3>1 DEF IInv, QueueInv
  <2> QED BY <2>1
<1>c. ASSUME idequeue' # <<>>
      PROVE  /\ 1 \in 1 .. n - 1 /\ Head(idequeue') = idequeue'[1]
             /\ idequeue'[1] \in Buf \ {b} /\ blockno[idequeue'[1]] \in Block
  <2>1. 1 \in 1 .. n - 1 /\ Head(idequeue') = idequeue'[1]
    BY <1>a, <1>c
  <2>2. 2 \in 1 .. n /\ idequeue'[1] = idequeue[2]
    BY <1>a, <2>1
  <2>3. PICK q \in Proc : idequeue[2] \in Buf /\ idequeue[2] \in mine[q]
    BY <2>2, Owner
  <2>4. PICK c \in Buf : c = idequeue[2]
    BY <2>3
  <2>5. Refs(c) # {}
    BY <2>3, <2>4 DEF Refs
  <2>6. blockno[c] \in Block
    BY <2>5 DEF IInv, RefInv, TypeInv
  <2> QED BY <1>b, <2>1, <2>2, <2>4, <2>6
<1>d. \A q \in Proc : pc[q] = "ide_asleep" /\ tgt[q] = b => q = p
  BY <1>0 DEF IInv, PlaceInv, InIderw
<1> HIDE DEF n
<1> USE <1>0 DEF IInv
<1>1. TypeInv'
  <2>1. cmd' \in Commands \cup {None}
    <3>1. CASE idequeue' = <<>>
      BY <3>1
    <3>2. CASE idequeue' # <<>>
      <4>1. PICK c \in Buf : c = idequeue'[1] /\ blockno[c] \in Block /\ cmd' = Idestart(c)
        BY <1>c, <3>2
      <4>2. dirty[c] \in BOOLEAN /\ data[c] \in Val
        BY DEF TypeInv
      <4>3. Idestart(c) \in Commands
        BY <4>1, <4>2 DEF Idestart, Commands
      <4> QED BY <4>1, <4>3
    <3> QED BY <3>1, <3>2
  <2>2. pc' \in [Proc -> Places]
    BY DEF TypeInv, Places
  <2>3. data' \in [Buf -> Val] /\ disk' \in [Block -> Val]
    BY DEF TypeInv
  <2>4. valid' \in [Buf -> BOOLEAN] /\ dirty' \in [Buf -> BOOLEAN]
    BY DEF TypeInv
  <2> QED BY <1>a, <2>1, <2>2, <2>3, <2>4 DEF TypeInv
<1>2. LruInv'
  BY DEF LruInv
<1>3. LockInv'
  BY DEF LockInv
<1>4. PlaceInv'
  BY DEF TypeInv, PlaceInv, InBget, InIderw
<1>5. RefInv'
  <2>1. \A c \in Buf : Refs(c)' = Refs(c)
    BY DEF TypeInv, Refs, InBget
  <2> QED BY <2>1, RefFrame
<1>6. OneBufferPerBlock'
  BY DEF OneBufferPerBlock
<1>7. TargetIsWanted'
  BY DEF TargetIsWanted
<1>8. QueueInv'
  <2>1. \A i \in 1 .. n - 1 :
          \E q \in Proc : pc'[q] = "ide_asleep" /\ tgt'[q] = idequeue'[i]
    <3>1. ASSUME NEW i \in 1 .. n - 1
          PROVE  \E q \in Proc : pc'[q] = "ide_asleep" /\ tgt'[q] = idequeue'[i]
      <4>1. i + 1 \in 1 .. n
        BY <1>a
      <4>2. PICK q \in Proc : pc[q] = "ide_asleep" /\ tgt[q] = idequeue[i + 1]
        BY <4>1 DEF QueueInv, n
      <4> QED BY <1>a, <1>b, <4>2
    <3> QED BY <3>1
  <2>2. \A i, j \in 1 .. n - 1 : idequeue'[i] = idequeue'[j] => i = j
    <3>1. ASSUME NEW i \in 1 .. n - 1, NEW j \in 1 .. n - 1, idequeue'[i] = idequeue'[j]
          PROVE  i = j
      <4>1. i + 1 \in 1 .. n /\ j + 1 \in 1 .. n
        BY <1>a
      <4>2. idequeue[i + 1] = idequeue[j + 1]
        BY <1>a, <3>1
      <4>3. i + 1 = j + 1
        BY <4>1, <4>2 DEF QueueInv, n
      <4> QED BY <4>3, <1>a
    <3> QED BY <3>1
  <2>3. ASSUME idequeue' # <<>>
        PROVE  cmd' = Idestart(Head(idequeue))'
    <3>1. PICK c \in Buf \ {b} : c = Head(idequeue')
      BY <1>c, <2>3
    <3>2. data'[c] = data[c] /\ dirty'[c] = dirty[c]
      BY DEF TypeInv
    <3> QED BY <2>3, <3>1, <3>2 DEF Idestart
  <2> QED BY <1>a, <2>1, <2>2, <2>3 DEF QueueInv
<1>9. DataInv'
  <2>1. \A c \in Buf : (dirty'[c] => valid'[c]) /\ (valid'[c] => blockno'[c] # None)
    BY DEF TypeInv, DataInv
  <2>2. \A q \in Proc : \A c \in mine'[q] :
          valid'[c] \/ (tgt'[q] = c /\ pc'[q] \in {"bread", "iderw", "ide_asleep"})
    <3>1. ASSUME NEW q \in Proc, NEW c \in mine[q]
          PROVE  valid'[c] \/ (tgt[q] = c /\ pc'[q] \in {"bread", "iderw", "ide_asleep"})
      <4>1. CASE c = b
        BY <4>1 DEF TypeInv
      <4>2. CASE c # b
        BY <4>2 DEF TypeInv, DataInv
      <4> QED BY <4>1, <4>2
    <3> QED BY <3>1
  <2>3. ASSUME ~DiskErrors, NEW c \in Buf, valid'[c], ~dirty'[c]
        PROVE  data'[c] = disk'[blockno'[c]]
    <3>1. ok
      BY <2>3 DEF Outcomes
    <3>2. CASE c = b
      BY <3>1, <3>2 DEF TypeInv
    <3>3. CASE c # b
      <4>1. valid[c] /\ ~dirty[c] /\ data'[c] = data[c]
        BY <2>3, <3>3 DEF TypeInv
      <4>2. data[c] = disk[blockno[c]] /\ blockno[c] \in Block
        BY <2>3, <4>1 DEF DataInv, TypeInv
      <4>3. blockno[c] # blockno[b]
        BY <3>3, <4>2 DEF OneBufferPerBlock
      <4>4. disk'[blockno[c]] = disk[blockno[c]]
        BY <4>2, <4>3 DEF TypeInv
      <4> QED BY <4>1, <4>2, <4>4
    <3> QED BY <3>2, <3>3
  <2> QED BY <2>1, <2>2, <2>3 DEF DataInv
<1>10. PanicInv'
  <2>1. Refs(b) # {}
    BY DEF Refs
  <2>2. refcnt[b] # 0
    BY <2>1, RefFacts
  <2>3. Panicked' => Panicked
    BY DEF TypeInv, Panicked
  <2>4. \A c \in Buf : ~Recyclable(c) => ~Recyclable(c)'
    BY <2>2 DEF TypeInv, Recyclable
  <2> QED BY <2>3, <2>4 DEF PanicInv
<1> QED BY <1>1, <1>2, <1>3, <1>4, <1>5, <1>6, <1>7, <1>8, <1>9, <1>10

-----------------------------------------------------------------------------
(* The invariant                                                           *)

\* binit() establishes the invariant.
LEMMA InitInv == Init => IInv
<1> SUFFICES ASSUME Init PROVE IInv
  OBVIOUS
<1> USE DEF Init
<1>1. TypeInv
  BY DEF TypeInv, Places, Buf
<1>2. LruInv
  <2>1. lru \in [Buf -> Buf] /\ \A i, j \in Buf : lru[i] = lru[j] => i = j
    BY DEF Buf
  <2>2. ASSUME NEW b \in Buf PROVE \E i \in Buf : lru[i] = b
    <3>1. NBUF + 1 - b \in Buf /\ lru[NBUF + 1 - b] = b
      BY DEF Buf
    <3> QED BY <3>1
  <2> QED BY <2>1, <2>2 DEF LruInv
<1>3. LockInv
  BY DEF LockInv
<1>4. PlaceInv
  BY DEF PlaceInv, InBget, InIderw
<1>5. RefInv
  <2>1. \A b \in Buf : Refs(b) = {}
    BY DEF Refs, InBget
  <2> QED BY <2>1, FS_EmptySet DEF RefInv
<1>6. OneBufferPerBlock /\ TargetIsWanted /\ QueueInv /\ DataInv /\ PanicInv
  BY DEF OneBufferPerBlock, TargetIsWanted, QueueInv, DataInv, PanicInv, Panicked
<1> QED BY <1>1, <1>2, <1>3, <1>4, <1>5, <1>6 DEF IInv

\* Every step keeps it.
LEMMA NextInv == IInv /\ [Next]_vars => IInv'
<1> SUFFICES ASSUME IInv, [Next]_vars PROVE IInv'
  OBVIOUS
<1>1. ASSUME NEW p \in Proc, Calls(p) PROVE IInv'
  <2>1. ASSUME NEW blk \in Block, BgetCached(p, blk) PROVE IInv'
    BY <2>1, BgetCachedStep
  <2>2. ASSUME NEW blk \in Block, BgetRecycle(p, blk) PROVE IInv'
    BY <2>2, BgetRecycleStep
  <2>3. ASSUME NEW blk \in Block, BgetPanic(p, blk) PROVE IInv'
    BY <2>3, BgetPanicStep
  <2>4. ASSUME NEW b \in Buf, NEW v \in Val, Bwrite(p, b, v) PROVE IInv'
    BY <2>4, BwriteStep
  <2>5. ASSUME NEW b \in Buf, NEW v \in Val, LogWrite(p, b, v) PROVE IInv'
    BY <2>5, LogWriteStep
  <2> QED BY <1>1, <2>1, <2>2, <2>3, <2>4, <2>5 DEF Calls
<1>2. ASSUME NEW p \in Proc, Steps(p) PROVE IInv'
  BY <1>2, AcquiresleepStep, AcquiresleepSleepStep, BrelseStep, BreadHitStep,
     BreadMissStep, IderwStep, IderwDoneStep DEF Steps
<1>3. ASSUME NEW p \in Proc, NEW b \in Buf, Releasesleep(p, b) PROVE IInv'
  BY <1>3, ReleasesleepStep
<1>4. ASSUME Interrupt PROVE IInv'
  BY <1>4, IdeintrStep DEF Interrupt
<1>5. ASSUME UNCHANGED vars PROVE IInv'
  <2> USE <1>5 DEF vars, bufVars, ideVars, IInv
  <2>1. TypeInv' /\ LruInv' /\ LockInv' /\ PlaceInv'
    BY DEF TypeInv, LruInv, LockInv, PlaceInv
  <2>2. RefInv'
    BY RefFrame DEF Refs
  <2>3. OneBufferPerBlock' /\ TargetIsWanted' /\ DataInv'
    BY DEF OneBufferPerBlock, TargetIsWanted, DataInv
  <2>4. QueueInv' /\ PanicInv'
    BY DEF QueueInv, PanicInv, Idestart, Panicked, Recyclable
  <2> QED BY <2>1, <2>2, <2>3, <2>4
<1> QED BY <1>1, <1>2, <1>3, <1>4, <1>5 DEF Next, IdeintrSpurious

\* The invariant holds in every state the cache can be in.
THEOREM Invariance == Spec => []IInv
<1> QED BY InitInv, NextInv, PTL DEF Spec

\* Every variable keeps its type; a buffer has at most one reference per process.
THEOREM TypeCorrect == Spec => []TypeOK
<1>1. IInv => TypeOK
  <2> SUFFICES ASSUME IInv PROVE TypeOK
    OBVIOUS
  <2> DEFINE N == Cardinality(Proc)
  <2>1. N \in Nat
    BY FS_CardinalityType
  <2>2. ASSUME NEW b \in Buf PROVE refcnt[b] \in 0 .. N
    <3>1. Refs(b) \subseteq Proc
      BY DEF Refs
    <3>2. IsFiniteSet(Refs(b)) /\ Cardinality(Refs(b)) <= N
      BY <3>1, FS_Subset
    <3>3. refcnt[b] \in Nat /\ refcnt[b] = Cardinality(Refs(b))
      BY RefFacts DEF IInv, RefInv
    <3> QED BY <2>1, <3>2, <3>3
  <2> HIDE DEF N
  <2>3. N \in Nat /\ N * HOLDS \in Nat /\ N <= N * HOLDS
    BY <2>1
  <2>4. ASSUME NEW b \in Buf PROVE refcnt[b] \in 0 .. N * HOLDS
    BY <2>2, <2>3
  <2>5. refcnt \in [Buf -> 0 .. N * HOLDS]
    BY <2>4 DEF IInv, TypeInv
  <2> QED BY <2>5 DEF IInv, TypeInv, LruInv, TypeOK, N
<1> QED BY <1>1, Invariance, PTL

\* A block never has two buffers: bget() searches and recycles under one lock.
THEOREM NoTwoBuffers == Spec => []OneBufferPerBlock
<1>1. IInv => OneBufferPerBlock
  BY DEF IInv
<1> QED BY <1>1, Invariance, PTL

\* The buffer that bread() gets the lock of is still that of the block it asked
\* for: bget() recycles no buffer that is referenced.
THEOREM RightBuffer == Spec => []TargetIsWanted
<1>1. IInv => TargetIsWanted
  BY DEF IInv
<1> QED BY <1>1, Invariance, PTL

\* "bget: no buffers" is true when it is said: no reference leaks.
THEOREM PanicIsHonest == Spec => []PanicMeansFull
<1>1. IInv => PanicMeansFull
  <2> SUFFICES ASSUME IInv, Panicked, NEW b \in Buf
               PROVE  \/ b \in Pinned
                      \/ \E p \in Proc : b \in mine[p]
                      \/ \E p \in Proc :
                           tgt[p] = b /\ pc[p] \in {"lock", "lock_asleep", "brelse"}
    BY DEF PanicMeansFull
  <2>1. refcnt[b] # 0 \/ dirty[b]
    BY DEF IInv, PanicInv, Recyclable
  <2>2. CASE refcnt[b] # 0
    <3>1. Refs(b) # {}
      BY <2>2, RefFacts DEF IInv
    <3> QED BY <3>1 DEF Refs, InBget
  <2>3. CASE refcnt[b] = 0 /\ dirty[b]
    <3>1. Refs(b) = {}
      BY <2>3, RefFacts DEF IInv
    <3>2. \A p \in Proc : pc[p] \in InIderw => tgt[p] # b
      BY <3>1 DEF IInv, PlaceInv, Refs
    <3> QED BY <2>3, <3>2 DEF Pinned
  <2> QED BY <2>1, <2>2, <2>3
<1> QED BY <1>1, Invariance, PTL

-----------------------------------------------------------------------------
(* The cache implements a store of blocks                                  *)

\* The contents and the holder of a block are those of its one buffer.
LEMMA BlockFacts ==
  IInv => \A b \in Buf :
            blockno[b] \in Block =>
              /\ CacheVal[blockno[b]] = IF valid[b] THEN data[b] ELSE disk[blockno[b]]
              /\ CacheHolder[blockno[b]] = locked[b]
<1> SUFFICES ASSUME IInv, NEW b \in Buf, blockno[b] \in Block
             PROVE  /\ CacheVal[blockno[b]] = IF valid[b] THEN data[b] ELSE disk[blockno[b]]
                    /\ CacheHolder[blockno[b]] = locked[b]
  OBVIOUS
<1>1. Copies(blockno[b]) = IF valid[b] THEN {b} ELSE {}
  BY DEF IInv, OneBufferPerBlock, Copies
<1>2. Users(blockno[b]) = IF locked[b] # None THEN {b} ELSE {}
  BY DEF IInv, OneBufferPerBlock, Users
<1>3. CacheVal[blockno[b]] = IF valid[b] THEN data[b] ELSE disk[blockno[b]]
  BY <1>1 DEF CacheVal
<1>4. CacheHolder[blockno[b]] = locked[b]
  BY <1>2 DEF CacheHolder
<1> QED BY <1>3, <1>4

\* A block without a buffer is on the disk only.
LEMMA NoBlockFacts ==
  \A blk \in Block :
    Cached(blk) = {} => CacheVal[blk] = disk[blk] /\ CacheHolder[blk] = None
<1> SUFFICES ASSUME NEW blk \in Block, Cached(blk) = {}
             PROVE  CacheVal[blk] = disk[blk] /\ CacheHolder[blk] = None
  OBVIOUS
<1>1. Copies(blk) = {} /\ Users(blk) = {}
  BY DEF Cached, Copies, Users
<1> QED BY <1>1 DEF CacheVal, CacheHolder

\* The same facts of the state after a step.
LEMMA BlockFactsAfter ==
  ASSUME IInv'
  PROVE  /\ \A b \in Buf :
              blockno'[b] \in Block =>
                /\ CacheVal'[blockno'[b]] =
                     IF valid'[b] THEN data'[b] ELSE disk'[blockno'[b]]
                /\ CacheHolder'[blockno'[b]] = locked'[b]
         /\ \A blk \in Block :
              Cached(blk)' = {} =>
                CacheVal'[blk] = disk'[blk] /\ CacheHolder'[blk] = None
<1>1. (\A b \in Buf :
            blockno[b] \in Block =>
              /\ CacheVal[blockno[b]] = IF valid[b] THEN data[b] ELSE disk[blockno[b]]
              /\ CacheHolder[blockno[b]] = locked[b])'
  BY BlockFacts, PTL
<1>2. (\A blk \in Block :
         Cached(blk) = {} => CacheVal[blk] = disk[blk] /\ CacheHolder[blk] = None)'
  BY NoBlockFacts, PTL
<1> QED BY <1>1, <1>2

\* A step that changes contents and locks of one buffer changes the contents and
\* the holder of one block.
LEMMA OneBlockChanges ==
  ASSUME IInv, IInv', NEW b \in Buf, blockno[b] \in Block,
         UNCHANGED <<blockno, disk>>,
         \A c \in Buf \ {b} : /\ valid'[c] = valid[c] /\ data'[c] = data[c]
                              /\ locked'[c] = locked[c]
  PROVE  /\ CacheVal' = [CacheVal EXCEPT ![blockno[b]] = CacheVal'[blockno[b]]]
         /\ CacheHolder' = [CacheHolder EXCEPT ![blockno[b]] = locked'[b]]
<1>1. ASSUME NEW blk \in Block, blk # blockno[b]
      PROVE  CacheVal'[blk] = CacheVal[blk] /\ CacheHolder'[blk] = CacheHolder[blk]
  <2>1. CASE Cached(blk) = {}
    <3>1. Cached(blk)' = {}
      BY <2>1 DEF Cached
    <3> QED BY <2>1, <3>1, NoBlockFacts, BlockFactsAfter
  <2>2. CASE Cached(blk) # {}
    <3>1. PICK c \in Buf : blockno[c] = blk
      BY <2>2 DEF Cached
    <3>2. c # b
      BY <1>1, <3>1
    <3> QED BY <3>1, <3>2, BlockFacts, BlockFactsAfter
  <2> QED BY <2>1, <2>2
<1>2. CacheHolder'[blockno[b]] = locked'[b]
  BY BlockFactsAfter
<1>3. /\ CacheVal = [blk \in Block |-> CacheVal[blk]]
      /\ CacheVal' = [blk \in Block |-> CacheVal'[blk]]
      /\ CacheHolder = [blk \in Block |-> CacheHolder[blk]]
      /\ CacheHolder' = [blk \in Block |-> CacheHolder'[blk]]
  BY DEF CacheVal, CacheHolder
<1> QED BY <1>1, <1>2, <1>3

\* A step that leaves the contents of every block and its holder alone.
LEMMA SameBlocks ==
  ASSUME \A blk \in Block :
           CacheVal'[blk] = CacheVal[blk] /\ CacheHolder'[blk] = CacheHolder[blk]
  PROVE  UNCHANGED <<CacheVal, CacheHolder>>
BY DEF CacheVal, CacheHolder

\* A buffer that some process has locked is the buffer of a block, and its
\* holder is the block's holder.
LEMMA HeldFacts ==
  ASSUME IInv, NEW p \in Proc, NEW b \in mine[p]
  PROVE  /\ b \in Buf /\ locked[b] = p
         /\ blockno[b] \in Block /\ CacheHolder[blockno[b]] = p
<1>1. b \in Buf
  BY DEF IInv, TypeInv
<1>2. locked[b] = p
  BY <1>1 DEF IInv, LockInv
<1>3. Refs(b) # {}
  BY DEF Refs
<1>4. blockno[b] \in Block
  BY <1>1, <1>3 DEF IInv, RefInv, TypeInv
<1> QED BY <1>1, <1>2, <1>4, BlockFacts

\* Acquiresleep takes the block that was asked for.
LEMMA TakeStep ==
  ASSUME IInv, IInv', NEW p \in Proc, Acquiresleep(p)
  PROVE  Store!Take(p)
<1>0. PICK b \in Buf : b = tgt[p]
  BY DEF IInv, TypeInv
<1>1. want[p] \in Block /\ blockno[b] = want[p] /\ want[p] # None
  BY <1>0 DEF Acquiresleep, IInv, TypeInv, PlaceInv, InBget, TargetIsWanted
<1>2. /\ locked[b] = None /\ locked' = [locked EXCEPT ![b] = p]
      /\ UNCHANGED <<blockno, valid, data, disk, want, got>>
  BY <1>0 DEF Acquiresleep, Unlocked, bufVars, ideVars
<1>3. locked'[b] = p /\ \A c \in Buf \ {b} : locked'[c] = locked[c]
  BY <1>2 DEF IInv, TypeInv
<1>4. CacheHolder' = [CacheHolder EXCEPT ![want[p]] = p]
  BY <1>1, <1>2, <1>3, OneBlockChanges
<1>5. CacheHolder[want[p]] = None
  BY <1>1, <1>2, BlockFacts
<1>6. CacheVal' = CacheVal
  BY <1>2 DEF CacheVal, Copies
<1> QED BY <1>1, <1>2, <1>4, <1>5, <1>6 DEF Store!Take

\* bread() returns the contents of the block that was asked for.
LEMMA ReturnStep ==
  ASSUME IInv, NEW p \in Proc, want[p] # None, tgt[p] \in mine[p], valid[tgt[p]],
         Return(p), UNCHANGED <<blockno, valid, data, disk, locked>>
  PROVE  Store!Return(p)
<1>0. PICK b \in mine[p] : b = tgt[p]
  OBVIOUS
<1>1. b \in Buf /\ blockno[b] \in Block /\ CacheHolder[blockno[b]] = p
  BY HeldFacts
<1>2. blockno[b] = want[p]
  BY <1>0 DEF IInv, TargetIsWanted
<1>3. CacheVal[want[p]] = data[b]
  BY <1>0, <1>1, <1>2, BlockFacts
<1>4. UNCHANGED <<CacheVal, CacheHolder>>
  BY DEF CacheVal, CacheHolder, Copies, Users
<1>5. got' = data[b] /\ want' = [want EXCEPT ![p] = None]
  BY <1>0 DEF Return
<1> QED BY <1>1, <1>2, <1>3, <1>4, <1>5 DEF Store!Return

\* A holder that changes its buffer changes the block.
LEMMA ChangeStep ==
  ASSUME IInv, IInv', NEW p \in Proc, NEW b \in mine[p], NEW v \in Val,
         pc[p] = "run", data' = [data EXCEPT ![b] = v],
         UNCHANGED <<blockno, valid, locked, disk, want, got>>
  PROVE  \E blk \in Block : Store!Change(p, blk, v)
<1>1. b \in Buf /\ blockno[b] \in Block /\ CacheHolder[blockno[b]] = p
  BY HeldFacts
<1>2. valid[b]
  BY DEF IInv, DataInv
<1>3. data'[b] = v /\ \A c \in Buf \ {b} : data'[c] = data[c]
  BY <1>1 DEF IInv, TypeInv
<1>4. CacheVal'[blockno[b]] = v
  BY <1>1, <1>2, <1>3, BlockFactsAfter
<1>5. CacheVal' = [CacheVal EXCEPT ![blockno[b]] = v]
  BY <1>1, <1>3, <1>4, OneBlockChanges
<1>6. CacheHolder' = CacheHolder
  BY DEF CacheHolder, Users
<1> QED BY <1>1, <1>5, <1>6 DEF Store!Change

\* Releasesleep gives the block back.
LEMMA ReleaseStep ==
  ASSUME IInv, IInv', NEW p \in Proc, NEW b \in Buf, Releasesleep(p, b)
  PROVE  \E blk \in Block : Store!Release(p, blk)
<1>0. /\ b \in mine[p] /\ locked' = [locked EXCEPT ![b] = None]
      /\ UNCHANGED <<blockno, valid, data, disk, want, got>>
  BY DEF Releasesleep, bufVars, ideVars
<1>1. blockno[b] \in Block /\ CacheHolder[blockno[b]] = p
  BY <1>0, HeldFacts
<1>2. locked'[b] = None /\ \A c \in Buf \ {b} : locked'[c] = locked[c]
  BY <1>0 DEF IInv, TypeInv
<1>3. CacheHolder' = [CacheHolder EXCEPT ![blockno[b]] = None]
  BY <1>0, <1>1, <1>2, OneBlockChanges
<1>4. CacheVal' = CacheVal
  BY <1>0 DEF CacheVal, Copies
<1> QED BY <1>0, <1>1, <1>3, <1>4 DEF Store!Release

\* A buffer is recycled: the disk has what was in it, and nobody held it.
LEMMA RecycleAsks ==
  ASSUME ~DiskErrors, IInv, IInv', NEW p \in Proc, NEW blk \in Block,
         BgetRecycle(p, blk)
  PROVE  Store!Ask(p, blk)
<1>0. PICK b \in Buf : /\ Recyclable(b)
                       /\ blockno' = [blockno EXCEPT ![b] = blk]
                       /\ valid' = [valid EXCEPT ![b] = FALSE]
  <2>1. PICK i \in Buf : /\ Recyclable(lru[i])
                         /\ blockno' = [blockno EXCEPT ![lru[i]] = blk]
                         /\ valid' = [valid EXCEPT ![lru[i]] = FALSE]
    BY DEF BgetRecycle, Flags
  <2> QED BY <2>1 DEF IInv, LruInv
<1>1. /\ pc[p] = "run" /\ Cached(blk) = {} /\ want' = [want EXCEPT ![p] = blk]
      /\ UNCHANGED <<data, locked, disk, got>>
  BY DEF BgetRecycle, MayBread, ideVars
<1>2. want[p] = None
  BY <1>1 DEF IInv, PlaceInv
<1>3. Refs(b) = {} /\ ~dirty[b]
  BY <1>0, RefFacts DEF IInv, Recyclable
<1>4. locked[b] = None
  BY <1>3 DEF IInv, LockInv, Refs, TypeInv
<1>5. /\ blockno'[b] = blk /\ ~valid'[b]
      /\ \A c \in Buf \ {b} : blockno'[c] = blockno[c] /\ valid'[c] = valid[c]
  BY <1>0 DEF IInv, TypeInv
<1>6. CacheVal'[blk] = CacheVal[blk] /\ CacheHolder'[blk] = CacheHolder[blk]
  BY <1>1, <1>4, <1>5, NoBlockFacts, BlockFactsAfter
<1>7. ASSUME NEW old \in Block, old # blk
      PROVE  CacheVal'[old] = CacheVal[old] /\ CacheHolder'[old] = CacheHolder[old]
  <2>1. CASE old = blockno[b]
    <3>1. CacheVal[old] = disk[old] /\ CacheHolder[old] = None
      BY <1>3, <1>4, <2>1, BlockFacts DEF IInv, DataInv
    <3>2. Cached(old)' = {}
      BY <1>5, <1>7, <2>1 DEF Cached, IInv, OneBufferPerBlock
    <3> QED BY <1>1, <3>1, <3>2, BlockFactsAfter
  <2>2. CASE old # blockno[b] /\ Cached(old) = {}
    <3>1. Cached(old)' = {}
      BY <1>5, <1>7, <2>2 DEF Cached
    <3> QED BY <1>1, <2>2, <3>1, NoBlockFacts, BlockFactsAfter
  <2>3. CASE old # blockno[b] /\ Cached(old) # {}
    <3>1. PICK c \in Buf \ {b} : blockno[c] = old
      BY <2>3 DEF Cached
    <3> QED BY <1>1, <1>5, <3>1, BlockFacts, BlockFactsAfter
  <2> QED BY <2>1, <2>2, <2>3
<1>8. UNCHANGED <<CacheVal, CacheHolder>>
  BY <1>6, <1>7, SameBlocks
<1> QED BY <1>1, <1>2, <1>8 DEF Store!Ask

\* An answer of the disk changes no block: what was written was in the buffer,
\* and what was read was on the disk.
LEMMA InterruptStutters ==
  ASSUME ~DiskErrors, IInv, IInv', Interrupt
  PROVE  UNCHANGED <<CacheVal, CacheHolder, want, got>>
<1>0. PICK ok \in Outcomes : Ideintr(ok)
  BY DEF Interrupt
<1>1. ok
  BY DEF Outcomes
<1>2. PICK b \in Buf :
           /\ blockno[b] \in Block
           /\ disk' = IF dirty[b] THEN [disk EXCEPT ![blockno[b]] = data[b]] ELSE disk
           /\ data' = IF ~dirty[b] THEN [data EXCEPT ![b] = disk[blockno[b]]] ELSE data
           /\ valid' = [valid EXCEPT ![b] = TRUE]
           /\ UNCHANGED <<blockno, locked, want, got>>
  BY <1>0, <1>1, IdeintrFacts
<1>3. /\ valid'[b] /\ data'[b] = IF dirty[b] THEN data[b] ELSE disk[blockno[b]]
      /\ \A c \in Buf \ {b} : valid'[c] = valid[c] /\ data'[c] = data[c]
      /\ \A blk \in Block : blk # blockno[b] => disk'[blk] = disk[blk]
  BY <1>2 DEF IInv, TypeInv
<1>4. /\ dirty[b] => valid[b]
      /\ valid[b] /\ ~dirty[b] => data[b] = disk[blockno[b]]
  BY DEF IInv, DataInv
<1>5. CacheVal'[blockno[b]] = CacheVal[blockno[b]]
  BY <1>2, <1>3, <1>4, BlockFacts, BlockFactsAfter
<1>6. ASSUME NEW blk \in Block, blk # blockno[b]
      PROVE  CacheVal'[blk] = CacheVal[blk]
  <2>1. CASE Cached(blk) = {}
    <3>1. Cached(blk)' = {}
      BY <1>2, <2>1 DEF Cached
    <3> QED BY <1>3, <1>6, <2>1, <3>1, NoBlockFacts, BlockFactsAfter
  <2>2. CASE Cached(blk) # {}
    <3>1. PICK c \in Buf \ {b} : blockno[c] = blk
      BY <1>6, <2>2 DEF Cached
    <3> QED BY <1>2, <1>3, <1>6, <3>1, BlockFacts, BlockFactsAfter
  <2> QED BY <2>1, <2>2
<1>7. CacheHolder' = CacheHolder
  BY <1>2 DEF CacheHolder, Users
<1> QED BY <1>2, <1>5, <1>6, <1>7, SameBlocks

\* Every step of the cache is a step of the store, or leaves it alone.
LEMMA StoreStep ==
  ASSUME ~DiskErrors
  PROVE  IInv /\ IInv' /\ [Next]_vars
           => [Store!StoreNext]_<<CacheVal, CacheHolder, want, got>>
<1> SUFFICES ASSUME IInv, IInv', [Next]_vars,
                    ~ UNCHANGED <<CacheVal, CacheHolder, want, got>>
             PROVE  Store!StoreNext
  OBVIOUS
<1>0. ASSUME UNCHANGED <<blockno, valid, data, disk, locked, want, got>>
      PROVE  FALSE
  <2>1. CacheVal' = CacheVal
    BY <1>0 DEF CacheVal, Copies
  <2>2. CacheHolder' = CacheHolder
    BY <1>0 DEF CacheHolder, Users
  <2> QED BY <1>0, <2>1, <2>2
<1>1. ASSUME NEW p \in Proc, NEW blk \in Block, BgetCached(p, blk)
      PROVE  Store!StoreNext
  <2>1. /\ pc[p] = "run" /\ want' = [want EXCEPT ![p] = blk]
        /\ UNCHANGED <<blockno, valid, data, disk, locked, got>>
    BY <1>1 DEF BgetCached, MayBread, bufVars, ideVars
  <2>2. want[p] = None
    BY <2>1 DEF IInv, PlaceInv
  <2>3. UNCHANGED <<CacheVal, CacheHolder>>
    BY <2>1 DEF CacheVal, CacheHolder, Copies, Users
  <2> QED BY <2>1, <2>2, <2>3 DEF Store!Ask, Store!StoreNext
<1>2. ASSUME NEW p \in Proc, NEW blk \in Block, BgetRecycle(p, blk)
      PROVE  Store!StoreNext
  BY <1>2, RecycleAsks DEF Store!StoreNext
<1>3. ASSUME NEW p \in Proc, NEW b \in Buf, NEW v \in Val,
             Bwrite(p, b, v) \/ LogWrite(p, b, v)
      PROVE  Store!StoreNext
  <2>1. /\ b \in mine[p] /\ pc[p] = "run" /\ data' = [data EXCEPT ![b] = v]
        /\ UNCHANGED <<blockno, valid, locked, disk, want, got>>
    BY <1>3 DEF Bwrite, LogWrite, ideVars
  <2> QED BY <2>1, ChangeStep DEF Store!StoreNext
<1>4. ASSUME NEW p \in Proc, Acquiresleep(p)
      PROVE  Store!StoreNext
  BY <1>4, TakeStep DEF Store!StoreNext
<1>5. ASSUME NEW p \in Proc, BreadHit(p)
      PROVE  Store!StoreNext
  <2>1. /\ pc[p] = "bread" /\ valid[tgt[p]] /\ Return(p)
        /\ UNCHANGED <<blockno, valid, data, disk, locked>>
    BY <1>5 DEF BreadHit, bufVars, ideVars
  <2>2. want[p] # None /\ tgt[p] \in mine[p]
    BY <2>1 DEF IInv, PlaceInv
  <2> QED BY <2>1, <2>2, ReturnStep DEF Store!StoreNext
<1>6. ASSUME NEW p \in Proc, IderwDone(p)
      PROVE  Store!StoreNext
  <2>1. /\ pc[p] = "ide_woken" /\ valid[tgt[p]]
        /\ IF want[p] # None THEN Return(p) ELSE UNCHANGED <<want, got>>
        /\ UNCHANGED <<blockno, valid, data, disk, locked>>
    BY <1>6 DEF IderwDone, bufVars, ideVars
  <2>2. tgt[p] \in mine[p]
    BY <2>1 DEF IInv, PlaceInv, InIderw
  <2>3. want[p] # None /\ Return(p)
    BY <1>0, <2>1
  <2> QED BY <2>1, <2>2, <2>3, ReturnStep DEF Store!StoreNext
<1>7. ASSUME NEW p \in Proc, NEW b \in Buf, Releasesleep(p, b)
      PROVE  Store!StoreNext
  BY <1>7, ReleaseStep DEF Store!StoreNext
<1>8. ~ Interrupt
  BY InterruptStutters
<1>9. ASSUME NEW p \in Proc,
             \/ \E blk \in Block : BgetPanic(p, blk)
             \/ AcquiresleepSleep(p) \/ Brelse(p) \/ BreadMiss(p) \/ Iderw(p)
      PROVE  FALSE
  BY <1>0, <1>9 DEF BgetPanic, AcquiresleepSleep, Brelse, BreadMiss, Iderw, bufVars,
                    ideVars
<1>10. ~ UNCHANGED vars
  BY <1>0 DEF vars, bufVars, ideVars
<1>11. PICK p \in Proc : Calls(p) \/ Steps(p) \/ \E b \in Buf : Releasesleep(p, b)
  BY <1>8, <1>10 DEF Next, IdeintrSpurious
<1> QED BY <1>1, <1>2, <1>3, <1>4, <1>5, <1>6, <1>7, <1>9, <1>11 DEF Calls, Steps

\* On a disk that does not fail, the cache is a store of blocks: no update is
\* lost in a recycled buffer, no block has two holders, and bread() returns what
\* the last holder left.
THEOREM CacheIsStore ==
  ASSUME ~DiskErrors
  PROVE  Spec => ImplementsStore
<1>1. Init => Store!StoreInit
  <2> SUFFICES ASSUME Init PROVE Store!StoreInit
    OBVIOUS
  <2>1. \A blk \in Block : Copies(blk) = {} /\ Users(blk) = {}
    BY DEF Init, Copies, Users
  <2>2. CacheVal = [blk \in Block |-> disk[blk]] /\ CacheHolder = [blk \in Block |-> None]
    BY <2>1 DEF CacheVal, CacheHolder
  <2> QED BY <2>2 DEF Init, Store!StoreInit
<1>2. IInv /\ IInv' /\ [Next]_vars
        => [Store!StoreNext]_<<CacheVal, CacheHolder, want, got>>
  BY StoreStep
<1> QED BY <1>1, <1>2, Invariance, PTL DEF Spec, ImplementsStore, Store!StoreSpec,
                                         Store!storeVars
=============================================================================
