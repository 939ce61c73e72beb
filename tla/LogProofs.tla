----------------------------- MODULE LogProofs -----------------------------
(* Proofs about Log: any set of blocks, any finite set of processes, any    *)
(* number of operations and crashes, any sizes of the log.                  *)
EXTENDS Log, FiniteSetTheorems, TLAPS

\* log.outstanding counts the processes inside an operation.
CountInv == outstanding = Cardinality(Active)

\* Which loop runs when, and on whose behalf: commit() for the one process that
\* ended the last operation, recover_from_log() before any system call.
PhaseInv ==
  /\ committing => /\ Active = {}
                   /\ step \in {"write_log", "write_head", "install", "done"}
                   /\ \E p \in Proc : pc[p] = "commit"
  /\ ~committing => step \in {"none", "read_head", "install", "done"}
  /\ ~committing /\ step # "none" => Booting
  /\ committing \/ step = "none" => \A p \in Proc : pc[p] # "boot"
  /\ \A p \in Proc : pc[p] = "commit" => committing
  /\ \A p, q \in Proc : pc[p] = "commit" /\ pc[q] = "commit" => p = q

\* The blocks in the header of the log.
Entries == {lh[i] : i \in 1 .. Len(lh)}

\* A process has a buffer locked only inside log_write(), or because the kernel
\* panicked there, and no two have the same; what its operation has logged is
\* in the header.
OpInv ==
  \A p \in Proc :
    /\ cur[p] # Absent => pc[p] = "log_write" \/ (panicked /\ pc[p] = "op")
    /\ pc[p] = "log_write" => cur[p] \in Block
    /\ \A q \in Proc : cur[p] = cur[q] /\ cur[p] # Absent => p = q
    /\ IsFiniteSet(wrote[p])
    /\ p \in Active => wrote[p] \subseteq Entries
    /\ pc[p] = "log_write" => Cardinality(wrote[p] \cup {cur[p]}) <= OPBLOCKS

\* The most blocks that operations of OPBLOCKS blocks bring into the header.
Most == LOGSIZE - (MAXOPBLOCKS - OPBLOCKS)

\* The header has room for all that is reserved; so had the one on the disk.
RoomInv ==
  /\ Len(lh) + Cardinality(Room) <= Most
  /\ Len(head) <= Most

\* The headers in memory and on the disk, and how far the loops are.
HeaderInv ==
  /\ \A i, j \in 1 .. Len(lh) : lh[i] = lh[j] => i = j
  /\ \A i, j \in 1 .. Len(head) : head[i] = head[j] => i = j
  /\ step \in {"none", "write_log", "write_head", "done"} => head = <<>>
  /\ step = "install" => head = lh /\ tail \in 1 .. Len(lh) + 1
  /\ step \in {"read_head", "done"} => lh = <<>>
  /\ step = "none" /\ outstanding = 0 => lh = <<>>
  /\ step = "write_log" => tail \in 1 .. Len(lh)
  /\ step = "write_head" => tail = 1

\* A buffer that agrees with neither the disk nor what an operation is writing
\* is pinned, and its block is in the header and still to be installed.
CacheInv ==
  /\ \A b \in dirty :
       /\ cache[b] # Absent
       /\ \E i \in 1 .. Len(lh) : lh[i] = b /\ (step = "install" => i >= tail)
  /\ \A b \in Block :
       cache[b] # Absent /\ b \notin dirty /\ (\A p \in Proc : cur[p] # b)
         => cache[b] = disk[b]
  /\ \A p \in Proc : cur[p] # Absent => cache[cur[p]] # Absent

\* What has been copied to the log is what the system reads, and what has been
\* installed is what is in the log.
CopyInv ==
  /\ step = "write_log" => \A i \in 1 .. tail - 1 : logblk[i] = Bread(lh[i])
  /\ step = "write_head" \/ (step = "install" /\ committing) =>
       \A i \in 1 .. Len(lh) : logblk[i] = Bread(lh[i])
  /\ step = "install" => \A i \in 1 .. tail - 1 : disk[lh[i]] = logblk[i]

IInv ==
  /\ TypeOK
  /\ CountInv
  /\ PhaseInv
  /\ OpInv
  /\ RoomInv
  /\ HeaderInv
  /\ CacheInv
  /\ CopyInv
  /\ BeginNotMissed

-----------------------------------------------------------------------------
(* Facts about the parts                                                   *)

\* Sets of processes are finite.
LEMMA ProcSets ==
  ASSUME NEW S \in SUBSET Proc
  PROVE  IsFiniteSet(S) /\ Cardinality(S) \in Nat /\ (Cardinality(S) = 0 <=> S = {})
BY LogAssumption, FS_Subset, FS_CardinalityType, FS_EmptySet

\* Sets of reservations are finite.
LEMMA RoomSets ==
  ASSUME NEW S \in SUBSET (Proc \X (1 .. OPBLOCKS))
  PROVE  IsFiniteSet(S) /\ Cardinality(S) \in Nat
<1>1. OPBLOCKS \in Nat
  BY LogAssumption
<1>2. IsFiniteSet(1 .. OPBLOCKS)
  BY <1>1, FS_Interval
<1>3. IsFiniteSet(Proc \X (1 .. OPBLOCKS))
  BY <1>2, LogAssumption, FS_Product
<1> QED BY <1>3, FS_Subset, FS_CardinalityType

\* The header fits the log.
LEMMA HeaderFits ==
  ASSUME TypeOK, RoomInv
  PROVE  /\ Len(lh) \in Nat /\ Len(lh) <= SIZE - 1
         /\ Len(head) \in Nat /\ Len(head) <= SIZE - 1
<1>1. Room \in SUBSET (Proc \X (1 .. OPBLOCKS))
  BY DEF Room
<1>2. Cardinality(Room) \in Nat
  BY <1>1, RoomSets
<1>3. Len(lh) \in Nat /\ Len(head) \in Nat
  BY DEF TypeOK
<1> QED BY <1>2, <1>3, LogAssumption DEF RoomInv, Most

\* A step that reserves nothing and logs nothing.
LEMMA RoomShrinks ==
  ASSUME TypeOK, RoomInv, Room' \subseteq Room, Len(lh') \in Nat, Len(lh') <= Len(lh),
         Len(head') <= Most
  PROVE  RoomInv'
<1>1. Room \in SUBSET (Proc \X (1 .. OPBLOCKS)) /\ Room' \in SUBSET Room
  BY DEF Room
<1>2. IsFiniteSet(Room) /\ Cardinality(Room) \in Nat /\ Cardinality(Room') \in Nat
  BY <1>1, RoomSets
<1>3. Cardinality(Room') <= Cardinality(Room)
  BY <1>1, <1>2, FS_Subset
<1>4. Len(lh) \in Nat
  BY DEF TypeOK
<1> QED BY <1>2, <1>3, <1>4, LogAssumption DEF RoomInv, Most

\* A step that moves no process into an operation or out of one.
LEMMA RoomFrame ==
  ASSUME TypeOK, RoomInv, UNCHANGED <<lh, head, wrote, Active>>
  PROVE  RoomInv'
<1>1. Room' = Room
  BY DEF Room
<1> QED BY <1>1 DEF RoomInv, Most

\* A step that changes no operation.
LEMMA OpFrame ==
  ASSUME OpInv, UNCHANGED <<cur, wrote, lh, panicked, Active>>,
         \A p \in Proc : /\ pc'[p] = "log_write" <=> pc[p] = "log_write"
                         /\ pc[p] = "op" => pc'[p] = "op"
  PROVE  OpInv'
<1>1. Entries' = Entries
  BY DEF Entries
<1> SUFFICES ASSUME NEW p \in Proc
             PROVE  /\ cur[p] # Absent => pc'[p] = "log_write" \/ (panicked /\ pc'[p] = "op")
                    /\ pc'[p] = "log_write" => cur[p] \in Block
                    /\ \A q \in Proc : cur[p] = cur[q] /\ cur[p] # Absent => p = q
                    /\ IsFiniteSet(wrote[p])
                    /\ p \in Active => wrote[p] \subseteq Entries
                    /\ pc'[p] = "log_write" => Cardinality(wrote[p] \cup {cur[p]}) <= OPBLOCKS
  BY <1>1 DEF OpInv
<1> QED BY DEF OpInv

-----------------------------------------------------------------------------
(* The inductive step, one lemma per action                                *)

\* The first boot of a disk that mkfs made.
LEMMA InitInv == Init => IInv
<1> SUFFICES ASSUME Init PROVE IInv
  OBVIOUS
<1> USE LogAssumption DEF Init
<1>1. TypeOK
  <2>1. 0 \in Val /\ 0 \in 0 .. MAXOPS /\ <<>> \in Seq(Block)
    BY DEF Val
  <2> QED BY <2>1 DEF TypeOK, Places, Steps
<1>2. Active = {}
  BY DEF Active
<1>3. CountInv
  BY <1>2, FS_EmptySet DEF CountInv
<1>4. PhaseInv
  BY <1>2 DEF PhaseInv, Booting
<1>5. OpInv
  BY <1>2, FS_EmptySet DEF OpInv
<1>6. RoomInv
  <2>1. Room = {}
    BY <1>2 DEF Room
  <2> QED BY <2>1, FS_EmptySet DEF RoomInv, Most
<1>7. HeaderInv
  BY DEF HeaderInv
<1>8. CacheInv /\ CopyInv /\ BeginNotMissed
  BY DEF CacheInv, CopyInv, BeginNotMissed
<1> QED BY <1>1, <1>3, <1>4, <1>5, <1>6, <1>7, <1>8 DEF IInv

\* Crash: all but the disk is as at the first boot.
LEMMA CrashStep ==
  ASSUME IInv, Crash
  PROVE  IInv'
<1> USE LogAssumption DEF Crash, IInv, diskVars
<1>1. TypeOK'
  <2>1. 0 \in Val /\ <<>> \in Seq(Block)
    BY DEF Val
  <2> QED BY <2>1 DEF TypeOK, Places, Steps
<1>2. Active' = {}
  BY DEF Active
<1>3. CountInv'
  BY <1>2, FS_EmptySet DEF CountInv
<1>4. PhaseInv'
  BY <1>2 DEF PhaseInv, Booting
<1>5. OpInv'
  BY <1>2, FS_EmptySet DEF OpInv
<1>6. RoomInv'
  <2>1. Room' = {}
    BY <1>2 DEF Room
  <2>2. Len(head) <= Most
    BY DEF RoomInv
  <2> QED BY <2>1, <2>2, FS_EmptySet DEF RoomInv, Most
<1>7. HeaderInv'
  BY DEF HeaderInv
<1>8. CacheInv' /\ CopyInv' /\ BeginNotMissed'
  BY DEF CacheInv, CopyInv, BeginNotMissed
<1> QED BY <1>1, <1>3, <1>4, <1>5, <1>6, <1>7, <1>8

\* Evict: a buffer that agrees with the disk goes.
LEMMA EvictStep ==
  ASSUME IInv, NEW b \in Block, Evict(b)
  PROVE  IInv'
<1> USE DEF IInv, Evict, diskVars, logVars, procVars, commitVars
<1>1. TypeOK'
  BY DEF TypeOK
<1>2. Active' = Active
  BY DEF Active
<1>3. CountInv' /\ PhaseInv' /\ OpInv' /\ HeaderInv'
  BY <1>2 DEF CountInv, PhaseInv, Booting, OpInv, Entries, HeaderInv
<1>4. RoomInv'
  BY <1>2, RoomFrame
<1>5. CacheInv'
  BY LogAssumption DEF CacheInv, TypeOK, Evictable
<1>6. CopyInv'
  <2>1. \A c \in Block : Bread(c)' = Bread(c)
    BY DEF Bread, Evictable, CacheInv, TypeOK
  <2>2. \A i \in 1 .. Len(lh) : lh[i] \in Block
    BY DEF TypeOK
  <2> QED BY <2>1, <2>2 DEF CopyInv, HeaderInv
<1>7. BeginNotMissed'
  BY DEF BeginNotMissed, Admit
<1> QED BY <1>1, <1>3, <1>4, <1>5, <1>6, <1>7

\* Call: a process that is outside any operation enters begin_op().
LEMMA CallStep ==
  ASSUME IInv, NEW p \in Proc, Call(p)
  PROVE  IInv'
<1> USE DEF IInv, Call, diskVars, logVars, commitVars
<1>1. TypeOK'
  BY LogAssumption DEF TypeOK, Val, Places
<1>2. Active' = Active
  BY DEF Active, TypeOK
<1>3. CountInv' /\ HeaderInv'
  BY <1>2 DEF CountInv, HeaderInv
<1>4. PhaseInv'
  BY <1>2 DEF PhaseInv, Booting, TypeOK
<1>5. OpInv'
  BY <1>2, OpFrame DEF TypeOK
<1>6. RoomInv'
  BY <1>2, RoomFrame
<1>7. CacheInv' /\ CopyInv'
  BY DEF CacheInv, CopyInv, Bread
<1>8. BeginNotMissed'
  BY DEF BeginNotMissed, Admit, TypeOK
<1> QED BY <1>1, <1>3, <1>4, <1>5, <1>6, <1>7, <1>8

\* BeginSleep: somebody is committing, or inside an operation, for the empty log
\* has room for one.
LEMMA BeginSleepStep ==
  ASSUME IInv, NEW p \in Proc, BeginSleep(p)
  PROVE  IInv'
<1> USE DEF IInv, BeginSleep, diskVars, logVars, commitVars
<1>1. TypeOK'
  BY DEF TypeOK, Places
<1>2. Active' = Active
  BY DEF Active, TypeOK
<1>3. CountInv' /\ HeaderInv'
  BY <1>2 DEF CountInv, HeaderInv
<1>4. PhaseInv'
  BY <1>2 DEF PhaseInv, Booting, TypeOK
<1>5. OpInv'
  BY <1>2, OpFrame DEF TypeOK
<1>6. RoomInv'
  BY <1>2, RoomFrame
<1>7. CacheInv' /\ CopyInv'
  BY DEF CacheInv, CopyInv, Bread
<1>8. committing \/ outstanding > 0
  <2>1. SUFFICES ASSUME ~committing, outstanding = 0 PROVE FALSE
    BY DEF TypeOK
  <2>2. step = "none"
    BY <2>1 DEF PhaseInv, Booting
  <2>3. lh = <<>>
    BY <2>1, <2>2 DEF HeaderInv
  <2>4. Len(lh) + (outstanding + 1) * MAXOPBLOCKS = MAXOPBLOCKS
    BY <2>1, <2>3, LogAssumption
  <2> QED BY <2>1, <2>4, LogAssumption DEF Admit
<1>9. BeginNotMissed'
  BY <1>8 DEF BeginNotMissed, Admit, TypeOK
<1> QED BY <1>1, <1>3, <1>4, <1>5, <1>6, <1>7, <1>9

\* Inside an operation neither commit() nor recovery runs.
LEMMA InOperation ==
  ASSUME IInv, NEW p \in Active
  PROVE  ~committing /\ step = "none" /\ outstanding \in Nat \ {0}
<1>1. ~committing
  BY DEF IInv, PhaseInv
<1>2. step = "none"
  BY <1>1 DEF IInv, PhaseInv, Active, Booting
<1>3. Active \in SUBSET Proc
  BY DEF Active
<1>4. Cardinality(Active) \in Nat \ {0}
  BY <1>3, ProcSets
<1> QED BY <1>1, <1>2, <1>4 DEF IInv, CountInv

\* BeginOp: the room that is asked for covers the blocks of one more operation.
LEMMA BeginOpStep ==
  ASSUME IInv, NEW p \in Proc, BeginOp(p)
  PROVE  IInv'
<1>a. /\ pc[p] = "begin" /\ Admit
      /\ outstanding' = outstanding + 1
      /\ pc' = [pc EXCEPT ![p] = "op"]
      /\ wrote' = [wrote EXCEPT ![p] = {}]
      /\ UNCHANGED <<diskVars, cache, dirty, lh, committing, cur, op, commitVars, nops,
                     panicked>>
  BY DEF BeginOp, Entering
<1> USE <1>a DEF IInv, diskVars, commitVars
<1>1. TypeOK'
  BY DEF TypeOK, Places
<1>2. Active' = Active \cup {p} /\ p \notin Active
  BY DEF Active, TypeOK
<1>3. CountInv'
  <2> DEFINE A == Active
  <2>1. A \in SUBSET Proc
    BY DEF Active
  <2>2. IsFiniteSet(A) /\ p \notin A
    BY <1>2, <2>1, ProcSets
  <2> HIDE DEF A
  <2>3. Cardinality(A \cup {p}) = Cardinality(A) + 1
    BY <2>2, FS_AddElement
  <2> QED BY <1>2, <2>3 DEF CountInv, A
<1>4. ~committing /\ step = "none"
  BY DEF Admit, PhaseInv, Booting
<1>5. PhaseInv'
  BY <1>4 DEF PhaseInv, Booting, TypeOK
<1>6. OpInv'
  <2>1. Entries' = Entries
    BY DEF Entries
  <2>2. cur[p] = Absent
    BY DEF OpInv
  <2>3. wrote'[p] = {} /\ pc'[p] = "op" /\ IsFiniteSet({})
    BY FS_EmptySet DEF TypeOK
  <2>4. \A q \in Proc : q # p => wrote'[q] = wrote[q] /\ pc'[q] = pc[q]
    BY DEF TypeOK
  <2>5. ASSUME NEW q \in Proc
        PROVE  /\ cur[q] # Absent => pc'[q] = "log_write" \/ (panicked /\ pc'[q] = "op")
               /\ pc'[q] = "log_write" => cur[q] \in Block
               /\ \A r \in Proc : cur[q] = cur[r] /\ cur[q] # Absent => q = r
               /\ IsFiniteSet(wrote'[q])
               /\ q \in Active' => wrote'[q] \subseteq Entries
               /\ pc'[q] = "log_write" =>
                    Cardinality(wrote'[q] \cup {cur[q]}) <= OPBLOCKS
    <3>1. CASE q = p
      BY <2>2, <2>3, <3>1
    <3>2. CASE q # p
      BY <1>2, <2>4, <3>2 DEF OpInv
    <3> QED BY <3>1, <3>2
  <2> QED BY <2>1, <2>5 DEF OpInv
<1>7. RoomInv'
  <2> DEFINE A == Active'
             P == A \X (1 .. OPBLOCKS)
             m == outstanding + 1
             n == Cardinality(Room')
  <2>1. A \in SUBSET Proc /\ Cardinality(A) = m
    BY <1>3 DEF CountInv, Active
  <2>2. Room' \in SUBSET P
    BY DEF Room
  <2>3. OPBLOCKS \in Nat
    BY LogAssumption
  <2>4. IsFiniteSet(1 .. OPBLOCKS) /\ Cardinality(1 .. OPBLOCKS) = OPBLOCKS
    BY <2>3, FS_Interval
  <2>5. IsFiniteSet(A)
    BY <2>1, ProcSets
  <2> HIDE DEF A
  <2>6. IsFiniteSet(P) /\ Cardinality(P) = m * OPBLOCKS
    BY <2>1, <2>4, <2>5, FS_Product
  <2> HIDE DEF P
  <2>7. n <= m * OPBLOCKS /\ n \in Nat
    BY <2>2, <2>6, FS_Subset, FS_CardinalityType
  <2>8. m \in Nat \ {0} /\ Len(lh) \in Nat /\ Len(lh) + m * MAXOPBLOCKS <= LOGSIZE
    BY DEF TypeOK, Admit
  <2> HIDE DEF m, n
  <2>9. PICK d \in Nat : d = MAXOPBLOCKS - OPBLOCKS
    BY LogAssumption
  <2>10. m * MAXOPBLOCKS = m * OPBLOCKS + m * d /\ m * d >= d
    BY <2>3, <2>8, <2>9, LogAssumption
  <2>11. m * OPBLOCKS \in Nat /\ m * d \in Nat
    BY <2>3, <2>8, <2>9
  <2>12. Len(lh) + n <= LOGSIZE - d
    BY <2>7, <2>8, <2>10, <2>11, LogAssumption
  <2> QED BY <2>9, <2>12 DEF RoomInv, Most, n
<1>8. HeaderInv'
  BY DEF HeaderInv, TypeOK
<1>9. CacheInv' /\ CopyInv'
  BY DEF CacheInv, CopyInv, Bread
<1>10. BeginNotMissed'
  BY DEF BeginNotMissed, TypeOK
<1> QED BY <1>1, <1>3, <1>5, <1>6, <1>7, <1>8, <1>9, <1>10

\* EndOp: the last process out becomes the committer, any other wakes the ones
\* that wait for room.
LEMMA EndOpStep ==
  ASSUME IInv, ~panicked, NEW p \in Proc, EndOp(p)
  PROVE  IInv'
<1>a. p \in Active /\ pc[p] = "op"
  BY DEF EndOp, Active
<1>b. ~committing /\ step = "none" /\ outstanding \in Nat \ {0}
  BY <1>a, InOperation
<1>c. /\ outstanding' = outstanding - 1 /\ panicked' = FALSE
      /\ UNCHANGED <<disk, logblk, head, cache, dirty, lh, cur, wrote, op, nops>>
  BY <1>b DEF EndOp, diskVars
<1>d. \/ /\ outstanding = 1 /\ committing' = TRUE
         /\ pc' = [pc EXCEPT ![p] = "commit"]
         /\ step' = FirstStep /\ tail' = 1
      \/ /\ outstanding # 1
         /\ pc' = WakeAndGoto(p, "idle")
         /\ UNCHANGED <<committing, step, tail>>
  BY DEF EndOp, NotLast, commitVars
<1>e. step' \in {"none", "done", "write_log"}
  BY <1>b, <1>d DEF FirstStep
<1> USE <1>a, <1>b, <1>c DEF IInv
<1>1. TypeOK'
  <2>1. pc' \in [Proc -> Places]
    BY <1>d DEF TypeOK, Places, WakeAndGoto
  <2>2. step' \in Steps /\ tail' \in Nat /\ committing' \in BOOLEAN
    BY <1>d, <1>e DEF TypeOK, Steps
  <2>3. outstanding' \in Nat
    OBVIOUS
  <2> QED BY <2>1, <2>2, <2>3 DEF TypeOK
<1>2. Active' = Active \ {p}
  BY <1>d DEF Active, TypeOK, WakeAndGoto
<1>3. CountInv'
  <2> DEFINE A == Active
  <2>1. A \in SUBSET Proc
    BY DEF Active
  <2>2. IsFiniteSet(A) /\ p \in A
    BY <2>1, ProcSets
  <2> HIDE DEF A
  <2>3. Cardinality(A \ {p}) = Cardinality(A) - 1
    BY <2>2, FS_RemoveElement
  <2> QED BY <1>2, <2>3 DEF CountInv, A
<1>4. PhaseInv'
  <2>1. CASE outstanding = 1
    <3>1. outstanding' = 0 /\ Active' \in SUBSET Proc
      BY <2>1 DEF Active
    <3>2. Active' = {}
      BY <1>3, <3>1, ProcSets DEF CountInv
    <3>3. committing' /\ step' \in {"write_log", "done"} /\ pc' = [pc EXCEPT ![p] = "commit"]
      BY <1>d, <2>1 DEF FirstStep
    <3> QED BY <3>2, <3>3 DEF PhaseInv, TypeOK
  <2>2. CASE outstanding # 1
    BY <1>d, <2>2 DEF PhaseInv, WakeAndGoto
  <2> QED BY <2>1, <2>2
<1>5. OpInv'
  <2>1. Entries' = Entries /\ cur[p] = Absent
    BY DEF Entries, OpInv
  <2>2. \A q \in Proc \ {p} : /\ pc'[q] = "log_write" <=> pc[q] = "log_write"
                              /\ pc[q] = "op" => pc'[q] = "op"
    BY <1>d DEF TypeOK, WakeAndGoto
  <2>3. pc'[p] # "log_write"
    BY <1>d DEF TypeOK, WakeAndGoto
  <2>4. ASSUME NEW q \in Proc
        PROVE  /\ cur[q] # Absent => pc'[q] = "log_write"
               /\ pc'[q] = "log_write" => cur[q] \in Block
               /\ \A r \in Proc : cur[q] = cur[r] /\ cur[q] # Absent => q = r
               /\ IsFiniteSet(wrote[q])
               /\ q \in Active' => wrote[q] \subseteq Entries
               /\ pc'[q] = "log_write" => Cardinality(wrote[q] \cup {cur[q]}) <= OPBLOCKS
    <3>1. CASE q = p
      BY <1>2, <2>1, <2>3, <3>1 DEF OpInv
    <3>2. CASE q # p
      BY <1>2, <2>2, <3>2 DEF OpInv
    <3> QED BY <3>1, <3>2
  <2> QED BY <2>1, <2>4 DEF OpInv
<1>6. RoomInv'
  <2>1. Room' \subseteq Room
    BY <1>2 DEF Room
  <2>2. Len(lh') \in Nat /\ Len(lh') <= Len(lh) /\ Len(head') <= Most
    BY DEF TypeOK, RoomInv
  <2> QED BY <2>1, <2>2, RoomShrinks
<1>7. HeaderInv'
  <2>1. head = <<>>
    BY DEF HeaderInv
  <2>2. CASE outstanding = 1
    <3>1. CASE lh = <<>>
      BY <1>d, <2>1, <2>2, <3>1 DEF HeaderInv, FirstStep
    <3>2. CASE lh # <<>>
      <4>1. step' = "write_log" /\ tail' \in 1 .. Len(lh)
        BY <1>d, <2>2, <3>2 DEF FirstStep, TypeOK
      <4> QED BY <2>1, <4>1 DEF HeaderInv
    <3> QED BY <3>1, <3>2
  <2>3. CASE outstanding # 1
    BY <1>d, <2>3 DEF HeaderInv
  <2> QED BY <2>2, <2>3
<1>8. CacheInv'
  BY <1>e DEF CacheInv
<1>9. CopyInv'
  <2>1. step' = "write_log" => tail' = 1
    BY <1>d
  <2> QED BY <1>e, <2>1 DEF CopyInv
<1>10. BeginNotMissed'
  <2>1. CASE outstanding = 1
    BY <1>d, <2>1 DEF BeginNotMissed, Admit
  <2>2. CASE outstanding # 1
    BY <1>d, <2>2 DEF BeginNotMissed, WakeAndGoto
  <2> QED BY <2>1, <2>2
<1> QED BY <1>1, <1>3, <1>4, <1>5, <1>6, <1>7, <1>8, <1>9, <1>10

\* Modify: the buffer is locked until the block is in the header, or for good
\* if log_write() panics.
LEMMA ModifyStep ==
  ASSUME IInv, ~panicked, NEW p \in Proc, NEW b \in Block, Modify(p, b)
  PROVE  IInv'
<1>a. /\ p \in Active /\ pc[p] = "op" /\ \A q \in Proc : cur[q] # b
      /\ Cardinality(wrote[p] \cup {b}) <= OPBLOCKS
      /\ cache' = [cache EXCEPT ![b] = op[p]]
      /\ cur' = [cur EXCEPT ![p] = b]
      /\ UNCHANGED <<disk, logblk, head, dirty, lh, outstanding, committing, wrote, op,
                     step, tail, nops>>
  BY DEF Modify, Active, diskVars, logVars, commitVars
<1>b. \/ panicked' = TRUE /\ pc' = pc
      \/ panicked' = FALSE /\ pc' = [pc EXCEPT ![p] = "log_write"]
  BY DEF Modify
<1>c. ~committing /\ step = "none" /\ outstanding \in Nat \ {0}
  BY <1>a, InOperation
<1>d. cur[p] = Absent /\ op[p] \in Val /\ op[p] # Absent
  <2>1. cur[p] = Absent
    BY <1>a DEF IInv, OpInv
  <2>2. op[p] \in Val
    BY DEF IInv, TypeOK
  <2> QED BY <2>1, <2>2, LogAssumption DEF Val
<1> USE <1>a, <1>c, <1>d DEF IInv
<1>1. TypeOK'
  BY <1>b DEF TypeOK, Places
<1>2. Active' = Active
  BY <1>b DEF Active, TypeOK
<1>3. CountInv' /\ HeaderInv'
  BY <1>2 DEF CountInv, HeaderInv
<1>4. PhaseInv'
  BY <1>2, <1>b DEF PhaseInv, TypeOK
<1>5. OpInv'
  <2>1. Entries' = Entries
    BY DEF Entries
  <2>2. cur'[p] = b /\ (pc'[p] = "log_write" \/ (panicked' /\ pc'[p] = "op"))
    BY <1>b DEF TypeOK
  <2>3. \A q \in Proc : q # p => pc'[q] = pc[q] /\ cur'[q] = cur[q]
    BY <1>b DEF TypeOK
  <2>4. ASSUME NEW q \in Proc
        PROVE  /\ cur'[q] # Absent => pc'[q] = "log_write" \/ (panicked' /\ pc'[q] = "op")
               /\ pc'[q] = "log_write" => cur'[q] \in Block
               /\ \A r \in Proc : cur'[q] = cur'[r] /\ cur'[q] # Absent => q = r
               /\ IsFiniteSet(wrote[q])
               /\ q \in Active => wrote[q] \subseteq Entries
               /\ pc'[q] = "log_write" => Cardinality(wrote[q] \cup {cur'[q]}) <= OPBLOCKS
    <3>1. CASE q = p
      BY <2>2, <2>3, <3>1 DEF OpInv
    <3>2. CASE q # p
      BY <2>2, <2>3, <3>2 DEF OpInv
    <3> QED BY <3>1, <3>2
  <2> QED BY <1>2, <2>1, <2>4 DEF OpInv
<1>6. RoomInv'
  BY <1>2, RoomFrame
<1>7. CacheInv'
  <2>1. cur'[p] = b /\ \A q \in Proc : q # p => cur'[q] = cur[q]
    BY DEF TypeOK
  <2>2. cache'[b] # Absent /\ \A c \in Block \ {b} : cache'[c] = cache[c]
    BY DEF TypeOK
  <2>3. dirty \subseteq Block /\ \A q \in Proc : cur[q] \in Block \cup {Absent}
    BY DEF TypeOK
  <2>4. \A c \in dirty : cache'[c] # Absent
    BY <2>2, <2>3 DEF CacheInv
  <2>5. \A c \in Block :
          cache'[c] # Absent /\ c \notin dirty /\ (\A q \in Proc : cur'[q] # c)
            => cache'[c] = disk[c]
    BY <2>1, <2>2, LogAssumption DEF CacheInv
  <2>6. \A q \in Proc : cur'[q] # Absent => cache'[cur'[q]] # Absent
    BY <2>1, <2>2, <2>3 DEF CacheInv
  <2> QED BY <2>4, <2>5, <2>6 DEF CacheInv
<1>8. CopyInv'
  BY DEF CopyInv
<1>9. BeginNotMissed'
  BY <1>b DEF BeginNotMissed, Admit, TypeOK
<1> QED BY <1>1, <1>3, <1>4, <1>5, <1>6, <1>7, <1>8, <1>9

\* The header after log_write(): the block is in it, once.
LEMMA LoggedFacts ==
  ASSUME IInv, NEW b \in Block, lh' = Logged(b)
  PROVE  /\ lh' \in Seq(Block) /\ Entries' = Entries \cup {b}
         /\ Len(lh') = IF b \in Entries THEN Len(lh) ELSE Len(lh) + 1
         /\ \A i \in 1 .. Len(lh) : lh'[i] = lh[i]
         /\ \A i, j \in 1 .. Len(lh') : lh'[i] = lh'[j] => i = j
<1>0. lh \in Seq(Block) /\ \A i, j \in 1 .. Len(lh) : lh[i] = lh[j] => i = j
  BY DEF IInv, TypeOK, HeaderInv
<1>1. CASE b \in Entries
  BY <1>0, <1>1 DEF Logged, Entries
<1>2. CASE b \notin Entries
  <2>1. lh' = Append(lh, b)
    BY <1>2 DEF Logged, Entries
  <2> DEFINE n == Len(lh)
  <2>2. /\ n \in Nat /\ lh' \in Seq(Block) /\ Len(lh') = n + 1
        /\ lh'[n + 1] = b /\ \A i \in 1 .. n : lh'[i] = lh[i]
    BY <1>0, <2>1
  <2>3. \A i \in 1 .. n : lh[i] # b
    BY <1>2 DEF Entries
  <2> HIDE DEF n
  <2>4. ASSUME NEW i \in 1 .. n + 1, NEW j \in 1 .. n + 1, lh'[i] = lh'[j]
        PROVE  i = j
    <3>1. CASE i \in 1 .. n /\ j \in 1 .. n
      BY <1>0, <2>2, <2>4, <3>1 DEF n
    <3>2. CASE i = n + 1 /\ j \in 1 .. n
      BY <2>2, <2>3, <2>4, <3>2
    <3>3. CASE j = n + 1 /\ i \in 1 .. n
      BY <2>2, <2>3, <2>4, <3>3
    <3>4. CASE i = n + 1 /\ j = n + 1
      BY <3>4
    <3> QED BY <2>2, <3>1, <3>2, <3>3, <3>4
  <2>5. Entries' = Entries \cup {b}
    <3>1. ASSUME NEW x PROVE x \in Entries' <=> x \in Entries \cup {b}
      <4>1. ASSUME NEW i \in 1 .. n + 1, x = lh'[i] PROVE x \in Entries \cup {b}
        <5>1. i = n + 1 \/ i \in 1 .. n
          BY <2>2
        <5> QED BY <2>2, <4>1, <5>1 DEF Entries, n
      <4>2. ASSUME NEW i \in 1 .. n, x = lh[i] PROVE x \in Entries'
        <5>1. i \in 1 .. n + 1
          BY <2>2
        <5> QED BY <2>2, <4>2, <5>1 DEF Entries
      <4>3. b \in Entries'
        <5>1. n + 1 \in 1 .. n + 1
          BY <2>2
        <5> QED BY <2>2, <5>1 DEF Entries
      <4> QED BY <2>2, <4>1, <4>2, <4>3 DEF Entries, n
    <3> QED BY <3>1
  <2> QED BY <1>2, <2>2, <2>4, <2>5 DEF n
<1> QED BY <1>1, <1>2

\* LogWrite: a block that is new in the header is new to the operation too, and
\* takes up one of the places that the operation has reserved.
LEMMA LogWriteStep ==
  ASSUME IInv, ~panicked, NEW p \in Proc, LogWrite(p)
  PROVE  IInv'
<1>0. PICK b \in Block : b = cur[p]
  BY DEF IInv, OpInv, LogWrite
<1>a. /\ p \in Active /\ pc[p] = "log_write" /\ lh' = Logged(b)
      /\ dirty' = dirty \cup {b}
      /\ wrote' = [wrote EXCEPT ![p] = @ \cup {b}]
      /\ cur' = [cur EXCEPT ![p] = Absent]
      /\ pc' = [pc EXCEPT ![p] = "op"]
      /\ UNCHANGED <<disk, logblk, head, cache, outstanding, committing, op, step, tail,
                     nops, panicked>>
  BY <1>0 DEF LogWrite, Active, diskVars, commitVars
<1>b. ~committing /\ step = "none" /\ outstanding \in Nat \ {0}
  BY <1>a, InOperation
<1>c. /\ lh' \in Seq(Block) /\ Entries' = Entries \cup {b}
      /\ Len(lh') = IF b \in Entries THEN Len(lh) ELSE Len(lh) + 1
      /\ \A i \in 1 .. Len(lh) : lh'[i] = lh[i]
      /\ \A i, j \in 1 .. Len(lh') : lh'[i] = lh'[j] => i = j
  BY <1>a, LoggedFacts
<1>d. /\ wrote'[p] = wrote[p] \cup {b} /\ cur'[p] = Absent /\ pc'[p] = "op"
      /\ \A q \in Proc \ {p} : /\ wrote'[q] = wrote[q] /\ cur'[q] = cur[q]
                               /\ pc'[q] = pc[q]
  BY <1>a DEF IInv, TypeOK
<1>e. /\ IsFiniteSet(wrote[p]) /\ wrote[p] \subseteq Entries
      /\ Cardinality(wrote[p] \cup {b}) <= OPBLOCKS
  BY <1>0, <1>a DEF IInv, OpInv
<1>f. Len(lh) \in Nat
  BY DEF IInv, TypeOK
<1> USE <1>a, <1>b DEF IInv
<1>1. TypeOK'
  <2>1. pc' \in [Proc -> Places]
    BY DEF TypeOK, Places
  <2>2. wrote' \in [Proc -> SUBSET Block] /\ dirty' \subseteq Block
    BY DEF TypeOK
  <2>3. cur' \in [Proc -> Block \cup {Absent}]
    BY DEF TypeOK
  <2> QED BY <1>c, <2>1, <2>2, <2>3 DEF TypeOK
<1>2. Active' = Active
  BY DEF Active, TypeOK
<1>3. CountInv'
  BY <1>2 DEF CountInv
<1>4. PhaseInv'
  BY <1>2 DEF PhaseInv, TypeOK
<1>5. OpInv'
  <2>1. IsFiniteSet(wrote'[p])
    BY <1>d, <1>e, FS_AddElement
  <2>2. ASSUME NEW q \in Proc
        PROVE  /\ cur'[q] # Absent => pc'[q] = "log_write" \/ (panicked' /\ pc'[q] = "op")
               /\ pc'[q] = "log_write" => cur'[q] \in Block
               /\ \A r \in Proc : cur'[q] = cur'[r] /\ cur'[q] # Absent => q = r
               /\ IsFiniteSet(wrote'[q])
               /\ q \in Active => wrote'[q] \subseteq Entries'
               /\ pc'[q] = "log_write" => Cardinality(wrote'[q] \cup {cur'[q]}) <= OPBLOCKS
    <3>1. CASE q = p
      BY <1>c, <1>d, <1>e, <2>1, <3>1
    <3>2. CASE q # p
      <4>1. wrote'[q] = wrote[q] /\ cur'[q] = cur[q] /\ pc'[q] = pc[q]
        BY <1>d, <3>2
      <4>2. \A r \in Proc : cur'[q] = cur'[r] /\ cur'[q] # Absent => q = r
        <5>1. ASSUME NEW r \in Proc, cur'[q] = cur'[r], cur'[q] # Absent
              PROVE  q = r
          <6>1. cur'[r] = cur[r]
            BY <1>d, <5>1
          <6> QED BY <4>1, <5>1, <6>1 DEF OpInv
        <5> QED BY <5>1
      <4>3. q \in Active => wrote[q] \subseteq Entries'
        BY <1>c DEF OpInv
      <4> QED BY <4>1, <4>2, <4>3 DEF OpInv
    <3> QED BY <3>1, <3>2
  <2> QED BY <1>2, <2>2 DEF OpInv
<1>6. RoomInv'
  <2> DEFINE k == Cardinality(wrote[p])
  <2>1. k \in Nat /\ OPBLOCKS \in Nat
    BY <1>e, FS_CardinalityType, LogAssumption
  <2>2. Cardinality(wrote[p] \cup {b}) = IF b \in wrote[p] THEN k ELSE k + 1
    BY <1>e, FS_AddElement
  <2> HIDE DEF k
  <2>3. CASE b \in Entries
    <3>1. ASSUME NEW r \in Room' PROVE r \in Room
      <4>1. /\ r \in Proc \X (1 .. OPBLOCKS) /\ r[1] \in Active
            /\ r[2] > Cardinality(wrote'[r[1]])
        BY <1>2 DEF Room
      <4>2. CASE r[1] = p
        <5>1. PICK n \in Nat : n = r[2]
          BY <4>1
        <5>2. Cardinality(wrote'[p]) \in {k, k + 1}
          BY <1>d, <2>2
        <5>3. n > Cardinality(wrote'[p])
          BY <4>1, <4>2, <5>1
        <5>4. n > k
          BY <2>1, <5>2, <5>3
        <5> QED BY <4>1, <4>2, <5>1, <5>4 DEF Room, k
      <4>3. CASE r[1] # p
        BY <1>d, <4>1, <4>3 DEF Room
      <4> QED BY <4>2, <4>3
    <3>2. Room' \subseteq Room
      BY <3>1
    <3>3. Len(head') <= Most /\ Len(lh') \in Nat /\ Len(lh') <= Len(lh)
      BY <1>c, <1>f, <2>3 DEF RoomInv
    <3> QED BY <3>2, <3>3, RoomShrinks
  <2>4. CASE b \notin Entries
    <3>1. /\ Cardinality(wrote'[p]) = k + 1 /\ k + 1 <= OPBLOCKS
          /\ Len(lh') = Len(lh) + 1
      BY <1>c, <1>d, <1>e, <2>2, <2>4
    <3> DEFINE t == <<p, k + 1>>
    <3>2. t \in Room
      BY <2>1, <3>1 DEF Room, k
    <3>3. Room' = Room \ {t}
      <4>1. ASSUME NEW q \in Proc, NEW n \in 1 .. OPBLOCKS
            PROVE  <<q, n>> \in Room' <=> <<q, n>> \in Room /\ <<q, n>> # t
        <5>1. CASE q = p
          <6>1. <<q, n>> \in Room' <=> n > k + 1
            BY <1>2, <3>1, <5>1 DEF Room
          <6>2. <<q, n>> \in Room <=> n > k
            BY <5>1 DEF Room, k
          <6>3. <<q, n>> # t <=> n # k + 1
            BY <5>1
          <6> QED BY <2>1, <6>1, <6>2, <6>3
        <5>2. CASE q # p
          BY <1>2, <1>d, <5>2 DEF Room
        <5> QED BY <5>1, <5>2
      <4>2. Room \subseteq Proc \X (1 .. OPBLOCKS) /\ Room' \subseteq Proc \X (1 .. OPBLOCKS)
        BY DEF Room
      <4> HIDE DEF t
      <4> QED BY <4>1, <4>2
    <3> DEFINE R == Room
    <3>4. IsFiniteSet(R) /\ Cardinality(R) \in Nat /\ t \in R
      <4>1. R \in SUBSET (Proc \X (1 .. OPBLOCKS))
        BY DEF Room
      <4> QED BY <3>2, <4>1, RoomSets
    <3> HIDE DEF R, t
    <3>5. Cardinality(R \ {t}) = Cardinality(R) - 1
      BY <3>4, FS_RemoveElement
    <3>6. Cardinality(Room') = Cardinality(R) - 1
      BY <3>3, <3>5 DEF R
    <3>7. Len(lh) + Cardinality(R) <= Most /\ Len(head) <= Most
      BY DEF RoomInv, R
    <3>8. Most \in Int /\ Most' = Most
      BY LogAssumption DEF Most
    <3>9. Len(lh') + Cardinality(Room') <= Most
      BY <1>f, <3>1, <3>4, <3>6, <3>7, <3>8
    <3> QED BY <3>7, <3>8, <3>9 DEF RoomInv
  <2> QED BY <2>3, <2>4
<1>7. HeaderInv'
  BY <1>c DEF HeaderInv
<1>8. CacheInv'
  <2>1. \A c \in dirty' :
          cache[c] # Absent /\ \E i \in 1 .. Len(lh') : lh'[i] = c
    <3>1. \A c \in dirty' : c \in Entries'
      <4>1. \A c \in dirty : c \in Entries
        BY DEF CacheInv, Entries
      <4> QED BY <1>c, <4>1
    <3>2. cache[b] # Absent
      BY <1>0, LogAssumption DEF CacheInv
    <3> QED BY <3>1, <3>2 DEF CacheInv, Entries
  <2>2. \A c \in Block :
          cache[c] # Absent /\ c \notin dirty' /\ (\A q \in Proc : cur'[q] # c)
            => cache[c] = disk[c]
    BY <1>0, <1>d DEF CacheInv
  <2>3. \A q \in Proc : cur'[q] # Absent => cache[cur'[q]] # Absent
    BY <1>d DEF CacheInv
  <2> QED BY <2>1, <2>2, <2>3 DEF CacheInv
<1>9. CopyInv'
  BY DEF CopyInv
<1>10. BeginNotMissed'
  <2>1. Len(lh') \in Nat /\ Len(lh') >= Len(lh)
    BY <1>c, <1>f
  <2>2. \A q \in Proc : pc'[q] = "sleep" => pc[q] = "sleep"
    BY <1>d
  <2>3. (outstanding + 1) * MAXOPBLOCKS \in Nat
    BY LogAssumption
  <2>4. ~Admit => ~Admit'
    BY <1>f, <2>1, <2>3, LogAssumption DEF Admit
  <2> QED BY <2>2, <2>4 DEF BeginNotMissed
<1> QED BY <1>1, <1>3, <1>4, <1>5, <1>6, <1>7, <1>8, <1>9, <1>10

\* A step of commit() or of recovery leaves the processes and their operations
\* alone.
LEMMA CommitFrame ==
  ASSUME IInv, UNCHANGED <<procVars, outstanding, committing, panicked>>,
         Active # {} => lh' = lh, Len(lh') \in Nat,
         Len(lh') <= Most, Len(head') <= Most
  PROVE  CountInv' /\ OpInv' /\ RoomInv' /\ Active' = Active
<1> USE DEF IInv, procVars
<1>1. Active' = Active
  BY DEF Active
<1>2. CountInv'
  BY <1>1 DEF CountInv
<1>3. OpInv'
  <2>1. CASE Active = {}
    BY <1>1, <2>1 DEF OpInv
  <2>2. CASE Active # {}
    BY <1>1, <2>2, OpFrame
  <2> QED BY <2>1, <2>2
<1>4. RoomInv'
  <2>1. CASE Active = {}
    <3>1. Room' = {}
      BY <1>1, <2>1 DEF Room
    <3> QED BY <3>1, FS_EmptySet DEF RoomInv, Most
  <2>2. CASE Active # {}
    <3>1. Room' = Room
      BY <1>1 DEF Room
    <3> QED BY <2>2, <3>1 DEF RoomInv, Most
  <2> QED BY <2>1, <2>2
<1> QED BY <1>1, <1>2, <1>3, <1>4

\* While commit() or recovery runs, nobody is inside an operation or has a
\* buffer locked.
LEMMA CommitFacts ==
  ASSUME IInv, ~panicked, step # "none"
  PROVE  /\ Active = {} /\ \A p \in Proc : cur[p] = Absent
         /\ Len(lh) \in Nat /\ Len(lh) <= Most /\ Len(lh) <= SIZE - 1
         /\ Len(head) \in Nat /\ Len(head) <= Most /\ Len(head) <= SIZE - 1
         /\ \A i \in 1 .. Len(lh) : lh[i] \in Block
         /\ committing \/ Booting
<1>1. committing \/ Booting
  BY DEF IInv, PhaseInv
<1>2. Active = {}
  BY <1>1 DEF IInv, PhaseInv, Booting, Active
<1>3. \A p \in Proc : cur[p] = Absent
  BY <1>2 DEF IInv, OpInv, Active
<1>4. /\ Len(lh) \in Nat /\ Len(head) \in Nat /\ \A i \in 1 .. Len(lh) : lh[i] \in Block
      /\ Len(lh) <= SIZE - 1 /\ Len(head) <= SIZE - 1
  BY HeaderFits DEF IInv, TypeOK
<1>5. Room = {}
  BY <1>2 DEF Room
<1>6. Cardinality(Room) = 0
  BY <1>5, FS_EmptySet
<1>7. Len(lh) + 0 <= Most /\ Len(head) <= Most
  BY <1>6 DEF IInv, RoomInv
<1> QED BY <1>1, <1>2, <1>3, <1>4, <1>7

\* What bread() returns is the contents of a block.
LEMMA BreadType ==
  ASSUME TypeOK, NEW b \in Block
  PROVE  Bread(b) \in Val
BY DEF TypeOK, Bread

\* WriteLog: one more block is in the log.
LEMMA WriteLogStep ==
  ASSUME IInv, ~panicked, WriteLog
  PROVE  IInv'
<1>a. /\ step = "write_log" /\ tail \in 1 .. Len(lh)
      /\ logblk' = [logblk EXCEPT ![tail] = Bread(lh[tail])]
      /\ \/ step' = "write_head" /\ tail' = 1 /\ tail = Len(lh)
         \/ step' = "write_log" /\ tail' = tail + 1 /\ tail < Len(lh)
      /\ UNCHANGED <<disk, head, cache, dirty, logVars, procVars, nops, panicked>>
  BY DEF WriteLog, Last, IInv, HeaderInv, TypeOK
<1>b. /\ Active = {} /\ Len(lh) \in Nat /\ Len(lh) <= Most /\ Len(lh) <= SIZE - 1
      /\ Len(head) \in Nat /\ Len(head) <= Most
      /\ \A i \in 1 .. Len(lh) : lh[i] \in Block
  BY <1>a, CommitFacts
<1>c. committing
  BY <1>a DEF IInv, PhaseInv
<1>d. tail \in 1 .. SIZE - 1 /\ Bread(lh[tail]) \in Val
  BY <1>a, <1>b, BreadType, LogAssumption DEF IInv
<1> USE <1>a, <1>c DEF IInv, logVars, procVars
<1>1. TypeOK'
  <2>1. logblk' \in [1 .. SIZE - 1 -> Val]
    BY <1>d DEF TypeOK
  <2>2. step' \in Steps /\ tail' \in Nat
    BY <1>b DEF Steps
  <2> QED BY <2>1, <2>2 DEF TypeOK
<1>2. CountInv' /\ OpInv' /\ RoomInv' /\ Active' = Active
  BY <1>b, CommitFrame
<1>3. PhaseInv'
  BY <1>2 DEF PhaseInv, Booting
<1>4. HeaderInv'
  BY <1>b DEF HeaderInv
<1>5. CacheInv'
  BY DEF CacheInv
<1>6. CopyInv'
  <2>1. \A i \in 1 .. tail : logblk'[i] = Bread(lh[i])
    <3>1. ASSUME NEW i \in 1 .. tail PROVE logblk'[i] = Bread(lh[i])
      <4>1. CASE i = tail
        BY <1>d, <4>1 DEF TypeOK
      <4>2. CASE i # tail
        <5>1. i \in 1 .. tail - 1
          BY <4>2
        <5> QED BY <1>d, <4>2, <5>1 DEF CopyInv, TypeOK
      <4> QED BY <4>1, <4>2
    <3> QED BY <3>1
  <2>2. \A i \in 1 .. Len(lh) : Bread(lh[i])' = Bread(lh[i])
    BY DEF Bread
  <2>3. step' = "write_log" => tail' - 1 = tail
    OBVIOUS
  <2>4. step' = "write_log" => \A i \in 1 .. tail' - 1 : logblk'[i] = Bread(lh[i])'
    <3>1. \A i \in 1 .. tail : i \in 1 .. Len(lh)
      BY <1>b
    <3> QED BY <2>1, <2>2, <2>3, <3>1
  <2>5. step' = "write_head" => \A i \in 1 .. Len(lh) : logblk'[i] = Bread(lh[i])'
    BY <2>1, <2>2
  <2> QED BY <2>4, <2>5 DEF CopyInv
<1>7. BeginNotMissed'
  BY DEF BeginNotMissed, Admit
<1> QED BY <1>1, <1>2, <1>3, <1>4, <1>5, <1>6, <1>7

\* WriteHead: the header on the disk is the one in memory.
LEMMA WriteHeadStep ==
  ASSUME IInv, ~panicked, WriteHead
  PROVE  IInv'
<1>b. /\ step = "write_head"
      /\ Active = {} /\ Len(lh) \in Nat /\ Len(lh) <= Most /\ Len(head) <= Most
  BY CommitFacts DEF WriteHead
<1>c. committing /\ tail = 1
  BY <1>b DEF IInv, PhaseInv, HeaderInv
<1> USE <1>b, <1>c DEF IInv, WriteHead, logVars, procVars
<1>1. TypeOK'
  BY DEF TypeOK, Steps
<1>2. CountInv' /\ OpInv' /\ RoomInv' /\ Active' = Active
  BY CommitFrame
<1>3. PhaseInv'
  BY <1>2 DEF PhaseInv, Booting
<1>4. HeaderInv'
  BY DEF HeaderInv
<1>5. CacheInv'
  BY DEF CacheInv
<1>6. CopyInv'
  BY DEF CopyInv, Bread
<1>7. BeginNotMissed'
  BY DEF BeginNotMissed, Admit
<1> QED BY <1>1, <1>2, <1>3, <1>4, <1>5, <1>6, <1>7

\* InstallTrans: a block of the header is at its home location, and its buffer
\* is clean.
LEMMA InstallTransStep ==
  ASSUME IInv, ~panicked, InstallTrans
  PROVE  IInv'
<1>a. /\ step = "install" /\ tail \in 1 .. Len(lh) /\ lh[tail] \in Block
      /\ Active = {} /\ \A p \in Proc : cur[p] = Absent
      /\ Len(lh) \in Nat /\ Len(lh) <= Most /\ Len(head) <= Most /\ Len(lh) <= SIZE - 1
      /\ \A i \in 1 .. Len(lh) : lh[i] \in Block
  BY CommitFacts DEF InstallTrans, IInv, HeaderInv
<1>0. PICK b \in Block : b = lh[tail]
  BY <1>a
<1>b. /\ disk' = [disk EXCEPT ![b] = logblk[tail]]
      /\ cache' = [cache EXCEPT ![b] = logblk[tail]]
      /\ dirty' = dirty \ {b} /\ tail' = tail + 1
      /\ UNCHANGED <<logblk, head, logVars, procVars, step, nops, panicked>>
  BY <1>0 DEF InstallTrans
<1>c. logblk[tail] \in Val /\ logblk[tail] # Absent
  <2>1. tail \in 1 .. SIZE - 1
    BY <1>a, LogAssumption
  <2>2. logblk[tail] \in Val
    BY <2>1 DEF IInv, TypeOK
  <2> QED BY <2>2, LogAssumption DEF Val
<1>d. \A i \in 1 .. Len(lh) : lh[i] = b => i = tail
  BY <1>a, <1>0 DEF IInv, HeaderInv
<1> USE <1>a, <1>0, <1>b DEF IInv, logVars, procVars
<1>1. TypeOK'
  BY <1>c DEF TypeOK
<1>2. CountInv' /\ OpInv' /\ RoomInv' /\ Active' = Active
  BY CommitFrame
<1>3. PhaseInv'
  BY <1>2 DEF PhaseInv, Booting
<1>4. HeaderInv'
  BY DEF HeaderInv
<1>e. /\ disk'[b] = logblk[tail] /\ cache'[b] = logblk[tail]
      /\ \A c \in Block \ {b} : disk'[c] = disk[c] /\ cache'[c] = cache[c]
  BY DEF TypeOK
<1>5. CacheInv'
  <2>1. ASSUME NEW c \in dirty'
        PROVE  /\ cache'[c] # Absent
               /\ \E i \in 1 .. Len(lh) : lh[i] = c /\ i >= tail + 1
    <3>1. c \in dirty /\ c # b /\ c \in Block
      BY DEF TypeOK
    <3>2. PICK i \in 1 .. Len(lh) : lh[i] = c /\ i >= tail
      BY <3>1 DEF CacheInv
    <3>3. i >= tail + 1
      BY <3>1, <3>2
    <3> QED BY <1>e, <3>1, <3>2, <3>3 DEF CacheInv
  <2>2. \A c \in Block : cache'[c] # Absent /\ c \notin dirty' => cache'[c] = disk'[c]
    BY <1>e, LogAssumption DEF CacheInv
  <2> QED BY <2>1, <2>2 DEF CacheInv
<1>6. CopyInv'
  <2>1. committing => \A i \in 1 .. Len(lh) : logblk[i] = Bread(lh[i])'
    <3>1. ASSUME committing, NEW i \in 1 .. Len(lh)
          PROVE  logblk[i] = Bread(lh[i])'
      <4>1. logblk[i] = Bread(lh[i])
        BY <3>1 DEF CopyInv
      <4>2. CASE i = tail
        BY <1>c, <1>e, <4>2 DEF Bread
      <4>3. CASE i # tail
        <5>1. lh[i] \in Block \ {b}
          BY <1>d, <4>3
        <5> QED BY <1>e, <4>1, <5>1 DEF Bread
      <4> QED BY <4>2, <4>3
    <3> QED BY <3>1
  <2>2. \A i \in 1 .. tail' - 1 : disk'[lh[i]] = logblk[i]
    <3>1. ASSUME NEW i \in 1 .. tail PROVE disk'[lh[i]] = logblk[i]
      <4>1. CASE i = tail
        BY <1>e, <4>1
      <4>2. CASE i # tail
        <5>1. i \in 1 .. tail - 1 /\ i \in 1 .. Len(lh)
          BY <4>2
        <5>2. disk[lh[i]] = logblk[i]
          BY <5>1 DEF CopyInv
        <5>3. lh[i] \in Block \ {b}
          BY <1>d, <4>2, <5>1
        <5> QED BY <1>e, <5>2, <5>3
      <4> QED BY <4>1, <4>2
    <3>2. tail' - 1 = tail
      OBVIOUS
    <3> QED BY <3>1, <3>2
  <2> QED BY <2>1, <2>2 DEF CopyInv
<1>7. BeginNotMissed'
  BY DEF BeginNotMissed, Admit
<1> QED BY <1>1, <1>2, <1>3, <1>4, <1>5, <1>6, <1>7

\* Erase: every block of the header is at home and no buffer is pinned.
LEMMA EraseStep ==
  ASSUME IInv, ~panicked, Erase
  PROVE  IInv'
<1>a. step = "install" /\ tail > Len(lh) /\ Active = {} /\ Len(lh) \in Nat /\ Most \in Nat
  BY CommitFacts, LogAssumption DEF Erase, Most
<1>b. committing \/ Booting
  BY <1>a, CommitFacts
<1> USE <1>a DEF IInv, Erase, procVars
<1>1. TypeOK'
  BY DEF TypeOK, Steps
<1>2. CountInv' /\ OpInv' /\ RoomInv' /\ Active' = Active
  <2>1. Len(lh') = 0 /\ Len(head') = 0
    OBVIOUS
  <2> QED BY <2>1, CommitFrame
<1>3. PhaseInv'
  BY <1>2 DEF PhaseInv, Booting
<1>4. HeaderInv'
  BY DEF HeaderInv
<1>5. CacheInv'
  <2>1. dirty = {}
    <3>1. ASSUME NEW c \in dirty PROVE FALSE
      <4>1. PICK i \in 1 .. Len(lh) : i >= tail
        BY DEF CacheInv
      <4> QED BY <4>1 DEF TypeOK
    <3> QED BY <3>1
  <2> QED BY <2>1 DEF CacheInv
<1>6. CopyInv'
  BY DEF CopyInv
<1>7. BeginNotMissed'
  BY <1>b DEF BeginNotMissed, Admit, Booting
<1> QED BY <1>1, <1>2, <1>3, <1>4, <1>5, <1>6, <1>7

\* ReadHead: recovery goes through the header that is on the disk.
LEMMA ReadHeadStep ==
  ASSUME IInv, ~panicked, ReadHead
  PROVE  IInv'
<1>a. step = "read_head" /\ Active = {} /\ Len(head) \in Nat /\ Len(head) <= Most
  BY CommitFacts DEF ReadHead
<1>b. ~committing /\ Booting /\ lh = <<>>
  BY <1>a DEF IInv, PhaseInv, HeaderInv
<1>c. dirty = {}
  <2>1. Len(lh) = 0
    BY <1>b
  <2> QED BY <2>1 DEF IInv, CacheInv
<1> USE <1>a, <1>b, <1>c DEF IInv, ReadHead, diskVars, procVars
<1>1. TypeOK'
  BY DEF TypeOK, Steps
<1>2. CountInv' /\ OpInv' /\ RoomInv' /\ Active' = Active
  BY CommitFrame
<1>3. PhaseInv'
  BY <1>2 DEF PhaseInv, Booting
<1>4. HeaderInv'
  BY DEF HeaderInv
<1>5. CacheInv'
  BY DEF CacheInv
<1>6. CopyInv'
  BY DEF CopyInv
<1>7. BeginNotMissed'
  BY DEF BeginNotMissed, Booting
<1> QED BY <1>1, <1>2, <1>3, <1>4, <1>5, <1>6, <1>7

\* EndCommit: the log is empty, and everybody who waited tries again.
LEMMA EndCommitStep ==
  ASSUME IInv, NEW p \in Proc, EndCommit(p)
  PROVE  IInv'
<1>a. /\ pc[p] = "commit" /\ step = "done" /\ committing' = FALSE /\ step' = "none"
      /\ pc' = WakeAndGoto(p, "idle")
      /\ UNCHANGED <<disk, logblk, head, cache, dirty, lh, outstanding, cur, wrote, op,
                     tail, nops, panicked>>
  BY DEF EndCommit, diskVars
<1>b. /\ committing /\ Active = {} /\ lh = <<>>
      /\ \A q \in Proc : pc[q] = "commit" => q = p
  BY <1>a DEF IInv, PhaseInv, HeaderInv
<1> USE <1>a, <1>b DEF IInv
<1>1. TypeOK'
  BY DEF TypeOK, Steps, Places, WakeAndGoto
<1>2. Active' = Active
  BY DEF Active, WakeAndGoto
<1>3. CountInv'
  BY <1>2 DEF CountInv
<1>4. PhaseInv'
  BY <1>2 DEF PhaseInv, WakeAndGoto
<1>5. OpInv'
  <2>1. \A q \in Proc : pc'[q] \notin {"op", "log_write"} /\ pc[q] \notin {"op", "log_write"}
    BY <1>2 DEF Active
  <2> QED BY <1>2, <2>1 DEF OpInv
<1>6. RoomInv'
  BY <1>2, RoomFrame
<1>7. HeaderInv'
  BY DEF HeaderInv
<1>8. CacheInv' /\ CopyInv'
  BY DEF CacheInv, CopyInv
<1>9. BeginNotMissed'
  BY DEF BeginNotMissed, WakeAndGoto
<1> QED BY <1>1, <1>3, <1>4, <1>5, <1>6, <1>7, <1>8, <1>9

\* BootDone: the processes start with an empty log and clean buffers.
LEMMA BootDoneStep ==
  ASSUME IInv, BootDone
  PROVE  IInv'
<1>a. /\ step = "done" /\ \A p \in Proc : pc[p] = "boot"
      /\ step' = "none" /\ pc' = [p \in Proc |-> "idle"]
      /\ UNCHANGED <<disk, logblk, head, cache, dirty, lh, outstanding, committing, cur,
                     wrote, op, tail, nops, panicked>>
  BY DEF BootDone, diskVars, logVars
<1>b. ~committing /\ lh = <<>>
  BY <1>a DEF IInv, PhaseInv, HeaderInv
<1> USE <1>a, <1>b DEF IInv
<1>1. TypeOK'
  BY DEF TypeOK, Steps, Places
<1>2. Active' = {} /\ Active = {}
  BY DEF Active
<1>3. CountInv'
  BY <1>2 DEF CountInv
<1>4. PhaseInv'
  BY <1>2 DEF PhaseInv
<1>5. OpInv'
  BY <1>2 DEF OpInv
<1>6. RoomInv'
  BY <1>2, RoomFrame
<1>7. HeaderInv'
  BY DEF HeaderInv
<1>8. CacheInv' /\ CopyInv' /\ BeginNotMissed'
  BY DEF CacheInv, CopyInv, BeginNotMissed
<1> QED BY <1>1, <1>3, <1>4, <1>5, <1>6, <1>7, <1>8

-----------------------------------------------------------------------------
(* The invariant                                                           *)

\* Every step keeps the invariant.
LEMMA NextInv == IInv /\ [Next]_vars => IInv'
<1> SUFFICES ASSUME IInv, [Next]_vars PROVE IInv'
  OBVIOUS
<1>1. ASSUME ~panicked, NEW p \in Proc, Call(p) \/ ProcStep(p) PROVE IInv'
  BY <1>1, CallStep, BeginOpStep, BeginSleepStep, EndOpStep, LogWriteStep, EndCommitStep
     DEF ProcStep
<1>2. ASSUME ~panicked, NEW p \in Proc, NEW b \in Block, Modify(p, b) PROVE IInv'
  BY <1>2, ModifyStep
<1>3. ASSUME NEW b \in Block, Evict(b) PROVE IInv'
  BY <1>3, EvictStep
<1>4. ASSUME ~panicked, CommitStep PROVE IInv'
  BY <1>4, WriteLogStep, WriteHeadStep, InstallTransStep, EraseStep, ReadHeadStep,
     BootDoneStep DEF CommitStep
<1>5. ASSUME Crash PROVE IInv'
  BY <1>5, CrashStep
<1>6. ASSUME UNCHANGED vars PROVE IInv'
  <2> USE <1>6 DEF vars, diskVars, logVars, procVars, commitVars, IInv
  <2>1. Active' = Active
    BY DEF Active
  <2>2. TypeOK' /\ CountInv' /\ PhaseInv' /\ HeaderInv'
    BY <2>1 DEF TypeOK, CountInv, PhaseInv, Booting, HeaderInv
  <2>3. OpInv' /\ RoomInv'
    BY <2>1, OpFrame, RoomFrame
  <2>4. CacheInv' /\ CopyInv' /\ BeginNotMissed'
    BY DEF CacheInv, CopyInv, Bread, BeginNotMissed, Admit
  <2> QED BY <2>2, <2>3, <2>4
<1> QED BY <1>1, <1>2, <1>3, <1>4, <1>5, <1>6 DEF Next

\* The invariant holds in every state that the log can be in, crashes included.
THEOREM Invariance == Spec => []IInv
<1> QED BY InitInv, NextInv, PTL DEF Spec

\* Every variable keeps its type.
THEOREM TypeCorrect == Spec => []TypeOK
<1>1. IInv => TypeOK
  BY DEF IInv
<1> QED BY <1>1, Invariance, PTL

\* end_op()'s assertion cannot fail: nobody is inside an operation during a
\* commit.
THEOREM CommitsAlone == Spec => []CommitAlone
<1>1. IInv => CommitAlone
  <2> SUFFICES ASSUME IInv, committing
               PROVE  outstanding = 0 /\ \A p \in Proc : pc[p] \notin {"op", "log_write"}
    BY DEF CommitAlone
  <2>1. Active = {}
    BY DEF IInv, PhaseInv
  <2>2. Cardinality(Active) = 0
    BY <2>1, FS_EmptySet
  <2> QED BY <2>1, <2>2 DEF IInv, CountInv, Active
<1> QED BY <1>1, Invariance, PTL

\* Nobody is left asleep in begin_op().
THEOREM NoBeginMissed == Spec => []BeginNotMissed
<1>1. IInv => BeginNotMissed
  BY DEF IInv
<1> QED BY <1>1, Invariance, PTL

\* Every operation that begin_op() let in can log all its blocks: log_write()
\* never finds the log full.
THEOREM ReservationSuffices == Spec => []ReservationHolds
<1>1. IInv => ReservationHolds
  <2> SUFFICES ASSUME IInv PROVE Len(lh) + Cardinality(Room) < SIZE - 1
    BY DEF ReservationHolds
  <2>1. Room \in SUBSET (Proc \X (1 .. OPBLOCKS))
    BY DEF Room
  <2>2. Cardinality(Room) \in Nat /\ Len(lh) \in Nat
    BY <2>1, RoomSets DEF IInv, TypeOK
  <2>3. Len(lh) + Cardinality(Room) <= Most
    BY DEF IInv, RoomInv
  <2> QED BY <2>2, <2>3, LogAssumption DEF Most
<1> QED BY <1>1, Invariance, PTL

-----------------------------------------------------------------------------
(* The log implements a disk with transactions                             *)

\* What recovery makes of a block: the copy in the log if the header on the disk
\* names it, and its home location if not.
LEMMA RecoveredFacts ==
  IInv => /\ \A i \in 1 .. Len(head) : head[i] \in Block /\ Recovered[head[i]] = logblk[i]
          /\ \A b \in Block :
               (\A i \in 1 .. Len(head) : head[i] # b) => Recovered[b] = disk[b]
<1> SUFFICES ASSUME IInv
             PROVE  /\ \A i \in 1 .. Len(head) :
                         head[i] \in Block /\ Recovered[head[i]] = logblk[i]
                    /\ \A b \in Block :
                         (\A i \in 1 .. Len(head) : head[i] # b) => Recovered[b] = disk[b]
  OBVIOUS
<1>1. ASSUME NEW i \in 1 .. Len(head)
      PROVE  head[i] \in Block /\ Recovered[head[i]] = logblk[i]
  <2>1. head[i] \in Block
    BY DEF IInv, TypeOK
  <2>2. (CHOOSE j \in 1 .. Len(head) : head[j] = head[i]) = i
    BY DEF IInv, HeaderInv
  <2> QED BY <2>1, <2>2 DEF Recovered
<1>2. ASSUME NEW b \in Block, \A i \in 1 .. Len(head) : head[i] # b
      PROVE  Recovered[b] = disk[b]
  BY <1>2 DEF Recovered
<1> QED BY <1>1, <1>2

\* The same of the state after a step.
LEMMA RecoveredFactsAfter ==
  ASSUME IInv'
  PROVE  /\ \A i \in 1 .. Len(head') :
              head'[i] \in Block /\ Recovered'[head'[i]] = logblk'[i]
         /\ \A b \in Block :
              (\A i \in 1 .. Len(head') : head'[i] # b) => Recovered'[b] = disk'[b]
<1>1. (/\ \A i \in 1 .. Len(head) : head[i] \in Block /\ Recovered[head[i]] = logblk[i]
       /\ \A b \in Block :
            (\A i \in 1 .. Len(head) : head[i] # b) => Recovered[b] = disk[b])'
  BY RecoveredFacts, PTL
<1> QED BY <1>1

\* With an empty header on the disk there is nothing to recover.
LEMMA NothingToRecover ==
  ASSUME IInv, head = <<>>, NEW b \in Block
  PROVE  Recovered[b] = disk[b]
BY RecoveredFacts

\* A step that leaves all blocks and the phase alone stutters.
LEMMA SameDisk ==
  ASSUME \A b \in Block : Recovered'[b] = Recovered[b],
         ~Booting => \A b \in Block : Bread(b)' = Bread(b),
         Booting' = Booting, Active' = Active
  PROVE  UNCHANGED <<Recovered, Current, Active>>
<1>1. Recovered' = Recovered
  BY DEF Recovered
<1>2. ~Booting => View' = View
  BY DEF View
<1> QED BY <1>1, <1>2 DEF Current

\* What a process does outside log_write() leaves the blocks alone.
LEMMA SameBlocks ==
  ASSUME UNCHANGED <<disk, logblk, head, cache>>, ~Booting, ~Booting'
  PROVE  UNCHANGED <<Recovered, Current>>
<1>1. Recovered' = Recovered /\ View' = View
  BY DEF Recovered, View, Bread
<1> QED BY <1>1 DEF Current

\* Evict leaves every block alone: the buffer agreed with the disk.
LEMMA EvictStutters ==
  ASSUME IInv, NEW b \in Block, Evict(b)
  PROVE  UNCHANGED <<Recovered, Current, Active>>
<1>1. UNCHANGED <<disk, logblk, head, pc>>
  BY DEF Evict, diskVars, procVars
<1>2. \A c \in Block : Bread(c)' = Bread(c)
  BY <1>1 DEF Evict, Evictable, Bread, IInv, CacheInv, TypeOK
<1>3. Recovered' = Recovered /\ Booting' = Booting /\ Active' = Active
  BY <1>1 DEF Recovered, Booting, Active
<1> QED BY <1>2, <1>3, SameDisk

\* Modify writes a block.
LEMMA ModifyWrites ==
  ASSUME IInv, NEW p \in Proc, NEW b \in Block, Modify(p, b)
  PROVE  Tx!Write(p, b, op[p])
<1>1. /\ pc[p] = "op" /\ cache' = [cache EXCEPT ![b] = op[p]]
      /\ pc' = pc \/ pc' = [pc EXCEPT ![p] = "log_write"]
      /\ UNCHANGED <<disk, logblk, head>>
  BY DEF Modify, diskVars
<1>2. p \in Active /\ Active' = Active /\ ~Booting /\ ~Booting'
  BY <1>1 DEF Active, Booting, IInv, TypeOK
<1>3. op[p] # Absent
  <2>1. op[p] \in Val
    BY DEF IInv, TypeOK
  <2> QED BY <2>1, LogAssumption DEF Val
<1>4. View' = [View EXCEPT ![b] = op[p]]
  BY <1>1, <1>3 DEF View, Bread, IInv, TypeOK
<1>5. Recovered' = Recovered
  BY <1>1 DEF Recovered
<1> QED BY <1>2, <1>4, <1>5 DEF Tx!Write, Current

\* WriteHead is the commit point: what the log would now recover is what the
\* system reads.
LEMMA WriteHeadCommits ==
  ASSUME IInv, IInv', ~panicked, WriteHead
  PROVE  Tx!Commit
<1>1. /\ step = "write_head" /\ head' = lh
      /\ UNCHANGED <<disk, logblk, cache, dirty, pc, cur>>
  BY DEF WriteHead, procVars
<1>2. /\ Active = {} /\ \A p \in Proc : cur[p] = Absent
      /\ \A i \in 1 .. Len(lh) : lh[i] \in Block
  BY <1>1, CommitFacts
<1>3. ~Booting
  BY <1>1 DEF IInv, PhaseInv, Booting
<1>4. ASSUME NEW b \in Block PROVE Recovered'[b] = Bread(b)
  <2>1. CASE \E i \in 1 .. Len(lh) : lh[i] = b
    <3>1. PICK i \in 1 .. Len(lh) : lh[i] = b
      BY <2>1
    <3>2. Recovered'[b] = logblk[i]
      BY <1>1, <3>1, RecoveredFactsAfter
    <3> QED BY <1>1, <3>1, <3>2 DEF IInv, CopyInv
  <2>2. CASE \A i \in 1 .. Len(lh) : lh[i] # b
    <3>1. Recovered'[b] = disk[b]
      BY <1>1, <2>2, RecoveredFactsAfter
    <3>2. b \notin dirty
      BY <2>2 DEF IInv, CacheInv
    <3>3. \A p \in Proc : cur[p] # b
      BY <1>2, LogAssumption
    <3> QED BY <3>1, <3>2, <3>3 DEF IInv, CacheInv, Bread
  <2> QED BY <2>1, <2>2
<1>5. Recovered' = View
  BY <1>4 DEF Recovered, View
<1>6. ~Booting' /\ Active' = Active /\ View' = View
  BY <1>1, <1>3 DEF Booting, Active, View, Bread
<1> QED BY <1>2, <1>3, <1>5, <1>6 DEF Tx!Commit, Current

\* A block of the log is written: nothing refers to it yet.
LEMMA WriteLogStutters ==
  ASSUME IInv, IInv', WriteLog
  PROVE  UNCHANGED <<Recovered, Current, Active>>
<1>1. step = "write_log" /\ UNCHANGED <<disk, head, cache, pc>>
  BY DEF WriteLog, procVars
<1>2. head = <<>>
  BY <1>1 DEF IInv, HeaderInv
<1>3. \A b \in Block : Recovered'[b] = disk[b] /\ Recovered[b] = disk[b]
  BY <1>1, <1>2, NothingToRecover, RecoveredFactsAfter
<1>4. Booting' = Booting /\ Active' = Active /\ \A b \in Block : Bread(b)' = Bread(b)
  BY <1>1 DEF Booting, Active, Bread
<1> QED BY <1>3, <1>4, SameDisk

\* Installing a block, once or again after a crash, changes neither what the
\* system reads nor what recovery will make of the disk.
LEMMA InstallStutters ==
  ASSUME IInv, IInv', ~panicked, InstallTrans
  PROVE  UNCHANGED <<Recovered, Current, Active>>
<1>1. /\ step = "install" /\ tail \in 1 .. Len(lh) /\ head = lh
      /\ lh[tail] \in Block /\ Len(lh) <= SIZE - 1 /\ Len(lh) \in Nat
  BY CommitFacts DEF InstallTrans, IInv, HeaderInv
<1>0. PICK b \in Block : b = lh[tail]
  BY <1>1
<1>2. /\ disk' = [disk EXCEPT ![b] = logblk[tail]]
      /\ cache' = [cache EXCEPT ![b] = logblk[tail]]
      /\ UNCHANGED <<logblk, head, pc>>
  BY <1>0 DEF InstallTrans, procVars
<1>3. /\ cache'[b] = logblk[tail]
      /\ \A c \in Block \ {b} : disk'[c] = disk[c] /\ cache'[c] = cache[c]
  BY <1>2 DEF IInv, TypeOK
<1>4. ASSUME NEW c \in Block PROVE Recovered'[c] = Recovered[c]
  <2>1. CASE \E i \in 1 .. Len(head) : head[i] = c
    BY <1>2, <2>1, RecoveredFacts, RecoveredFactsAfter
  <2>2. CASE \A i \in 1 .. Len(head) : head[i] # c
    <3>1. c # b
      BY <1>0, <1>1, <2>2
    <3> QED BY <1>2, <1>3, <2>2, <3>1, RecoveredFacts, RecoveredFactsAfter
  <2> QED BY <2>1, <2>2
<1>5. ASSUME ~Booting, NEW c \in Block PROVE Bread(c)' = Bread(c)
  <2>1. committing
    BY <1>1, <1>5 DEF IInv, PhaseInv
  <2>2. logblk[tail] = Bread(b)
    BY <1>0, <1>1, <2>1 DEF IInv, CopyInv
  <2>3. logblk[tail] # Absent
    <3>1. tail \in 1 .. SIZE - 1
      BY <1>1, LogAssumption
    <3>2. logblk[tail] \in Val
      BY <3>1 DEF IInv, TypeOK
    <3> QED BY <3>2, LogAssumption DEF Val
  <2>4. CASE c = b
    BY <1>3, <2>2, <2>3, <2>4 DEF Bread
  <2>5. CASE c # b
    BY <1>3, <2>5 DEF Bread
  <2> QED BY <2>4, <2>5
<1>6. Booting' = Booting /\ Active' = Active
  BY <1>2 DEF Booting, Active
<1> QED BY <1>4, <1>5, <1>6, SameDisk

\* When the transaction is erased, all its blocks are at home.
LEMMA EraseStutters ==
  ASSUME IInv, IInv', ~panicked, Erase
  PROVE  UNCHANGED <<Recovered, Current, Active>>
<1>1. /\ step = "install" /\ tail > Len(lh) /\ head = lh /\ head' = <<>>
      /\ tail \in Nat /\ Len(lh) \in Nat /\ UNCHANGED <<disk, cache, pc>>
  BY DEF Erase, procVars, IInv, HeaderInv, TypeOK
<1>2. ASSUME NEW b \in Block PROVE Recovered'[b] = Recovered[b]
  <2>1. Recovered'[b] = disk[b]
    BY <1>1, RecoveredFactsAfter
  <2>2. CASE \E i \in 1 .. Len(lh) : lh[i] = b
    <3>1. PICK i \in 1 .. Len(lh) : lh[i] = b
      BY <2>2
    <3>2. Recovered[b] = logblk[i]
      BY <1>1, <3>1, RecoveredFacts
    <3>3. i \in 1 .. tail - 1
      BY <1>1
    <3>4. disk[lh[i]] = logblk[i]
      BY <1>1, <3>3 DEF IInv, CopyInv
    <3> QED BY <2>1, <3>1, <3>2, <3>4
  <2>3. CASE \A i \in 1 .. Len(lh) : lh[i] # b
    BY <1>1, <2>1, <2>3, RecoveredFacts
  <2> QED BY <2>2, <2>3
<1>3. Booting' = Booting /\ Active' = Active /\ \A b \in Block : Bread(b)' = Bread(b)
  BY <1>1 DEF Booting, Active, Bread
<1> QED BY <1>2, <1>3, SameDisk

\* When the system calls start, the system reads what was recovered.
LEMMA BootStutters ==
  ASSUME IInv, BootDone
  PROVE  UNCHANGED <<Recovered, Current, Active>>
<1>1. /\ step = "done" /\ Booting /\ pc' = [p \in Proc |-> "idle"]
      /\ UNCHANGED <<disk, logblk, head, cache>>
  BY DEF BootDone, Booting, diskVars
<1>2. Active = {} /\ Active' = {}
  BY <1>1 DEF Active, Booting
<1>3. Recovered' = Recovered /\ View' = View
  BY <1>1 DEF Recovered, View, Bread
<1>4. ASSUME NEW b \in Block PROVE Recovered[b] = Bread(b)
  <2>1. head = <<>> /\ lh = <<>>
    BY <1>1 DEF IInv, HeaderInv
  <2>2. Recovered[b] = disk[b]
    BY <2>1, NothingToRecover
  <2>3. b \notin dirty
    BY <2>1 DEF IInv, CacheInv
  <2>4. \A p \in Proc : cur[p] = Absent
    BY <1>1 DEF IInv, OpInv, Booting
  <2>5. \A p \in Proc : cur[p] # b
    BY <2>4, LogAssumption
  <2> QED BY <2>2, <2>3, <2>5 DEF IInv, CacheInv, Bread
<1>5. Recovered = View
  BY <1>4 DEF Recovered, View
<1> QED BY <1>1, <1>2, <1>3, <1>5 DEF Current

\* Every step of the log is a step of the disk with transactions, or leaves it
\* alone.
LEMMA TxStep ==
  IInv /\ IInv' /\ [Next]_vars => [Tx!TxNext]_<<Recovered, Current, Active>>
<1> SUFFICES ASSUME IInv, IInv', [Next]_vars,
                    ~ UNCHANGED <<Recovered, Current, Active>>
             PROVE  Tx!TxNext
  OBVIOUS
<1>1. ASSUME NEW p \in Proc,
             Call(p) \/ BeginSleep(p) \/ LogWrite(p) \/ EndCommit(p)
      PROVE  FALSE
  <2>1. UNCHANGED <<disk, logblk, head, cache>>
    BY <1>1 DEF Call, BeginSleep, LogWrite, EndCommit, diskVars
  <2>2. ~Booting /\ ~Booting'
    BY <1>1 DEF Booting, Call, BeginSleep, LogWrite, EndCommit, WakeAndGoto, IInv, TypeOK
  <2>3. Active' = Active
    BY <1>1 DEF Active, Call, BeginSleep, LogWrite, EndCommit, WakeAndGoto, IInv, TypeOK
  <2> QED BY <2>1, <2>2, <2>3, SameBlocks
<1>2. ASSUME NEW p \in Proc, BeginOp(p)
      PROVE  Tx!TxNext
  <2>1. pc[p] = "begin" /\ pc' = [pc EXCEPT ![p] = "op"]
        /\ UNCHANGED <<disk, logblk, head, cache>>
    BY <1>2 DEF BeginOp, diskVars
  <2>2. ~Booting /\ ~Booting' /\ p \notin Active /\ Active' = Active \cup {p}
    BY <2>1 DEF Booting, Active, IInv, TypeOK
  <2>3. UNCHANGED <<Recovered, Current>>
    BY <2>1, <2>2, SameBlocks
  <2> QED BY <2>2, <2>3 DEF Tx!Begin, Tx!TxNext
<1>3. ASSUME NEW p \in Proc, EndOp(p)
      PROVE  Tx!TxNext
  <2>1. /\ pc[p] = "op"
        /\ pc' = [pc EXCEPT ![p] = "commit"] \/ pc' = WakeAndGoto(p, "idle")
        /\ UNCHANGED <<disk, logblk, head, cache>>
    BY <1>3 DEF EndOp, NotLast, diskVars
  <2>2. ~Booting /\ ~Booting' /\ p \in Active /\ Active' = Active \ {p}
    BY <2>1 DEF Booting, Active, WakeAndGoto, IInv, TypeOK
  <2>3. UNCHANGED <<Recovered, Current>>
    BY <2>1, <2>2, SameBlocks
  <2> QED BY <2>2, <2>3 DEF Tx!End, Tx!TxNext
<1>4. ASSUME NEW p \in Proc, NEW b \in Block, Modify(p, b)
      PROVE  Tx!TxNext
  <2>1. op[p] \in Val
    BY DEF IInv, TypeOK
  <2> QED BY <1>4, <2>1, ModifyWrites DEF Tx!TxNext
<1>5. ASSUME NEW b \in Block, Evict(b)
      PROVE  FALSE
  BY <1>5, EvictStutters
<1>6. ASSUME ~panicked, WriteHead
      PROVE  Tx!TxNext
  BY <1>6, WriteHeadCommits DEF Tx!TxNext
<1>7. ASSUME ~panicked, WriteLog \/ InstallTrans \/ Erase \/ BootDone
      PROVE  FALSE
  BY <1>7, WriteLogStutters, InstallStutters, EraseStutters, BootStutters
<1>8. ASSUME ReadHead \/ UNCHANGED vars
      PROVE  FALSE
  <2>1. UNCHANGED <<disk, logblk, head, cache, pc>>
    BY <1>8 DEF ReadHead, vars, diskVars, procVars
  <2>2. Booting' = Booting /\ Active' = Active
    BY <2>1 DEF Booting, Active
  <2>3. Recovered' = Recovered /\ \A b \in Block : Bread(b)' = Bread(b)
    BY <2>1 DEF Recovered, Bread
  <2> QED BY <2>2, <2>3, SameDisk
<1>9. ASSUME Crash
      PROVE  Tx!TxNext
  <2>1. pc' = [p \in Proc |-> "boot"] /\ UNCHANGED <<disk, logblk, head>>
    BY <1>9 DEF Crash, diskVars
  <2>2. Booting' /\ Active' = {} /\ Recovered' = Recovered
    BY <2>1 DEF Booting, Active, Recovered
  <2> QED BY <2>2 DEF Tx!Crash, Tx!TxNext, Current
<1> QED BY <1>1, <1>2, <1>3, <1>4, <1>5, <1>6, <1>7, <1>8, <1>9
        DEF Next, ProcStep, CommitStep

\* The log implements a disk on which the writes of a group of system calls
\* become durable together or not at all, whenever the machine crashes: while
\* it runs, in the middle of a commit, or in the middle of a recovery.
THEOREM LogIsTransactional == Spec => ImplementsTxDisk
<1>1. Init => Tx!TxInit
  <2> SUFFICES ASSUME Init PROVE Tx!TxInit
    OBVIOUS
  <2>1. Recovered = [b \in Block |-> 0] /\ 0 \in Val
    BY LogAssumption DEF Init, Recovered, Val
  <2>2. Booting /\ Active = {}
    BY DEF Init, Booting, Active
  <2> QED BY <2>1, <2>2 DEF Tx!TxInit, Current
<1> QED BY <1>1, TxStep, Invariance, PTL DEF Spec, ImplementsTxDisk, Tx!TxSpec, Tx!txVars
=============================================================================
