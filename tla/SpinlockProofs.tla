--------------------------- MODULE SpinlockProofs ---------------------------
(* Proofs about Spinlock, for any number of CPUs, threads and locks.       *)
EXTENDS Spinlock, FiniteSets, FiniteSetTheorems, TLAPS

\* Who executes what: a thread is on at most one CPU and off the CPUs exactly
\* when none runs it; a scheduler waits in scheduler() while its CPU runs a
\* thread; and only a thread can be fresh.
ContextInv ==
  /\ \A c \in CPU : cur[c] \in Thread \cup {c} /\ at[cur[c]] # "off"
  /\ \A c, d \in CPU : c # d => cur[c] # cur[d]
  /\ \A x \in Thread : at[x] # "off" => \E c \in CPU : cur[c] = x
  /\ \A c \in CPU : cur[c] # c => at[c] = "code" /\ kind[c] = "thread"
  /\ \A c \in CPU : kind[c] # "fresh" /\ under[c] = "thread"
  /\ \A x \in Ctx : under[x] # "handler"

\* The lock an operation is about is held from the xchg to the unlock.
WantInv ==
  \A c \in CPU :
    /\ at[cur[c]] = "xchg" => want[cur[c]] \in Lock \ held[c]
    /\ at[cur[c]] \in {"setcpu", "unlock"} => want[cur[c]] \in held[c]

\* locked says that some CPU is inside, and lk->cpu names that CPU, except in
\* the windows after the xchg and before the unlock, when it names none.
LockInv ==
  /\ \A c, d \in CPU : c # d => held[c] \cap held[d] = {}
  /\ \A l \in Lock : locked[l] <=> \E c \in CPU : l \in held[c]
  /\ \A c \in CPU, l \in Lock : lcpu[l] = c => l \in held[c]
  /\ \A c \in CPU : at[cur[c]] \in {"setcpu", "unlock"} =>
       lcpu[want[cur[c]]] = NoCPU
  /\ \A c \in CPU : \A l \in held[c] :
       lcpu[l] # c =>
         at[cur[c]] \in {"setcpu", "unlock"} /\ want[cur[c]] = l

\* ncli counts the locks held and the one between pushcli and xchg, or between
\* unlock and popcli.
Depth(c) ==
  Cardinality(held[c]) + (IF at[cur[c]] \in {"xchg", "popcli"} THEN 1 ELSE 0)
NcliInv ==
  \A c \in CPU : IsFiniteSet(held[c]) /\ ncli[c] = Depth(c)

\* Inside locks cpu->intena, and in a thread that waits in sched() its local
\* copy, say whether the thread was entered with interrupts on.
IntenaInv ==
  /\ \A c \in CPU : cur[c] \in Thread =>
       /\ kind[cur[c]] = "thread" =>
            IF ncli[c] = 0 THEN fl_if[c] ELSE intena[c]
       /\ kind[cur[c]] = "handler" =>
            IF ncli[c] = 0 THEN ~fl_if[c] ELSE ~intena[c]
  /\ \A x \in Thread : at[x] = "off" =>
       /\ kind[x] = "thread" => saved[x]
       /\ kind[x] = "handler" => ~saved[x]

IInv ==
  /\ TypeOK
  /\ ContextInv
  /\ WantInv
  /\ LockInv
  /\ NcliInv
  /\ NoIntrInside
  /\ IntenaInv
  /\ NoPanic

-----------------------------------------------------------------------------
(* The inductive step, one lemma per action                                *)

\* What NcliInv says without Cardinality.
LEMMA HeldCount ==
  ASSUME TypeOK, NcliInv, NEW c \in CPU
  PROVE  /\ IsFiniteSet(held[c])
         /\ ncli[c] = Depth(c)
         /\ Cardinality(held[c]) \in Nat
         /\ Cardinality(held[c]) = 0 <=> held[c] = {}
BY FS_CardinalityType, FS_EmptySet DEF NcliInv

\* Acquire: pushcli() counts before the xchg, and records the flag of the thread.
LEMMA AcquireStep ==
  ASSUME IInv, NEW c \in CPU, NEW lk \in Lock, ~panicked, Acquire(c, lk)
  PROVE  IInv'
<1> USE SpinlockAssumption DEF IInv
<1>0. \A d \in CPU : /\ IsFiniteSet(held[d]) /\ ncli[d] = Depth(d)
                     /\ Cardinality(held[d]) \in Nat
                     /\ Cardinality(held[d]) = 0 <=> held[d] = {}
  BY HeldCount
<1>a. lk \notin held[c]
  BY DEF Acquire, MayAcquire
<1>1. TypeOK'
  BY <1>0 DEF lockVars, Places, TypeOK, Acquire, holding, Pushed
<1>2. ContextInv'
  BY DEF ContextInv, Acquire
<1>3. WantInv'
  BY <1>a DEF TypeOK, ContextInv, WantInv, Acquire
<1>4. LockInv'
  BY DEF lockVars, LockInv, Acquire
<1>5. NcliInv'
  BY <1>0 DEF TypeOK, ContextInv, NcliInv, Depth, Acquire, Pushed
<1>6. NoIntrInside'
  BY <1>0 DEF TypeOK, ContextInv, NoIntrInside, Acquire
<1>7. IntenaInv'
  BY <1>0 DEF TypeOK, IntenaInv, Acquire, Pushed
<1>8. NoPanic'
  BY <1>a DEF LockInv, NoPanic, Acquire, holding
<1> QED BY <1>1, <1>2, <1>3, <1>4, <1>5, <1>6, <1>7, <1>8

\* Xchg: the lock was free, so no CPU was inside it.
LEMMA XchgStep ==
  ASSUME IInv, NEW c \in CPU, ~panicked, Xchg(c)
  PROVE  IInv'
<1> USE SpinlockAssumption DEF IInv
<1>0. \A d \in CPU : /\ IsFiniteSet(held[d]) /\ ncli[d] = Depth(d)
                     /\ Cardinality(held[d]) \in Nat
                     /\ Cardinality(held[d]) = 0 <=> held[d] = {}
  BY HeldCount
<1>a. /\ IsFiniteSet(held'[c])
      /\ Cardinality(held'[c]) = Cardinality(held[c]) + 1
  <2>1. held'[c] = held[c] \cup {want[cur[c]]} /\ want[cur[c]] \notin held[c]
    BY DEF TypeOK, WantInv, Xchg
  <2> DEFINE S == held[c]  l == want[cur[c]]
  <2>2. IsFiniteSet(S)
    BY <1>0
  <2> HIDE DEF S, l
  <2>3. /\ IsFiniteSet(S \cup {l})
        /\ Cardinality(S \cup {l}) = IF l \in S THEN Cardinality(S) ELSE Cardinality(S) + 1
    BY <2>2, FS_AddElement, Zenon
  <2> QED BY <2>1, <2>3 DEF S, l
<1>1. TypeOK'
  BY <1>0, <1>a DEF cliVars, Places, TypeOK, Xchg, WantInv
<1>2. ContextInv'
  BY DEF ContextInv, Xchg
<1>3. WantInv'
  BY DEF TypeOK, ContextInv, WantInv, Xchg
<1>4. LockInv'
  BY DEF TypeOK, WantInv, LockInv, Xchg, Free
<1>5. NcliInv'
  BY <1>0, <1>a DEF cliVars, TypeOK, ContextInv, NcliInv, Depth, Xchg
<1>6. NoIntrInside'
  BY <1>0, <1>a DEF cliVars, NoIntrInside, Xchg
<1>7. IntenaInv'
  BY <1>0, <1>a DEF cliVars, IntenaInv, Xchg
<1>8. NoPanic'
  BY <1>0, <1>a DEF NoPanic, Xchg
<1> QED BY <1>1, <1>2, <1>3, <1>4, <1>5, <1>6, <1>7, <1>8

\* SetCpu: the owner field is filled in by the CPU inside the lock.
LEMMA SetCpuStep ==
  ASSUME IInv, NEW c \in CPU, ~panicked, SetCpu(c)
  PROVE  IInv'
<1> USE SpinlockAssumption DEF IInv
<1>0. \A d \in CPU : /\ IsFiniteSet(held[d]) /\ ncli[d] = Depth(d)
                     /\ Cardinality(held[d]) \in Nat
                     /\ Cardinality(held[d]) = 0 <=> held[d] = {}
  BY HeldCount
<1>1. TypeOK'
  BY <1>0 DEF cliVars, Places, TypeOK, SetCpu
<1>2. ContextInv'
  BY DEF ContextInv, SetCpu
<1>3. WantInv'
  BY DEF TypeOK, WantInv, SetCpu
<1>4. LockInv'
  BY DEF TypeOK, WantInv, LockInv, SetCpu
<1>5. NcliInv'
  BY <1>0 DEF cliVars, NcliInv, Depth, SetCpu
<1>6. NoIntrInside'
  BY <1>0 DEF cliVars, NoIntrInside, SetCpu
<1>7. IntenaInv'
  BY <1>0 DEF cliVars, IntenaInv, SetCpu
<1>8. NoPanic'
  BY <1>0 DEF NoPanic, SetCpu
<1> QED BY <1>1, <1>2, <1>3, <1>4, <1>5, <1>6, <1>7, <1>8

\* Release: the owner field is cleared while the lock is still held.
LEMMA ReleaseStep ==
  ASSUME IInv, NEW c \in CPU, NEW lk \in Lock, ~panicked, Release(c, lk)
  PROVE  IInv'
<1> USE SpinlockAssumption DEF IInv
<1>0. \A d \in CPU : /\ IsFiniteSet(held[d]) /\ ncli[d] = Depth(d)
                     /\ Cardinality(held[d]) \in Nat
                     /\ Cardinality(held[d]) = 0 <=> held[d] = {}
  BY HeldCount
<1>1. TypeOK'
  BY <1>0 DEF cliVars, Places, TypeOK, Release, NoOwner
<1>2. ContextInv'
  BY DEF ContextInv, Release
<1>3. WantInv'
  BY DEF TypeOK, ContextInv, WantInv, Release
<1>4. LockInv'
  BY DEF TypeOK, LockInv, Release, NoOwner
<1>5. NcliInv'
  BY <1>0 DEF cliVars, NcliInv, Depth, Release
<1>6. NoIntrInside'
  BY <1>0 DEF cliVars, ContextInv, NoIntrInside, Release
<1>7. IntenaInv'
  BY <1>0 DEF cliVars, IntenaInv, Release
<1>8. NoPanic'
  BY <1>0 DEF LockInv, NoPanic, Release, holding
<1> QED BY <1>1, <1>2, <1>3, <1>4, <1>5, <1>6, <1>7, <1>8

\* Unlock: the owner field is clear already.
LEMMA UnlockStep ==
  ASSUME IInv, NEW c \in CPU, ~panicked, Unlock(c)
  PROVE  IInv'
<1> USE SpinlockAssumption DEF IInv
<1>0. \A d \in CPU : /\ IsFiniteSet(held[d]) /\ ncli[d] = Depth(d)
                     /\ Cardinality(held[d]) \in Nat
                     /\ Cardinality(held[d]) = 0 <=> held[d] = {}
  BY HeldCount
<1>a. /\ IsFiniteSet(held'[c])
      /\ Cardinality(held'[c]) = Cardinality(held[c]) - 1
  <2>1. held'[c] = held[c] \ {want[cur[c]]} /\ want[cur[c]] \in held[c]
    BY DEF TypeOK, WantInv, Unlock
  <2> DEFINE S == held[c]  l == want[cur[c]]
  <2>2. IsFiniteSet(S)
    BY <1>0
  <2> HIDE DEF S, l
  <2>3. /\ IsFiniteSet(S \ {l})
        /\ Cardinality(S \ {l}) = IF l \in S THEN Cardinality(S) - 1 ELSE Cardinality(S)
    BY <2>2, FS_RemoveElement, Zenon
  <2> QED BY <2>1, <2>3 DEF S, l
<1>1. TypeOK'
  BY <1>0, <1>a DEF cliVars, Places, TypeOK, Unlock
<1>2. ContextInv'
  BY DEF ContextInv, Unlock
<1>3. WantInv'
  BY DEF TypeOK, WantInv, Unlock
<1>4. LockInv'
  BY DEF TypeOK, WantInv, LockInv, Unlock
<1>5. NcliInv'
  BY <1>0, <1>a DEF cliVars, TypeOK, ContextInv, NcliInv, Depth, Unlock
<1>6. NoIntrInside'
  BY <1>0, <1>a DEF cliVars, NoIntrInside, Unlock
<1>7. IntenaInv'
  BY <1>0, <1>a DEF cliVars, IntenaInv, Unlock
<1>8. NoPanic'
  BY <1>0, <1>a DEF NoPanic, Unlock
<1> QED BY <1>1, <1>2, <1>3, <1>4, <1>5, <1>6, <1>7, <1>8

\* Popcli: interrupts come back with the last lock, as the thread found them.
LEMMA PopcliStep ==
  ASSUME IInv, NEW c \in CPU, ~panicked, Popcli(c)
  PROVE  IInv'
<1> USE SpinlockAssumption DEF IInv
<1>0. \A d \in CPU : /\ IsFiniteSet(held[d]) /\ ncli[d] = Depth(d)
                     /\ Cardinality(held[d]) \in Nat
                     /\ Cardinality(held[d]) = 0 <=> held[d] = {}
  BY HeldCount
<1>1. TypeOK'
  BY <1>0 DEF lockVars, Places, TypeOK, Popcli, Depth
<1>2. ContextInv'
  BY DEF ContextInv, Popcli
<1>3. WantInv'
  BY DEF WantInv, Popcli
<1>4. LockInv'
  BY DEF lockVars, LockInv, Popcli
<1>5. NcliInv'
  BY <1>0 DEF TypeOK, ContextInv, NcliInv, Depth, Popcli
<1>6. NoIntrInside'
  BY <1>0 DEF TypeOK, Depth, NoIntrInside, Popcli, Sti
<1>7. IntenaInv'
  BY <1>0 DEF TypeOK, Depth, NoIntrInside, IntenaInv, Popcli, Sti
<1>8. NoPanic'
  BY <1>0 DEF TypeOK, Depth, NoIntrInside, NoPanic, Popcli
<1> QED BY <1>1, <1>2, <1>3, <1>4, <1>5, <1>6, <1>7, <1>8

\* Interrupt: no lock is held where interrupts are on.
LEMMA InterruptStep ==
  ASSUME IInv, NEW c \in CPU, ~panicked, Interrupt(c)
  PROVE  IInv'
<1> USE SpinlockAssumption DEF IInv
<1>0. \A d \in CPU : /\ IsFiniteSet(held[d]) /\ ncli[d] = Depth(d)
                     /\ Cardinality(held[d]) \in Nat
                     /\ Cardinality(held[d]) = 0 <=> held[d] = {}
  BY HeldCount
<1>1. TypeOK'
  BY <1>0 DEF lockVars, Kinds, TypeOK, Interrupt
<1>2. ContextInv'
  BY DEF Kinds, TypeOK, ContextInv, Interrupt
<1>3. WantInv'
  BY DEF WantInv, Interrupt
<1>4. LockInv'
  BY DEF lockVars, LockInv, Interrupt
<1>5. NcliInv'
  BY <1>0 DEF NcliInv, Depth, Interrupt
<1>6. NoIntrInside'
  BY <1>0 DEF NoIntrInside, Interrupt
<1>7. IntenaInv'
  BY <1>0 DEF TypeOK, ContextInv, Depth, NoIntrInside, IntenaInv, Interrupt
<1>8. NoPanic'
  BY <1>0 DEF NoPanic, Interrupt
<1> QED BY <1>1, <1>2, <1>3, <1>4, <1>5, <1>6, <1>7, <1>8

\* Iret: the interrupted code had interrupts on.
LEMMA IretStep ==
  ASSUME IInv, NEW c \in CPU, ~panicked, Iret(c)
  PROVE  IInv'
<1> USE SpinlockAssumption DEF IInv
<1>0. \A d \in CPU : /\ IsFiniteSet(held[d]) /\ ncli[d] = Depth(d)
                     /\ Cardinality(held[d]) \in Nat
                     /\ Cardinality(held[d]) = 0 <=> held[d] = {}
  BY HeldCount
<1>1. TypeOK'
  BY <1>0 DEF lockVars, Kinds, TypeOK, Iret
<1>2. ContextInv'
  BY DEF ContextInv, Iret
<1>3. WantInv'
  BY DEF WantInv, Iret
<1>4. LockInv'
  BY DEF lockVars, LockInv, Iret
<1>5. NcliInv'
  BY <1>0 DEF NcliInv, Depth, Iret
<1>6. NoIntrInside'
  BY <1>0 DEF NoIntrInside, Iret
<1>7. IntenaInv'
  BY <1>0 DEF TypeOK, ContextInv, Depth, IntenaInv, Iret
<1>8. NoPanic'
  BY <1>0 DEF NoPanic, Iret
<1> QED BY <1>1, <1>2, <1>3, <1>4, <1>5, <1>6, <1>7, <1>8

\* SchedulerSti: the scheduler is not a thread.
LEMMA SchedulerStiStep ==
  ASSUME IInv, NEW c \in CPU, ~panicked, SchedulerSti(c)
  PROVE  IInv'
<1> USE SpinlockAssumption DEF IInv
<1>0. \A d \in CPU : /\ IsFiniteSet(held[d]) /\ ncli[d] = Depth(d)
                     /\ Cardinality(held[d]) \in Nat
                     /\ Cardinality(held[d]) = 0 <=> held[d] = {}
  BY HeldCount
<1>1. TypeOK'
  BY <1>0 DEF lockVars, ctxVars, TypeOK, SchedulerSti
<1>2. ContextInv'
  BY DEF ctxVars, ContextInv, SchedulerSti
<1>3. WantInv'
  BY DEF ctxVars, WantInv, SchedulerSti
<1>4. LockInv'
  BY DEF lockVars, ctxVars, LockInv, SchedulerSti
<1>5. NcliInv'
  BY <1>0 DEF ctxVars, NcliInv, Depth, SchedulerSti
<1>6. NoIntrInside'
  BY <1>0 DEF ctxVars, NoIntrInside, SchedulerSti
<1>7. IntenaInv'
  BY <1>0 DEF ctxVars, IntenaInv, SchedulerSti
<1>8. NoPanic'
  BY <1>0 DEF NoPanic, SchedulerSti
<1> QED BY <1>1, <1>2, <1>3, <1>4, <1>5, <1>6, <1>7, <1>8

\* Sched: the thread takes the word about its interrupts with it.
LEMMA SchedStep ==
  ASSUME IInv, NEW c \in CPU, ~panicked, Sched(c)
  PROVE  IInv'
<1> USE SpinlockAssumption DEF IInv
<1>0. \A d \in CPU : /\ IsFiniteSet(held[d]) /\ ncli[d] = Depth(d)
                     /\ Cardinality(held[d]) \in Nat
                     /\ Cardinality(held[d]) = 0 <=> held[d] = {}
  BY HeldCount
<1>a. ncli[c] = 1
  <2>1. held[c] = {PTABLE} /\ at[cur[c]] = "code"
    BY DEF Sched
  <2>2. Cardinality(held[c]) = 1
    BY <2>1, FS_Singleton, Zenon
  <2>3. ncli[c] = Cardinality(held[c]) + 0
    BY <1>0, <2>1 DEF Depth
  <2> QED BY <2>2, <2>3
<1>1. TypeOK'
  BY <1>0, <1>a DEF lockVars, cliVars, Ctx, Places, TypeOK, Sched
<1>2. ContextInv'
  BY DEF TypeOK, ContextInv, Sched
<1>3. WantInv'
  BY DEF ContextInv, WantInv, Sched
<1>4. LockInv'
  BY DEF lockVars, ContextInv, LockInv, Sched
<1>5. NcliInv'
  BY <1>0, <1>a DEF cliVars, ContextInv, NcliInv, Depth, Sched
<1>6. NoIntrInside'
  BY <1>0, <1>a DEF cliVars, ContextInv, NoIntrInside, Sched
<1>7. IntenaInv'
  BY <1>0, <1>a DEF cliVars, TypeOK, IntenaInv, Sched
<1>8. NoPanic'
  BY <1>0, <1>a DEF LockInv, NoIntrInside, NoPanic, Sched, holding
<1> QED BY <1>1, <1>2, <1>3, <1>4, <1>5, <1>6, <1>7, <1>8

\* Run: and brings it back, to whatever CPU.
LEMMA RunStep ==
  ASSUME IInv, NEW c \in CPU, NEW x \in Thread, ~panicked, Run(c, x)
  PROVE  IInv'
<1> USE SpinlockAssumption DEF IInv
<1>0. \A d \in CPU : /\ IsFiniteSet(held[d]) /\ ncli[d] = Depth(d)
                     /\ Cardinality(held[d]) \in Nat
                     /\ Cardinality(held[d]) = 0 <=> held[d] = {}
  BY HeldCount
<1>1. TypeOK'
  BY <1>0 DEF lockVars, Ctx, TypeOK, Run, Restored
<1>2. ContextInv'
  BY DEF Ctx, TypeOK, ContextInv, Run
<1>3. WantInv'
  BY DEF WantInv, Run
<1>4. LockInv'
  BY DEF lockVars, LockInv, Run
<1>5. NcliInv'
  BY <1>0 DEF NcliInv, Depth, Run
<1>6. NoIntrInside'
  BY <1>0 DEF NoIntrInside, Run
<1>7. IntenaInv'
  BY <1>0 DEF TypeOK, Depth, IntenaInv, Run, Restored
<1>8. NoPanic'
  BY <1>0 DEF NoPanic, Run
<1> QED BY <1>1, <1>2, <1>3, <1>4, <1>5, <1>6, <1>7, <1>8

-----------------------------------------------------------------------------
(* The theorems                                                            *)

\* IInv holds when every CPU enters scheduler().
LEMMA InitIInv == Init => IInv
<1> SUFFICES ASSUME Init PROVE IInv
  OBVIOUS
<1> USE SpinlockAssumption DEF Init
<1>1. TypeOK
  BY DEF TypeOK, Ctx, Kinds, Places
<1>2. ContextInv /\ WantInv /\ LockInv
  BY DEF ContextInv, WantInv, LockInv, Ctx
<1>3. NcliInv
  <2> SUFFICES ASSUME NEW c \in CPU
               PROVE  IsFiniteSet(held[c]) /\ ncli[c] = Depth(c)
    BY DEF NcliInv
  <2>1. held[c] = {} /\ at[cur[c]] = "code" /\ ncli[c] = 0
    BY DEF Ctx
  <2>2. IsFiniteSet(held[c]) /\ Cardinality(held[c]) = 0
    BY <2>1, FS_EmptySet, Zenon
  <2>3. Depth(c) = Cardinality(held[c]) + 0
    BY <2>1 DEF Depth
  <2> QED BY <2>1, <2>2, <2>3
<1>4. NoIntrInside /\ IntenaInv /\ NoPanic
  BY DEF NoIntrInside, IntenaInv, NoPanic, Ctx
<1> QED BY <1>1, <1>2, <1>3, <1>4 DEF IInv

\* Every step keeps IInv.
LEMMA NextIInv == IInv /\ [Next]_vars => IInv'
<1> SUFFICES ASSUME IInv, [Next]_vars PROVE IInv'
  OBVIOUS
<1>1. CASE Next
  <2> SUFFICES ASSUME NEW c \in CPU, ~panicked,
                      \/ \E lk \in Lock : Acquire(c, lk) \/ Release(c, lk)
                      \/ Xchg(c) \/ SetCpu(c) \/ Unlock(c) \/ Popcli(c)
                      \/ Interrupt(c) \/ Iret(c)
                      \/ SchedulerSti(c) \/ Sched(c)
                      \/ \E x \in Thread : Run(c, x)
               PROVE  IInv'
    BY <1>1 DEF Next
  <2> QED BY AcquireStep, ReleaseStep, XchgStep, SetCpuStep, UnlockStep,
             PopcliStep, InterruptStep, IretStep, SchedulerStiStep, SchedStep,
             RunStep
<1>2. CASE UNCHANGED vars
  BY <1>2 DEF vars, lockVars, cliVars, ctxVars, IInv, TypeOK, ContextInv,
              WantInv, LockInv, NcliInv, Depth, NoIntrInside, IntenaInv, NoPanic
<1> QED BY <1>1, <1>2

\* The invariant holds in every reachable state.
THEOREM Invariance == Spec => []IInv
BY InitIInv, NextIInv, PTL DEF Spec

\* acquire() and release() exclude other CPUs, although ptable.lock is handed
\* from thread to thread in swtch().
THEOREM LocksExclude == Spec => []MutualExclusion
<1>1. IInv => MutualExclusion
  BY DEF IInv, LockInv, MutualExclusion
<1> QED BY <1>1, Invariance, PTL

\* The checks in acquire(), release(), popcli() and sched() never fire.
THEOREM ChecksPass == Spec => []NoPanic
<1>1. IInv => NoPanic
  BY DEF IInv
<1> QED BY <1>1, Invariance, PTL

\* No interrupt handler runs on top of code that is inside a lock.
THEOREM NoHandlerInside == Spec => []NoIntrInside
<1>1. IInv => NoIntrInside
  BY DEF IInv
<1> QED BY <1>1, Invariance, PTL

\* sched() gives every thread its own interrupt state back, on any CPU.
THEOREM InterruptsRestored == Spec => []IntrRestored
<1>1. IInv => IntrRestored
  <2> SUFFICES ASSUME IInv, NEW c \in CPU,
                      cur[c] \in Thread, at[cur[c]] = "code", held[c] = {}
               PROVE  /\ ncli[c] = 0
                      /\ kind[cur[c]] = "thread" => fl_if[c]
                      /\ kind[cur[c]] = "handler" => ~fl_if[c]
    BY DEF IntrRestored
  <2>1. ncli[c] = 0
    BY HeldCount DEF IInv, Depth
  <2> QED BY <2>1 DEF IInv, IntenaInv
<1> QED BY <1>1, Invariance, PTL
=============================================================================
