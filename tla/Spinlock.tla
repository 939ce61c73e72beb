------------------------------ MODULE Spinlock ------------------------------
(***************************************************************************)
(* Spinlocks, the interrupt flag and kernel threads (spinlock.c, sched()   *)
(* and scheduler() of proc.c, the gates of trap.c).                        *)
(*                                                                         *)
(* A kernel thread acquires and releases locks, is interrupted when the    *)
(* interrupt flag is on, and gives up its CPU in sched() with ptable.lock  *)
(* held, to go on later on any CPU.  A step is one access to memory that   *)
(* other CPUs share.                                                       *)
(***************************************************************************)
EXTENDS Integers

CONSTANTS
  CPU,
  Thread,     \* kernel threads of processes
  Lock,
  PTABLE,     \* ptable.lock
  KMEM,       \* kmem.lock
  NoCPU,      \* lk->cpu = 0
  NoLock      \* no lock is being acquired or released

ASSUME SpinlockAssumption ==
  /\ PTABLE \in Lock /\ KMEM \in Lock \ {PTABLE}
  /\ NoLock \notin Lock
  /\ NoCPU \notin CPU
  /\ CPU \cap Thread = {}

\* Contexts that execute kernel code: threads, and each CPU's scheduler, which
\* is named by the CPU.
Ctx == Thread \cup CPU

VARIABLES
  locked,     \* lk->locked
  lcpu,       \* lk->cpu
  fl_if,      \* the interrupt flag of each CPU
  ncli,       \* cpu->ncli
  intena,     \* cpu->intena
  cur,        \* the context each CPU executes
  held,       \* the locks it is inside of
  at,         \* where each context is
  want,       \* the lock it is acquiring or releasing
  saved,      \* sched()'s local intena
  kind,       \* what a context executes: see Kinds
  under,      \* the kind an interrupt handler returns to
  panicked

lockVars == <<locked, lcpu>>
cliVars == <<fl_if, ncli, intena>>
ctxVars == <<at, want, saved, kind, under>>
vars == <<lockVars, cliVars, cur, held, ctxVars, panicked>>

\* "thread": kernel code entered with interrupts on (a system call, or the
\* scheduler); "handler": an interrupt handler; "fresh": a new process on its
\* way through forkret() to user space.
Kinds == {"thread", "handler", "fresh"}

\* "code": between operations; "off": not on a CPU.
Places == {"code", "xchg", "setcpu", "unlock", "popcli", "off"}

Init ==
  /\ locked = [l \in Lock |-> FALSE]
  /\ lcpu = [l \in Lock |-> NoCPU]
  /\ fl_if = [c \in CPU |-> FALSE]
  /\ ncli = [c \in CPU |-> 0]
  /\ intena = [c \in CPU |-> FALSE]
  /\ cur = [c \in CPU |-> c]
  /\ held = [c \in CPU |-> {}]
  /\ at = [x \in Ctx |-> IF x \in CPU THEN "code" ELSE "off"]
  /\ want = [x \in Ctx |-> NoLock]
  /\ saved = [x \in Ctx |-> FALSE]
  /\ kind = [x \in Ctx |-> IF x \in CPU THEN "thread" ELSE "fresh"]
  /\ under = [x \in Ctx |-> "thread"]
  /\ panicked = FALSE

-----------------------------------------------------------------------------
(* acquire() and release()                                                 *)

\* holding(lk), on CPU c.
holding(c, lk) == locked[lk] /\ lcpu[lk] = c

\* pushcli(): mycpu()->ncli += 1.
Pushed(c) == ncli[c] + 1

\* What the program on c may acquire: any lock when it holds none, ptable.lock
\* inside any other but kmem.lock (sleep(), wakeup()), and kmem.lock inside
\* ptable.lock (kfree() in wait()).  The scheduler acquires ptable.lock, after
\* sti(); a new process acquires nothing.
MayAcquire(c, lk) ==
  /\ \/ held[c] = {}
     \/ lk = PTABLE /\ held[c] \cap {PTABLE, KMEM} = {}
     \/ lk = KMEM /\ held[c] = {PTABLE}
  /\ kind[cur[c]] # "fresh"
  /\ cur[c] = c /\ kind[c] = "thread" => lk = PTABLE /\ fl_if[c]

\* acquire() up to its loop: pushcli(), then panic if the lock is held here.
Acquire(c, lk) ==
  /\ at[cur[c]] = "code" /\ MayAcquire(c, lk)
  /\ intena' = IF ncli[c] = 0 THEN [intena EXCEPT ![c] = fl_if[c]] ELSE intena
  /\ ncli' = [ncli EXCEPT ![c] = Pushed(c)]
  /\ fl_if' = [fl_if EXCEPT ![c] = FALSE]
  /\ panicked' = holding(c, lk)
  /\ at' = [at EXCEPT ![cur[c]] = "xchg"]
  /\ want' = [want EXCEPT ![cur[c]] = lk]
  /\ UNCHANGED <<lockVars, cur, held, saved, kind, under>>

\* Mutant of Free: the lock is judged by its owner field.
FreeByOwner(lk) == lcpu[lk] = NoCPU

Free(lk) == ~locked[lk]

\* The xchg that finds the lock free.
Xchg(c) ==
  LET lk == want[cur[c]] IN
  /\ at[cur[c]] = "xchg" /\ Free(lk)
  /\ locked' = [locked EXCEPT ![lk] = TRUE]
  /\ held' = [held EXCEPT ![c] = @ \cup {lk}]
  /\ at' = [at EXCEPT ![cur[c]] = "setcpu"]
  /\ UNCHANGED <<lcpu, cliVars, cur, want, saved, kind, under, panicked>>

\* lk->cpu = mycpu().
SetCpu(c) ==
  /\ at[cur[c]] = "setcpu"
  /\ lcpu' = [lcpu EXCEPT ![want[cur[c]]] = c]
  /\ at' = [at EXCEPT ![cur[c]] = "code"]
  /\ want' = [want EXCEPT ![cur[c]] = NoLock]
  /\ UNCHANGED <<locked, cliVars, cur, held, saved, kind, under, panicked>>

\* Mutant of NoOwner: the owner is left in the lock.
OldOwner(lk) == lcpu[lk]

\* lk->cpu = 0.
NoOwner(lk) == NoCPU

\* release(): panic if the lock is not held here, and clear the owner ...
Release(c, lk) ==
  /\ at[cur[c]] = "code" /\ lk \in held[c]
  /\ panicked' = ~holding(c, lk)
  /\ lcpu' = [lcpu EXCEPT ![lk] = NoOwner(lk)]
  /\ at' = [at EXCEPT ![cur[c]] = "unlock"]
  /\ want' = [want EXCEPT ![cur[c]] = lk]
  /\ UNCHANGED <<locked, cliVars, cur, held, saved, kind, under>>

\* ... then give the lock back ...
Unlock(c) ==
  /\ at[cur[c]] = "unlock"
  /\ locked' = [locked EXCEPT ![want[cur[c]]] = FALSE]
  /\ held' = [held EXCEPT ![c] = @ \ {want[cur[c]]}]
  /\ at' = [at EXCEPT ![cur[c]] = "popcli"]
  /\ UNCHANGED <<lcpu, cliVars, cur, want, saved, kind, under, panicked>>

\* Mutant of Sti: interrupts come back with the first release.
StiEarly(c) == intena[c]

\* popcli() turns interrupts on again: the last of the nested calls, if they
\* were on before the first.
Sti(c) == ncli[c] = 1 /\ intena[c]

\* ... and popcli().
Popcli(c) ==
  /\ at[cur[c]] = "popcli"
  /\ panicked' = (fl_if[c] \/ ncli[c] < 1)
  /\ ncli' = [ncli EXCEPT ![c] = @ - 1]
  /\ fl_if' = [fl_if EXCEPT ![c] = @ \/ Sti(c)]
  /\ at' = [at EXCEPT ![cur[c]] = "code"]
  /\ want' = [want EXCEPT ![cur[c]] = NoLock]
  /\ UNCHANGED <<lockVars, intena, cur, held, saved, kind, under>>

-----------------------------------------------------------------------------
(* Interrupts                                                              *)

\* An interrupt: its gate turns interrupts off (trap.c:23).
Interrupt(c) ==
  /\ fl_if[c] /\ at[cur[c]] = "code" /\ kind[cur[c]] # "handler"
  /\ fl_if' = [fl_if EXCEPT ![c] = FALSE]
  /\ kind' = [kind EXCEPT ![cur[c]] = "handler"]
  /\ under' = [under EXCEPT ![cur[c]] = kind[cur[c]]]
  /\ UNCHANGED <<lockVars, ncli, intena, cur, held, at, want, saved, panicked>>

\* iret at the end of a handler, or of forkret's way to user space, restores
\* the flags of the interrupted code.
Iret(c) ==
  /\ kind[cur[c]] # "thread" /\ at[cur[c]] = "code" /\ held[c] = {}
  /\ fl_if' = [fl_if EXCEPT ![c] = TRUE]
  /\ kind' = [kind EXCEPT ![cur[c]] =
                IF @ = "handler" THEN under[cur[c]] ELSE "thread"]
  /\ UNCHANGED <<lockVars, ncli, intena, cur, held, at, want, saved, under, panicked>>

-----------------------------------------------------------------------------
(* sched() and scheduler()                                                 *)

\* The head of scheduler()'s loop.
SchedulerSti(c) ==
  /\ cur[c] = c /\ kind[c] = "thread" /\ at[c] = "code" /\ held[c] = {}
  /\ ~fl_if[c]
  /\ fl_if' = [fl_if EXCEPT ![c] = TRUE]
  /\ UNCHANGED <<lockVars, ncli, intena, cur, held, ctxVars, panicked>>

\* sched(): with ptable.lock only; the thread keeps intena for itself.
Sched(c) ==
  /\ cur[c] \in Thread /\ kind[cur[c]] # "fresh"
  /\ at[cur[c]] = "code" /\ held[c] = {PTABLE}
  /\ panicked' = (~holding(c, PTABLE) \/ ncli[c] # 1 \/ fl_if[c])
  /\ saved' = [saved EXCEPT ![cur[c]] = intena[c]]
  /\ at' = [at EXCEPT ![cur[c]] = "off"]
  /\ cur' = [cur EXCEPT ![c] = c]
  /\ UNCHANGED <<lockVars, cliVars, held, want, kind, under>>

\* Mutant of Restored: sched() does not put intena back.
NotRestored(c, x) == intena[c]

\* cpu->intena when x goes on: sched() restores it, forkret() does not.
Restored(c, x) == IF kind[x] = "fresh" THEN intena[c] ELSE saved[x]

\* scheduler() switches to x, which goes on in sched() or starts in forkret().
Run(c, x) ==
  /\ cur[c] = c /\ kind[c] = "thread" /\ at[c] = "code" /\ PTABLE \in held[c]
  /\ at[x] = "off"
  /\ cur' = [cur EXCEPT ![c] = x]
  /\ at' = [at EXCEPT ![x] = "code"]
  /\ intena' = [intena EXCEPT ![c] = Restored(c, x)]
  /\ UNCHANGED <<lockVars, fl_if, ncli, held, want, saved, kind, under, panicked>>

-----------------------------------------------------------------------------
Next ==
  /\ ~panicked
  /\ \E c \in CPU :
       \/ \E lk \in Lock : Acquire(c, lk) \/ Release(c, lk)
       \/ Xchg(c) \/ SetCpu(c) \/ Unlock(c) \/ Popcli(c)
       \/ Interrupt(c) \/ Iret(c)
       \/ SchedulerSti(c) \/ Sched(c)
       \/ \E x \in Thread : Run(c, x)

Spec == Init /\ [][Next]_vars

-----------------------------------------------------------------------------
(* Properties                                                              *)

\* Every variable has its type; ncli never goes below zero.
TypeOK ==
  /\ locked \in [Lock -> BOOLEAN]
  /\ lcpu \in [Lock -> CPU \cup {NoCPU}]
  /\ fl_if \in [CPU -> BOOLEAN]
  /\ ncli \in [CPU -> Nat]
  /\ intena \in [CPU -> BOOLEAN]
  /\ cur \in [CPU -> Ctx]
  /\ held \in [CPU -> SUBSET Lock]
  /\ at \in [Ctx -> Places]
  /\ want \in [Ctx -> Lock \cup {NoLock}]
  /\ saved \in [Ctx -> BOOLEAN]
  /\ kind \in [Ctx -> Kinds]
  /\ under \in [Ctx -> Kinds]
  /\ panicked \in BOOLEAN

\* No two CPUs are inside the same lock, although ptable.lock is acquired by
\* one thread and released by another.
MutualExclusion ==
  \A c, d \in CPU : c # d => held[c] \cap held[d] = {}

\* None of the checks in acquire(), release(), popcli() and sched() fires.
NoPanic == ~panicked

\* A CPU that holds a lock, or is acquiring or releasing one, takes no
\* interrupt, so a handler cannot spin on a lock of the code it interrupted
\* (spinlock.c:27 "disable interrupts to avoid deadlock").
NoIntrInside ==
  \A c \in CPU : held[c] # {} \/ at[cur[c]] # "code" => ~fl_if[c]

\* Outside locks the interrupt flag is what it was before: on in a system call,
\* off in an interrupt handler, on whatever CPU the thread goes on and however
\* the threads that ran in between got there (proc.c:377-383).
IntrRestored ==
  \A c \in CPU :
    cur[c] \in Thread /\ at[cur[c]] = "code" /\ held[c] = {} =>
      /\ ncli[c] = 0
      /\ kind[cur[c]] = "thread" => fl_if[c]
      /\ kind[cur[c]] = "handler" => ~fl_if[c]
=============================================================================
