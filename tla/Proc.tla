-------------------------------- MODULE Proc --------------------------------
(***************************************************************************)
(* The process table and the per-CPU scheduler of xv6 (proc.c), with the   *)
(* system-call and timer paths that drive them (trap.c, sysproc.c).        *)
(*                                                                         *)
(* A step is a stretch of kernel code that no other CPU can observe half   *)
(* done: one critical section of ptable.lock or tickslock, or one write    *)
(* made without a lock (fork filling in its EMBRYO).  ptable.lock is kept  *)
(* as a variable because it is carried across swtch(): it is taken by the  *)
(* process that gives up the CPU and released by the scheduler or by the   *)
(* next process, and the reverse.                                          *)
(***************************************************************************)
EXTENDS Integers

CONSTANTS
  NPROC,       \* slots of ptable.proc (param.h: 64)
  CPU,         \* the processors
  BOOT,        \* the processor with cpuid() = 0, which counts clock ticks
  NoCPU,       \* "no processor": a lock with this holder is free
  MAXPID,      \* bound: no fork is entered once nextpid has passed it
  Syscalls,    \* the system calls user programs make in this instance
  KillArgs,    \* pids user programs hand to kill()
  TicketArgs,  \* counts user programs hand to settickets()
  MAXSLEEP     \* bound: the largest argument of sleep()

AllSyscalls == {"fork", "exit", "wait", "kill", "sleep", "settickets"}

ASSUME ProcAssumption ==
  /\ NPROC \in Nat \ {0}
  /\ BOOT \in CPU
  /\ NoCPU \notin CPU
  /\ MAXPID \in Nat
  /\ Syscalls \subseteq AllSyscalls
  /\ KillArgs \subseteq Int
  /\ TicketArgs \subseteq Int
  /\ MAXSLEEP \in Nat

Procs == 0 .. (NPROC - 1)
Null == -1            \* the null struct proc pointer, and "no channel"
initproc == 0         \* userinit() runs first, so init is in the first slot
Ticks == NPROC        \* the channel &ticks; wait() sleeps on a proc pointer
MINTICKETS == 10

procstate == {"UNUSED", "EMBRYO", "SLEEPING", "RUNNABLE", "RUNNING", "ZOMBIE"}

VARIABLES
  \* struct proc, field by field
  state, pid, parent, chan, killed, tickets, ticks,
  mem,        \* which of kstack and pgdir point to memory the slot owns
  nextpid,
  plock,      \* the CPU that holds ptable.lock
  tlock,      \* the CPU that holds tickslock
  \* struct cpu
  cproc,      \* cpu->proc
  mode,       \* what the CPU executes: see Modes
  scan,       \* the scheduler loop's position in ptable.proc
  \* the kernel thread of each process
  pc,         \* where it is, or will resume
  np,         \* fork()'s local np
  left,       \* sys_sleep: clock ticks still missing, n - (ticks - ticks0)
  panicked

procVars == <<state, pid, parent, chan, killed, tickets, ticks, mem, nextpid>>
cpuVars == <<cproc, mode, scan>>
threadVars == <<pc, np, left>>
vars == <<procVars, plock, tlock, cpuVars, threadVars, panicked>>

\* "sched": in scheduler(); "run": in the process cproc, "swtch": in that
\* process's call of sched(), still on its kernel stack; "clock": in the
\* timer interrupt with tickslock held; "timer": in the rest of that trap.
Modes == {"sched", "run", "swtch", "clock", "timer"}

\* Places where a process holds no spinlock, so the timer can interrupt it.
Preemptible == {"user", "sysret", "allocproc", "kstack", "copyuvm", "inherit",
                "runnable", "exit", "wait", "kill", "sleep", "settickets",
                "sleep_relock"}
Places == Preemptible \cup {"forkret", "wait_woken", "sleep_check",
                            "sleep_call", "sleep_locked", "sleep_woken",
                            "zombie"}

-----------------------------------------------------------------------------
(* The state main() leaves when userinit() has made init and every CPU has *)
(* entered scheduler(); the rest of ptable is zero.                        *)
Init ==
  /\ state = [p \in Procs |-> IF p = initproc THEN "RUNNABLE" ELSE "UNUSED"]
  /\ pid = [p \in Procs |-> IF p = initproc THEN 1 ELSE 0]
  /\ parent = [p \in Procs |-> Null]
  /\ chan = [p \in Procs |-> Null]
  /\ killed = [p \in Procs |-> FALSE]
  /\ tickets = [p \in Procs |-> IF p = initproc THEN MINTICKETS ELSE 0]
  /\ ticks = [p \in Procs |-> 0]
  /\ mem = [p \in Procs |-> IF p = initproc THEN {"kstack", "pgdir"} ELSE {}]
  /\ nextpid = 2
  /\ plock = NoCPU
  /\ tlock = NoCPU
  /\ cproc = [c \in CPU |-> Null]
  /\ mode = [c \in CPU |-> "sched"]
  /\ scan = [c \in CPU |-> 0]
  /\ pc = [p \in Procs |-> "forkret"]
  /\ np = [p \in Procs |-> Null]
  /\ left = [p \in Procs |-> 0]
  /\ panicked = FALSE

\* Mutant of IntrOn: tickslock does not turn interrupts off.
IntrOnTicks(c) == plock # c

\* Interrupts are on at c: it holds no spinlock.
IntrOn(c) == plock # c /\ tlock # c

\* CPU c executes the process cproc[c] at place l, no spinlock held.
At(c, l) == mode[c] = "run" /\ IntrOn(c) /\ pc[cproc[c]] = l

\* CPU c executes cproc[c] at place l right after swtch, ptable.lock held.
Resumed(c, l) == mode[c] = "run" /\ plock = c /\ pc[cproc[c]] = l

Goto(c, l) == pc' = [pc EXCEPT ![cproc[c]] = l]

\* wakeup1(ch): the processes it makes RUNNABLE.
Sleepers(ch) == {q \in Procs : state[q] = "SLEEPING" /\ chan[q] = ch}

\* q is the first slot of S in table order.
FirstIn(q, S) == q \in S /\ \A r \in S : q <= r

\* The state column with the processes of S made RUNNABLE.
Wake(S) == [q \in Procs |-> IF q \in S THEN "RUNNABLE" ELSE state[q]]

-----------------------------------------------------------------------------
(* trap(): system calls and faults                                         *)

\* T_SYSCALL: a killed process exits instead of making the call.
SyscallEnter(c, s) ==
  /\ At(c, "user")
  /\ s = "fork" => nextpid <= MAXPID
  /\ Goto(c, IF killed[cproc[c]] THEN "exit"
             ELSE IF s = "fork" THEN "allocproc" ELSE s)
  /\ UNCHANGED <<procVars, plock, tlock, cpuVars, np, left, panicked>>

\* The return from syscall(): the killed flag is tested again.
SyscallReturn(c) ==
  /\ At(c, "sysret")
  /\ Goto(c, IF killed[cproc[c]] THEN "exit" ELSE "user")
  /\ UNCHANGED <<procVars, plock, tlock, cpuVars, np, left, panicked>>

\* An exception in user space: "assume process misbehaved".
Fault(c) ==
  /\ At(c, "user")
  /\ killed' = [killed EXCEPT ![cproc[c]] = TRUE]
  /\ Goto(c, "exit")
  /\ UNCHANGED <<state, pid, parent, chan, tickets, ticks, mem, nextpid>>
  /\ UNCHANGED <<plock, tlock, cpuVars, np, left, panicked>>

-----------------------------------------------------------------------------
(* fork() and allocproc()                                                  *)

\* No UNUSED slot: fork returns -1.
AllocprocFull(c) ==
  /\ At(c, "allocproc") /\ plock = NoCPU
  /\ \A q \in Procs : state[q] # "UNUSED"
  /\ Goto(c, "sysret")
  /\ UNCHANGED <<procVars, plock, tlock, cpuVars, np, left, panicked>>

\* p->pid = nextpid++
NextPid == nextpid + 1

\* The critical section of allocproc: killed is not reset here.
Allocproc(c) ==
  /\ At(c, "allocproc") /\ plock = NoCPU
  /\ \E q \in Procs :
       /\ FirstIn(q, {r \in Procs : state[r] = "UNUSED"})
       /\ state' = [state EXCEPT ![q] = "EMBRYO"]
       /\ pid' = [pid EXCEPT ![q] = nextpid]
       /\ np' = [np EXCEPT ![cproc[c]] = q]
  /\ nextpid' = NextPid
  /\ Goto(c, "kstack")
  /\ UNCHANGED <<parent, chan, killed, tickets, ticks, mem>>
  /\ UNCHANGED <<plock, tlock, cpuVars, left, panicked>>

\* kalloc of the kernel stack, and the context that starts at forkret; both
\* outcomes happen without ptable.lock.
AllocKstack(c) ==
  LET me == cproc[c]  q == np[cproc[c]] IN
  /\ At(c, "kstack")
  /\ \/ /\ mem' = [mem EXCEPT ![q] = {"kstack"}]
        /\ pc' = [pc EXCEPT ![q] = "forkret", ![me] = "copyuvm"]
        /\ UNCHANGED <<state, np>>
     \/ /\ state' = [state EXCEPT ![q] = "UNUSED"]
        /\ np' = [np EXCEPT ![me] = Null]
        /\ Goto(c, "sysret")
        /\ UNCHANGED mem
  /\ UNCHANGED <<pid, parent, chan, killed, tickets, ticks, nextpid>>
  /\ UNCHANGED <<plock, tlock, cpuVars, left, panicked>>

\* copyuvm: on failure the kernel stack and the slot are given back (pid is
\* left as it is); on success the child gets its parent.
Copyuvm(c) ==
  LET me == cproc[c]  q == np[cproc[c]] IN
  /\ At(c, "copyuvm")
  /\ \/ /\ mem' = [mem EXCEPT ![q] = {"kstack", "pgdir"}]
        /\ parent' = [parent EXCEPT ![q] = me]
        /\ Goto(c, "inherit")
        /\ UNCHANGED <<state, np>>
     \/ /\ mem' = [mem EXCEPT ![q] = {}]
        /\ state' = [state EXCEPT ![q] = "UNUSED"]
        /\ np' = [np EXCEPT ![me] = Null]
        /\ Goto(c, "sysret")
        /\ UNCHANGED parent
  /\ UNCHANGED <<pid, chan, killed, tickets, ticks, nextpid>>
  /\ UNCHANGED <<plock, tlock, cpuVars, left, panicked>>

\* Mutant of gettickets: it looks at RUNNABLE slots, not at slots in use.
getticketsRunnable(x, t) ==
  LET hits == {r \in Procs : pid[r] = x /\ state[r] = "RUNNABLE"} IN
  \/ hits = {} /\ t = -1
  \/ \E r \in hits : FirstIn(r, hits) /\ t = tickets[r]

\* gettickets(x) returned t: the first slot in use with that pid, or -1.
gettickets(x, t) ==
  LET hits == {r \in Procs : pid[r] = x /\ state[r] # "UNUSED"} IN
  \/ hits = {} /\ t = -1
  \/ \E r \in hits : FirstIn(r, hits) /\ t = tickets[r]

\* The child starts with the tickets of its parent, and at least 10.
InheritTickets(c) ==
  LET me == cproc[c]  q == np[cproc[c]] IN
  /\ At(c, "inherit") /\ plock = NoCPU
  /\ \E t \in {-1} \cup {tickets[r] : r \in Procs} :
       /\ gettickets(pid[me], t)
       /\ tickets' = [tickets EXCEPT ![q] = IF t > 10 THEN t ELSE MINTICKETS]
  /\ ticks' = [ticks EXCEPT ![q] = 0]
  /\ Goto(c, "runnable")
  /\ UNCHANGED <<state, pid, parent, chan, killed, mem, nextpid>>
  /\ UNCHANGED <<plock, tlock, cpuVars, np, left, panicked>>

\* The end of fork(): the child may run.
ForkRunnable(c) ==
  /\ At(c, "runnable") /\ plock = NoCPU
  /\ state' = [state EXCEPT ![np[cproc[c]]] = "RUNNABLE"]
  /\ np' = [np EXCEPT ![cproc[c]] = Null]
  /\ Goto(c, "sysret")
  /\ UNCHANGED <<pid, parent, chan, killed, tickets, ticks, mem, nextpid>>
  /\ UNCHANGED <<plock, tlock, cpuVars, left, panicked>>

-----------------------------------------------------------------------------
(* exit(), wait() and kill()                                               *)

\* init must not exit.
ExitPanic(c) ==
  /\ At(c, "exit") /\ cproc[c] = initproc
  /\ panicked' = TRUE
  /\ UNCHANGED <<procVars, plock, tlock, cpuVars, threadVars>>

Kids(p) == {q \in Procs : parent[q] = p}

\* Mutant of Zombies: the loop of wait() ends before the last slot.
ZombiesShort(p) == {q \in Kids(p) : state[q] = "ZOMBIE" /\ q < NPROC - 1}

\* Mutant of Zombies: a child that has been killed counts as dead.
ZombiesOrKilled(p) == {q \in Kids(p) : state[q] = "ZOMBIE" \/ killed[q]}

Zombies(p) == {q \in Kids(p) : state[q] = "ZOMBIE"}

\* Mutant of WokenByExit: the wrong channel.
WokenSelf(p) == Sleepers(p)

\* exit() wakes the parent, and init if p leaves it a ZOMBIE child.
WokenByExit(p) ==
  Sleepers(parent[p]) \cup (IF Zombies(p) # {} THEN Sleepers(initproc) ELSE {})

\* exit() from its acquire on: wake the parent, give the children to init,
\* become a ZOMBIE and call sched().
Exit(c) ==
  LET me == cproc[c] IN
  /\ At(c, "exit") /\ me # initproc /\ plock = NoCPU
  /\ parent' = [q \in Procs |-> IF q \in Kids(me) THEN initproc ELSE parent[q]]
  /\ state' = [Wake(WokenByExit(me)) EXCEPT ![me] = "ZOMBIE"]
  /\ plock' = c
  /\ mode' = [mode EXCEPT ![c] = "swtch"]
  /\ Goto(c, "zombie")
  /\ UNCHANGED <<pid, chan, killed, tickets, ticks, mem, nextpid>>
  /\ UNCHANGED <<tlock, cproc, scan, np, left, panicked>>

\* wait() is at the head of its loop with ptable.lock: either just acquired,
\* or handed over by the scheduler after a sleep.
InWait(c) == (At(c, "wait") /\ plock = NoCPU) \/ Resumed(c, "wait_woken")

\* Mutant of ParentCleared: the slot keeps the parent of the process it had.
ParentKept(q) == parent

\* p->parent = 0
ParentCleared(q) == [parent EXCEPT ![q] = Null]

\* Found an exited child: free it and return its pid.
WaitReap(c) ==
  /\ InWait(c)
  /\ \E q \in Procs :
       /\ FirstIn(q, Zombies(cproc[c]))
       /\ mem' = [mem EXCEPT ![q] = {}]
       /\ pid' = [pid EXCEPT ![q] = 0]
       /\ parent' = ParentCleared(q)
       /\ killed' = [killed EXCEPT ![q] = FALSE]
       /\ state' = [state EXCEPT ![q] = "UNUSED"]
  /\ chan' = [chan EXCEPT ![cproc[c]] = Null]
  /\ plock' = NoCPU
  /\ Goto(c, "sysret")
  /\ UNCHANGED <<tickets, ticks, nextpid, tlock, cpuVars, np, left, panicked>>

\* No children, or killed: return -1.
WaitFail(c) ==
  /\ InWait(c)
  /\ Zombies(cproc[c]) = {}
  /\ Kids(cproc[c]) = {} \/ killed[cproc[c]]
  /\ chan' = [chan EXCEPT ![cproc[c]] = Null]
  /\ plock' = NoCPU
  /\ Goto(c, "sysret")
  /\ UNCHANGED <<state, pid, parent, killed, tickets, ticks, mem, nextpid>>
  /\ UNCHANGED <<tlock, cpuVars, np, left, panicked>>

\* sleep(curproc, &ptable.lock): the lock is kept up to swtch.
WaitSleep(c) ==
  /\ InWait(c)
  /\ Zombies(cproc[c]) = {} /\ Kids(cproc[c]) # {} /\ ~killed[cproc[c]]
  /\ chan' = [chan EXCEPT ![cproc[c]] = cproc[c]]
  /\ state' = [state EXCEPT ![cproc[c]] = "SLEEPING"]
  /\ plock' = c
  /\ mode' = [mode EXCEPT ![c] = "swtch"]
  /\ Goto(c, "wait_woken")
  /\ UNCHANGED <<pid, parent, killed, tickets, ticks, mem, nextpid>>
  /\ UNCHANGED <<tlock, cproc, scan, np, left, panicked>>

\* kill() wakes its victim from sleep if necessary.
KillWakes(q) == IF state[q] = "SLEEPING" THEN Wake({q}) ELSE state

\* kill(x): the first slot with that pid, whatever its state.
Kill(c, x) ==
  LET hits == {q \in Procs : pid[q] = x} IN
  /\ At(c, "kill") /\ plock = NoCPU
  /\ \/ hits = {} /\ UNCHANGED <<killed, state>>
     \/ \E q \in hits :
          /\ FirstIn(q, hits)
          /\ killed' = [killed EXCEPT ![q] = TRUE]
          /\ state' = KillWakes(q)
  /\ Goto(c, "sysret")
  /\ UNCHANGED <<pid, parent, chan, tickets, ticks, mem, nextpid>>
  /\ UNCHANGED <<plock, tlock, cpuVars, np, left, panicked>>

\* Mutant of AcceptTickets: any positive count is stored.
AcceptPositive(n) == n > 0

\* sys_settickets refuses fewer than ten tickets.
AcceptTickets(n) == n >= MINTICKETS

\* sys_settickets: the store is made without a lock.
Settickets(c, n) ==
  /\ At(c, "settickets")
  /\ tickets' = IF AcceptTickets(n) THEN [tickets EXCEPT ![cproc[c]] = n]
                ELSE tickets
  /\ Goto(c, "sysret")
  /\ UNCHANGED <<state, pid, parent, chan, killed, ticks, mem, nextpid>>
  /\ UNCHANGED <<plock, tlock, cpuVars, np, left, panicked>>

-----------------------------------------------------------------------------
(* sys_sleep() and sleep(&ticks, &tickslock)                               *)

\* Acquire tickslock and read the start time.
SleepBegin(c, n) ==
  /\ At(c, "sleep") /\ tlock = NoCPU
  /\ left' = [left EXCEPT ![cproc[c]] = n]
  /\ tlock' = c
  /\ Goto(c, "sleep_check")
  /\ UNCHANGED <<procVars, plock, cpuVars, np, panicked>>

\* The loop test with tickslock held: done, or killed, so return.
SleepReturn(c) ==
  /\ mode[c] = "run" /\ tlock = c /\ pc[cproc[c]] = "sleep_check"
  /\ left[cproc[c]] = 0 \/ killed[cproc[c]]
  /\ left' = [left EXCEPT ![cproc[c]] = 0]
  /\ tlock' = NoCPU
  /\ Goto(c, "sysret")
  /\ UNCHANGED <<procVars, plock, cpuVars, np, panicked>>

\* Mutant of SleepTest: tickslock is released before ptable.lock is acquired.
SleepTestEarly(c) ==
  /\ mode[c] = "run" /\ tlock = c /\ pc[cproc[c]] = "sleep_check"
  /\ left[cproc[c]] > 0 /\ ~killed[cproc[c]]
  /\ tlock' = NoCPU
  /\ Goto(c, "sleep_call")
  /\ UNCHANGED <<procVars, plock, cpuVars, np, left, panicked>>

\* The loop test: not done and not killed, so call sleep().
SleepTest(c) ==
  /\ mode[c] = "run" /\ tlock = c /\ pc[cproc[c]] = "sleep_check"
  /\ left[cproc[c]] > 0 /\ ~killed[cproc[c]]
  /\ Goto(c, "sleep_call")
  /\ UNCHANGED <<procVars, plock, tlock, cpuVars, np, left, panicked>>

\* sleep(): acquire ptable.lock before letting go of the caller's lock.
SleepAcquire(c) ==
  /\ mode[c] = "run" /\ pc[cproc[c]] = "sleep_call" /\ plock = NoCPU
  /\ plock' = c
  /\ Goto(c, "sleep_locked")
  /\ UNCHANGED <<procVars, tlock, cpuVars, np, left, panicked>>

\* sleep(): release the caller's lock, record the channel, call sched().
SleepCommit(c) ==
  /\ mode[c] = "run" /\ plock = c /\ pc[cproc[c]] = "sleep_locked"
  /\ tlock' = NoCPU
  /\ chan' = [chan EXCEPT ![cproc[c]] = Ticks]
  /\ state' = [state EXCEPT ![cproc[c]] = "SLEEPING"]
  /\ mode' = [mode EXCEPT ![c] = "swtch"]
  /\ Goto(c, "sleep_woken")
  /\ UNCHANGED <<pid, parent, killed, tickets, ticks, mem, nextpid>>
  /\ UNCHANGED <<plock, cproc, scan, np, left, panicked>>

\* sleep() after sched(): tidy up and release ptable.lock ...
SleepWoken(c) ==
  /\ Resumed(c, "sleep_woken")
  /\ chan' = [chan EXCEPT ![cproc[c]] = Null]
  /\ plock' = NoCPU
  /\ Goto(c, "sleep_relock")
  /\ UNCHANGED <<state, pid, parent, killed, tickets, ticks, mem, nextpid>>
  /\ UNCHANGED <<tlock, cpuVars, np, left, panicked>>

\* ... then reacquire the caller's lock and go back to the loop test.
SleepReacquire(c) ==
  /\ At(c, "sleep_relock") /\ tlock = NoCPU
  /\ tlock' = c
  /\ Goto(c, "sleep_check")
  /\ UNCHANGED <<procVars, plock, cpuVars, np, left, panicked>>

-----------------------------------------------------------------------------
(* trap(): the timer interrupt                                             *)

\* CPU 0 counts the clock ticks, whether it runs a process or is idle.
CountsTicks(c) == c = BOOT /\ mode[c] \in {"run", "sched"}

\* On the boot CPU: acquire tickslock and count the tick.
ClockTick(c) ==
  /\ CountsTicks(c) /\ IntrOn(c) /\ tlock = NoCPU
  /\ tlock' = c
  /\ left' = [p \in Procs |-> IF left[p] > 0 THEN left[p] - 1 ELSE 0]
  /\ mode' = [mode EXCEPT ![c] = "clock"]
  /\ UNCHANGED <<procVars, plock, cproc, scan, pc, np, panicked>>

\* wakeup(&ticks), then release tickslock.
ClockWakeup(c) ==
  /\ mode[c] = "clock" /\ plock = NoCPU
  /\ state' = Wake(Sleepers(Ticks))
  /\ tlock' = NoCPU
  /\ mode' = [mode EXCEPT ![c] = IF cproc[c] = Null THEN "sched" ELSE "timer"]
  /\ UNCHANGED <<pid, parent, chan, killed, tickets, ticks, mem, nextpid>>
  /\ UNCHANGED <<plock, cproc, scan, threadVars, panicked>>

\* On any other CPU the interrupt counts nothing.
TimerIntr(c) ==
  /\ c # BOOT /\ mode[c] = "run" /\ IntrOn(c)
  /\ mode' = [mode EXCEPT ![c] = "timer"]
  /\ UNCHANGED <<procVars, plock, tlock, cproc, scan, threadVars, panicked>>

\* A killed process interrupted in user space exits.
TimerExit(c) ==
  /\ mode[c] = "timer" /\ pc[cproc[c]] = "user" /\ killed[cproc[c]]
  /\ mode' = [mode EXCEPT ![c] = "run"]
  /\ Goto(c, "exit")
  /\ UNCHANGED <<procVars, plock, tlock, cproc, scan, np, left, panicked>>

\* yield(): acquire ptable.lock, become RUNNABLE, call sched().
Yield(c) ==
  /\ mode[c] = "timer" /\ plock = NoCPU
  /\ ~(pc[cproc[c]] = "user" /\ killed[cproc[c]])
  /\ state[cproc[c]] = "RUNNING"
  /\ state' = [state EXCEPT ![cproc[c]] = "RUNNABLE"]
  /\ plock' = c
  /\ mode' = [mode EXCEPT ![c] = "swtch"]
  /\ UNCHANGED <<pid, parent, chan, killed, tickets, ticks, mem, nextpid>>
  /\ UNCHANGED <<tlock, cproc, scan, threadVars, panicked>>

\* yield() after sched(): release ptable.lock; trap() tests killed again.
YieldReturn(c) ==
  /\ mode[c] = "run" /\ plock = c /\ pc[cproc[c]] \in Preemptible
  /\ plock' = NoCPU
  /\ Goto(c, IF pc[cproc[c]] = "user" /\ killed[cproc[c]]
             THEN "exit" ELSE pc[cproc[c]])
  /\ UNCHANGED <<procVars, tlock, cpuVars, np, left, panicked>>

\* forkret(): the first run of a process releases ptable.lock and goes
\* straight to user space.
Forkret(c) ==
  /\ Resumed(c, "forkret")
  /\ plock' = NoCPU
  /\ Goto(c, "user")
  /\ UNCHANGED <<procVars, tlock, cpuVars, np, left, panicked>>

-----------------------------------------------------------------------------
(* scheduler() and sched()                                                 *)

\* Mutant of NextSlot: the scan of the table starts over.
FirstSlot(p) == 0

\* p++ in the scheduler's for loop.
NextSlot(p) == p + 1

\* sched(): swtch from the kernel stack of the process to the scheduler,
\* which clears c->proc and goes on with the next slot, lock still held.
Swtch(c) ==
  /\ mode[c] = "swtch"
  /\ mode' = [mode EXCEPT ![c] = "sched"]
  /\ scan' = [scan EXCEPT ![c] = NextSlot(cproc[c])]
  /\ cproc' = [cproc EXCEPT ![c] = Null]
  /\ UNCHANGED <<procVars, plock, tlock, threadVars, panicked>>

\* The head of scheduler()'s outer loop.
SchedAcquire(c) ==
  /\ mode[c] = "sched" /\ plock = NoCPU
  /\ plock' = c
  /\ scan' = [scan EXCEPT ![c] = 0]
  /\ UNCHANGED <<procVars, tlock, cproc, mode, threadVars, panicked>>

\* Mutant of Runnable: the state test lets a RUNNING process through.
RunnableOrRunning(c) ==
  {p \in Procs : p >= scan[c] /\ state[p] \in {"RUNNABLE", "RUNNING"}}

Runnable(c) == {p \in Procs : p >= scan[c] /\ state[p] = "RUNNABLE"}

\* The next RUNNABLE slot: switch to it, with ptable.lock held.
SchedRun(c) ==
  /\ mode[c] = "sched" /\ plock = c
  /\ \E p \in Procs :
       /\ FirstIn(p, Runnable(c))
       /\ cproc' = [cproc EXCEPT ![c] = p]
       /\ state' = [state EXCEPT ![p] = "RUNNING"]
  /\ mode' = [mode EXCEPT ![c] = "run"]
  /\ scan' = [scan EXCEPT ![c] = 0]
  /\ UNCHANGED <<pid, parent, chan, killed, tickets, ticks, mem, nextpid>>
  /\ UNCHANGED <<plock, tlock, threadVars, panicked>>

\* The end of the table: release ptable.lock.
SchedRelease(c) ==
  /\ mode[c] = "sched" /\ plock = c
  /\ Runnable(c) = {}
  /\ plock' = NoCPU
  /\ scan' = [scan EXCEPT ![c] = 0]
  /\ UNCHANGED <<procVars, tlock, cproc, mode, threadVars, panicked>>

-----------------------------------------------------------------------------
\* The kernel's own steps on CPU c: everything but the choices of user code
\* and the arrival of interrupts.
KernelStep(c) ==
  \/ SyscallReturn(c)
  \/ AllocprocFull(c) \/ Allocproc(c) \/ AllocKstack(c) \/ Copyuvm(c)
  \/ InheritTickets(c) \/ ForkRunnable(c)
  \/ ExitPanic(c) \/ Exit(c)
  \/ WaitReap(c) \/ WaitFail(c) \/ WaitSleep(c)
  \/ \E x \in KillArgs : Kill(c, x)
  \/ \E n \in TicketArgs : Settickets(c, n)
  \/ \E n \in 0 .. MAXSLEEP : SleepBegin(c, n)
  \/ SleepReturn(c) \/ SleepTest(c) \/ SleepAcquire(c) \/ SleepCommit(c)
  \/ SleepWoken(c) \/ SleepReacquire(c)
  \/ ClockWakeup(c) \/ TimerExit(c) \/ Yield(c) \/ YieldReturn(c)
  \/ Forkret(c)
  \/ Swtch(c) \/ SchedAcquire(c) \/ SchedRun(c) \/ SchedRelease(c)

TimerStep(c) == ClockTick(c) \/ TimerIntr(c)

UserStep(c) == (\E s \in Syscalls : SyscallEnter(c, s)) \/ Fault(c)

\* panic() stops the machine in "for(;;);".
Panic == panicked /\ UNCHANGED vars

Next ==
  \/ ~panicked /\ \E c \in CPU : KernelStep(c) \/ TimerStep(c) \/ UserStep(c)
  \/ Panic

Spec == Init /\ [][Next]_vars

-----------------------------------------------------------------------------
(* Safety                                                                  *)

\* Every variable has its type: struct proc, struct cpu and the locks hold
\* only values that allocproc, fork, wait and the scheduler can store.
TypeOK ==
  /\ state \in [Procs -> procstate]
  /\ pid \in [Procs -> Nat]
  /\ parent \in [Procs -> Procs \cup {Null}]
  /\ chan \in [Procs -> Procs \cup {Ticks, Null}]
  /\ killed \in [Procs -> BOOLEAN]
  /\ tickets \in [Procs -> Nat]
  /\ ticks \in [Procs -> Nat]
  /\ mem \in [Procs -> SUBSET {"kstack", "pgdir"}]
  /\ nextpid \in Nat
  /\ plock \in CPU \cup {NoCPU}
  /\ tlock \in CPU \cup {NoCPU}
  /\ cproc \in [CPU -> Procs \cup {Null}]
  /\ mode \in [CPU -> Modes]
  /\ scan \in [CPU -> 0 .. NPROC]
  /\ pc \in [Procs -> Places]
  /\ np \in [Procs -> Procs \cup {Null}]
  /\ left \in [Procs -> Nat]
  /\ panicked \in BOOLEAN

\* No two CPUs are ever on the kernel stack of the same process, although the
\* lock that keeps them apart is handed from one thread to another in swtch;
\* and while ptable.lock is free, RUNNING means exactly "some CPU runs it".
RunsOnOneCPU ==
  /\ \A c, d \in CPU : c # d /\ cproc[c] # Null => cproc[c] # cproc[d]
  /\ plock = NoCPU =>
       \A p \in Procs : state[p] = "RUNNING" <=> \E c \in CPU : cproc[c] = p

\* The kernel stack and the page table a CPU is using are not freed under it:
\* wait() may free them only once exit() has switched away (proc.c:305-310),
\* and switchuvm() never meets a process without them (vm.c:159-164).
StackInUse ==
  \A c \in CPU : cproc[c] # Null => mem[cproc[c]] = {"kstack", "pgdir"}

\* The conditions sched() panics on: ptable.lock held, no other spinlock held,
\* and the state already changed away from RUNNING (proc.c:389-394).
SchedAsserts ==
  \A c \in CPU : mode[c] = "swtch" =>
    plock = c /\ tlock # c /\ state[cproc[c]] # "RUNNING"

\* Every process but init has a parent that can still wait() for it: exit()
\* hands its children over before it becomes a ZOMBIE, and a free slot is
\* nobody's child.
NoOrphans ==
  \A p \in Procs :
    /\ state[p] \in {"SLEEPING", "RUNNABLE", "RUNNING", "ZOMBIE"} /\ p # initproc
         => /\ parent[p] # Null
            /\ state[parent[p]] \in {"SLEEPING", "RUNNABLE", "RUNNING"}
    /\ state[p] = "UNUSED" => parent[p] = Null

\* A process asleep in wait() has something to wait for: a child, none of them
\* a ZOMBIE, and it has not been killed.  No wakeup was lost between the scan
\* of the table and the sleep, nor in the handing of orphans to init.
WaitNotMissed ==
  \A p \in Procs : state[p] = "SLEEPING" /\ chan[p] = p =>
    Kids(p) # {} /\ Zombies(p) = {} /\ ~killed[p]

\* A process asleep in sys_sleep() whose time has come is about to be woken:
\* the clock interrupt has counted the tick and not yet called wakeup(&ticks).
TickNotMissed ==
  \A p \in Procs :
    state[p] = "SLEEPING" /\ chan[p] = Ticks /\ left[p] = 0
      => mode[BOOT] = "clock"

\* What fillpstat() copies for slot p while it holds ptable.lock.
fillpstat(p) ==
  [inuse |-> state[p] # "UNUSED", tickets |-> tickets[p], pid |-> pid[p],
   ticks |-> ticks[p],
   state |-> CASE state[p] = "EMBRYO" -> "E" [] state[p] = "RUNNING" -> "R"
               [] state[p] = "RUNNABLE" -> "A" [] state[p] = "SLEEPING" -> "S"
               [] state[p] = "ZOMBIE" -> "Z" [] OTHER -> "?"]

\* A table getpinfo() can return is a possible picture of the system: a row in
\* use that is past EMBRYO has at least ten tickets and a live pid, and the
\* rows marked "R" are as many as the CPUs that run a process.
PinfoConsistent ==
  plock = NoCPU =>
    /\ \A p \in Procs :
         fillpstat(p).inuse /\ fillpstat(p).state # "E" =>
           fillpstat(p).tickets >= MINTICKETS /\ fillpstat(p).pid \in 1 .. nextpid - 1
    /\ \A p \in Procs : fillpstat(p).state = "R" =>
         \E c \in CPU : cproc[c] = p

-----------------------------------------------------------------------------
(* Action properties                                                       *)

\* A child becomes RUNNABLE with exactly its parent's tickets, found by pid
\* in the table, whatever the parent's settickets() calls were.
TicketsInherited ==
  [][\A p \in Procs : state[p] = "EMBRYO" /\ state'[p] = "RUNNABLE" =>
       tickets'[p] = tickets[parent[p]] /\ tickets'[p] >= MINTICKETS]_vars

-----------------------------------------------------------------------------
(* Liveness                                                                *)

\* A preemptible kernel step of process p on CPU c.
ThreadStep(c, p) ==
  cproc[c] = p /\ mode[c] = "run" /\ plock # c /\ KernelStep(c)

\* On a single processor: an interrupt handler runs to its end; a timer
\* interrupt stays latched until the CPU can take it; between two interrupts
\* the scheduler and the interrupted thread get on; and init keeps calling
\* wait() (init.c:33-34).  With several CPUs the strong fairness would promise
\* that a spinning CPU gets the lock, which acquire()'s xchg loop does not.
FairSpec ==
  /\ Spec
  /\ \A c \in CPU :
       /\ WF_vars(~panicked /\ KernelStep(c))
       /\ SF_vars(~panicked /\ TimerStep(c))
       /\ SF_vars(~panicked /\ SchedAcquire(c))
       /\ \A p \in Procs : SF_vars(~panicked /\ ThreadStep(c, p))
       /\ SF_vars(~panicked /\ cproc[c] = initproc /\ SyscallEnter(c, "wait"))

\* The scheduler starves nobody: its scan of the table goes on behind the slot
\* it ran last, so every RUNNABLE process gets a CPU however often the others
\* yield, fork or are woken.
NoStarvation ==
  \A p \in Procs :
    state[p] = "RUNNABLE" ~> (state[p] # "RUNNABLE" \/ panicked)

\* Every orphan is reaped in the end: a ZOMBIE that init has inherited gets its
\* slot freed, although init may have been asleep in wait() when it arrived.
OrphansReaped ==
  \A p \in Procs :
    (state[p] = "ZOMBIE" /\ parent[p] = initproc)
      ~> (state[p] = "UNUSED" \/ panicked)
=============================================================================
