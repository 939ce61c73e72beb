-------------------------- MODULE ProcFamilyProofs --------------------------
(* Proofs about Proc, continued: who is whose child, who waits for what, and *)
(* the pids and tickets that getpinfo() shows.                              *)
EXTENDS ProcProofs

Live == {"SLEEPING", "RUNNABLE", "RUNNING"}

\* The family tree: init lives for ever and is nobody's child; a child that can
\* run has a living parent; an EMBRYO belongs to the fork() that fills it, once
\* copyuvm() has succeeded; a free slot is nobody's child.
FamilyInv ==
  /\ state[initproc] \in Live /\ parent[initproc] = Null
  /\ \A p \in Procs : parent[p] # p
  /\ \A p \in Procs : state[p] = "UNUSED" => parent[p] = Null
  /\ \A p \in Procs : state[p] \in Alive /\ p # initproc =>
       parent[p] \in Procs /\ state[parent[p]] \in Live
  /\ \A p \in Procs :
       /\ pc[p] \in {"kstack", "copyuvm"} => parent[np[p]] = Null
       /\ pc[p] \in {"inherit", "runnable"} => parent[np[p]] = p

\* sys_sleep() sleeps only when time is left: no tick is counted between its
\* test and the sleep.
LeftInv ==
  \A p \in Procs : pc[p] \in {"sleep_call", "sleep_locked"} => left[p] > 0

\* Slots in use have pids of their own, that were given out.
PidInv ==
  /\ \A p \in Procs : state[p] # "UNUSED" => pid[p] \in 1 .. nextpid - 1
  /\ \A p, q \in Procs :
       p # q /\ state[p] # "UNUSED" /\ state[q] # "UNUSED" => pid[p] # pid[q]

\* Ten tickets at least, and those of the parent when fork() is at its end.
TicketInv ==
  /\ \A p \in Procs : state[p] \in Alive => tickets[p] >= MINTICKETS
  /\ \A p \in Procs : pc[p] = "runnable" => tickets[np[p]] = tickets[p]

TableInv ==
  /\ FamilyInv
  /\ WaitNotMissed
  /\ LeftInv
  /\ TickNotMissed
  /\ PidInv
  /\ TicketInv

USE ProcAssumption, Slots DEF procVars, cpuVars, threadVars

-----------------------------------------------------------------------------
(* Steps that leave the table alone                                        *)

\* No wakeup of wait() is missed in a step if whoever is asleep in wait() after
\* it was so before, has lost no child and gained no ZOMBIE.
LEMMA WaitFrame ==
  ASSUME WaitNotMissed,
         \A p \in Procs : state'[p] = "SLEEPING" /\ chan'[p] = p =>
           /\ state[p] = "SLEEPING" /\ chan[p] = p /\ killed'[p] = killed[p]
           /\ \A q \in Procs : parent[q] = p => parent'[q] = p
           /\ \A q \in Procs : parent'[q] = p /\ state'[q] = "ZOMBIE" =>
                parent[q] = p /\ state[q] = "ZOMBIE"
  PROVE  WaitNotMissed'
<1> SUFFICES ASSUME NEW p \in Procs, state'[p] = "SLEEPING", chan'[p] = p
             PROVE  Kids(p)' # {} /\ Zombies(p)' = {} /\ ~killed'[p]
  BY DEF WaitNotMissed
<1>1. Kids(p) # {} /\ Zombies(p) = {} /\ ~killed[p]
  BY DEF WaitNotMissed
<1>2. Kids(p)' # {}
  BY <1>1 DEF Kids
<1>3. Zombies(p)' = {}
  <2> SUFFICES ASSUME NEW q \in Procs, parent'[q] = p, state'[q] = "ZOMBIE"
               PROVE  FALSE
    BY DEF Kids, Zombies
  <2>1. parent[q] = p /\ state[q] = "ZOMBIE"
    OBVIOUS
  <2> QED BY <1>1, <2>1 DEF Kids, Zombies
<1> QED BY <1>1, <1>2, <1>3

\* What such a step may change: the place of the process on c, not into or out
\* of the EMBRYO part of fork(), and fields that nobody asleep depends on.
Quiet ==
  /\ UNCHANGED <<state, pid, parent, tickets, nextpid, np>>
  /\ \A p \in Procs : pc'[p] \in ForkPlaces => pc'[p] = pc[p]
  /\ \A p \in Procs : state[p] = "SLEEPING" =>
       chan'[p] = chan[p] /\ killed'[p] = killed[p]
  /\ \/ mode'[BOOT] = "clock"
     \/ /\ mode[BOOT] # "clock"
        /\ \A p \in Procs : state[p] = "SLEEPING" => left'[p] = left[p]

\* A quiet step preserves all but LeftInv.
LEMMA QuietStep ==
  ASSUME IInv, TableInv, Quiet
  PROVE  FamilyInv' /\ WaitNotMissed' /\ TickNotMissed' /\ PidInv' /\ TicketInv'
<1> USE DEF TableInv, Quiet
<1>1. FamilyInv'
  BY DEF FamilyInv, ForkPlaces
<1>2. WaitNotMissed'
  BY DEF WaitNotMissed, Kids, Zombies
<1>3. TickNotMissed'
  BY DEF TickNotMissed
<1>4. PidInv'
  BY DEF PidInv
<1>5. TicketInv'
  BY DEF TicketInv, ForkPlaces
<1> QED BY <1>1, <1>2, <1>3, <1>4, <1>5

\* System calls, interrupts and lock hand-overs that write no field of the table.
QuietAction(c) ==
  \/ \E s \in Syscalls : SyscallEnter(c, s)
  \/ SyscallReturn(c)
  \/ Fault(c)
  \/ AllocprocFull(c)
  \/ ExitPanic(c)
  \/ WaitFail(c)
  \/ \E n \in 0 .. MAXSLEEP : SleepBegin(c, n)
  \/ SleepReturn(c)
  \/ SleepTest(c)
  \/ SleepAcquire(c)
  \/ SleepWoken(c)
  \/ SleepReacquire(c)
  \/ ClockTick(c)
  \/ TimerIntr(c)
  \/ TimerExit(c)
  \/ YieldReturn(c)
  \/ Forkret(c)
  \/ Swtch(c)
  \/ SchedAcquire(c)
  \/ SchedRelease(c)

\* Each of them is quiet.
LEMMA QuietActions ==
  ASSUME IInv, NEW c \in CPU, QuietAction(c)
  PROVE  Quiet
<1> USE DEF Quiet, ForkPlaces
<1>0. mode[c] = "run" => cproc[c] \in Procs /\ state[cproc[c]] = "RUNNING"
  BY RunFacts
<1>a. mode[c] = "timer" => cproc[c] \in Procs
  BY DEF IInv, TypeOK, CpuInv
<1>b. /\ pc \in [Procs -> Places] /\ mode \in [CPU -> Modes]
      /\ killed \in [Procs -> BOOLEAN]
  BY DEF IInv, TypeOK
<1>1. ASSUME NEW s \in Syscalls, SyscallEnter(c, s) PROVE Quiet
  BY <1>0, <1>b, <1>1 DEF SyscallEnter, At, IntrOn, Goto, AllSyscalls
<1>2. CASE SyscallReturn(c)
  BY <1>0, <1>a, <1>b, <1>2 DEF SyscallReturn, At, IntrOn, Goto
<1>3. CASE Fault(c)
  BY <1>0, <1>a, <1>b, <1>3 DEF Fault, At, IntrOn, Goto
<1>4. CASE AllocprocFull(c)
  BY <1>0, <1>a, <1>b, <1>4 DEF AllocprocFull, At, IntrOn, Goto
<1>5. CASE ExitPanic(c)
  BY <1>0, <1>a, <1>b, <1>5 DEF ExitPanic
<1>6. CASE WaitFail(c)
  BY <1>0, <1>a, <1>b, <1>6 DEF WaitFail, InWait, Resumed, At, IntrOn, Goto
<1>7. ASSUME NEW n \in 0 .. MAXSLEEP, SleepBegin(c, n) PROVE Quiet
  BY <1>0, <1>b, <1>7 DEF SleepBegin, At, IntrOn, Goto
<1>8. CASE SleepReturn(c)
  BY <1>0, <1>a, <1>b, <1>8 DEF SleepReturn, Goto
<1>9. CASE SleepTest(c)
  BY <1>0, <1>a, <1>b, <1>9 DEF SleepTest, Goto
<1>10. CASE SleepAcquire(c)
  BY <1>0, <1>a, <1>b, <1>10 DEF SleepAcquire, Goto
<1>11. CASE SleepWoken(c)
  BY <1>0, <1>a, <1>b, <1>11 DEF SleepWoken, Resumed, Goto
<1>12. CASE SleepReacquire(c)
  BY <1>0, <1>a, <1>b, <1>12 DEF SleepReacquire, At, IntrOn, Goto
<1>13. CASE ClockTick(c)
  BY <1>0, <1>a, <1>b, <1>13 DEF ClockTick, CountsTicks, IntrOn
<1>14. CASE TimerIntr(c)
  BY <1>0, <1>a, <1>b, <1>14 DEF TimerIntr, IntrOn
<1>15. CASE TimerExit(c)
  BY <1>0, <1>a, <1>b, <1>15 DEF TimerExit, Goto
<1>16. CASE YieldReturn(c)
  BY <1>0, <1>a, <1>b, <1>16 DEF YieldReturn, Goto
<1>17. CASE Forkret(c)
  BY <1>0, <1>a, <1>b, <1>17 DEF Forkret, Resumed, Goto
<1>18. CASE Swtch(c)
  BY <1>0, <1>a, <1>b, <1>18 DEF Swtch
<1>19. CASE SchedAcquire(c)
  BY <1>0, <1>a, <1>b, <1>19 DEF SchedAcquire
<1>20. CASE SchedRelease(c)
  BY <1>0, <1>a, <1>b, <1>20 DEF SchedRelease
<1> QED BY <1>1, <1>2, <1>3, <1>4, <1>5, <1>6, <1>7, <1>8, <1>9, <1>10, <1>11,
           <1>12, <1>13, <1>14, <1>15, <1>16, <1>17, <1>18, <1>19, <1>20
        DEF QuietAction

-----------------------------------------------------------------------------
(* Steps that only put processes to sleep, wake or run them                *)

\* Such a step moves processes between SLEEPING, RUNNABLE and RUNNING.
Stir ==
  /\ UNCHANGED <<pid, parent, tickets, nextpid, np>>
  /\ \A p \in Procs : state'[p] = state[p] \/ (state[p] \in Live /\ state'[p] \in Live)
  /\ \A p \in Procs : pc'[p] \in ForkPlaces => pc'[p] = pc[p]

\* It cannot disturb the family, the pids or the tickets.
LEMMA StirStep ==
  ASSUME IInv, TableInv, Stir
  PROVE  FamilyInv' /\ PidInv' /\ TicketInv'
<1> USE DEF TableInv, Stir
<1>1. FamilyInv'
  BY DEF FamilyInv, Alive, Live, ForkPlaces
<1>2. PidInv'
  BY DEF PidInv, Live
<1>3. TicketInv'
  BY DEF TicketInv, Live, Alive, ForkPlaces
<1> QED BY <1>1, <1>2, <1>3

\* WaitSleep: the table was scanned under the lock that is held up to swtch.
LEMMA WaitSleepKeeps ==
  ASSUME IInv, TableInv, NEW c \in CPU, WaitSleep(c)
  PROVE  FamilyInv' /\ WaitNotMissed' /\ TickNotMissed' /\ PidInv' /\ TicketInv'
<1> USE DEF WaitSleep, InWait, At, IntrOn, Resumed, Goto
<1>0. /\ cproc[c] \in Procs /\ state[cproc[c]] = "RUNNING" /\ mode[c] = "run"
      /\ pc \in [Procs -> Places] /\ state \in [Procs -> procstate]
      /\ chan \in [Procs -> Procs \cup {Ticks, Null}] /\ mode \in [CPU -> Modes]
  BY RunFacts DEF IInv, TypeOK
<1>1. Stir
  BY <1>0 DEF Stir, Live, ForkPlaces
<1>2. WaitNotMissed'
  BY <1>0 DEF TableInv, WaitNotMissed, Kids, Zombies
<1>3. TickNotMissed'
  BY <1>0 DEF TableInv, TickNotMissed
<1> QED BY <1>1, <1>2, <1>3, StirStep

\* Kill: the victim is woken under the lock that guards its killed flag.
LEMMA KillKeeps ==
  ASSUME IInv, TableInv, NEW c \in CPU, NEW x \in KillArgs, Kill(c, x)
  PROVE  FamilyInv' /\ WaitNotMissed' /\ TickNotMissed' /\ PidInv' /\ TicketInv'
<1>0. /\ cproc[c] \in Procs /\ state[cproc[c]] = "RUNNING"
      /\ pc \in [Procs -> Places] /\ state \in [Procs -> procstate]
      /\ killed \in [Procs -> BOOLEAN]
  BY RunFacts DEF Kill, At, IInv, TypeOK
<1>a. /\ UNCHANGED <<pid, parent, chan, tickets, nextpid, np, mode, left>>
      /\ pc' = [pc EXCEPT ![cproc[c]] = "sysret"]
  BY DEF Kill, Goto
<1>b. \A p \in Procs :
        \/ state'[p] = state[p] /\ killed'[p] = killed[p]
        \/ state'[p] = state[p] /\ state[p] # "SLEEPING"
        \/ state[p] = "SLEEPING" /\ state'[p] = "RUNNABLE"
  <2>1. CASE UNCHANGED <<killed, state>>
    BY <2>1
  <2>2. ASSUME NEW q \in Procs,
               killed' = [killed EXCEPT ![q] = TRUE], state' = KillWakes(q)
        PROVE  \A p \in Procs :
                 \/ state'[p] = state[p] /\ killed'[p] = killed[p]
                 \/ state'[p] = state[p] /\ state[p] # "SLEEPING"
                 \/ state[p] = "SLEEPING" /\ state'[p] = "RUNNABLE"
    <3>1. CASE state[q] = "SLEEPING"
      BY <1>0, <2>2, <3>1 DEF KillWakes, Wake
    <3>2. CASE state[q] # "SLEEPING"
      BY <1>0, <2>2, <3>2 DEF KillWakes
    <3> QED BY <3>1, <3>2
  <2> QED BY <2>1, <2>2 DEF Kill
<1>1. Stir
  BY <1>0, <1>a, <1>b DEF Stir, Live, ForkPlaces
<1>2. WaitNotMissed'
  BY <1>a, <1>b, WaitFrame DEF TableInv
<1>3. TickNotMissed'
  BY <1>a, <1>b DEF TableInv, TickNotMissed
<1> QED BY <1>1, <1>2, <1>3, StirStep

\* SleepCommit: time is still left, for tickslock has been held since the test.
LEMMA SleepCommitKeeps ==
  ASSUME IInv, TableInv, NEW c \in CPU, SleepCommit(c)
  PROVE  FamilyInv' /\ WaitNotMissed' /\ TickNotMissed' /\ PidInv' /\ TicketInv'
<1> USE DEF SleepCommit, Goto
<1>0. /\ cproc[c] \in Procs /\ state[cproc[c]] = "RUNNING"
      /\ pc \in [Procs -> Places] /\ state \in [Procs -> procstate]
      /\ chan \in [Procs -> Procs \cup {Ticks, Null}] /\ mode \in [CPU -> Modes]
      /\ left \in [Procs -> Nat]
  BY RunFacts DEF IInv, TypeOK
<1>1. Stir
  BY <1>0 DEF Stir, Live, ForkPlaces
<1>2. WaitNotMissed'
  BY <1>0 DEF TableInv, WaitNotMissed, Kids, Zombies
<1>3. TickNotMissed'
  <2>1. left[cproc[c]] > 0
    BY <1>0, Zenon DEF TableInv, LeftInv
  <2>2. left[cproc[c]] # 0
    BY <1>0, <2>1
  <2> QED BY <1>0, <2>2 DEF TableInv, TickNotMissed
<1> QED BY <1>1, <1>2, <1>3, StirStep

\* ClockWakeup: nobody is left asleep on &ticks.
LEMMA ClockWakeupKeeps ==
  ASSUME IInv, TableInv, NEW c \in CPU, ClockWakeup(c)
  PROVE  FamilyInv' /\ WaitNotMissed' /\ TickNotMissed' /\ PidInv' /\ TicketInv'
<1> USE DEF ClockWakeup, Wake, Sleepers
<1>1. Stir
  BY DEF Stir, Live
<1>2. WaitNotMissed'
  BY DEF TableInv, WaitNotMissed, Kids, Zombies
<1>3. TickNotMissed'
  BY DEF TickNotMissed
<1> QED BY <1>1, <1>2, <1>3, StirStep

\* Yield: a RUNNING process becomes RUNNABLE.
LEMMA YieldKeeps ==
  ASSUME IInv, TableInv, NEW c \in CPU, Yield(c)
  PROVE  FamilyInv' /\ WaitNotMissed' /\ TickNotMissed' /\ PidInv' /\ TicketInv'
<1> USE DEF Yield
<1>0. state \in [Procs -> procstate] /\ mode \in [CPU -> Modes]
  BY DEF IInv, TypeOK
<1>1. Stir
  BY <1>0 DEF Stir, Live
<1>2. WaitNotMissed'
  BY <1>0 DEF TableInv, WaitNotMissed, Kids, Zombies
<1>3. TickNotMissed'
  BY <1>0 DEF TableInv, TickNotMissed
<1> QED BY <1>1, <1>2, <1>3, StirStep

\* SchedRun: a RUNNABLE process becomes RUNNING.
LEMMA SchedRunKeeps ==
  ASSUME IInv, TableInv, NEW c \in CPU, SchedRun(c)
  PROVE  FamilyInv' /\ WaitNotMissed' /\ TickNotMissed' /\ PidInv' /\ TicketInv'
<1>a. PICK p \in Procs : state[p] = "RUNNABLE" /\ state' = [state EXCEPT ![p] = "RUNNING"]
  BY DEF SchedRun, FirstIn, Runnable
<1> USE DEF SchedRun
<1>0. state \in [Procs -> procstate] /\ mode \in [CPU -> Modes]
  BY DEF IInv, TypeOK
<1>1. Stir
  BY <1>0, <1>a DEF Stir, Live
<1>2. WaitNotMissed'
  BY <1>0, <1>a DEF TableInv, WaitNotMissed, Kids, Zombies
<1>3. TickNotMissed'
  BY <1>0, <1>a DEF TableInv, TickNotMissed
<1> QED BY <1>1, <1>2, <1>3, StirStep

-----------------------------------------------------------------------------
(* fork(), exit() and wait()                                               *)

\* Allocproc: the new pid is larger than every one in use.
LEMMA AllocprocKeeps ==
  ASSUME IInv, TableInv, NEW c \in CPU, Allocproc(c)
  PROVE  FamilyInv' /\ WaitNotMissed' /\ TickNotMissed' /\ PidInv' /\ TicketInv'
<1>0. /\ cproc[c] \in Procs /\ state[cproc[c]] = "RUNNING"
      /\ pc \in [Procs -> Places] /\ state \in [Procs -> procstate]
      /\ pid \in [Procs -> Nat] /\ nextpid \in Nat
      /\ np \in [Procs -> Procs \cup {Null}]
  BY RunFacts DEF Allocproc, At, IInv, TypeOK
<1>a. PICK q \in Procs : /\ state[q] = "UNUSED"
                         /\ state' = [state EXCEPT ![q] = "EMBRYO"]
                         /\ pid' = [pid EXCEPT ![q] = nextpid]
                         /\ np' = [np EXCEPT ![cproc[c]] = q]
  BY DEF Allocproc, FirstIn
<1>b. /\ nextpid' = nextpid + 1 /\ pc' = [pc EXCEPT ![cproc[c]] = "kstack"]
      /\ UNCHANGED <<parent, chan, killed, tickets, left, mode>>
  BY DEF Allocproc, Goto, NextPid
<1> USE DEF TableInv
<1>1. FamilyInv'
  BY <1>0, <1>a, <1>b DEF FamilyInv, Alive, Live
<1>2. WaitNotMissed'
  BY <1>0, <1>a, <1>b DEF WaitNotMissed, Kids, Zombies
<1>3. TickNotMissed'
  BY <1>0, <1>a, <1>b DEF TickNotMissed
<1>4. PidInv'
  <2>1. nextpid >= 1
    BY <1>0 DEF PidInv, FamilyInv, Live
  <2> QED BY <1>0, <1>a, <1>b, <2>1 DEF PidInv
<1>5. TicketInv'
  BY <1>0, <1>a, <1>b DEF TicketInv, Alive
<1> QED BY <1>1, <1>2, <1>3, <1>4, <1>5

\* AllocKstack: an EMBRYO given back is nobody's child yet.
LEMMA AllocKstackKeeps ==
  ASSUME IInv, TableInv, NEW c \in CPU, AllocKstack(c)
  PROVE  FamilyInv' /\ WaitNotMissed' /\ TickNotMissed' /\ PidInv' /\ TicketInv'
<1> DEFINE me == cproc[c]  q == np[cproc[c]]
<1>0. /\ me \in Procs /\ q \in Procs /\ me # q
      /\ state[me] = "RUNNING" /\ state[q] = "EMBRYO" /\ pc[me] = "kstack"
      /\ \A p \in Procs : p # me => np[p] # q
      /\ pc \in [Procs -> Places] /\ state \in [Procs -> procstate]
      /\ np \in [Procs -> Procs \cup {Null}]
  BY ForkFacts DEF AllocKstack, At, ForkPlaces, IInv, TypeOK
<1>a. UNCHANGED <<pid, parent, chan, killed, tickets, nextpid, left, mode>>
  BY DEF AllocKstack
<1>b. \/ /\ pc' = [pc EXCEPT ![q] = "forkret", ![me] = "copyuvm"]
         /\ UNCHANGED <<state, np>>
      \/ /\ state' = [state EXCEPT ![q] = "UNUSED"]
         /\ np' = [np EXCEPT ![me] = Null]
         /\ pc' = [pc EXCEPT ![me] = "sysret"]
  BY DEF AllocKstack, Goto
<1>c. parent[q] = Null
  BY <1>0 DEF TableInv, FamilyInv
<1> HIDE DEF me, q
<1> USE DEF TableInv
<1>e. /\ \A p \in Procs : state'[p] = state[p] \/ (p = q /\ state'[p] = "UNUSED")
      /\ \A p \in Procs \ {me} : np'[p] = np[p] /\ (pc'[p] \in ForkPlaces => pc'[p] = pc[p])
      /\ pc'[me] = "sysret" \/ (pc'[me] = "copyuvm" /\ np'[me] = q)
  BY <1>0, <1>b DEF ForkPlaces, me, q
<1>1. FamilyInv'
  <2>1. /\ state'[initproc] \in Live /\ parent'[initproc] = Null
        /\ \A p \in Procs : parent'[p] # p
        /\ \A p \in Procs : state'[p] = "UNUSED" => parent'[p] = Null
    BY <1>0, <1>a, <1>c, <1>e DEF FamilyInv, Live
  <2>2. \A p \in Procs : state'[p] \in Alive /\ p # initproc =>
          parent'[p] \in Procs /\ state'[parent'[p]] \in Live
    BY <1>0, <1>a, <1>e DEF FamilyInv, Alive, Live
  <2>3. \A p \in Procs :
          /\ pc'[p] \in {"kstack", "copyuvm"} => parent'[np'[p]] = Null
          /\ pc'[p] \in {"inherit", "runnable"} => parent'[np'[p]] = p
    BY <1>0, <1>a, <1>c, <1>e DEF FamilyInv, ForkPlaces
  <2> QED BY <2>1, <2>2, <2>3 DEF FamilyInv
<1>2. WaitNotMissed'
  BY <1>0, <1>a, <1>e, WaitFrame
<1>3. TickNotMissed'
  BY <1>0, <1>a, <1>b DEF TickNotMissed
<1>4. PidInv'
  BY <1>0, <1>a, <1>b DEF PidInv
<1>5. TicketInv'
  BY <1>0, <1>a, <1>b DEF TicketInv, Alive
<1> QED BY <1>1, <1>2, <1>3, <1>4, <1>5

\* Copyuvm: the EMBRYO becomes the child of the process that fills it, or is
\* given back while it is nobody's child.
LEMMA CopyuvmKeeps ==
  ASSUME IInv, TableInv, NEW c \in CPU, Copyuvm(c)
  PROVE  FamilyInv' /\ WaitNotMissed' /\ TickNotMissed' /\ PidInv' /\ TicketInv'
<1> DEFINE me == cproc[c]  q == np[cproc[c]]
<1>0. /\ me \in Procs /\ q \in Procs /\ me # q
      /\ state[me] = "RUNNING" /\ state[q] = "EMBRYO" /\ pc[me] = "copyuvm"
      /\ \A p \in Procs : p # me => np[p] # q
      /\ pc \in [Procs -> Places] /\ state \in [Procs -> procstate]
      /\ np \in [Procs -> Procs \cup {Null}]
      /\ parent \in [Procs -> Procs \cup {Null}]
  BY ForkFacts DEF Copyuvm, At, ForkPlaces, IInv, TypeOK
<1>a. UNCHANGED <<pid, chan, killed, tickets, nextpid, left, mode>>
  BY DEF Copyuvm
<1>b. \/ /\ parent' = [parent EXCEPT ![q] = me]
         /\ pc' = [pc EXCEPT ![me] = "inherit"]
         /\ UNCHANGED <<state, np>>
      \/ /\ state' = [state EXCEPT ![q] = "UNUSED"]
         /\ np' = [np EXCEPT ![me] = Null]
         /\ pc' = [pc EXCEPT ![me] = "sysret"]
         /\ UNCHANGED parent
  BY DEF Copyuvm, Goto
<1>c. parent[q] = Null /\ np[me] = q
  BY <1>0 DEF TableInv, FamilyInv
<1>d. \A p \in Procs : pc[p] \in {"kstack", "copyuvm", "inherit", "runnable"} => np[p] \in Procs
  BY DEF IInv, ForkInv, ForkPlaces
<1> HIDE DEF me, q
<1> USE DEF TableInv
<1>e. /\ \A p \in Procs : state'[p] = state[p] \/ (p = q /\ state'[p] = "UNUSED")
      /\ \A p \in Procs \ {q} : parent'[p] = parent[p]
      /\ \A p \in Procs \ {me} : np'[p] = np[p] /\ pc'[p] = pc[p]
      /\ \/ pc'[me] = "sysret" /\ parent'[q] = Null
         \/ pc'[me] = "inherit" /\ np'[me] = q /\ parent'[q] = me /\ state'[q] = "EMBRYO"
  BY <1>0, <1>b, <1>c
<1>1. FamilyInv'
  <2>1. /\ state'[initproc] \in Live /\ parent'[initproc] = Null
        /\ \A p \in Procs : parent'[p] # p
        /\ \A p \in Procs : state'[p] = "UNUSED" => parent'[p] = Null
    BY <1>0, <1>c, <1>e DEF FamilyInv, Live
  <2>2. ASSUME NEW p \in Procs, state'[p] \in Alive, p # initproc
        PROVE  parent'[p] \in Procs /\ state'[parent'[p]] \in Live
    <3>1. p # q /\ state[p] \in Alive /\ parent'[p] = parent[p]
      BY <1>0, <1>e, <2>2 DEF Alive
    <3>2. parent[p] \in Procs /\ state[parent[p]] \in Live
      BY <2>2, <3>1 DEF FamilyInv
    <3> QED BY <1>0, <1>e, <3>1, <3>2 DEF Live
  <2>3. ASSUME NEW p \in Procs
        PROVE  /\ pc'[p] \in {"kstack", "copyuvm"} => parent'[np'[p]] = Null
               /\ pc'[p] \in {"inherit", "runnable"} => parent'[np'[p]] = p
    <3>1. CASE p = me
      BY <1>e, <3>1
    <3>2. CASE p # me
      <4>1. np'[p] = np[p] /\ pc'[p] = pc[p] /\ np[p] # q
        BY <1>0, <1>e, <3>2
      <4>2. pc[p] \in ForkPlaces => parent'[np[p]] = parent[np[p]]
        BY <1>d, <1>e, <4>1 DEF ForkPlaces
      <4> QED BY <4>1, <4>2 DEF FamilyInv, ForkPlaces
    <3> QED BY <3>1, <3>2
  <2> QED BY <2>1, <2>2, <2>3 DEF FamilyInv
<1>2. WaitNotMissed'
  BY <1>0, <1>a, <1>c, <1>e, WaitFrame
<1>3. TickNotMissed'
  BY <1>0, <1>a, <1>b DEF TickNotMissed
<1>4. PidInv'
  BY <1>0, <1>a, <1>b DEF PidInv
<1>5. TicketInv'
  BY <1>0, <1>a, <1>b DEF TicketInv, Alive
<1> QED BY <1>1, <1>2, <1>3, <1>4, <1>5

\* InheritTickets: the pid of the parent finds the parent and nobody else.
LEMMA InheritTicketsKeeps ==
  ASSUME IInv, TableInv, NEW c \in CPU, InheritTickets(c)
  PROVE  FamilyInv' /\ WaitNotMissed' /\ TickNotMissed' /\ PidInv' /\ TicketInv'
<1> DEFINE me == cproc[c]  q == np[cproc[c]]
<1>0. /\ me \in Procs /\ q \in Procs /\ me # q
      /\ state[me] = "RUNNING" /\ state[q] = "EMBRYO" /\ pc[me] = "inherit"
      /\ \A p \in Procs : p # me => np[p] # q
      /\ pc \in [Procs -> Places] /\ tickets \in [Procs -> Nat]
      /\ np[me] = q
  BY ForkFacts DEF InheritTickets, At, ForkPlaces, IInv, TypeOK
<1>a. /\ UNCHANGED <<state, pid, parent, chan, killed, nextpid, left, mode, np>>
      /\ pc' = [pc EXCEPT ![me] = "runnable"]
  BY DEF InheritTickets, Goto
<1>b. PICK t \in {-1} \cup {tickets[r] : r \in Procs} :
        /\ gettickets(pid[me], t)
        /\ tickets' = [tickets EXCEPT ![q] = IF t > 10 THEN t ELSE MINTICKETS]
  BY DEF InheritTickets
<1> HIDE DEF me, q
<1>c. t = tickets[me]
  <2> DEFINE hits == {r \in Procs : pid[r] = pid[me] /\ state[r] # "UNUSED"}
  <2>1. me \in hits
    BY <1>0
  <2>2. \A r \in hits : r = me
    BY <1>0 DEF TableInv, PidInv
  <2>3. (hits = {} /\ t = -1) \/ \E r \in hits : FirstIn(r, hits) /\ t = tickets[r]
    BY <1>b DEF gettickets
  <2> HIDE DEF hits
  <2> QED BY <2>1, <2>2, <2>3
<1>d. tickets'[q] = tickets[me] /\ \A p \in Procs \ {q} : tickets'[p] = tickets[p]
  <2>1. tickets[me] >= 10 /\ tickets[me] \in Nat
    BY <1>0 DEF TableInv, TicketInv, Alive, MINTICKETS
  <2>2. (IF t > 10 THEN t ELSE MINTICKETS) = tickets[me]
    BY <2>1, <1>c DEF MINTICKETS
  <2> QED BY <1>0, <1>b, <2>2
<1> USE DEF TableInv
<1>1. FamilyInv'
  BY <1>0, <1>a DEF FamilyInv
<1>2. WaitNotMissed'
  BY <1>a, WaitFrame
<1>3. TickNotMissed'
  BY <1>a DEF TickNotMissed
<1>4. PidInv'
  BY <1>a DEF PidInv
<1>5. TicketInv'
  <2>1. \A p \in Procs : state'[p] \in Alive => tickets'[p] >= MINTICKETS
    BY <1>0, <1>a, <1>d DEF TicketInv, Alive
  <2>2. ASSUME NEW p \in Procs, pc'[p] = "runnable"
        PROVE  tickets'[np'[p]] = tickets'[p]
    <3>1. CASE p = me
      BY <1>0, <1>a, <1>d, <3>1
    <3>2. CASE p # me
      <4>1. pc[p] = "runnable" /\ np[p] # q
        BY <1>0, <1>a, <2>2, <3>2
      <4>2. np[p] \in Procs /\ p # q
        BY <1>0, <4>1 DEF IInv, ForkInv, ForkPlaces, PlaceInv
      <4>3. tickets[np[p]] = tickets[p]
        BY <4>1 DEF TicketInv
      <4> QED BY <1>a, <1>d, <4>1, <4>2, <4>3
    <3> QED BY <3>1, <3>2
  <2> QED BY <2>1, <2>2 DEF TicketInv
<1> QED BY <1>1, <1>2, <1>3, <1>4, <1>5

\* ForkRunnable: the parent of the new process runs.
LEMMA ForkRunnableKeeps ==
  ASSUME IInv, TableInv, NEW c \in CPU, ForkRunnable(c)
  PROVE  FamilyInv' /\ WaitNotMissed' /\ TickNotMissed' /\ PidInv' /\ TicketInv'
<1> DEFINE me == cproc[c]  q == np[cproc[c]]
<1>0. /\ me \in Procs /\ q \in Procs /\ me # q
      /\ state[me] = "RUNNING" /\ state[q] = "EMBRYO" /\ pc[me] = "runnable"
      /\ \A p \in Procs : p # me => np[p] # q
      /\ pc \in [Procs -> Places] /\ state \in [Procs -> procstate]
      /\ np \in [Procs -> Procs \cup {Null}]
  BY ForkFacts DEF ForkRunnable, At, ForkPlaces, IInv, TypeOK
<1>a. /\ UNCHANGED <<pid, parent, chan, killed, tickets, nextpid, left, mode>>
      /\ state' = [state EXCEPT ![q] = "RUNNABLE"]
      /\ np' = [np EXCEPT ![me] = Null]
      /\ pc' = [pc EXCEPT ![me] = "sysret"]
  BY DEF ForkRunnable, Goto
<1>b. parent[q] = me /\ tickets[q] = tickets[me]
  BY <1>0 DEF TableInv, FamilyInv, TicketInv
<1> HIDE DEF me, q
<1> USE DEF TableInv
<1>1. FamilyInv'
  <2>1. /\ state'[initproc] \in Live /\ parent'[initproc] = Null
        /\ \A p \in Procs : parent'[p] # p
        /\ \A p \in Procs : state'[p] = "UNUSED" => parent'[p] = Null
    BY <1>0, <1>a DEF FamilyInv, Live
  <2>2. ASSUME NEW p \in Procs, state'[p] \in Alive, p # initproc
        PROVE  parent'[p] \in Procs /\ state'[parent'[p]] \in Live
    <3>1. CASE p = q
      BY <1>0, <1>a, <1>b, <3>1 DEF Live
    <3>2. CASE p # q
      <4>1. parent[p] \in Procs /\ state[parent[p]] \in Live
        BY <1>0, <1>a, <2>2, <3>2 DEF FamilyInv
      <4> QED BY <1>0, <1>a, <4>1 DEF Live
    <3> QED BY <3>1, <3>2
  <2>3. \A p \in Procs :
          /\ pc'[p] \in {"kstack", "copyuvm"} => parent'[np'[p]] = Null
          /\ pc'[p] \in {"inherit", "runnable"} => parent'[np'[p]] = p
    BY <1>0, <1>a DEF FamilyInv
  <2> QED BY <2>1, <2>2, <2>3 DEF FamilyInv
<1>2. WaitNotMissed'
  BY <1>0, <1>a, WaitFrame
<1>3. TickNotMissed'
  BY <1>0, <1>a DEF TickNotMissed
<1>4. PidInv'
  BY <1>0, <1>a DEF PidInv
<1>5. TicketInv'
  BY <1>0, <1>a, <1>b DEF TicketInv, Alive
<1> QED BY <1>1, <1>2, <1>3, <1>4, <1>5

\* Settickets: the process is not in fork(), and keeps at least ten tickets.
LEMMA SetticketsKeeps ==
  ASSUME IInv, TableInv, NEW c \in CPU, NEW n \in TicketArgs, Settickets(c, n)
  PROVE  FamilyInv' /\ WaitNotMissed' /\ TickNotMissed' /\ PidInv' /\ TicketInv'
<1> DEFINE me == cproc[c]
<1>0. /\ me \in Procs /\ state[me] = "RUNNING" /\ pc[me] = "settickets"
      /\ pc \in [Procs -> Places] /\ tickets \in [Procs -> Nat]
  BY RunFacts DEF Settickets, At, IInv, TypeOK
<1>a. /\ UNCHANGED <<state, pid, parent, chan, killed, nextpid, left, mode, np>>
      /\ pc' = [pc EXCEPT ![me] = "sysret"]
  BY DEF Settickets, Goto
<1>b. /\ tickets'[me] = tickets[me] \/ tickets'[me] >= MINTICKETS
      /\ \A p \in Procs \ {me} : tickets'[p] = tickets[p]
  BY <1>0 DEF Settickets, AcceptTickets
<1> HIDE DEF me
<1> USE DEF TableInv
<1>1. FamilyInv'
  BY <1>0, <1>a DEF FamilyInv
<1>2. WaitNotMissed'
  BY <1>a, WaitFrame
<1>3. TickNotMissed'
  BY <1>a DEF TickNotMissed
<1>4. PidInv'
  BY <1>a DEF PidInv
<1>5. TicketInv'
  <2>1. \A p \in Procs : state'[p] \in Alive => tickets'[p] >= MINTICKETS
    BY <1>0, <1>a, <1>b DEF TicketInv
  <2>2. ASSUME NEW p \in Procs, pc'[p] = "runnable"
        PROVE  tickets'[np'[p]] = tickets'[p]
    <3>1. pc[p] = "runnable" /\ p # me
      BY <1>0, <1>a, <2>2
    <3>2. np[p] \in Procs /\ state[np[p]] = "EMBRYO"
      BY <3>1 DEF IInv, ForkInv, ForkPlaces
    <3>3. np[p] # me
      BY <1>0, <3>2
    <3> QED BY <1>a, <1>b, <3>1, <3>2, <3>3 DEF TicketInv
  <2> QED BY <2>1, <2>2 DEF TicketInv
<1> QED BY <1>1, <1>2, <1>3, <1>4, <1>5

\* Exit: the children go to init, which lives, and the parent is woken, and init
\* too if it gets a ZOMBIE.
LEMMA ExitKeeps ==
  ASSUME IInv, TableInv, NEW c \in CPU, Exit(c)
  PROVE  FamilyInv' /\ WaitNotMissed' /\ TickNotMissed' /\ PidInv' /\ TicketInv'
<1> DEFINE me == cproc[c]
<1>0. /\ me \in Procs /\ state[me] = "RUNNING" /\ pc[me] = "exit" /\ me # initproc
      /\ pc \in [Procs -> Places] /\ state \in [Procs -> procstate]
      /\ parent \in [Procs -> Procs \cup {Null}] /\ mode[c] = "run"
      /\ mode \in [CPU -> Modes]
  BY RunFacts DEF Exit, At, IInv, TypeOK
<1>a. /\ UNCHANGED <<pid, chan, killed, tickets, nextpid, left, np>>
      /\ pc' = [pc EXCEPT ![me] = "zombie"]
      /\ mode' = [mode EXCEPT ![c] = "swtch"]
  BY DEF Exit, Goto
<1>b. \A p \in Procs : parent'[p] = IF parent[p] = me THEN initproc ELSE parent[p]
  BY DEF Exit, Kids
<1>c. /\ state'[me] = "ZOMBIE"
      /\ \A p \in Procs \ {me} :
           state'[p] = IF p \in WokenByExit(me) THEN "RUNNABLE" ELSE state[p]
  BY <1>0 DEF Exit, Wake
<1> HIDE DEF me
<1>d. /\ \A p \in Procs : p \in WokenByExit(me) => state[p] = "SLEEPING"
      /\ \A p \in Procs : state[p] = "SLEEPING" /\ chan[p] = p =>
           /\ p = parent[me] => p \in WokenByExit(me)
           /\ p = initproc /\ Zombies(me) # {} => p \in WokenByExit(me)
  BY DEF WokenByExit, Sleepers
<1>e. \A p \in Procs \ {me} :
        state'[p] = state[p] \/ (state[p] = "SLEEPING" /\ state'[p] = "RUNNABLE")
  BY <1>c, <1>d
<1> USE DEF TableInv
<1>1. FamilyInv'
  <2>1. state'[initproc] \in Live /\ parent'[initproc] = Null
    BY <1>0, <1>b, <1>e DEF FamilyInv, Live
  <2>2. /\ \A p \in Procs : parent'[p] # p
        /\ \A p \in Procs : state'[p] = "UNUSED" => parent'[p] = Null
    BY <1>0, <1>b, <1>c, <1>e DEF FamilyInv
  <2>3. ASSUME NEW p \in Procs, state'[p] \in Alive, p # initproc
        PROVE  parent'[p] \in Procs /\ state'[parent'[p]] \in Live
    <3>1. state[p] \in Alive
      BY <1>0, <1>e, <2>3 DEF Alive
    <3>2. parent[p] \in Procs /\ state[parent[p]] \in Live
      BY <2>3, <3>1 DEF FamilyInv
    <3>3. CASE parent[p] = me
      BY <1>b, <2>1, <3>3
    <3>4. CASE parent[p] # me
      BY <1>b, <1>e, <3>2, <3>4 DEF Live
    <3> QED BY <3>3, <3>4
  <2>4. ASSUME NEW p \in Procs, pc'[p] \in ForkPlaces
        PROVE  /\ pc'[p] \in {"kstack", "copyuvm"} => parent'[np'[p]] = Null
               /\ pc'[p] \in {"inherit", "runnable"} => parent'[np'[p]] = p
    <3>1. pc'[p] = pc[p] /\ p # me
      BY <1>0, <1>a, <2>4 DEF ForkPlaces
    <3>2. np[p] \in Procs
      BY <2>4, <3>1 DEF IInv, ForkInv
    <3>3. parent[np[p]] # me
      BY <1>0, <2>4, <3>1 DEF FamilyInv, ForkPlaces
    <3> QED BY <1>a, <1>b, <3>1, <3>2, <3>3 DEF FamilyInv
  <2> QED BY <2>1, <2>2, <2>3, <2>4 DEF FamilyInv, ForkPlaces
<1>2. WaitNotMissed'
  <2> SUFFICES ASSUME NEW p \in Procs, state'[p] = "SLEEPING", chan'[p] = p
      PROVE  /\ state[p] = "SLEEPING" /\ chan[p] = p /\ killed'[p] = killed[p]
             /\ \A q \in Procs : parent[q] = p => parent'[q] = p
             /\ \A q \in Procs : parent'[q] = p /\ state'[q] = "ZOMBIE" =>
                  parent[q] = p /\ state[q] = "ZOMBIE"
    BY WaitFrame
  <2>1. /\ p # me /\ state[p] = "SLEEPING" /\ chan[p] = p /\ killed'[p] = killed[p]
        /\ p \notin WokenByExit(me)
    BY <1>a, <1>c, <1>e
  <2>2. \A q \in Procs : parent[q] = p => parent'[q] = p
    BY <1>b, <2>1
  <2>3. ASSUME NEW q \in Procs, parent'[q] = p, state'[q] = "ZOMBIE"
        PROVE  parent[q] = p /\ state[q] = "ZOMBIE"
    <3>1. parent[me] # p
      BY <1>d, <2>1
    <3>2. parent[me] # me
      BY <1>0 DEF FamilyInv
    <3>3. q # me
      BY <1>0, <1>b, <2>3, <3>1, <3>2
    <3>4. state[q] = "ZOMBIE"
      BY <1>e, <2>3, <3>3
    <3>5. parent[q] # me
      <4>1. parent[q] = me => Zombies(me) # {}
        BY <3>4 DEF Zombies, Kids
      <4>2. parent[q] = me => p = initproc
        BY <1>b, <2>3
      <4> QED BY <1>d, <2>1, <4>1, <4>2
    <3> QED BY <1>b, <2>3, <3>4, <3>5
  <2> QED BY <2>1, <2>2, <2>3
<1>3. TickNotMissed'
  BY <1>0, <1>a, <1>c, <1>e DEF TickNotMissed
<1>4. PidInv'
  BY <1>0, <1>a, <1>c, <1>e DEF PidInv
<1>5. TicketInv'
  BY <1>0, <1>a, <1>c, <1>e DEF TicketInv, Alive
<1> QED BY <1>1, <1>2, <1>3, <1>4, <1>5

\* WaitReap: a ZOMBIE has no children, and only its parent frees it.
LEMMA WaitReapKeeps ==
  ASSUME IInv, TableInv, NEW c \in CPU, WaitReap(c)
  PROVE  FamilyInv' /\ WaitNotMissed' /\ TickNotMissed' /\ PidInv' /\ TicketInv'
<1> DEFINE me == cproc[c]
<1>0. /\ me \in Procs /\ state[me] = "RUNNING" /\ pc[me] \notin ForkPlaces
      /\ pc \in [Procs -> Places] /\ state \in [Procs -> procstate]
      /\ parent \in [Procs -> Procs \cup {Null}] /\ pid \in [Procs -> Nat]
      /\ killed \in [Procs -> BOOLEAN] /\ chan \in [Procs -> Procs \cup {Ticks, Null}]
  BY RunFacts DEF WaitReap, InWait, Resumed, At, IInv, TypeOK, ForkPlaces
<1>a. PICK q \in Procs : /\ state[q] = "ZOMBIE" /\ parent[q] = me
                         /\ pid' = [pid EXCEPT ![q] = 0]
                         /\ parent' = [parent EXCEPT ![q] = Null]
                         /\ killed' = [killed EXCEPT ![q] = FALSE]
                         /\ state' = [state EXCEPT ![q] = "UNUSED"]
  BY DEF WaitReap, FirstIn, Zombies, Kids, ParentCleared
<1>b. /\ UNCHANGED <<tickets, nextpid, left, np, mode>>
      /\ chan' = [chan EXCEPT ![me] = Null]
      /\ pc' = [pc EXCEPT ![me] = "sysret"]
  BY DEF WaitReap, Goto
<1> HIDE DEF me
<1>c. \A p \in Procs : pc[p] \in ForkPlaces => np[p] \in Procs /\ np[p] # q
  BY <1>a DEF IInv, ForkInv
<1> USE DEF TableInv
<1>1. FamilyInv'
  <2>1. /\ state'[initproc] \in Live /\ parent'[initproc] = Null
        /\ \A p \in Procs : parent'[p] # p
        /\ \A p \in Procs : state'[p] = "UNUSED" => parent'[p] = Null
    BY <1>0, <1>a DEF FamilyInv, Live
  <2>2. ASSUME NEW p \in Procs, state'[p] \in Alive, p # initproc
        PROVE  parent'[p] \in Procs /\ state'[parent'[p]] \in Live
    <3>1. p # q /\ state[p] \in Alive /\ parent'[p] = parent[p]
      BY <1>0, <1>a, <2>2 DEF Alive
    <3>2. parent[p] \in Procs /\ state[parent[p]] \in Live
      BY <2>2, <3>1 DEF FamilyInv
    <3> QED BY <1>0, <1>a, <3>1, <3>2 DEF Live
  <2>3. ASSUME NEW p \in Procs, pc'[p] \in ForkPlaces
        PROVE  /\ pc'[p] \in {"kstack", "copyuvm"} => parent'[np'[p]] = Null
               /\ pc'[p] \in {"inherit", "runnable"} => parent'[np'[p]] = p
    <3>1. pc'[p] = pc[p]
      BY <1>0, <1>b, <2>3 DEF ForkPlaces
    <3> QED BY <1>0, <1>a, <1>b, <1>c, <2>3, <3>1 DEF FamilyInv
  <2> QED BY <2>1, <2>2, <2>3 DEF FamilyInv, ForkPlaces
<1>2. WaitNotMissed'
  BY <1>0, <1>a, <1>b, WaitFrame
<1>3. TickNotMissed'
  BY <1>0, <1>a, <1>b DEF TickNotMissed
<1>4. PidInv'
  BY <1>0, <1>a, <1>b DEF PidInv
<1>5. TicketInv'
  BY <1>0, <1>a, <1>b DEF TicketInv, Alive, ForkPlaces
<1> QED BY <1>1, <1>2, <1>3, <1>4, <1>5

-----------------------------------------------------------------------------
(* sys_sleep()                                                             *)

\* A process between the test in sys_sleep() and the sleep holds tickslock.
LEMMA SleeperLocks ==
  ASSUME IInv, NEW p \in Procs, pc[p] \in {"sleep_call", "sleep_locked"}
  PROVE  tlock # NoCPU
<1>1. state[p] = "RUNNING"
  BY DEF IInv, TypeOK, procstate, PlaceInv, Preemptible, SwitchedOut
<1>2. PICK d \in CPU : cproc[d] = p
  BY <1>1 DEF IInv, StateInv
<1>3. mode[d] = "run"
  BY <1>1, <1>2 DEF IInv, TypeOK, Modes, CpuInv, StateInv, PlaceInv, Preemptible
<1>4. tlock = d
  BY <1>2, <1>3 DEF IInv, TlockInv, TicksPlaces
<1> QED BY <1>4

\* Every action but the five of sys_sleep() and the clock leaves the time that
\* is left alone, and moves nobody to between the test and the sleep.
LEMMA LeftFrame ==
  ASSUME LeftInv, UNCHANGED left,
         \A p \in Procs : pc'[p] \in {"sleep_call", "sleep_locked"} => pc'[p] = pc[p]
  PROVE  LeftInv'
BY DEF LeftInv

\* No step lets time run out between the test of sys_sleep() and its sleep.
LEMMA LeftStep ==
  ASSUME IInv, LeftInv, NEW c \in CPU, KernelStep(c) \/ TimerStep(c) \/ UserStep(c)
  PROVE  LeftInv'
<1>0. /\ mode[c] = "run" => cproc[c] \in Procs
      /\ mode[c] = "timer" => cproc[c] \in Procs
      /\ pc \in [Procs -> Places] /\ left \in [Procs -> Nat]
  BY DEF IInv, TypeOK, CpuInv
<1>a. mode[c] = "run" /\ pc[cproc[c]] \in ForkPlaces => np[cproc[c]] \in Procs
  BY ForkFacts
<1>1. ASSUME NEW s \in Syscalls, SyscallEnter(c, s) PROVE LeftInv'
  BY <1>0, <1>1, LeftFrame DEF SyscallEnter, At, Goto, AllSyscalls
<1>2. CASE SyscallReturn(c)
  BY <1>0, <1>2, LeftFrame DEF SyscallReturn, At, Goto
<1>3. CASE Fault(c)
  BY <1>0, <1>3, LeftFrame DEF Fault, At, Goto
<1>4. CASE AllocprocFull(c)
  BY <1>0, <1>4, LeftFrame DEF AllocprocFull, At, Goto
<1>5. CASE Allocproc(c)
  BY <1>0, <1>5, LeftFrame DEF Allocproc, At, Goto
<1>6. CASE AllocKstack(c)
  BY <1>0, <1>a, <1>6, LeftFrame DEF AllocKstack, At, Goto, ForkPlaces
<1>7. CASE Copyuvm(c)
  BY <1>0, <1>7, LeftFrame DEF Copyuvm, At, Goto
<1>8. CASE InheritTickets(c)
  BY <1>0, <1>8, LeftFrame DEF InheritTickets, At, Goto
<1>9. CASE ForkRunnable(c)
  BY <1>0, <1>9, LeftFrame DEF ForkRunnable, At, Goto
<1>10. CASE ExitPanic(c)
  BY <1>0, <1>10, LeftFrame DEF ExitPanic
<1>11. CASE Exit(c)
  BY <1>0, <1>11, LeftFrame DEF Exit, At, Goto
<1>12. CASE WaitReap(c)
  BY <1>0, <1>12, LeftFrame DEF WaitReap, InWait, Resumed, At, Goto
<1>13. CASE WaitFail(c)
  BY <1>0, <1>13, LeftFrame DEF WaitFail, InWait, Resumed, At, Goto
<1>14. CASE WaitSleep(c)
  BY <1>0, <1>14, LeftFrame DEF WaitSleep, InWait, Resumed, At, Goto
<1>15. ASSUME NEW x \in KillArgs, Kill(c, x) PROVE LeftInv'
  BY <1>0, <1>15, LeftFrame DEF Kill, At, Goto
<1>16. ASSUME NEW n \in TicketArgs, Settickets(c, n) PROVE LeftInv'
  BY <1>0, <1>16, LeftFrame DEF Settickets, At, Goto
<1>17. CASE SleepCommit(c)
  BY <1>0, <1>17, LeftFrame DEF SleepCommit, Goto
<1>18. CASE SleepWoken(c)
  BY <1>0, <1>18, LeftFrame DEF SleepWoken, Resumed, Goto
<1>19. CASE SleepReacquire(c)
  BY <1>0, <1>19, LeftFrame DEF SleepReacquire, At, Goto
<1>20. CASE ClockWakeup(c)
  BY <1>0, <1>20, LeftFrame DEF ClockWakeup
<1>21. CASE TimerIntr(c)
  BY <1>0, <1>21, LeftFrame DEF TimerIntr
<1>22. CASE TimerExit(c)
  BY <1>0, <1>22, LeftFrame DEF TimerExit, Goto
<1>23. CASE Yield(c)
  BY <1>0, <1>23, LeftFrame DEF Yield
<1>24. CASE YieldReturn(c)
  BY <1>0, <1>24, LeftFrame DEF YieldReturn, Goto
<1>25. CASE Forkret(c)
  BY <1>0, <1>25, LeftFrame DEF Forkret, Resumed, Goto
<1>26. CASE Swtch(c)
  BY <1>0, <1>26, LeftFrame DEF Swtch
<1>27. CASE SchedAcquire(c)
  BY <1>0, <1>27, LeftFrame DEF SchedAcquire
<1>28. CASE SchedRun(c)
  BY <1>0, <1>28, LeftFrame DEF SchedRun
<1>29. CASE SchedRelease(c)
  BY <1>0, <1>29, LeftFrame DEF SchedRelease
<1>30. ASSUME NEW n \in 0 .. MAXSLEEP, SleepBegin(c, n) PROVE LeftInv'
  BY <1>0, <1>30 DEF SleepBegin, At, Goto, LeftInv
<1>31. CASE SleepReturn(c)
  BY <1>0, <1>31 DEF SleepReturn, Goto, LeftInv
<1>32. CASE SleepTest(c)
  BY <1>0, <1>32 DEF SleepTest, Goto, LeftInv
<1>33. CASE SleepAcquire(c)
  BY <1>0, <1>33 DEF SleepAcquire, Goto, LeftInv
<1>34. CASE ClockTick(c)
  BY <1>34, SleeperLocks DEF ClockTick, LeftInv
<1> QED BY <1>1, <1>2, <1>3, <1>4, <1>5, <1>6, <1>7, <1>8, <1>9, <1>10, <1>11,
           <1>12, <1>13, <1>14, <1>15, <1>16, <1>17, <1>18, <1>19, <1>20, <1>21,
           <1>22, <1>23, <1>24, <1>25, <1>26, <1>27, <1>28, <1>29, <1>30, <1>31,
           <1>32, <1>33, <1>34
     DEF KernelStep, TimerStep, UserStep

-----------------------------------------------------------------------------
(* The theorems                                                            *)

\* main() leaves a state that satisfies the second invariant too.
LEMMA InitTableInv == Init => TableInv
<1> SUFFICES ASSUME Init PROVE TableInv
  OBVIOUS
<1> USE DEF Init
<1>1. FamilyInv
  BY DEF FamilyInv, Live, Alive
<1>2. WaitNotMissed /\ TickNotMissed /\ LeftInv
  BY DEF WaitNotMissed, TickNotMissed, LeftInv
<1>3. PidInv
  BY DEF PidInv
<1>4. TicketInv
  BY DEF TicketInv, Alive, MINTICKETS
<1> QED BY <1>1, <1>2, <1>3, <1>4 DEF TableInv

\* No step of any CPU breaks it, given the first.
LEMMA NextTableInv == IInv /\ TableInv /\ [Next]_vars => TableInv'
<1> SUFFICES ASSUME IInv, TableInv, [Next]_vars PROVE TableInv'
  OBVIOUS
<1>1. CASE UNCHANGED vars
  BY <1>1 DEF vars, TableInv, FamilyInv, WaitNotMissed, Kids, Zombies, LeftInv,
              TickNotMissed, PidInv, TicketInv
<1>2. ASSUME NEW c \in CPU, KernelStep(c) \/ TimerStep(c) \/ UserStep(c)
      PROVE  TableInv'
  <2>1. LeftInv'
    BY <1>2, LeftStep DEF TableInv
  <2>2. CASE QuietAction(c)
    BY <2>1, <2>2, QuietActions, QuietStep DEF TableInv
  <2>3. ASSUME ~QuietAction(c)
        PROVE  FamilyInv' /\ WaitNotMissed' /\ TickNotMissed' /\ PidInv' /\ TicketInv'
    BY <1>2, <2>3, AllocprocKeeps, AllocKstackKeeps, CopyuvmKeeps, InheritTicketsKeeps,
       ForkRunnableKeeps, ExitKeeps, WaitReapKeeps, WaitSleepKeeps, KillKeeps,
       SetticketsKeeps, SleepCommitKeeps, ClockWakeupKeeps, YieldKeeps, SchedRunKeeps
    DEF KernelStep, TimerStep, UserStep, QuietAction
  <2> QED BY <2>1, <2>2, <2>3 DEF TableInv
<1> QED BY <1>1, <1>2 DEF Next, Panic

\* Both invariants hold in every reachable state.
THEOREM TableInvariance == Spec => [](IInv /\ TableInv)
BY InitIInv, NextIInv, InitTableInv, NextTableInv, PTL DEF Spec

\* There are no orphans: exit() hands every child to init before it becomes a
\* ZOMBIE, so each process that can run or be reaped has a parent that can
\* still wait() for it, and a free slot is in nobody's way.
THEOREM OrphansAdopted == Spec => []NoOrphans
<1>1. IInv /\ TableInv => NoOrphans
  BY DEF TableInv, FamilyInv, NoOrphans, Alive, Live
<1> QED BY <1>1, TableInvariance, PTL

\* No wakeup is lost between wait()'s scan of the table and its sleep, whatever
\* exits, kills and adoptions the other CPUs do meanwhile.
THEOREM WaitWakesUp == Spec => []WaitNotMissed
<1>1. IInv /\ TableInv => WaitNotMissed
  BY DEF TableInv
<1> QED BY <1>1, TableInvariance, PTL

\* No clock tick is lost between the test of sys_sleep() and its sleep: sleep()
\* takes ptable.lock before it lets tickslock go.
THEOREM TickWakesUp == Spec => []TickNotMissed
<1>1. IInv /\ TableInv => TickNotMissed
  BY DEF TableInv
<1> QED BY <1>1, TableInvariance, PTL

\* What getpinfo() copies under ptable.lock is a possible picture of the system.
THEOREM PinfoTrue == Spec => []PinfoConsistent
<1>1. IInv /\ TableInv => PinfoConsistent
  <2> SUFFICES ASSUME IInv, TableInv, plock = NoCPU, NEW p \in Procs
      PROVE  /\ fillpstat(p).inuse /\ fillpstat(p).state # "E" =>
                  fillpstat(p).tickets >= MINTICKETS /\ fillpstat(p).pid \in 1 .. nextpid - 1
             /\ fillpstat(p).state = "R" => \E c \in CPU : cproc[c] = p
    BY DEF PinfoConsistent
  <2>1. /\ fillpstat(p).inuse <=> state[p] # "UNUSED"
        /\ fillpstat(p).tickets = tickets[p] /\ fillpstat(p).pid = pid[p]
    BY DEF fillpstat
  <2>2. /\ fillpstat(p).state = "E" <=> state[p] = "EMBRYO"
        /\ fillpstat(p).state = "R" <=> state[p] = "RUNNING"
    BY DEF fillpstat, IInv, TypeOK, procstate
  <2>3. state[p] # "UNUSED" /\ state[p] # "EMBRYO" => tickets[p] >= MINTICKETS
    BY DEF TableInv, TicketInv, Alive, IInv, TypeOK, procstate
  <2>4. state[p] # "UNUSED" => pid[p] \in 1 .. nextpid - 1
    BY DEF TableInv, PidInv
  <2>5. state[p] = "RUNNING" => \E c \in CPU : cproc[c] = p
    BY DEF IInv, StateInv
  <2> QED BY <2>1, <2>2, <2>3, <2>4, <2>5
<1> QED BY <1>1, TableInvariance, PTL

\* Only the end of fork() makes an EMBRYO RUNNABLE.
LEMMA EmbryoRuns ==
  ASSUME IInv, NEW c \in CPU, KernelStep(c) \/ TimerStep(c) \/ UserStep(c),
         NEW p \in Procs, state[p] = "EMBRYO", state'[p] = "RUNNABLE"
  PROVE  ForkRunnable(c) /\ p = np[cproc[c]]
<1>0. /\ mode[c] \in {"run", "timer", "swtch"} => cproc[c] \in Procs
      /\ mode[c] = "run" => state[cproc[c]] = "RUNNING"
      /\ state \in [Procs -> procstate]
  BY RunFacts DEF IInv, TypeOK, CpuInv
<1>1. ~QuietAction(c)
  BY QuietActions DEF Quiet
<1>2. ~Allocproc(c) /\ ~AllocKstack(c) /\ ~Copyuvm(c)
  BY <1>0 DEF Allocproc, AllocKstack, Copyuvm
<1>3. ~InheritTickets(c)
  BY DEF InheritTickets
<1>4. ~Exit(c)
  BY <1>0 DEF Exit, At, Wake, WokenByExit, Sleepers
<1>5. ~WaitReap(c) /\ ~WaitSleep(c)
  BY <1>0 DEF WaitReap, WaitSleep
<1>6. \A x \in KillArgs : ~Kill(c, x)
  BY <1>0 DEF Kill, KillWakes, Wake
<1>7. \A n \in TicketArgs : ~Settickets(c, n)
  BY DEF Settickets
<1>8. ~SleepCommit(c) /\ ~ClockWakeup(c)
  BY <1>0 DEF SleepCommit, ClockWakeup, Wake, Sleepers
<1>9. ~Yield(c) /\ ~SchedRun(c)
  BY <1>0 DEF Yield, SchedRun
<1>10. ForkRunnable(c)
  BY <1>1, <1>2, <1>3, <1>4, <1>5, <1>6, <1>7, <1>8, <1>9
  DEF KernelStep, TimerStep, UserStep, QuietAction
<1>11. p = np[cproc[c]]
  BY <1>0, <1>10 DEF ForkRunnable, At
<1> QED BY <1>10, <1>11

\* A child starts with the tickets of its parent and at least ten, although
\* fork() looks the parent up by pid and both were set without a lock.
THEOREM ChildTickets == Spec => TicketsInherited
<1>1. IInv /\ TableInv /\ [Next]_vars =>
        [\A p \in Procs : state[p] = "EMBRYO" /\ state'[p] = "RUNNABLE" =>
           tickets'[p] = tickets[parent[p]] /\ tickets'[p] >= MINTICKETS]_vars
  <2> SUFFICES ASSUME IInv, TableInv, Next, ~(UNCHANGED vars),
                      NEW p \in Procs, state[p] = "EMBRYO", state'[p] = "RUNNABLE"
               PROVE  tickets'[p] = tickets[parent[p]] /\ tickets'[p] >= MINTICKETS
    OBVIOUS
  <2>1. PICK c \in CPU : KernelStep(c) \/ TimerStep(c) \/ UserStep(c)
    BY DEF Next, Panic
  <2>2. ForkRunnable(c) /\ p = np[cproc[c]]
    BY <2>1, EmbryoRuns
  <2>3. cproc[c] \in Procs /\ state[cproc[c]] = "RUNNING" /\ pc[cproc[c]] = "runnable"
    BY <2>2, RunFacts DEF ForkRunnable, At
  <2>4. parent[p] = cproc[c] /\ tickets[p] = tickets[cproc[c]]
    BY <2>2, <2>3 DEF TableInv, FamilyInv, TicketInv
  <2>5. tickets[cproc[c]] >= MINTICKETS
    BY <2>3 DEF TableInv, TicketInv, Alive
  <2> QED BY <2>2, <2>4, <2>5 DEF ForkRunnable
<1> QED BY <1>1, TableInvariance, PTL DEF Spec, TicketsInherited
=============================================================================
