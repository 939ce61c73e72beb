----------------------------- MODULE ProcProofs -----------------------------
(* Proofs about Proc, for any size of the process table and any number of  *)
(* CPUs.                                                                   *)
EXTENDS Proc, TLAPS

ForkPlaces == {"kstack", "copyuvm", "inherit", "runnable"}
TicksPlaces == {"sleep_check", "sleep_call", "sleep_locked"}
SwitchedOut == {"forkret", "wait_woken", "sleep_woken"}
Alive == {"SLEEPING", "RUNNABLE", "RUNNING", "ZOMBIE"}

\* A CPU in scheduler() has no process, a CPU in a process has one that no
\* other CPU has, and ptable.lock is held on the way into swtch and nowhere
\* in the timer interrupt.
CpuInv ==
  /\ \A c \in CPU : mode[c] = "sched" => cproc[c] = Null
  /\ \A c \in CPU : mode[c] \in {"run", "swtch", "timer"} => cproc[c] # Null
  /\ \A c, d \in CPU : c # d /\ cproc[c] # Null => cproc[c] # cproc[d]
  /\ \A c \in CPU : mode[c] = "swtch" => plock = c
  /\ \A c \in CPU : mode[c] \in {"clock", "timer"} => plock # c

\* The process of a CPU is RUNNING until it calls sched(), and a RUNNING
\* process is on a CPU.
StateInv ==
  /\ \A c \in CPU : cproc[c] # Null =>
       IF mode[c] = "swtch"
       THEN state[cproc[c]] \in {"SLEEPING", "RUNNABLE", "ZOMBIE"}
       ELSE state[cproc[c]] = "RUNNING"
  /\ \A p \in Procs : state[p] = "RUNNING" => \E c \in CPU : cproc[c] = p

\* Where a process can be, by its state, and on a CPU by who holds ptable.lock.
PlaceInv ==
  /\ \A p \in Procs : state[p] = "SLEEPING" => pc[p] \in {"wait_woken", "sleep_woken"}
  /\ \A p \in Procs : state[p] = "RUNNABLE" => pc[p] \in Preemptible \cup SwitchedOut
  /\ \A p \in Procs : state[p] = "ZOMBIE" => pc[p] = "zombie"
  /\ \A p \in Procs : state[p] \in {"UNUSED", "EMBRYO"} => pc[p] \in {"zombie", "forkret"}
  /\ \A c \in CPU : mode[c] = "run" =>
       IF plock = c
       THEN pc[cproc[c]] \in Preemptible \cup SwitchedOut \cup {"sleep_locked"}
       ELSE pc[cproc[c]] \in Preemptible \cup {"sleep_check", "sleep_call"}
  /\ \A c \in CPU : mode[c] \in {"clock", "timer"} /\ cproc[c] # Null =>
       pc[cproc[c]] \in Preemptible

\* The slot a process is setting up in fork() is an EMBRYO that no other
\* process has, complete once fork() has copied the memory.
ForkInv ==
  /\ \A p \in Procs : IF pc[p] \in ForkPlaces
                      THEN np[p] \in Procs /\ state[np[p]] = "EMBRYO"
                      ELSE np[p] = Null
  /\ \A p, q \in Procs : p # q /\ np[p] # Null => np[p] # np[q]
  /\ \A p \in Procs : pc[p] \in {"copyuvm", "inherit", "runnable"} =>
       pc[np[p]] = "forkret"
  /\ \A p \in Procs : pc[p] \in {"inherit", "runnable"} =>
       mem[np[p]] = {"kstack", "pgdir"}

\* A process that is past fork() and not yet reaped has its memory.
MemInv ==
  \A p \in Procs : state[p] \in Alive => mem[p] = {"kstack", "pgdir"}

\* tickslock is held in the clock interrupt and in sys_sleep()'s loop.
TlockInv ==
  \A c \in CPU :
    tlock = c <=> \/ mode[c] = "clock"
                  \/ mode[c] = "run" /\ pc[cproc[c]] \in TicksPlaces

IInv ==
  /\ TypeOK
  /\ CpuInv
  /\ StateInv
  /\ PlaceInv
  /\ ForkInv
  /\ MemInv
  /\ TlockInv

-----------------------------------------------------------------------------
(* The inductive step, one lemma per action                                *)

\* What the proofs need to know of slot numbers.
LEMMA Slots ==
  /\ Null \notin Procs /\ Ticks \notin Procs /\ initproc \in Procs
  /\ Procs \subseteq Nat
BY ProcAssumption DEF Procs, Null, Ticks, initproc

USE ProcAssumption, Slots DEF procVars, cpuVars, threadVars

\* What a CPU that executes a process knows: the process is RUNNING, on no other
\* CPU, and has a new slot only inside fork().
LEMMA RunFacts ==
  ASSUME IInv, NEW c \in CPU, mode[c] = "run"
  PROVE  /\ cproc[c] \in Procs
         /\ state[cproc[c]] = "RUNNING"
         /\ pc[cproc[c]] \notin ForkPlaces => np[cproc[c]] = Null
         /\ \A d \in CPU : d # c => cproc[d] # cproc[c]
<1>1. cproc[c] \in Procs /\ state[cproc[c]] = "RUNNING"
  BY DEF IInv, TypeOK, CpuInv, StateInv
<1>2. pc[cproc[c]] \notin ForkPlaces => np[cproc[c]] = Null
  BY <1>1 DEF IInv, ForkInv
<1>3. \A d \in CPU : d # c => cproc[d] # cproc[c]
  BY <1>1 DEF IInv, CpuInv
<1> QED BY <1>1, <1>2, <1>3

\* What a process inside fork() knows of itself and of the slot np it fills:
\* the slot is an EMBRYO that no CPU runs and no other fork() has.
LEMMA ForkFacts ==
  ASSUME IInv, NEW c \in CPU, mode[c] = "run", pc[cproc[c]] \in ForkPlaces
  PROVE  /\ cproc[c] \in Procs /\ np[cproc[c]] \in Procs
         /\ state[cproc[c]] = "RUNNING"
         /\ state[np[cproc[c]]] = "EMBRYO"
         /\ np[cproc[c]] # cproc[c]
         /\ np[np[cproc[c]]] = Null
         /\ pc[np[cproc[c]]] \in {"zombie", "forkret"}
         /\ \A d \in CPU : cproc[d] # np[cproc[c]]
         /\ \A d \in CPU : d # c => cproc[d] # cproc[c]
         /\ \A p \in Procs : p # cproc[c] => np[p] # np[cproc[c]]
<1>1. cproc[c] \in Procs /\ state[cproc[c]] = "RUNNING"
  BY DEF IInv, TypeOK, CpuInv, StateInv
<1>2. np[cproc[c]] \in Procs /\ state[np[cproc[c]]] = "EMBRYO"
  BY <1>1 DEF IInv, ForkInv
<1>3. pc[np[cproc[c]]] \in {"zombie", "forkret"}
  BY <1>2 DEF IInv, PlaceInv
<1>4. np[np[cproc[c]]] = Null
  BY <1>2, <1>3 DEF IInv, ForkInv, ForkPlaces
<1>5. \A d \in CPU : cproc[d] # np[cproc[c]]
  BY <1>2 DEF IInv, StateInv
<1>6. \A d \in CPU : d # c => cproc[d] # cproc[c]
  BY <1>1 DEF IInv, CpuInv
<1>7. \A p \in Procs : p # cproc[c] => np[p] # np[cproc[c]]
  BY <1>1, <1>2 DEF IInv, ForkInv
<1> QED BY <1>1, <1>2, <1>3, <1>4, <1>5, <1>6, <1>7

\* SyscallEnter preserves the invariant.
LEMMA SyscallEnterStep ==
  ASSUME IInv, NEW c \in CPU, NEW s \in Syscalls, SyscallEnter(c, s)
  PROVE  IInv'
<1> USE DEF IInv, SyscallEnter, At, IntrOn, Goto, AllSyscalls
<1>1. TypeOK'
  BY DEF TypeOK, Places, Preemptible
<1>2. CpuInv'
  BY DEF CpuInv
<1>3. StateInv'
  BY DEF StateInv
<1>4. PlaceInv'
  BY DEF PlaceInv, Preemptible
<1>5. ForkInv'
  BY DEF ForkInv, ForkPlaces
<1>6. MemInv'
  BY DEF MemInv
<1>7. TlockInv'
  BY DEF TlockInv, TicksPlaces
<1> QED BY <1>1, <1>2, <1>3, <1>4, <1>5, <1>6, <1>7

\* SyscallReturn preserves the invariant.
LEMMA SyscallReturnStep ==
  ASSUME IInv, NEW c \in CPU, SyscallReturn(c)
  PROVE  IInv'
<1> USE DEF IInv, SyscallReturn, At, IntrOn, Goto
<1>1. TypeOK'
  BY DEF TypeOK, Places, Preemptible
<1>2. CpuInv'
  BY DEF CpuInv
<1>3. StateInv'
  BY DEF StateInv
<1>4. PlaceInv'
  BY DEF PlaceInv, Preemptible
<1>5. ForkInv'
  BY DEF ForkInv, ForkPlaces
<1>6. MemInv'
  BY DEF MemInv
<1>7. TlockInv'
  BY DEF TlockInv, TicksPlaces
<1> QED BY <1>1, <1>2, <1>3, <1>4, <1>5, <1>6, <1>7

\* Fault preserves the invariant.
LEMMA FaultStep ==
  ASSUME IInv, NEW c \in CPU, Fault(c)
  PROVE  IInv'
<1> USE DEF IInv, Fault, At, IntrOn, Goto
<1>1. TypeOK'
  BY DEF TypeOK, Places, Preemptible
<1>2. CpuInv'
  BY DEF CpuInv
<1>3. StateInv'
  BY DEF StateInv
<1>4. PlaceInv'
  BY DEF PlaceInv, Preemptible
<1>5. ForkInv'
  BY DEF ForkInv, ForkPlaces
<1>6. MemInv'
  BY DEF MemInv
<1>7. TlockInv'
  BY DEF TlockInv, TicksPlaces
<1> QED BY <1>1, <1>2, <1>3, <1>4, <1>5, <1>6, <1>7

\* AllocprocFull preserves the invariant.
LEMMA AllocprocFullStep ==
  ASSUME IInv, NEW c \in CPU, AllocprocFull(c)
  PROVE  IInv'
<1> USE DEF IInv, AllocprocFull, At, IntrOn, Goto
<1>1. TypeOK'
  BY DEF TypeOK, Places, Preemptible
<1>2. CpuInv'
  BY DEF CpuInv
<1>3. StateInv'
  BY DEF StateInv
<1>4. PlaceInv'
  BY DEF PlaceInv, Preemptible
<1>5. ForkInv'
  BY DEF ForkInv, ForkPlaces
<1>6. MemInv'
  BY DEF MemInv
<1>7. TlockInv'
  BY DEF TlockInv, TicksPlaces
<1> QED BY <1>1, <1>2, <1>3, <1>4, <1>5, <1>6, <1>7

\* Allocproc preserves the invariant.
LEMMA AllocprocStep ==
  ASSUME IInv, NEW c \in CPU, Allocproc(c)
  PROVE  IInv'
<1> USE DEF IInv, Allocproc, At, IntrOn, Goto, FirstIn, NextPid
<1>1. TypeOK'
  BY DEF TypeOK, CpuInv, procstate, Places, Preemptible
<1>2. CpuInv'
  BY DEF CpuInv
<1>3. StateInv'
  BY DEF StateInv
<1>4. PlaceInv'
  BY DEF PlaceInv, Preemptible
<1>5. ForkInv'
  BY DEF TypeOK, ForkInv, ForkPlaces
<1>6. MemInv'
  BY DEF MemInv, Alive
<1>7. TlockInv'
  BY DEF TlockInv, TicksPlaces
<1> QED BY <1>1, <1>2, <1>3, <1>4, <1>5, <1>6, <1>7

\* fork() without a kernel stack gives its EMBRYO back, no lock held: nobody else
\* can have reached that slot.
LEMMA AllocKstackStep ==
  ASSUME IInv, NEW c \in CPU, AllocKstack(c)
  PROVE  IInv'
<1> DEFINE me == cproc[c]
           q == np[cproc[c]]
<1>a. /\ me \in Procs /\ q \in Procs /\ q # me
      /\ state[me] = "RUNNING" /\ state[q] = "EMBRYO"
      /\ np[q] = Null /\ pc[q] \in {"zombie", "forkret"}
      /\ \A d \in CPU : cproc[d] # q
      /\ \A d \in CPU : d # c => cproc[d] # me
      /\ \A p \in Procs : p # me => np[p] # q
      /\ mode[c] = "run" /\ pc[me] = "kstack" /\ plock # c /\ tlock # c
  BY ForkFacts DEF AllocKstack, At, IntrOn, ForkPlaces
<1> USE <1>a DEF IInv
<1>1. CASE /\ mem' = [mem EXCEPT ![q] = {"kstack"}]
             /\ pc' = [pc EXCEPT ![q] = "forkret", ![me] = "copyuvm"]
             /\ UNCHANGED <<state, np>>
  <2>a. /\ pc'[q] = "forkret" /\ pc'[me] = "copyuvm"
        /\ \A p \in Procs \ {q, me} : pc'[p] = pc[p]
        /\ pc' \in [Procs -> Places]
    BY <1>1 DEF TypeOK, Places, Preemptible
  <2>b. /\ mem'[q] = {"kstack"} /\ \A p \in Procs \ {q} : mem'[p] = mem[p]
        /\ mem' \in [Procs -> SUBSET {"kstack", "pgdir"}]
        /\ UNCHANGED <<state, np>>
    BY <1>1 DEF TypeOK
  <2>c. /\ UNCHANGED <<pid, parent, chan, killed, tickets, ticks, nextpid>>
        /\ UNCHANGED <<plock, tlock, cpuVars, left, panicked>>
    BY DEF AllocKstack
  <2>d. /\ \A d \in CPU : d # c /\ cproc[d] # Null => cproc[d] \in Procs \ {me, q}
        /\ cproc[c] = me /\ np[me] = q
    BY DEF TypeOK
  <2> HIDE DEF me, q
  <2> USE <2>d, <2>a, <2>b, <2>c
  <2>1. TypeOK'
    BY DEF TypeOK
  <2>2. CpuInv'
    BY DEF CpuInv
  <2>3. StateInv'
    BY DEF StateInv
  <2>e. \A d \in CPU : d # c /\ cproc[d] # Null => pc'[cproc[d]] = pc[cproc[d]]
    OBVIOUS
  <2>f. \A d \in CPU : mode[d] \in {"run", "swtch", "timer"} => cproc[d] # Null
    BY DEF CpuInv
  <2>4. PlaceInv'
    <3>1. \A p \in Procs : /\ state[p] = "SLEEPING" => p # me /\ p # q
                           /\ state[p] = "RUNNABLE" => p # me /\ p # q
                           /\ state[p] = "ZOMBIE" => p # me /\ p # q
                           /\ state[p] \in {"UNUSED", "EMBRYO"} => p # me
      OBVIOUS
    <3>2. pc'[cproc[c]] \in Preemptible
      BY DEF Preemptible
    <3> QED BY <2>e, <2>f, <3>1, <3>2 DEF PlaceInv
  <2>5. ForkInv'
    <3>1. \A p \in Procs : pc'[p] \in ForkPlaces <=> pc[p] \in ForkPlaces
      BY DEF ForkPlaces
    <3>2. \A p \in Procs : pc[p] \in ForkPlaces => np[p] \in Procs \ {me}
      BY DEF ForkInv
    <3>3. \A p \in Procs \ {me} : pc'[p] \in {"copyuvm", "inherit", "runnable"} =>
            /\ pc'[p] = pc[p] /\ np[p] \in Procs \ {me, q}
            /\ pc[np[p]] = "forkret"
            /\ pc'[p] \in {"inherit", "runnable"} => mem[np[p]] = {"kstack", "pgdir"}
      <4> SUFFICES ASSUME NEW p \in Procs \ {me},
                          pc'[p] \in {"copyuvm", "inherit", "runnable"}
                   PROVE  /\ pc'[p] = pc[p] /\ np[p] \in Procs \ {me, q}
                          /\ pc[np[p]] = "forkret"
                          /\ pc'[p] \in {"inherit", "runnable"} =>
                               mem[np[p]] = {"kstack", "pgdir"}
        OBVIOUS
      <4>1. p # q
        OBVIOUS
      <4>2. pc'[p] = pc[p] /\ pc[p] \in ForkPlaces
        BY <4>1 DEF ForkPlaces
      <4>3. np[p] \in Procs \ {me, q}
        BY <4>2, <3>2
      <4> QED BY <4>2, <4>3 DEF ForkInv
    <3>4. \A p \in Procs : pc'[p] \in {"copyuvm", "inherit", "runnable"} =>
            pc'[np[p]] = "forkret"
      <4> SUFFICES ASSUME NEW p \in Procs,
                          pc'[p] \in {"copyuvm", "inherit", "runnable"}
                   PROVE  pc'[np[p]] = "forkret"
        OBVIOUS
      <4>1. CASE p = me
        BY <4>1
      <4>2. CASE p # me
        <5>1. np[p] \in Procs \ {q, me} /\ pc[np[p]] = "forkret"
          BY <4>2, <3>3
        <5> QED BY <5>1, <2>a
      <4> QED BY <4>1, <4>2
    <3>5. \A p \in Procs : pc'[p] \in {"inherit", "runnable"} =>
            mem'[np[p]] = {"kstack", "pgdir"}
      <4> SUFFICES ASSUME NEW p \in Procs \ {me}, pc'[p] \in {"inherit", "runnable"}
                   PROVE  mem'[np[p]] = {"kstack", "pgdir"}
        OBVIOUS
      <4>1. np[p] \in Procs \ {q} /\ mem[np[p]] = {"kstack", "pgdir"}
        BY <3>3
      <4> QED BY <4>1, <2>b
    <3>6. \A p \in Procs : IF pc'[p] \in ForkPlaces
                         THEN np[p] \in Procs /\ state[np[p]] = "EMBRYO"
                         ELSE np[p] = Null
      BY <3>1 DEF ForkInv
    <3>7. \A p, r \in Procs : p # r /\ np[p] # Null => np[p] # np[r]
      BY DEF ForkInv
    <3> QED BY <3>4, <3>5, <3>6, <3>7 DEF ForkInv
  <2>6. MemInv'
    BY DEF MemInv, Alive
  <2>7. TlockInv'
    BY <2>e, <2>f DEF TlockInv, TicksPlaces
  <2> QED BY <2>1, <2>2, <2>3, <2>4, <2>5, <2>6, <2>7
<1>2. CASE /\ state' = [state EXCEPT ![q] = "UNUSED"]
             /\ np' = [np EXCEPT ![me] = Null]
             /\ Goto(c, "sysret")
             /\ UNCHANGED mem
  <2> USE <1>2
  <2>1. TypeOK'
    BY DEF AllocKstack, Goto, TypeOK, procstate, Places, Preemptible
  <2>2. CpuInv'
    BY DEF AllocKstack, Goto, CpuInv
  <2>3. StateInv'
    BY DEF AllocKstack, Goto, StateInv
  <2>4. PlaceInv'
    BY DEF AllocKstack, Goto, PlaceInv, Preemptible
  <2>5. ForkInv'
    BY DEF AllocKstack, Goto, TypeOK, ForkInv, ForkPlaces
  <2>6. MemInv'
    BY DEF AllocKstack, Goto, MemInv, Alive
  <2>7. TlockInv'
    BY DEF AllocKstack, Goto, TlockInv, TicksPlaces
  <2> QED BY <2>1, <2>2, <2>3, <2>4, <2>5, <2>6, <2>7
<1> QED BY <1>1, <1>2 DEF AllocKstack

\* Likewise when copyuvm() fails; when it succeeds the child is complete.
LEMMA CopyuvmStep ==
  ASSUME IInv, NEW c \in CPU, Copyuvm(c)
  PROVE  IInv'
<1>a. PICK me \in Procs, q \in Procs :
      /\ cproc[c] = me /\ np[me] = q /\ q # me
      /\ state[me] = "RUNNING" /\ state[q] = "EMBRYO"
      /\ np[q] = Null /\ pc[q] \in {"zombie", "forkret"}
      /\ \A d \in CPU : cproc[d] # q
      /\ \A d \in CPU : d # c => cproc[d] # me
      /\ \A p \in Procs : p # me => np[p] # q
      /\ mode[c] = "run" /\ pc[me] = "copyuvm" /\ plock # c /\ tlock # c
  BY ForkFacts DEF Copyuvm, At, IntrOn, ForkPlaces
<1> USE <1>a DEF IInv
<1>1. CASE /\ mem' = [mem EXCEPT ![q] = {"kstack", "pgdir"}]
             /\ parent' = [parent EXCEPT ![q] = me]
             /\ Goto(c, "inherit")
             /\ UNCHANGED <<state, np>>
  <2> USE <1>1
  <2>1. TypeOK'
    BY DEF Copyuvm, Goto, TypeOK, Places, Preemptible
  <2>2. CpuInv'
    BY DEF Copyuvm, Goto, CpuInv
  <2>3. StateInv'
    BY DEF Copyuvm, Goto, StateInv
  <2>4. PlaceInv'
    BY DEF Copyuvm, Goto, PlaceInv, Preemptible
  <2>5. ForkInv'
    BY DEF Copyuvm, Goto, TypeOK, ForkInv, ForkPlaces
  <2>6. MemInv'
    BY DEF Copyuvm, Goto, MemInv
  <2>7. TlockInv'
    BY DEF Copyuvm, Goto, TlockInv, TicksPlaces
  <2> QED BY <2>1, <2>2, <2>3, <2>4, <2>5, <2>6, <2>7
<1>2. CASE /\ mem' = [mem EXCEPT ![q] = {}]
             /\ state' = [state EXCEPT ![q] = "UNUSED"]
             /\ np' = [np EXCEPT ![me] = Null]
             /\ Goto(c, "sysret")
             /\ UNCHANGED parent
  <2> USE <1>2
  <2>1. TypeOK'
    BY DEF Copyuvm, Goto, TypeOK, procstate, Places, Preemptible
  <2>2. CpuInv'
    BY DEF Copyuvm, Goto, CpuInv
  <2>3. StateInv'
    BY DEF Copyuvm, Goto, StateInv
  <2>4. PlaceInv'
    BY DEF Copyuvm, Goto, PlaceInv, Preemptible
  <2>5. ForkInv'
    BY DEF Copyuvm, Goto, TypeOK, ForkInv, ForkPlaces
  <2>6. MemInv'
    BY DEF Copyuvm, Goto, TypeOK, MemInv, Alive
  <2>7. TlockInv'
    BY DEF Copyuvm, Goto, TlockInv, TicksPlaces
  <2> QED BY <2>1, <2>2, <2>3, <2>4, <2>5, <2>6, <2>7
<1> QED BY <1>1, <1>2 DEF Copyuvm

\* InheritTickets preserves the invariant.
LEMMA InheritTicketsStep ==
  ASSUME IInv, NEW c \in CPU, InheritTickets(c)
  PROVE  IInv'
<1> DEFINE me == cproc[c]
           q == np[cproc[c]]
<1>a. /\ me \in Procs /\ q \in Procs /\ q # me
      /\ state[me] = "RUNNING" /\ state[q] = "EMBRYO"
      /\ np[q] = Null /\ pc[q] \in {"zombie", "forkret"}
      /\ \A d \in CPU : cproc[d] # q
      /\ \A d \in CPU : d # c => cproc[d] # me
      /\ \A p \in Procs : p # me => np[p] # q
      /\ mode[c] = "run" /\ pc[me] = "inherit" /\ plock # c /\ tlock # c
  BY ForkFacts DEF InheritTickets, At, IntrOn, ForkPlaces
<1> USE <1>a DEF IInv
<1>b. PICK t \in {-1} \cup {tickets[r] : r \in Procs} :
        tickets' = [tickets EXCEPT ![q] = IF t > 10 THEN t ELSE MINTICKETS]
  BY DEF InheritTickets
<1>c. (IF t > 10 THEN t ELSE MINTICKETS) \in Nat
  BY DEF TypeOK, MINTICKETS
<1> HIDE DEF MINTICKETS
<1>d. tickets' \in [Procs -> Nat]
  BY <1>b, <1>c DEF TypeOK
<1>1. TypeOK'
  BY <1>d DEF InheritTickets, Goto, TypeOK, Places, Preemptible
<1>2. CpuInv'
  BY <1>d DEF InheritTickets, Goto, CpuInv
<1>3. StateInv'
  BY <1>d DEF InheritTickets, Goto, StateInv
<1>4. PlaceInv'
  BY <1>d DEF InheritTickets, Goto, PlaceInv, Preemptible
<1>5. ForkInv'
  BY <1>d DEF InheritTickets, Goto, ForkInv, ForkPlaces
<1>6. MemInv'
  BY <1>d DEF InheritTickets, Goto, MemInv
<1>7. TlockInv'
  BY <1>d DEF InheritTickets, Goto, TlockInv, TicksPlaces
<1> QED BY <1>1, <1>2, <1>3, <1>4, <1>5, <1>6, <1>7

\* The child fork() publishes has its memory, and starts at forkret.
LEMMA ForkRunnableStep ==
  ASSUME IInv, NEW c \in CPU, ForkRunnable(c)
  PROVE  IInv'
<1> DEFINE me == cproc[c]
           q == np[cproc[c]]
<1>a. /\ me \in Procs /\ q \in Procs /\ q # me
      /\ state[me] = "RUNNING" /\ state[q] = "EMBRYO"
      /\ np[q] = Null /\ pc[q] \in {"zombie", "forkret"}
      /\ \A d \in CPU : cproc[d] # q
      /\ \A d \in CPU : d # c => cproc[d] # me
      /\ \A p \in Procs : p # me => np[p] # q
      /\ mode[c] = "run" /\ pc[me] = "runnable" /\ plock # c /\ tlock # c
  BY ForkFacts DEF ForkRunnable, At, IntrOn, ForkPlaces
<1>b. pc[q] = "forkret" /\ mem[q] = {"kstack", "pgdir"}
  BY <1>a DEF IInv, ForkInv
<1>c. /\ state'[q] = "RUNNABLE" /\ \A p \in Procs \ {q} : state'[p] = state[p]
      /\ pc'[me] = "sysret" /\ \A p \in Procs \ {me} : pc'[p] = pc[p]
  BY <1>a DEF IInv, TypeOK, ForkRunnable, Goto
<1>d. UNCHANGED <<plock, cpuVars, mem>>
  BY DEF ForkRunnable
<1>e. \A d \in CPU : d # c /\ cproc[d] # Null => cproc[d] \in Procs \ {me, q}
  BY <1>a DEF IInv, TypeOK
<1> USE <1>a DEF IInv
<1>1. TypeOK'
  BY DEF ForkRunnable, Goto, TypeOK, procstate, Places, Preemptible
<1>2. CpuInv'
  BY DEF ForkRunnable, Goto, CpuInv
<1>3. StateInv'
  BY DEF ForkRunnable, Goto, StateInv
<1>4. PlaceInv'
  <2>1. \A d \in CPU : d # c /\ cproc[d] # Null => pc'[cproc[d]] = pc[cproc[d]]
    BY <1>c, <1>e
  <2>2. \A d \in CPU : mode[d] \in {"run", "swtch", "timer"} => cproc[d] # Null
    BY DEF CpuInv
  <2>3. \A p \in Procs \ {q} : state'[p] \in {"SLEEPING", "RUNNABLE", "ZOMBIE", "UNUSED", "EMBRYO"}
          => p # me /\ pc'[p] = pc[p] /\ state'[p] = state[p]
    BY <1>c
  <2>4. pc'[q] \in SwitchedOut /\ pc'[cproc[c]] \in Preemptible
    BY <1>b, <1>c DEF SwitchedOut, Preemptible
  <2> HIDE DEF me, q
  <2> QED BY <1>a, <1>c, <1>d, <2>1, <2>2, <2>3, <2>4 DEF PlaceInv
<1>5. ForkInv'
  BY DEF ForkRunnable, Goto, TypeOK, ForkInv, ForkPlaces
<1>6. MemInv'
  BY <1>b, <1>c, <1>d DEF MemInv
<1>7. TlockInv'
  BY DEF ForkRunnable, Goto, TlockInv, TicksPlaces
<1> QED BY <1>1, <1>2, <1>3, <1>4, <1>5, <1>6, <1>7

\* ExitPanic preserves the invariant.
LEMMA ExitPanicStep ==
  ASSUME IInv, NEW c \in CPU, ExitPanic(c)
  PROVE  IInv'
<1> USE DEF IInv, ExitPanic, At, IntrOn
<1>1. TypeOK'
  BY DEF TypeOK
<1>2. CpuInv'
  BY DEF CpuInv
<1>3. StateInv'
  BY DEF StateInv
<1>4. PlaceInv'
  BY DEF PlaceInv
<1>5. ForkInv'
  BY DEF ForkInv
<1>6. MemInv'
  BY DEF MemInv
<1>7. TlockInv'
  BY DEF TlockInv
<1> QED BY <1>1, <1>2, <1>3, <1>4, <1>5, <1>6, <1>7

\* exit() wakes sleepers only, so no running process loses its CPU, and its own
\* memory stays until wait() finds the ZOMBIE.
LEMMA ExitStep ==
  ASSUME IInv, NEW c \in CPU, Exit(c)
  PROVE  IInv'
<1>a. PICK me \in Procs :
      /\ cproc[c] = me /\ state[me] = "RUNNING" /\ np[me] = Null
      /\ mode[c] = "run" /\ pc[me] = "exit" /\ plock = NoCPU /\ tlock # c
      /\ \A d \in CPU : d # c => cproc[d] # me
  BY RunFacts DEF ForkPlaces, Exit, At, IntrOn
<1>b. PICK S \in SUBSET Procs : /\ \A p \in S : state[p] = "SLEEPING"
                              /\ state' = [Wake(S) EXCEPT ![me] = "ZOMBIE"]
  <2>1. WokenByExit(me) \in SUBSET Procs
    BY DEF WokenByExit, Sleepers
  <2>2. \A p \in WokenByExit(me) : state[p] = "SLEEPING"
    BY DEF WokenByExit, Sleepers
  <2> QED BY <1>a, <2>1, <2>2 DEF Exit
<1>c. /\ pc' = [pc EXCEPT ![me] = "zombie"]
      /\ plock' = c /\ mode' = [mode EXCEPT ![c] = "swtch"]
      /\ parent' \in [Procs -> Procs \cup {Null}]
      /\ UNCHANGED <<pid, chan, killed, tickets, ticks, mem, nextpid>>
      /\ UNCHANGED <<tlock, cproc, scan, np, left, panicked>>
  BY <1>a DEF IInv, TypeOK, Exit, Goto
<1> USE <1>a, <1>b, <1>c DEF IInv, Wake
<1>d. \A d \in CPU : mode[d] # "swtch"
  BY DEF CpuInv
<1>e. \A d \in CPU : cproc[d] # Null => cproc[d] \in Procs /\ state[cproc[d]] = "RUNNING"
  BY <1>d DEF TypeOK, StateInv
<1>f. state'[me] = "ZOMBIE" /\ \A p \in Procs \ S : p # me => state'[p] = state[p]
  OBVIOUS
<1>1. TypeOK'
  BY DEF TypeOK, procstate, Places, Modes
<1>2. CpuInv'
  BY DEF CpuInv
<1>3. StateInv'
  <2>1. \A d \in CPU : d # c /\ cproc[d] # Null => state'[cproc[d]] = "RUNNING"
    BY <1>e, <1>f
  <2>2. \A p \in Procs : state'[p] = "RUNNING" => state[p] = "RUNNING"
    OBVIOUS
  <2>3. mode'[c] = "swtch" /\ \A d \in CPU : d # c => mode'[d] # "swtch"
    BY <1>d DEF TypeOK
  <2> QED BY <2>1, <2>2, <2>3, <1>f DEF StateInv
<1>4. PlaceInv'
  BY <1>d, <1>e DEF TypeOK, PlaceInv, SwitchedOut
<1>5. ForkInv'
  <2>1. \A p \in Procs : pc'[p] \in ForkPlaces <=> pc[p] \in ForkPlaces
    BY DEF ForkPlaces
  <2>2. \A p \in Procs : pc[p] \in ForkPlaces => np[p] \in Procs /\ np[p] \notin S /\ np[p] # me
    BY DEF ForkInv
  <2>3. \A p \in Procs : pc[p] \in ForkPlaces => state'[np[p]] = "EMBRYO"
    BY <2>2, <1>f DEF ForkInv
  <2>4. \A p \in Procs : pc[p] \in {"copyuvm", "inherit", "runnable"} =>
          pc'[p] = pc[p] /\ pc'[np[p]] = "forkret"
    BY <2>2 DEF ForkInv
  <2>5. \A p \in Procs : pc'[p] \in {"copyuvm", "inherit", "runnable"} => pc[p] = pc'[p]
    OBVIOUS
  <2>6. UNCHANGED <<np, mem>>
    OBVIOUS
  <2> QED BY <2>1, <2>2, <2>3, <2>4, <2>5, <2>6 DEF ForkInv
<1>6. MemInv'
  BY DEF MemInv, Alive
<1>7. TlockInv'
  BY <1>d, <1>e DEF TypeOK, TlockInv
<1> QED BY <1>1, <1>2, <1>3, <1>4, <1>5, <1>6, <1>7

\* wait() frees a ZOMBIE; ptable.lock is free or its own, so that process has
\* already switched away.
LEMMA WaitReapStep ==
  ASSUME IInv, NEW c \in CPU, WaitReap(c)
  PROVE  IInv'
<1> USE DEF IInv, WaitReap, ParentCleared, At, IntrOn, Goto, InWait, Resumed, FirstIn, Zombies, Kids
<1>1. TypeOK'
  BY DEF TypeOK, CpuInv, procstate, Places, Preemptible
<1>2. CpuInv'
  BY DEF CpuInv
<1>3. StateInv'
  BY DEF TypeOK, CpuInv, StateInv
<1>4. PlaceInv'
  BY DEF TypeOK, CpuInv, StateInv, PlaceInv, Preemptible
<1>5. ForkInv'
  BY DEF TypeOK, StateInv, ForkInv, ForkPlaces
<1>6. MemInv'
  BY DEF TypeOK, MemInv, Alive
<1>7. TlockInv'
  BY DEF TlockInv, TicksPlaces
<1> QED BY <1>1, <1>2, <1>3, <1>4, <1>5, <1>6, <1>7

\* WaitFail preserves the invariant.
LEMMA WaitFailStep ==
  ASSUME IInv, NEW c \in CPU, WaitFail(c)
  PROVE  IInv'
<1> USE DEF IInv, WaitFail, At, IntrOn, Goto, InWait, Resumed
<1>1. TypeOK'
  BY DEF TypeOK, Places, Preemptible
<1>2. CpuInv'
  BY DEF CpuInv
<1>3. StateInv'
  BY DEF StateInv
<1>4. PlaceInv'
  BY DEF TypeOK, CpuInv, StateInv, PlaceInv, Preemptible
<1>5. ForkInv'
  BY DEF ForkInv, ForkPlaces
<1>6. MemInv'
  BY DEF MemInv
<1>7. TlockInv'
  BY DEF TlockInv, TicksPlaces
<1> QED BY <1>1, <1>2, <1>3, <1>4, <1>5, <1>6, <1>7

\* WaitSleep preserves the invariant.
LEMMA WaitSleepStep ==
  ASSUME IInv, NEW c \in CPU, WaitSleep(c)
  PROVE  IInv'
<1> USE DEF IInv, WaitSleep, At, IntrOn, Goto, InWait, Resumed
<1>1. TypeOK'
  BY DEF TypeOK, procstate, Modes, Places
<1>2. CpuInv'
  BY DEF CpuInv
<1>3. StateInv'
  BY DEF TypeOK, CpuInv, StateInv
<1>4. PlaceInv'
  BY DEF TypeOK, CpuInv, PlaceInv
<1>5. ForkInv'
  BY DEF TypeOK, StateInv, ForkInv, ForkPlaces
<1>6. MemInv'
  BY DEF StateInv, MemInv, Alive
<1>7. TlockInv'
  BY DEF TlockInv, TicksPlaces
<1> QED BY <1>1, <1>2, <1>3, <1>4, <1>5, <1>6, <1>7

\* kill() makes a SLEEPING victim RUNNABLE, which no CPU is running.
LEMMA KillStep ==
  ASSUME IInv, NEW c \in CPU, NEW x \in KillArgs, Kill(c, x)
  PROVE  IInv'
<1>a. PICK me \in Procs :
      /\ cproc[c] = me /\ state[me] = "RUNNING" /\ np[me] = Null
      /\ mode[c] = "run" /\ pc[me] = "kill" /\ plock = NoCPU /\ tlock # c
      /\ \A d \in CPU : d # c => cproc[d] # me
  BY RunFacts DEF ForkPlaces, Kill, At, IntrOn
<1>b. /\ pc' = [pc EXCEPT ![me] = "sysret"]
      /\ UNCHANGED <<pid, parent, chan, tickets, ticks, mem, nextpid>>
      /\ UNCHANGED <<plock, tlock, cpuVars, np, left, panicked>>
  BY <1>a DEF Kill, Goto
<1>c. \/ UNCHANGED <<killed, state>>
      \/ \E q \in Procs : /\ killed' = [killed EXCEPT ![q] = TRUE]
                          /\ state' = IF state[q] = "SLEEPING" THEN Wake({q}) ELSE state
  BY DEF Kill, KillWakes
<1>d. killed' \in [Procs -> BOOLEAN]
  BY <1>c DEF IInv, TypeOK
<1>e. \E S \in SUBSET Procs : /\ \A p \in S : state[p] = "SLEEPING"
                             /\ state' = Wake(S)
  <2>1. CASE state' = state
    <3>1. state = Wake({})
      BY DEF IInv, TypeOK, Wake
    <3> QED BY <2>1, <3>1
  <2>2. CASE \E q \in Procs : state[q] = "SLEEPING" /\ state' = Wake({q})
    BY <2>2
  <2> QED BY <1>c, <2>1, <2>2
<1>f. PICK S \in SUBSET Procs : /\ \A p \in S : state[p] = "SLEEPING"
                              /\ state' = Wake(S)
  BY <1>e
<1> USE <1>a, <1>b, <1>d, <1>f DEF IInv, Wake
<1>g. \A d \in CPU : mode[d] # "swtch" /\ (cproc[d] # Null => cproc[d] \in Procs \ S)
  <2>1. \A d \in CPU : mode[d] # "swtch"
    BY DEF CpuInv
  <2>2. \A d \in CPU : cproc[d] # Null => cproc[d] \in Procs /\ state[cproc[d]] = "RUNNING"
    BY <2>1 DEF TypeOK, StateInv
  <2> QED BY <2>1, <2>2
<1>h. \A p \in Procs : state[p] \in {"UNUSED", "EMBRYO", "RUNNING", "ZOMBIE"} => p \notin S
  OBVIOUS
<1>1. TypeOK'
  BY DEF TypeOK, procstate, Places, Preemptible
<1>2. CpuInv'
  BY DEF CpuInv
<1>3. StateInv'
  <2>1. \A d \in CPU : cproc[d] # Null => state'[cproc[d]] = "RUNNING"
    BY <1>g DEF StateInv
  <2>2. \A p \in Procs : state'[p] = "RUNNING" => state[p] = "RUNNING"
    OBVIOUS
  <2> QED BY <2>1, <2>2, <1>g DEF StateInv
<1>4. PlaceInv'
  BY DEF PlaceInv, SwitchedOut, Preemptible
<1>5. ForkInv'
  <2>1. \A p \in Procs : pc'[p] \in ForkPlaces <=> pc[p] \in ForkPlaces
    BY DEF ForkPlaces
  <2>2. \A p \in Procs : pc[p] \in ForkPlaces => np[p] \in Procs /\ state'[np[p]] = "EMBRYO"
    BY <1>h DEF ForkInv
  <2>3. \A p \in Procs : pc[p] \in ForkPlaces => np[p] # me
    BY DEF ForkInv
  <2>4. \A p \in Procs : pc[p] \in {"copyuvm", "inherit", "runnable"} =>
          pc'[p] = pc[p] /\ pc'[np[p]] = "forkret"
    BY <2>2, <2>3 DEF ForkInv
  <2>5. \A p \in Procs : pc'[p] \in {"copyuvm", "inherit", "runnable"} => pc[p] = pc'[p]
    OBVIOUS
  <2>6. UNCHANGED <<np, mem>>
    OBVIOUS
  <2> QED BY <2>1, <2>2, <2>4, <2>5, <2>6 DEF ForkInv
<1>6. MemInv'
  BY DEF MemInv, Alive
<1>7. TlockInv'
  BY DEF TlockInv, TicksPlaces
<1> QED BY <1>1, <1>2, <1>3, <1>4, <1>5, <1>6, <1>7

\* Settickets preserves the invariant.
LEMMA SetticketsStep ==
  ASSUME IInv, NEW c \in CPU, NEW n \in TicketArgs, Settickets(c, n)
  PROVE  IInv'
<1> USE DEF IInv, Settickets, At, IntrOn, Goto, AcceptTickets
<1>1. TypeOK'
  BY DEF TypeOK, CpuInv, Places, MINTICKETS, Preemptible
<1>2. CpuInv'
  BY DEF CpuInv
<1>3. StateInv'
  BY DEF StateInv
<1>4. PlaceInv'
  BY DEF PlaceInv, Preemptible
<1>5. ForkInv'
  BY DEF ForkInv, ForkPlaces
<1>6. MemInv'
  BY DEF MemInv
<1>7. TlockInv'
  BY DEF TlockInv, TicksPlaces
<1> QED BY <1>1, <1>2, <1>3, <1>4, <1>5, <1>6, <1>7

\* SleepBegin preserves the invariant.
LEMMA SleepBeginStep ==
  ASSUME IInv, NEW c \in CPU, NEW n \in 0 .. MAXSLEEP, SleepBegin(c, n)
  PROVE  IInv'
<1> USE DEF IInv, SleepBegin, At, IntrOn, Goto
<1>1. TypeOK'
  BY DEF TypeOK, CpuInv, Places
<1>2. CpuInv'
  BY DEF CpuInv
<1>3. StateInv'
  BY DEF StateInv
<1>4. PlaceInv'
  BY DEF CpuInv, StateInv, PlaceInv
<1>5. ForkInv'
  BY DEF ForkInv, ForkPlaces
<1>6. MemInv'
  BY DEF MemInv
<1>7. TlockInv'
  BY DEF TypeOK, CpuInv, TlockInv, TicksPlaces
<1> QED BY <1>1, <1>2, <1>3, <1>4, <1>5, <1>6, <1>7

\* SleepReturn preserves the invariant.
LEMMA SleepReturnStep ==
  ASSUME IInv, NEW c \in CPU, SleepReturn(c)
  PROVE  IInv'
<1> USE DEF IInv, SleepReturn, Goto
<1>1. TypeOK'
  BY DEF TypeOK, Places, Preemptible
<1>2. CpuInv'
  BY DEF CpuInv
<1>3. StateInv'
  BY DEF StateInv
<1>4. PlaceInv'
  BY DEF PlaceInv, Preemptible
<1>5. ForkInv'
  BY DEF ForkInv, ForkPlaces
<1>6. MemInv'
  BY DEF MemInv
<1>7. TlockInv'
  BY DEF TypeOK, CpuInv, TlockInv, TicksPlaces
<1> QED BY <1>1, <1>2, <1>3, <1>4, <1>5, <1>6, <1>7

\* SleepTest preserves the invariant.
LEMMA SleepTestStep ==
  ASSUME IInv, NEW c \in CPU, SleepTest(c)
  PROVE  IInv'
<1> USE DEF IInv, SleepTest, Goto
<1>1. TypeOK'
  BY DEF TypeOK, Places
<1>2. CpuInv'
  BY DEF CpuInv
<1>3. StateInv'
  BY DEF StateInv
<1>4. PlaceInv'
  BY DEF PlaceInv, SwitchedOut, Preemptible
<1>5. ForkInv'
  BY DEF ForkInv, ForkPlaces
<1>6. MemInv'
  BY DEF MemInv
<1>7. TlockInv'
  BY DEF TlockInv, TicksPlaces
<1> QED BY <1>1, <1>2, <1>3, <1>4, <1>5, <1>6, <1>7

\* SleepAcquire preserves the invariant.
LEMMA SleepAcquireStep ==
  ASSUME IInv, NEW c \in CPU, SleepAcquire(c)
  PROVE  IInv'
<1> USE DEF IInv, SleepAcquire, Goto
<1>1. TypeOK'
  BY DEF TypeOK, Places
<1>2. CpuInv'
  BY DEF CpuInv
<1>3. StateInv'
  BY DEF StateInv
<1>4. PlaceInv'
  BY DEF TypeOK, CpuInv, PlaceInv, SwitchedOut, Preemptible
<1>5. ForkInv'
  BY DEF ForkInv, ForkPlaces
<1>6. MemInv'
  BY DEF MemInv
<1>7. TlockInv'
  BY DEF TlockInv, TicksPlaces
<1> QED BY <1>1, <1>2, <1>3, <1>4, <1>5, <1>6, <1>7

\* sleep() lets go of tickslock only after it has ptable.lock.
LEMMA SleepCommitStep ==
  ASSUME IInv, NEW c \in CPU, SleepCommit(c)
  PROVE  IInv'
<1> USE DEF IInv, SleepCommit, Goto
<1>1. TypeOK'
  BY DEF TypeOK, procstate, Modes, Places
<1>2. CpuInv'
  BY DEF CpuInv
<1>3. StateInv'
  BY DEF TypeOK, CpuInv, StateInv
<1>4. PlaceInv'
  BY DEF TypeOK, PlaceInv, Preemptible
<1>5. ForkInv'
  BY DEF StateInv, ForkInv, ForkPlaces
<1>6. MemInv'
  BY DEF StateInv, MemInv, Alive
<1>7. TlockInv'
  BY DEF TypeOK, TlockInv, TicksPlaces
<1> QED BY <1>1, <1>2, <1>3, <1>4, <1>5, <1>6, <1>7

\* SleepWoken preserves the invariant.
LEMMA SleepWokenStep ==
  ASSUME IInv, NEW c \in CPU, SleepWoken(c)
  PROVE  IInv'
<1> USE DEF IInv, SleepWoken, Goto, Resumed
<1>1. TypeOK'
  BY DEF TypeOK, Places, Preemptible
<1>2. CpuInv'
  BY DEF CpuInv
<1>3. StateInv'
  BY DEF StateInv
<1>4. PlaceInv'
  BY DEF TypeOK, CpuInv, StateInv, PlaceInv, Preemptible
<1>5. ForkInv'
  BY DEF ForkInv, ForkPlaces
<1>6. MemInv'
  BY DEF MemInv
<1>7. TlockInv'
  BY DEF TlockInv, TicksPlaces
<1> QED BY <1>1, <1>2, <1>3, <1>4, <1>5, <1>6, <1>7

\* SleepReacquire preserves the invariant.
LEMMA SleepReacquireStep ==
  ASSUME IInv, NEW c \in CPU, SleepReacquire(c)
  PROVE  IInv'
<1> USE DEF IInv, SleepReacquire, At, IntrOn, Goto
<1>1. TypeOK'
  BY DEF TypeOK, Places
<1>2. CpuInv'
  BY DEF CpuInv
<1>3. StateInv'
  BY DEF StateInv
<1>4. PlaceInv'
  BY DEF CpuInv, StateInv, PlaceInv
<1>5. ForkInv'
  BY DEF ForkInv, ForkPlaces
<1>6. MemInv'
  BY DEF MemInv
<1>7. TlockInv'
  BY DEF TypeOK, CpuInv, TlockInv, TicksPlaces
<1> QED BY <1>1, <1>2, <1>3, <1>4, <1>5, <1>6, <1>7

\* ClockTick preserves the invariant.
LEMMA ClockTickStep ==
  ASSUME IInv, NEW c \in CPU, ClockTick(c)
  PROVE  IInv'
<1> USE DEF IInv, ClockTick, IntrOn, CountsTicks
<1>1. TypeOK'
  BY DEF TypeOK, Modes
<1>2. CpuInv'
  BY DEF CpuInv
<1>3. StateInv'
  BY DEF StateInv
<1>4. PlaceInv'
  BY DEF CpuInv, PlaceInv, TlockInv, TicksPlaces
<1>5. ForkInv'
  BY DEF ForkInv
<1>6. MemInv'
  BY DEF MemInv
<1>7. TlockInv'
  BY DEF TypeOK, TlockInv
<1> QED BY <1>1, <1>2, <1>3, <1>4, <1>5, <1>6, <1>7

\* ClockWakeup preserves the invariant.
LEMMA ClockWakeupStep ==
  ASSUME IInv, NEW c \in CPU, ClockWakeup(c)
  PROVE  IInv'
<1> USE DEF IInv, ClockWakeup, Wake, Sleepers
<1>1. TypeOK'
  BY DEF TypeOK, procstate, Modes
<1>2. CpuInv'
  BY DEF CpuInv
<1>3. StateInv'
  BY DEF TypeOK, StateInv
<1>4. PlaceInv'
  BY DEF PlaceInv, SwitchedOut
<1>5. ForkInv'
  BY DEF ForkInv
<1>6. MemInv'
  BY DEF MemInv, Alive
<1>7. TlockInv'
  BY DEF TypeOK, TlockInv
<1> QED BY <1>1, <1>2, <1>3, <1>4, <1>5, <1>6, <1>7

\* TimerIntr preserves the invariant.
LEMMA TimerIntrStep ==
  ASSUME IInv, NEW c \in CPU, TimerIntr(c)
  PROVE  IInv'
<1> USE DEF IInv, TimerIntr, IntrOn
<1>1. TypeOK'
  BY DEF TypeOK, Modes
<1>2. CpuInv'
  BY DEF CpuInv
<1>3. StateInv'
  BY DEF StateInv
<1>4. PlaceInv'
  BY DEF PlaceInv, TlockInv, TicksPlaces
<1>5. ForkInv'
  BY DEF ForkInv
<1>6. MemInv'
  BY DEF MemInv
<1>7. TlockInv'
  BY DEF TlockInv
<1> QED BY <1>1, <1>2, <1>3, <1>4, <1>5, <1>6, <1>7

\* TimerExit preserves the invariant.
LEMMA TimerExitStep ==
  ASSUME IInv, NEW c \in CPU, TimerExit(c)
  PROVE  IInv'
<1> USE DEF IInv, TimerExit, Goto
<1>1. TypeOK'
  BY DEF TypeOK, Modes, Places, Preemptible
<1>2. CpuInv'
  BY DEF CpuInv
<1>3. StateInv'
  BY DEF StateInv
<1>4. PlaceInv'
  BY DEF PlaceInv, Preemptible
<1>5. ForkInv'
  BY DEF ForkInv, ForkPlaces
<1>6. MemInv'
  BY DEF MemInv
<1>7. TlockInv'
  BY DEF TlockInv, TicksPlaces
<1> QED BY <1>1, <1>2, <1>3, <1>4, <1>5, <1>6, <1>7

\* yield() gives up the CPU with ptable.lock held until the scheduler has it.
LEMMA YieldStep ==
  ASSUME IInv, NEW c \in CPU, Yield(c)
  PROVE  IInv'
<1> USE DEF IInv, Yield
<1>1. TypeOK'
  BY DEF TypeOK, procstate, Modes
<1>2. CpuInv'
  BY DEF TypeOK, CpuInv
<1>3. StateInv'
  BY DEF TypeOK, CpuInv, StateInv
<1>4. PlaceInv'
  BY DEF PlaceInv
<1>5. ForkInv'
  BY DEF ForkInv
<1>6. MemInv'
  BY DEF MemInv, Alive
<1>7. TlockInv'
  BY DEF TlockInv
<1> QED BY <1>1, <1>2, <1>3, <1>4, <1>5, <1>6, <1>7

\* YieldReturn preserves the invariant.
LEMMA YieldReturnStep ==
  ASSUME IInv, NEW c \in CPU, YieldReturn(c)
  PROVE  IInv'
<1> USE DEF IInv, YieldReturn, Goto
<1>1. TypeOK'
  BY DEF TypeOK, Places, Preemptible
<1>2. CpuInv'
  BY DEF CpuInv
<1>3. StateInv'
  BY DEF StateInv
<1>4. PlaceInv'
  BY DEF PlaceInv, Preemptible
<1>5. ForkInv'
  BY DEF ForkInv, ForkPlaces
<1>6. MemInv'
  BY DEF MemInv
<1>7. TlockInv'
  BY DEF TlockInv, TicksPlaces
<1> QED BY <1>1, <1>2, <1>3, <1>4, <1>5, <1>6, <1>7

\* Forkret preserves the invariant.
LEMMA ForkretStep ==
  ASSUME IInv, NEW c \in CPU, Forkret(c)
  PROVE  IInv'
<1> USE DEF IInv, Forkret, Goto, Resumed
<1>1. TypeOK'
  BY DEF TypeOK, Places, Preemptible
<1>2. CpuInv'
  BY DEF CpuInv
<1>3. StateInv'
  BY DEF StateInv
<1>4. PlaceInv'
  BY DEF TypeOK, CpuInv, StateInv, PlaceInv, Preemptible
<1>5. ForkInv'
  BY DEF StateInv, ForkInv, ForkPlaces
<1>6. MemInv'
  BY DEF MemInv
<1>7. TlockInv'
  BY DEF TlockInv, TicksPlaces
<1> QED BY <1>1, <1>2, <1>3, <1>4, <1>5, <1>6, <1>7

\* After swtch the process is on no CPU, and the scheduler holds ptable.lock.
LEMMA SwtchStep ==
  ASSUME IInv, NEW c \in CPU, Swtch(c)
  PROVE  IInv'
<1>a. cproc[c] \in Procs
  BY DEF IInv, TypeOK, CpuInv, Swtch
<1>b. cproc[c] + 1 \in 0 .. NPROC
  BY <1>a DEF Procs
<1> USE DEF IInv, Swtch
<1>1. TypeOK'
  BY <1>b DEF TypeOK, Modes, NextSlot
<1>2. CpuInv'
  BY DEF TypeOK, CpuInv
<1>3. StateInv'
  BY DEF TypeOK, StateInv
<1>4. PlaceInv'
  BY DEF PlaceInv
<1>5. ForkInv'
  BY DEF ForkInv
<1>6. MemInv'
  BY DEF MemInv
<1>7. TlockInv'
  BY DEF TlockInv
<1> QED BY <1>1, <1>2, <1>3, <1>4, <1>5, <1>6, <1>7

\* SchedAcquire preserves the invariant.
LEMMA SchedAcquireStep ==
  ASSUME IInv, NEW c \in CPU, SchedAcquire(c)
  PROVE  IInv'
<1> USE DEF IInv, SchedAcquire
<1>1. TypeOK'
  BY DEF TypeOK
<1>2. CpuInv'
  BY DEF CpuInv
<1>3. StateInv'
  BY DEF StateInv
<1>4. PlaceInv'
  BY DEF PlaceInv
<1>5. ForkInv'
  BY DEF ForkInv
<1>6. MemInv'
  BY DEF MemInv
<1>7. TlockInv'
  BY DEF TlockInv
<1> QED BY <1>1, <1>2, <1>3, <1>4, <1>5, <1>6, <1>7

\* The scheduler takes a RUNNABLE process, which no CPU is on: every CPU inside
\* sched() would hold ptable.lock.
LEMMA SchedRunStep ==
  ASSUME IInv, NEW c \in CPU, SchedRun(c)
  PROVE  IInv'
<1>a. PICK p \in Procs : /\ state[p] = "RUNNABLE"
                        /\ cproc' = [cproc EXCEPT ![c] = p]
                        /\ state' = [state EXCEPT ![p] = "RUNNING"]
  BY DEF SchedRun, FirstIn, Runnable
<1> USE <1>a DEF IInv, SchedRun
<1>1. TypeOK'
  BY DEF TypeOK, procstate, Modes
<1>2. CpuInv'
  BY DEF TypeOK, CpuInv, StateInv
<1>3. StateInv'
  BY DEF TypeOK, CpuInv, StateInv
<1>4. PlaceInv'
  BY DEF TypeOK, PlaceInv
<1>5. ForkInv'
  BY DEF ForkInv
<1>6. MemInv'
  BY <1>a DEF TypeOK, MemInv, Alive
<1>7. TlockInv'
  BY DEF TypeOK, PlaceInv, TlockInv, TicksPlaces, SwitchedOut, Preemptible
<1> QED BY <1>1, <1>2, <1>3, <1>4, <1>5, <1>6, <1>7

\* SchedRelease preserves the invariant.
LEMMA SchedReleaseStep ==
  ASSUME IInv, NEW c \in CPU, SchedRelease(c)
  PROVE  IInv'
<1> USE DEF IInv, SchedRelease
<1>1. TypeOK'
  BY DEF TypeOK
<1>2. CpuInv'
  BY DEF CpuInv
<1>3. StateInv'
  BY DEF StateInv
<1>4. PlaceInv'
  BY DEF PlaceInv
<1>5. ForkInv'
  BY DEF ForkInv
<1>6. MemInv'
  BY DEF MemInv
<1>7. TlockInv'
  BY DEF TlockInv
<1> QED BY <1>1, <1>2, <1>3, <1>4, <1>5, <1>6, <1>7

\* main() leaves a state that satisfies the invariant.
LEMMA InitIInv == Init => IInv
<1> SUFFICES ASSUME Init PROVE IInv
  OBVIOUS
<1> USE DEF Init
<1>1. TypeOK
  <2>1. /\ state \in [Procs -> procstate] /\ pid \in [Procs -> Nat]
        /\ tickets \in [Procs -> Nat] /\ ticks \in [Procs -> Nat]
        /\ nextpid \in Nat /\ left \in [Procs -> Nat]
    BY DEF procstate, MINTICKETS
  <2>2. mem \in [Procs -> SUBSET {"kstack", "pgdir"}]
    OBVIOUS
  <2>3. /\ parent \in [Procs -> Procs \cup {Null}]
        /\ chan \in [Procs -> Procs \cup {Ticks, Null}]
        /\ np \in [Procs -> Procs \cup {Null}]
        /\ killed \in [Procs -> BOOLEAN]
        /\ pc \in [Procs -> Places]
    BY DEF Places
  <2>4. /\ cproc \in [CPU -> Procs \cup {Null}]
        /\ mode \in [CPU -> Modes] /\ scan \in [CPU -> 0 .. NPROC]
        /\ plock \in CPU \cup {NoCPU} /\ tlock \in CPU \cup {NoCPU}
    BY DEF Modes
  <2>5. panicked \in BOOLEAN
    OBVIOUS
  <2> QED BY <2>1, <2>2, <2>3, <2>4, <2>5 DEF TypeOK
<1>2. CpuInv /\ StateInv /\ PlaceInv
  BY DEF CpuInv, StateInv, PlaceInv, SwitchedOut
<1>3. ForkInv /\ MemInv /\ TlockInv
  BY DEF ForkInv, MemInv, TlockInv, ForkPlaces, Alive
<1> QED BY <1>1, <1>2, <1>3 DEF IInv

\* No step of any CPU breaks the invariant.
LEMMA NextIInv == IInv /\ [Next]_vars => IInv'
<1> SUFFICES ASSUME IInv, [Next]_vars PROVE IInv'
  OBVIOUS
<1>1. CASE UNCHANGED vars
  BY <1>1 DEF vars, IInv, TypeOK, CpuInv, StateInv, PlaceInv, ForkInv, MemInv,
              TlockInv
<1>2. ASSUME NEW c \in CPU, KernelStep(c) PROVE IInv'
  BY <1>2, SyscallReturnStep, AllocprocFullStep, AllocprocStep,
     AllocKstackStep, CopyuvmStep, InheritTicketsStep, ForkRunnableStep,
     ExitPanicStep, ExitStep, WaitReapStep, WaitFailStep, WaitSleepStep,
     KillStep, SetticketsStep, SleepBeginStep, SleepReturnStep,
     SleepTestStep, SleepAcquireStep, SleepCommitStep, SleepWokenStep,
     SleepReacquireStep, ClockWakeupStep, TimerExitStep, YieldStep,
     YieldReturnStep, ForkretStep, SwtchStep, SchedAcquireStep,
     SchedRunStep, SchedReleaseStep
  DEF KernelStep
<1>3. ASSUME NEW c \in CPU, TimerStep(c) PROVE IInv'
  BY <1>3, ClockTickStep, TimerIntrStep DEF TimerStep
<1>4. ASSUME NEW c \in CPU, UserStep(c) PROVE IInv'
  BY <1>4, SyscallEnterStep, FaultStep DEF UserStep
<1> QED BY <1>1, <1>2, <1>3, <1>4 DEF Next, Panic

-----------------------------------------------------------------------------
(* The theorems                                                            *)

\* The invariant holds in every reachable state, for every number of slots,
\* CPUs and processes.
THEOREM Invariance == Spec => []IInv
<1>1. Init => IInv
  BY InitIInv
<1>2. IInv /\ [Next]_vars => IInv'
  BY NextIInv
<1> QED BY <1>1, <1>2, PTL DEF Spec

\* Type correctness: in particular the scheduler's scan never leaves the table
\* and fork()'s np is always a slot.
THEOREM TypesCorrect == Spec => []TypeOK
<1>1. IInv => TypeOK
  BY DEF IInv
<1> QED BY <1>1, Invariance, PTL

\* No two CPUs are ever on one kernel stack, and RUNNING tells the truth whenever
\* ptable.lock is free.
THEOREM OneCPUEach == Spec => []RunsOnOneCPU
<1>1. IInv => RunsOnOneCPU
  <2> SUFFICES ASSUME IInv PROVE RunsOnOneCPU
    OBVIOUS
  <2>1. \A c, d \in CPU : c # d /\ cproc[c] # Null => cproc[c] # cproc[d]
    BY DEF IInv, CpuInv
  <2>2. ASSUME plock = NoCPU
        PROVE  \A p \in Procs : state[p] = "RUNNING" <=> \E c \in CPU : cproc[c] = p
    <3>1. \A c \in CPU : mode[c] # "swtch"
      BY <2>2 DEF IInv, CpuInv
    <3>2. \A c \in CPU : cproc[c] # Null => state[cproc[c]] = "RUNNING"
      BY <3>1 DEF IInv, StateInv
    <3>3. \A p \in Procs : state[p] = "RUNNING" => \E c \in CPU : cproc[c] = p
      BY DEF IInv, StateInv
    <3> QED BY <3>2, <3>3
  <2> QED BY <2>1, <2>2 DEF RunsOnOneCPU
<1> QED BY <1>1, Invariance, PTL

\* The kernel stack and page table a CPU uses are never freed under it, although
\* wait() frees them on another CPU while exit() is still switching away.
THEOREM StackNotFreed == Spec => []StackInUse
<1>1. IInv => StackInUse
  <2> SUFFICES ASSUME IInv, NEW c \in CPU, cproc[c] # Null
               PROVE  mem[cproc[c]] = {"kstack", "pgdir"}
    BY DEF StackInUse
  <2>1. cproc[c] \in Procs
    BY DEF IInv, TypeOK
  <2>2. state[cproc[c]] \in Alive
    BY DEF IInv, StateInv, Alive
  <2> QED BY <2>1, <2>2 DEF IInv, MemInv
<1> QED BY <1>1, Invariance, PTL

\* sched() never panics: its checks of the lock, of the nesting depth and of the
\* process state hold at every call.
THEOREM SchedNeverPanics == Spec => []SchedAsserts
<1>1. IInv => SchedAsserts
  <2> SUFFICES ASSUME IInv, NEW c \in CPU, mode[c] = "swtch"
               PROVE  plock = c /\ tlock # c /\ state[cproc[c]] # "RUNNING"
    BY DEF SchedAsserts
  <2>1. plock = c /\ cproc[c] # Null
    BY DEF IInv, CpuInv
  <2>2. state[cproc[c]] # "RUNNING"
    BY <2>1 DEF IInv, StateInv
  <2>3. tlock # c
    BY DEF IInv, TlockInv
  <2> QED BY <2>1, <2>2, <2>3
<1> QED BY <1>1, Invariance, PTL

=============================================================================
