-------------------------------- MODULE Pipe --------------------------------
(***************************************************************************)
(* A pipe (pipe.c) between processes that share its two ends, with the     *)
(* sleep(), wakeup() and kill() of proc.c.                                 *)
(*                                                                         *)
(* p->lock is a variable.  A step is what the holder of the lock does up   *)
(* to the next point where kill() or another process can tell: one byte    *)
(* copied, one test of the loop, one call of sleep() or wakeup().          *)
(***************************************************************************)
EXTENDS Integers, Sequences

CONSTANTS
  Reader, Writer,  \* processes with the read end, with the write end, open
  Free,            \* the holder of a free lock
  Byte,
  PIPESIZE,
  WRAP,            \* 2^32: the range of uint
  MAXN             \* bound: the largest count handed to read() and write()

ASSUME PipeAssumption ==
  /\ Reader \cap Writer = {}
  /\ Free \notin Reader \cup Writer
  /\ PIPESIZE \in Nat \ {0}
  /\ WRAP \in Nat /\ WRAP > PIPESIZE
  /\ WRAP % PIPESIZE = 0
  /\ MAXN \in Nat \ {0}

User == Reader \cup Writer

VARIABLES
  data, nread, nwrite, readopen, writeopen,   \* struct pipe
  freed,      \* kfree(p) has been called
  lock,       \* the holder of p->lock
  pc, left,   \* each process: its place, and n - i
  killed,
  addr        \* the byte that piperead stored last

pipeVars == <<data, nread, nwrite, readopen, writeopen, freed>>
vars == <<pipeVars, lock, pc, left, killed, addr>>

\* "write"/"copy": in the loop that moves bytes, "read": in the loop that waits
\* for them; "_sleep": past the test, about to sleep; "_asleep": SLEEPING;
\* "_lock": spinning for p->lock; "ret": back in trap(); "closed": end closed.
Places == {"idle", "write_lock", "write", "write_sleep", "write_asleep",
           "read_lock", "read", "read_sleep", "read_asleep", "copy",
           "ret", "exit", "closed"}

\* pipealloc() succeeded; kalloc'd memory holds anything.
Init ==
  /\ data \in [0 .. PIPESIZE - 1 -> Byte]
  /\ nread = 0 /\ nwrite = 0
  /\ readopen = TRUE /\ writeopen = TRUE
  /\ freed = FALSE
  /\ lock = Free
  /\ pc = [p \in User |-> "idle"]
  /\ left = [p \in User |-> 0]
  /\ killed = [p \in User |-> FALSE]
  /\ addr \in Byte

Goto(p, l) == pc' = [pc EXCEPT ![p] = l]

\* wakeup(&p->nread) and wakeup(&p->nwrite), with p's own move to l.
WakeReaders(p, l) ==
  [r \in User |-> IF r = p THEN l
                  ELSE IF pc[r] = "read_asleep" THEN "read_lock" ELSE pc[r]]
WakeWriters(p, l) ==
  [w \in User |-> IF w = p THEN l
                  ELSE IF pc[w] = "write_asleep" THEN "write_lock" ELSE pc[w]]

Full == nwrite = (nread + PIPESIZE) % WRAP
Empty == nread = nwrite

-----------------------------------------------------------------------------
(* pipewrite()                                                             *)

WriteCall(p, n) ==
  /\ pc[p] = "idle" /\ p \in Writer
  /\ left' = [left EXCEPT ![p] = n]
  /\ Goto(p, "write_lock")
  /\ UNCHANGED <<pipeVars, lock, killed, addr>>

WriteAcquire(p) ==
  /\ pc[p] = "write_lock" /\ lock = Free
  /\ lock' = p
  /\ Goto(p, "write")
  /\ UNCHANGED <<pipeVars, left, killed, addr>>

\* Mutant of WriteSlot: ++nwrite for nwrite++.
WriteSlotPre == (nwrite + 1) % PIPESIZE

\* p->nwrite++ % PIPESIZE
WriteSlot == nwrite % PIPESIZE

PutByte(p, b) ==
  /\ pc[p] = "write" /\ left[p] > 0 /\ ~Full
  /\ data' = [data EXCEPT ![WriteSlot] = b]
  /\ nwrite' = (nwrite + 1) % WRAP
  /\ left' = [left EXCEPT ![p] = @ - 1]
  /\ UNCHANGED <<nread, readopen, writeopen, freed, lock, pc, killed, addr>>

\* Full, and no reader is left or the writer has been killed: return -1.
WriteFail(p) ==
  /\ pc[p] = "write" /\ left[p] > 0 /\ Full
  /\ ~readopen \/ killed[p]
  /\ lock' = Free
  /\ Goto(p, "ret")
  /\ UNCHANGED <<pipeVars, left, killed, addr>>

\* Full: wake the readers, and then sleep.
WriteWait(p) ==
  /\ pc[p] = "write" /\ left[p] > 0 /\ Full
  /\ readopen /\ ~killed[p]
  /\ pc' = WakeReaders(p, "write_sleep")
  /\ UNCHANGED <<pipeVars, lock, left, killed, addr>>

\* sleep(&p->nwrite, &p->lock), up to the switch.
WriteSleep(p) ==
  /\ pc[p] = "write_sleep"
  /\ lock' = Free
  /\ Goto(p, "write_asleep")
  /\ UNCHANGED <<pipeVars, left, killed, addr>>

\* pipewrite-wakeup1
DoneWakes(p) == WakeReaders(p, "ret")

WriteDone(p) ==
  /\ pc[p] = "write" /\ left[p] = 0
  /\ pc' = DoneWakes(p)
  /\ lock' = Free
  /\ UNCHANGED <<pipeVars, left, killed, addr>>

-----------------------------------------------------------------------------
(* piperead()                                                              *)

ReadCall(p, n) ==
  /\ pc[p] = "idle" /\ p \in Reader
  /\ left' = [left EXCEPT ![p] = n]
  /\ Goto(p, "read_lock")
  /\ UNCHANGED <<pipeVars, lock, killed, addr>>

ReadAcquire(p) ==
  /\ pc[p] = "read_lock" /\ lock = Free
  /\ lock' = p
  /\ Goto(p, "read")
  /\ UNCHANGED <<pipeVars, left, killed, addr>>

\* Nothing to read, and killed: return -1.
ReadFail(p) ==
  /\ pc[p] = "read" /\ Empty /\ writeopen /\ killed[p]
  /\ lock' = Free
  /\ Goto(p, "ret")
  /\ UNCHANGED <<pipeVars, left, killed, addr>>

\* Nothing to read: call sleep().
ReadWait(p) ==
  /\ pc[p] = "read" /\ Empty /\ writeopen /\ ~killed[p]
  /\ Goto(p, "read_sleep")
  /\ UNCHANGED <<pipeVars, lock, left, killed, addr>>

\* sleep(&p->nread, &p->lock), up to the switch.
ReadSleep(p) ==
  /\ pc[p] = "read_sleep"
  /\ lock' = Free
  /\ Goto(p, "read_asleep")
  /\ UNCHANGED <<pipeVars, left, killed, addr>>

\* Bytes, or the end of the file.
ReadReady(p) ==
  /\ pc[p] = "read" /\ ~(Empty /\ writeopen)
  /\ Goto(p, "copy")
  /\ UNCHANGED <<pipeVars, lock, left, killed, addr>>

GetByte(p) ==
  /\ pc[p] = "copy" /\ left[p] > 0 /\ ~Empty
  /\ addr' = data[nread % PIPESIZE]
  /\ nread' = (nread + 1) % WRAP
  /\ left' = [left EXCEPT ![p] = @ - 1]
  /\ UNCHANGED <<data, nwrite, readopen, writeopen, freed, lock, pc, killed>>

\* Mutant of ReadWakes: the writers are left asleep.
ReadSilent(p) == [pc EXCEPT ![p] = "ret"]

ReadWakes(p) == WakeWriters(p, "ret")

ReadDone(p) ==
  /\ pc[p] = "copy" /\ (left[p] = 0 \/ Empty)
  /\ pc' = ReadWakes(p)
  /\ lock' = Free
  /\ UNCHANGED <<pipeVars, left, killed, addr>>

-----------------------------------------------------------------------------
(* trap(), fileclose() and pipeclose(), kill()                             *)

\* The system call returns; a killed process exits instead.
Return(p) ==
  /\ pc[p] = "ret"
  /\ Goto(p, IF killed[p] THEN "exit" ELSE "idle")
  /\ left' = [left EXCEPT ![p] = 0]
  /\ UNCHANGED <<pipeVars, lock, killed, addr>>

\* p's reference is the last one to its end of the pipe.
LastOf(S, p) == \A r \in S \ {p} : pc[r] = "closed"

\* Mutant of CloseWakes: the processes at the other end are left asleep.
CloseSilent(p) == [pc EXCEPT ![p] = "closed"]

\* The wakeup of pipeclose().
CloseWakes(p) ==
  IF p \in Writer THEN WakeReaders(p, "closed") ELSE WakeWriters(p, "closed")

\* close(), or exit()'s: the last fileclose() of an end calls pipeclose().
Close(p) ==
  /\ pc[p] \in {"idle", "exit"} /\ lock = Free
  /\ IF LastOf(IF p \in Writer THEN Writer ELSE Reader, p)
     THEN /\ writeopen' = (writeopen /\ p \notin Writer)
          /\ readopen' = (readopen /\ p \notin Reader)
          /\ freed' = (~readopen' /\ ~writeopen')
          /\ pc' = CloseWakes(p)
     ELSE /\ Goto(p, "closed")
          /\ UNCHANGED <<writeopen, readopen, freed>>
  /\ UNCHANGED <<data, nread, nwrite, lock, left, killed, addr>>

\* kill(): sets the flag and wakes the process if it sleeps.
Kill(p) ==
  /\ ~killed[p] /\ pc[p] # "closed"
  /\ killed' = [killed EXCEPT ![p] = TRUE]
  /\ Goto(p, IF pc[p] = "read_asleep" THEN "read_lock"
             ELSE IF pc[p] = "write_asleep" THEN "write_lock" ELSE pc[p])
  /\ UNCHANGED <<pipeVars, lock, left, addr>>

\* Everybody has closed the pipe.
Finished == freed /\ UNCHANGED vars

-----------------------------------------------------------------------------
\* Kernel steps of p; they need the lock, or hold it.
KernelStep(p) ==
  \/ WriteAcquire(p) \/ (\E b \in Byte : PutByte(p, b))
  \/ WriteFail(p) \/ WriteWait(p) \/ WriteSleep(p) \/ WriteDone(p)
  \/ ReadAcquire(p) \/ ReadFail(p) \/ ReadWait(p) \/ ReadSleep(p)
  \/ ReadReady(p) \/ GetByte(p) \/ ReadDone(p)
  \/ Return(p)

Next ==
  \/ \E p \in User :
       \/ KernelStep(p) \/ Close(p) \/ Kill(p)
       \/ \E n \in 1 .. MAXN : WriteCall(p, n) \/ ReadCall(p, n)
  \/ Finished

Spec == Init /\ [][Next]_vars

-----------------------------------------------------------------------------
(* Properties                                                              *)

\* Every variable has its type; a full pipe never wraps onto itself.
TypeOK ==
  /\ data \in [0 .. PIPESIZE - 1 -> Byte]
  /\ nread \in 0 .. WRAP - 1 /\ nwrite \in 0 .. WRAP - 1
  /\ (nwrite - nread) % WRAP <= PIPESIZE
  /\ readopen \in BOOLEAN /\ writeopen \in BOOLEAN /\ freed \in BOOLEAN
  /\ lock \in User \cup {Free}
  /\ pc \in [User -> Places]
  /\ left \in [User -> 0 .. MAXN]
  /\ killed \in [User -> BOOLEAN]
  /\ addr \in Byte

\* The bytes in the buffer, oldest first.
Contents ==
  [i \in 1 .. (nwrite - nread) % WRAP |-> data[(nread + i - 1) % PIPESIZE]]

\* The pipe is a FIFO queue of PIPESIZE bytes, also when the counters have
\* wrapped around 2^32 and whatever processes share its ends.
F == INSTANCE Fifo WITH Capacity <- PIPESIZE, q <- Contents, out <- addr
ImplementsFifo == F!FifoSpec

\* No reader is left asleep: while one is, the pipe is empty and has a writer,
\* or a writer holds the lock and is still to call wakeup(&p->nread).  A killed
\* writer is the exception: pipewrite() returns -1 from line 88 without it.
ReaderNotMissed ==
  (\E r \in Reader : pc[r] = "read_asleep") =>
    /\ writeopen
    /\ \/ Empty
       \/ \E w \in Writer : (lock = w /\ pc[w] = "write") \/ killed[w]

\* No writer is left asleep: while one is, the pipe is full and has a reader,
\* or a reader holds the lock and is still to call wakeup(&p->nwrite).
WriterNotMissed ==
  (\E w \in Writer : pc[w] = "write_asleep") =>
    /\ readopen
    /\ Full \/ \E r \in Reader : lock = r /\ pc[r] = "copy"
=============================================================================
