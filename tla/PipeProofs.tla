----------------------------- MODULE PipeProofs -----------------------------
(* Proofs about Pipe: any processes at the two ends, any size of buffer     *)
(* that divides the range of the counters, any length of call.              *)
EXTENDS Pipe, TLAPS

\* The places of a process that holds p->lock.
Inside == {"write", "write_sleep", "read", "read_sleep", "copy"}

\* p->lock excludes, and names the process inside.
LockInv == \A p \in User : pc[p] \in Inside <=> lock = p

\* Only a process with the write end is in pipewrite(), only one with the read
\* end in piperead(), and an end that some process has not closed is open.
EndInv ==
  /\ \A p \in User :
       /\ pc[p] \in {"write_lock", "write", "write_sleep", "write_asleep"} => p \in Writer
       /\ pc[p] \in {"read_lock", "read", "read_sleep", "read_asleep", "copy"} => p \in Reader
  /\ \A w \in Writer : pc[w] # "closed" => writeopen
  /\ \A r \in Reader : pc[r] # "closed" => readopen

\* What the loop tested still holds when sleep() is entered.
SleepInv ==
  \A p \in User : /\ pc[p] = "write_sleep" => Full /\ readopen
                  /\ pc[p] = "read_sleep" => Empty /\ writeopen

IInv ==
  /\ TypeOK
  /\ LockInv
  /\ EndInv
  /\ SleepInv
  /\ ReaderNotMissed
  /\ WriterNotMissed

-----------------------------------------------------------------------------
(* Arithmetic of the counters                                              *)

\* The number of bytes in the buffer.
Count == (nwrite - nread) % WRAP

\* The remainder is the only one in range.
LEMMA RemainderUnique ==
  ASSUME NEW n \in Nat \ {0}, NEW k \in Int, NEW r \in 0 .. n - 1
  PROVE  (n * k + r) % n = r
OBVIOUS

\* Multiples of the divisor do not change the remainder.
LEMMA RemainderShift ==
  ASSUME NEW n \in Nat \ {0}, NEW a \in Int, NEW k \in Int
  PROVE  (a + n * k) % n = a % n
<1> DEFINE r == a % n  d == a \div n
<1>1. r \in 0 .. n - 1 /\ d \in Int /\ a = n * d + r
  OBVIOUS
<1>2. d + k \in Int /\ a + n * k = n * (d + k) + r
  BY <1>1
<1>3. (n * (d + k) + r) % n = r
  <2> HIDE DEF r, d
  <2> QED BY <1>1, <1>2, RemainderUnique
<1> QED BY <1>2, <1>3

\* Numbers less than n apart have different remainders.
LEMMA RemainderDistinct ==
  ASSUME NEW n \in Nat \ {0}, NEW a \in Int, NEW b \in Int, a < b, b < a + n
  PROVE  a % n # b % n
<1> SUFFICES ASSUME a % n = b % n PROVE FALSE
  OBVIOUS
<1> DEFINE d == a \div n  e == b \div n
<1>1. d \in Int /\ e \in Int /\ a = n * d + (a % n) /\ b = n * e + (b % n)
  OBVIOUS
<1>2. b - a = n * (e - d)
  BY <1>1
<1>3. e - d <= 0 \/ e - d >= 1
  BY <1>1
<1>4. CASE e - d <= 0
  <2>1. n * (e - d) <= 0
    BY <1>1, <1>4
  <2> QED BY <1>2, <2>1
<1>5. CASE e - d >= 1
  <2>1. n * (e - d) >= n
    BY <1>1, <1>5
  <2> QED BY <1>2, <2>1
<1> QED BY <1>3, <1>4, <1>5

\* Sums and differences of two counters, and a step of one, modulo 2^32.
LEMMA WrapFacts ==
  ASSUME NEW a \in 0 .. WRAP - 1, NEW b \in 0 .. WRAP - 1
  PROVE  /\ (b - a) % WRAP = IF a <= b THEN b - a ELSE b - a + WRAP
         /\ (a + PIPESIZE) % WRAP =
              IF a + PIPESIZE < WRAP THEN a + PIPESIZE ELSE a + PIPESIZE - WRAP
         /\ (a + 1) % WRAP = IF a + 1 < WRAP THEN a + 1 ELSE 0
<1> DEFINE Red(x) == IF x < 0 THEN x + WRAP ELSE IF x < WRAP THEN x ELSE x - WRAP
<1>1. \A x \in Int : -WRAP <= x /\ x < 2 * WRAP => x % WRAP = Red(x)
  <2> SUFFICES ASSUME NEW x \in Int, -WRAP <= x, x < 2 * WRAP
               PROVE  x % WRAP = Red(x)
    OBVIOUS
  <2>0. WRAP \in Nat \ {0}
    BY PipeAssumption
  <2>1. CASE x < 0
    <3>1. (WRAP * (-1) + (x + WRAP)) % WRAP = x + WRAP
      BY <2>0, <2>1, RemainderUnique
    <3> QED BY <2>0, <2>1, <3>1
  <2>2. CASE x >= 0 /\ x < WRAP
    BY <2>0, <2>2
  <2>3. CASE x >= WRAP
    <3>1. (WRAP * 1 + (x - WRAP)) % WRAP = x - WRAP
      BY <2>0, <2>3, RemainderUnique
    <3> QED BY <2>0, <2>3, <3>1
  <2> QED BY <2>0, <2>1, <2>2, <2>3
<1> QED BY <1>1, PipeAssumption

\* Empty and Full in terms of the number of bytes.
LEMMA CountFacts ==
  ASSUME TypeOK
  PROVE  /\ Count \in 0 .. PIPESIZE
         /\ Count = IF nread <= nwrite THEN nwrite - nread ELSE nwrite - nread + WRAP
         /\ Empty <=> Count = 0
         /\ Full <=> Count = PIPESIZE
<1>0. /\ nread \in 0 .. WRAP - 1 /\ nwrite \in 0 .. WRAP - 1
      /\ Count <= PIPESIZE
      /\ PIPESIZE \in Nat \ {0} /\ WRAP \in Nat /\ WRAP > PIPESIZE
  BY PipeAssumption DEF TypeOK, Count
<1>1. Count = IF nread <= nwrite THEN nwrite - nread ELSE nwrite - nread + WRAP
  BY <1>0, WrapFacts DEF Count
<1>2. Full <=> nwrite = IF nread + PIPESIZE < WRAP THEN nread + PIPESIZE
                        ELSE nread + PIPESIZE - WRAP
  BY <1>0, WrapFacts DEF Full
<1> QED BY <1>0, <1>1, <1>2 DEF Empty

\* The byte written next goes where the last one read was.
LEMMA SlotFacts ==
  ASSUME TypeOK
  PROVE  /\ nwrite % PIPESIZE \in 0 .. PIPESIZE - 1
         /\ (nread + Count) % PIPESIZE = nwrite % PIPESIZE
         /\ \A i \in Int : (((nread + 1) % WRAP) + i) % PIPESIZE = (nread + 1 + i) % PIPESIZE
<1>0. PIPESIZE \in Nat \ {0} /\ nread \in Int /\ nwrite \in Int /\ WRAP \in Nat
  BY PipeAssumption DEF TypeOK
<1> DEFINE k == WRAP \div PIPESIZE
<1>1. k \in Int /\ WRAP = PIPESIZE * k
  BY PipeAssumption
<1> HIDE DEF k
<1>2. nwrite % PIPESIZE \in 0 .. PIPESIZE - 1
  BY <1>0
<1>3. nread + Count = nwrite \/ nread + Count = nwrite + PIPESIZE * k
  BY <1>0, <1>1, CountFacts
<1>4. (nwrite + PIPESIZE * k) % PIPESIZE = nwrite % PIPESIZE
  BY <1>0, <1>1, RemainderShift
<1>5. ASSUME NEW i \in Int
      PROVE  (((nread + 1) % WRAP) + i) % PIPESIZE = (nread + 1 + i) % PIPESIZE
  <2>1. (nread + 1) % WRAP = nread + 1 \/ (nread + 1) % WRAP = nread + 1 - WRAP
    BY WrapFacts, PipeAssumption DEF TypeOK
  <2>2. (nread + 1 + i + PIPESIZE * (-k)) % PIPESIZE = (nread + 1 + i) % PIPESIZE
    <3> DEFINE a == nread + 1 + i  m == -k
    <3>1. a \in Int /\ m \in Int
      BY <1>0, <1>1
    <3> HIDE DEF a, m
    <3>2. (a + PIPESIZE * m) % PIPESIZE = a % PIPESIZE
      BY <1>0, <3>1, RemainderShift
    <3> QED BY <3>2 DEF a, m
  <2>3. nread + 1 - WRAP + i = nread + 1 + i + PIPESIZE * (-k)
    BY <1>0, <1>1
  <2> QED BY <2>1, <2>2, <2>3
<1> QED BY <1>2, <1>3, <1>4, <1>5

-----------------------------------------------------------------------------
(* The inductive step, one lemma per action                                *)

\* A call of write(): only the caller's place and count change.
LEMMA WriteCallStep ==
  ASSUME IInv, NEW p \in User, NEW n \in 1 .. MAXN, WriteCall(p, n)
  PROVE  IInv'
<1> USE PipeAssumption DEF IInv, User, pipeVars, WriteCall, Goto
<1>1. TypeOK'
  BY DEF TypeOK, Places
<1>2. LockInv'
  BY DEF TypeOK, LockInv, Inside
<1>3. EndInv'
  BY DEF TypeOK, EndInv
<1>4. SleepInv'
  BY DEF TypeOK, LockInv, Inside, SleepInv, Full, Empty
<1>5. ReaderNotMissed'
  BY DEF TypeOK, LockInv, Inside, EndInv, SleepInv, ReaderNotMissed, Full, Empty
<1>6. WriterNotMissed'
  BY DEF TypeOK, LockInv, Inside, EndInv, SleepInv, WriterNotMissed, Full, Empty
<1> QED BY <1>1, <1>2, <1>3, <1>4, <1>5, <1>6

\* The lock was free, so nobody was inside.
LEMMA WriteAcquireStep ==
  ASSUME IInv, NEW p \in User, WriteAcquire(p)
  PROVE  IInv'
<1> USE PipeAssumption DEF IInv, User, pipeVars, WriteAcquire, Goto
<1>1. TypeOK'
  BY DEF TypeOK, Places
<1>2. LockInv'
  BY DEF TypeOK, LockInv, Inside
<1>3. EndInv'
  BY DEF TypeOK, EndInv
<1>4. SleepInv'
  BY DEF TypeOK, LockInv, Inside, SleepInv, Full, Empty
<1>5. ReaderNotMissed'
  BY DEF TypeOK, LockInv, Inside, EndInv, SleepInv, ReaderNotMissed, Full, Empty
<1>6. WriterNotMissed'
  BY DEF TypeOK, LockInv, Inside, EndInv, SleepInv, WriterNotMissed, Full, Empty
<1> QED BY <1>1, <1>2, <1>3, <1>4, <1>5, <1>6

\* pipewrite() returns -1: no reader is left to be asleep, or the writer is killed.
LEMMA WriteFailStep ==
  ASSUME IInv, NEW p \in User, WriteFail(p)
  PROVE  IInv'
<1> USE PipeAssumption DEF IInv, User, pipeVars, WriteFail, Goto
<1>1. TypeOK'
  BY DEF TypeOK, Places
<1>2. LockInv'
  BY DEF TypeOK, LockInv, Inside
<1>3. EndInv'
  BY DEF TypeOK, EndInv
<1>4. SleepInv'
  BY DEF TypeOK, LockInv, Inside, SleepInv, Full, Empty
<1>5. ReaderNotMissed'
  BY DEF TypeOK, LockInv, Inside, EndInv, SleepInv, ReaderNotMissed, Full, Empty
<1>6. WriterNotMissed'
  BY DEF TypeOK, LockInv, Inside, EndInv, SleepInv, WriterNotMissed, Full, Empty
<1> QED BY <1>1, <1>2, <1>3, <1>4, <1>5, <1>6

\* Full: every sleeping reader is woken before the writer goes to sleep.
LEMMA WriteWaitStep ==
  ASSUME IInv, NEW p \in User, WriteWait(p)
  PROVE  IInv'
<1> USE PipeAssumption DEF IInv, User, pipeVars, WriteWait, WakeReaders
<1>1. TypeOK'
  BY DEF TypeOK, Places
<1>2. LockInv'
  BY DEF TypeOK, LockInv, Inside
<1>3. EndInv'
  BY DEF TypeOK, EndInv
<1>4. SleepInv'
  BY DEF TypeOK, LockInv, Inside, SleepInv, Full, Empty
<1>5. ReaderNotMissed'
  BY DEF TypeOK, LockInv, Inside, EndInv, SleepInv, ReaderNotMissed, Full, Empty
<1>6. WriterNotMissed'
  BY DEF TypeOK, LockInv, Inside, EndInv, SleepInv, WriterNotMissed, Full, Empty
<1> QED BY <1>1, <1>2, <1>3, <1>4, <1>5, <1>6

\* The pipe is still full, so the sleep is not missed.
LEMMA WriteSleepStep ==
  ASSUME IInv, NEW p \in User, WriteSleep(p)
  PROVE  IInv'
<1> USE PipeAssumption DEF IInv, User, pipeVars, WriteSleep, Goto
<1>1. TypeOK'
  BY DEF TypeOK, Places
<1>2. LockInv'
  BY DEF TypeOK, LockInv, Inside
<1>3. EndInv'
  BY DEF TypeOK, EndInv
<1>4. SleepInv'
  BY DEF TypeOK, LockInv, Inside, SleepInv, Full, Empty
<1>5. ReaderNotMissed'
  BY DEF TypeOK, LockInv, Inside, EndInv, SleepInv, ReaderNotMissed, Full, Empty
<1>6. WriterNotMissed'
  BY DEF TypeOK, LockInv, Inside, EndInv, SleepInv, WriterNotMissed, Full, Empty
<1> QED BY <1>1, <1>2, <1>3, <1>4, <1>5, <1>6

\* The bytes are in: every sleeping reader is woken.
LEMMA WriteDoneStep ==
  ASSUME IInv, NEW p \in User, WriteDone(p)
  PROVE  IInv'
<1> USE PipeAssumption DEF IInv, User, pipeVars, WriteDone, DoneWakes, WakeReaders
<1>1. TypeOK'
  BY DEF TypeOK, Places
<1>2. LockInv'
  BY DEF TypeOK, LockInv, Inside
<1>3. EndInv'
  BY DEF TypeOK, EndInv
<1>4. SleepInv'
  BY DEF TypeOK, LockInv, Inside, SleepInv, Full, Empty
<1>5. ReaderNotMissed'
  BY DEF TypeOK, LockInv, Inside, EndInv, SleepInv, ReaderNotMissed, Full, Empty
<1>6. WriterNotMissed'
  BY DEF TypeOK, LockInv, Inside, EndInv, SleepInv, WriterNotMissed, Full, Empty
<1> QED BY <1>1, <1>2, <1>3, <1>4, <1>5, <1>6

\* A call of read(): only the caller's place and count change.
LEMMA ReadCallStep ==
  ASSUME IInv, NEW p \in User, NEW n \in 1 .. MAXN, ReadCall(p, n)
  PROVE  IInv'
<1> USE PipeAssumption DEF IInv, User, pipeVars, ReadCall, Goto
<1>1. TypeOK'
  BY DEF TypeOK, Places
<1>2. LockInv'
  BY DEF TypeOK, LockInv, Inside
<1>3. EndInv'
  BY DEF TypeOK, EndInv
<1>4. SleepInv'
  BY DEF TypeOK, LockInv, Inside, SleepInv, Full, Empty
<1>5. ReaderNotMissed'
  BY DEF TypeOK, LockInv, Inside, EndInv, SleepInv, ReaderNotMissed, Full, Empty
<1>6. WriterNotMissed'
  BY DEF TypeOK, LockInv, Inside, EndInv, SleepInv, WriterNotMissed, Full, Empty
<1> QED BY <1>1, <1>2, <1>3, <1>4, <1>5, <1>6

\* The lock was free, so nobody was inside.
LEMMA ReadAcquireStep ==
  ASSUME IInv, NEW p \in User, ReadAcquire(p)
  PROVE  IInv'
<1> USE PipeAssumption DEF IInv, User, pipeVars, ReadAcquire, Goto
<1>1. TypeOK'
  BY DEF TypeOK, Places
<1>2. LockInv'
  BY DEF TypeOK, LockInv, Inside
<1>3. EndInv'
  BY DEF TypeOK, EndInv
<1>4. SleepInv'
  BY DEF TypeOK, LockInv, Inside, SleepInv, Full, Empty
<1>5. ReaderNotMissed'
  BY DEF TypeOK, LockInv, Inside, EndInv, SleepInv, ReaderNotMissed, Full, Empty
<1>6. WriterNotMissed'
  BY DEF TypeOK, LockInv, Inside, EndInv, SleepInv, WriterNotMissed, Full, Empty
<1> QED BY <1>1, <1>2, <1>3, <1>4, <1>5, <1>6

\* piperead() returns -1 having moved nothing.
LEMMA ReadFailStep ==
  ASSUME IInv, NEW p \in User, ReadFail(p)
  PROVE  IInv'
<1> USE PipeAssumption DEF IInv, User, pipeVars, ReadFail, Goto
<1>1. TypeOK'
  BY DEF TypeOK, Places
<1>2. LockInv'
  BY DEF TypeOK, LockInv, Inside
<1>3. EndInv'
  BY DEF TypeOK, EndInv
<1>4. SleepInv'
  BY DEF TypeOK, LockInv, Inside, SleepInv, Full, Empty
<1>5. ReaderNotMissed'
  BY DEF TypeOK, LockInv, Inside, EndInv, SleepInv, ReaderNotMissed, Full, Empty
<1>6. WriterNotMissed'
  BY DEF TypeOK, LockInv, Inside, EndInv, SleepInv, WriterNotMissed, Full, Empty
<1> QED BY <1>1, <1>2, <1>3, <1>4, <1>5, <1>6

\* The pipe is empty and has a writer.
LEMMA ReadWaitStep ==
  ASSUME IInv, NEW p \in User, ReadWait(p)
  PROVE  IInv'
<1> USE PipeAssumption DEF IInv, User, pipeVars, ReadWait, Goto
<1>1. TypeOK'
  BY DEF TypeOK, Places
<1>2. LockInv'
  BY DEF TypeOK, LockInv, Inside
<1>3. EndInv'
  BY DEF TypeOK, EndInv
<1>4. SleepInv'
  BY DEF TypeOK, LockInv, Inside, SleepInv, Full, Empty
<1>5. ReaderNotMissed'
  BY DEF TypeOK, LockInv, Inside, EndInv, SleepInv, ReaderNotMissed, Full, Empty
<1>6. WriterNotMissed'
  BY DEF TypeOK, LockInv, Inside, EndInv, SleepInv, WriterNotMissed, Full, Empty
<1> QED BY <1>1, <1>2, <1>3, <1>4, <1>5, <1>6

\* The pipe is still empty and has a writer, so the sleep is not missed.
LEMMA ReadSleepStep ==
  ASSUME IInv, NEW p \in User, ReadSleep(p)
  PROVE  IInv'
<1> USE PipeAssumption DEF IInv, User, pipeVars, ReadSleep, Goto
<1>1. TypeOK'
  BY DEF TypeOK, Places
<1>2. LockInv'
  BY DEF TypeOK, LockInv, Inside
<1>3. EndInv'
  BY DEF TypeOK, EndInv
<1>4. SleepInv'
  BY DEF TypeOK, LockInv, Inside, SleepInv, Full, Empty
<1>5. ReaderNotMissed'
  BY DEF TypeOK, LockInv, Inside, EndInv, SleepInv, ReaderNotMissed, Full, Empty
<1>6. WriterNotMissed'
  BY DEF TypeOK, LockInv, Inside, EndInv, SleepInv, WriterNotMissed, Full, Empty
<1> QED BY <1>1, <1>2, <1>3, <1>4, <1>5, <1>6

\* From the waiting loop to the copying loop, under the lock.
LEMMA ReadReadyStep ==
  ASSUME IInv, NEW p \in User, ReadReady(p)
  PROVE  IInv'
<1> USE PipeAssumption DEF IInv, User, pipeVars, ReadReady, Goto
<1>1. TypeOK'
  BY DEF TypeOK, Places
<1>2. LockInv'
  BY DEF TypeOK, LockInv, Inside
<1>3. EndInv'
  BY DEF TypeOK, EndInv
<1>4. SleepInv'
  BY DEF TypeOK, LockInv, Inside, SleepInv, Full, Empty
<1>5. ReaderNotMissed'
  BY DEF TypeOK, LockInv, Inside, EndInv, SleepInv, ReaderNotMissed, Full, Empty
<1>6. WriterNotMissed'
  BY DEF TypeOK, LockInv, Inside, EndInv, SleepInv, WriterNotMissed, Full, Empty
<1> QED BY <1>1, <1>2, <1>3, <1>4, <1>5, <1>6

\* The bytes are out: every sleeping writer is woken.
LEMMA ReadDoneStep ==
  ASSUME IInv, NEW p \in User, ReadDone(p)
  PROVE  IInv'
<1> USE PipeAssumption DEF IInv, User, pipeVars, ReadDone, ReadWakes, WakeWriters
<1>1. TypeOK'
  BY DEF TypeOK, Places
<1>2. LockInv'
  BY DEF TypeOK, LockInv, Inside
<1>3. EndInv'
  BY DEF TypeOK, EndInv
<1>4. SleepInv'
  BY DEF TypeOK, LockInv, Inside, SleepInv, Full, Empty
<1>5. ReaderNotMissed'
  BY DEF TypeOK, LockInv, Inside, EndInv, SleepInv, ReaderNotMissed, Full, Empty
<1>6. WriterNotMissed'
  BY DEF TypeOK, LockInv, Inside, EndInv, SleepInv, WriterNotMissed, Full, Empty
<1> QED BY <1>1, <1>2, <1>3, <1>4, <1>5, <1>6

\* Back in trap(), outside of the lock.
LEMMA ReturnStep ==
  ASSUME IInv, NEW p \in User, Return(p)
  PROVE  IInv'
<1> USE PipeAssumption DEF IInv, User, pipeVars, Return, Goto
<1>1. TypeOK'
  BY DEF TypeOK, Places
<1>2. LockInv'
  BY DEF TypeOK, LockInv, Inside
<1>3. EndInv'
  BY DEF TypeOK, EndInv
<1>4. SleepInv'
  BY DEF TypeOK, LockInv, Inside, SleepInv, Full, Empty
<1>5. ReaderNotMissed'
  BY DEF TypeOK, LockInv, Inside, EndInv, SleepInv, ReaderNotMissed, Full, Empty
<1>6. WriterNotMissed'
  BY DEF TypeOK, LockInv, Inside, EndInv, SleepInv, WriterNotMissed, Full, Empty
<1> QED BY <1>1, <1>2, <1>3, <1>4, <1>5, <1>6

\* The last process of an end wakes the other end when it leaves.
LEMMA CloseStep ==
  ASSUME IInv, NEW p \in User, Close(p)
  PROVE  IInv'
<1> USE PipeAssumption DEF IInv, User, pipeVars, Close, Goto, LastOf, CloseWakes, WakeReaders, WakeWriters
<1>1. TypeOK'
  BY DEF TypeOK, Places
<1>2. LockInv'
  BY DEF TypeOK, LockInv, Inside
<1>3. EndInv'
  BY DEF TypeOK, EndInv
<1>4. SleepInv'
  BY DEF TypeOK, LockInv, Inside, SleepInv, Full, Empty
<1>5. ReaderNotMissed'
  BY DEF TypeOK, LockInv, Inside, EndInv, SleepInv, ReaderNotMissed, Full, Empty
<1>6. WriterNotMissed'
  BY DEF TypeOK, LockInv, Inside, EndInv, SleepInv, WriterNotMissed, Full, Empty
<1> QED BY <1>1, <1>2, <1>3, <1>4, <1>5, <1>6

\* kill() wakes only the process it marks.
LEMMA KillStep ==
  ASSUME IInv, NEW p \in User, Kill(p)
  PROVE  IInv'
<1> USE PipeAssumption DEF IInv, User, pipeVars, Kill, Goto
<1>1. TypeOK'
  BY DEF TypeOK, Places
<1>2. LockInv'
  BY DEF TypeOK, LockInv, Inside
<1>3. EndInv'
  BY DEF TypeOK, EndInv
<1>4. SleepInv'
  BY DEF TypeOK, LockInv, Inside, SleepInv, Full, Empty
<1>5. ReaderNotMissed'
  BY DEF TypeOK, LockInv, Inside, EndInv, SleepInv, ReaderNotMissed, Full, Empty
<1>6. WriterNotMissed'
  BY DEF TypeOK, LockInv, Inside, EndInv, SleepInv, WriterNotMissed, Full, Empty
<1> QED BY <1>1, <1>2, <1>3, <1>4, <1>5, <1>6

\* What PutByte does to the number of bytes and to their order.
LEMMA PutFacts ==
  ASSUME IInv, NEW p \in User, NEW b \in Byte, PutByte(p, b)
  PROVE  /\ nwrite' \in 0 .. WRAP - 1
         /\ Count < PIPESIZE /\ Count' = Count + 1
         /\ Contents' = Append(Contents, b)
<1> USE PipeAssumption
<1>0. TypeOK
  BY DEF IInv
<1>1. /\ nwrite' = (nwrite + 1) % WRAP /\ nread' = nread
      /\ data' = [data EXCEPT ![nwrite % PIPESIZE] = b]
  BY DEF PutByte, WriteSlot
<1>2. Count < PIPESIZE
  BY <1>0, CountFacts DEF PutByte
<1>3. nwrite' \in 0 .. WRAP - 1 /\ Count' = Count + 1
  <2>1. nread \in 0 .. WRAP - 1 /\ nwrite \in 0 .. WRAP - 1
    BY <1>0 DEF TypeOK
  <2>2. nwrite' = IF nwrite + 1 < WRAP THEN nwrite + 1 ELSE 0
    BY <2>1, <1>1, WrapFacts
  <2>3. nwrite' \in 0 .. WRAP - 1
    BY <2>1, <2>2
  <2>4. Count' = IF nread <= nwrite' THEN nwrite' - nread ELSE nwrite' - nread + WRAP
    BY <2>1, <2>3, <1>1, WrapFacts DEF Count
  <2> QED BY <2>1, <2>2, <2>3, <2>4, <1>0, <1>2, CountFacts
<1>4. Contents' = Append(Contents, b)
  <2> DEFINE c == Count  s(i) == (nread + i - 1) % PIPESIZE
  <2>1. c \in Nat /\ data \in [0 .. PIPESIZE - 1 -> Byte] /\ nread \in Int
    BY <1>0, CountFacts DEF TypeOK
  <2>2. Contents = [i \in 1 .. c |-> data[s(i)]]
    BY DEF Contents, Count
  <2>3. Contents' = [i \in 1 .. c + 1 |-> data'[s(i)]]
    BY <1>1, <1>3 DEF Contents, Count
  <2>4. s(c + 1) = nwrite % PIPESIZE
    BY <1>0, <2>1, SlotFacts
  <2>5. ASSUME NEW i \in 1 .. c
        PROVE  s(i) # nwrite % PIPESIZE /\ s(i) \in 0 .. PIPESIZE - 1
    <3>1. nread + i - 1 \in Int /\ nread + c \in Int
          /\ nread + i - 1 < nread + c /\ nread + c < nread + i - 1 + PIPESIZE
      BY <2>1, <1>2
    <3> DEFINE x == nread + i - 1  y == nread + c
    <3> HIDE DEF x, y
    <3>2. x % PIPESIZE # y % PIPESIZE /\ x % PIPESIZE \in 0 .. PIPESIZE - 1
      BY <3>1, RemainderDistinct DEF x, y
    <3>3. y % PIPESIZE = nwrite % PIPESIZE
      BY <1>0, SlotFacts DEF y
    <3> QED BY <3>2, <3>3 DEF x
  <2>6. data'[nwrite % PIPESIZE] = b
    BY <1>0, <1>1, <2>1, SlotFacts
  <2>7. \A i \in 1 .. c : data'[s(i)] = data[s(i)] /\ data[s(i)] \in Byte
    BY <2>1, <2>5, <1>1
  <2>8. Contents \in Seq(Byte) /\ Len(Contents) = c
    BY <2>1, <2>2, <2>7
  <2> HIDE DEF s, c
  <2> QED BY <2>1, <2>2, <2>3, <2>4, <2>6, <2>7, <2>8
<1> QED BY <1>2, <1>3, <1>4

\* What GetByte does to the number of bytes and to their order.
LEMMA GetFacts ==
  ASSUME IInv, NEW p \in User, GetByte(p)
  PROVE  /\ nread' \in 0 .. WRAP - 1
         /\ Count > 0 /\ Count' = Count - 1
         /\ Contents # <<>> /\ addr' = Head(Contents) /\ addr' \in Byte
         /\ Contents' = Tail(Contents)
<1> USE PipeAssumption
<1>0. TypeOK
  BY DEF IInv
<1>1. /\ nread' = (nread + 1) % WRAP /\ nwrite' = nwrite /\ data' = data
      /\ addr' = data[nread % PIPESIZE]
  BY DEF GetByte
<1>2. Count > 0 /\ Count \in Nat
  BY <1>0, CountFacts DEF GetByte
<1>3. nread' \in 0 .. WRAP - 1 /\ Count' = Count - 1
  <2>1. nread \in 0 .. WRAP - 1 /\ nwrite \in 0 .. WRAP - 1
    BY <1>0 DEF TypeOK
  <2>2. nread' = IF nread + 1 < WRAP THEN nread + 1 ELSE 0
    BY <2>1, <1>1, WrapFacts
  <2>3. nread' \in 0 .. WRAP - 1
    BY <2>1, <2>2
  <2>4. Count' = IF nread' <= nwrite THEN nwrite - nread' ELSE nwrite - nread' + WRAP
    BY <2>1, <2>3, <1>1, WrapFacts DEF Count
  <2> QED BY <2>1, <2>2, <2>3, <2>4, <1>0, <1>2, CountFacts
<1>4. /\ Contents # <<>> /\ addr' = Head(Contents) /\ addr' \in Byte
      /\ Contents' = Tail(Contents)
  <2> DEFINE c == Count  s(i) == (nread + i - 1) % PIPESIZE
  <2>1. c \in Nat /\ c > 0 /\ data \in [0 .. PIPESIZE - 1 -> Byte] /\ nread \in Int
    BY <1>0, <1>2 DEF TypeOK
  <2>2. Contents = [i \in 1 .. c |-> data[s(i)]]
    BY DEF Contents, Count
  <2>3. \A i \in Int : s(i) \in 0 .. PIPESIZE - 1 /\ data[s(i)] \in Byte
    BY <2>1
  <2>4. Contents' = [i \in 1 .. c - 1 |-> data[s(i + 1)]]
    <3>1. \A i \in Int : (((nread + 1) % WRAP) + i - 1) % PIPESIZE = s(i + 1)
      <4>1. ASSUME NEW i \in Int
            PROVE  (((nread + 1) % WRAP) + i - 1) % PIPESIZE = s(i + 1)
        <5>1. (((nread + 1) % WRAP) + (i - 1)) % PIPESIZE = (nread + 1 + (i - 1)) % PIPESIZE
          BY <1>0, SlotFacts
        <5>2. ((nread + 1) % WRAP) + (i - 1) = ((nread + 1) % WRAP) + i - 1
              /\ nread + 1 + (i - 1) = nread + (i + 1) - 1
          BY <1>1, <1>3, <2>1
        <5> QED BY <5>1, <5>2
      <4> QED BY <4>1
    <3>2. Contents' = [i \in 1 .. c - 1 |-> data[(((nread + 1) % WRAP) + i - 1) % PIPESIZE]]
      BY <1>1, <1>3 DEF Contents, Count
    <3> HIDE DEF s, c
    <3> QED BY <3>1, <3>2
  <2>5. s(1) = nread % PIPESIZE /\ data[s(1)] \in Byte
    BY <2>1, <2>3
  <2>6. Contents \in Seq(Byte) /\ Len(Contents) = c
    BY <2>1, <2>2, <2>3
  <2> HIDE DEF s, c
  <2>7. Contents # <<>> /\ Head(Contents) = data[s(1)]
    BY <2>1, <2>2, <2>6
  <2>8. Tail(Contents) = [i \in 1 .. c - 1 |-> data[s(i + 1)]]
    BY <2>1, <2>2, <2>6
  <2>9. Contents' = Tail(Contents)
    BY <2>4, <2>8, Zenon
  <2>10. addr' = Head(Contents) /\ addr' \in Byte
    BY <1>1, <2>5, <2>7, Zenon
  <2> QED BY <2>7, <2>9, <2>10
<1> QED BY <1>2, <1>3, <1>4

\* The pipe was not full, so no writer was asleep; a reader will be woken by p.
LEMMA PutByteStep ==
  ASSUME IInv, NEW p \in User, NEW b \in Byte, PutByte(p, b)
  PROVE  IInv'
<1>0. nwrite' \in 0 .. WRAP - 1 /\ Count < PIPESIZE /\ Count' = Count + 1
  BY PutFacts
<1>a. Count \in 0 .. PIPESIZE
  BY CountFacts DEF IInv
<1> USE PipeAssumption DEF IInv, User, PutByte
<1>1. TypeOK'
  <2>1. Count' <= PIPESIZE
    BY <1>0, <1>a
  <2>2. data' \in [0 .. PIPESIZE - 1 -> Byte]
    BY DEF TypeOK
  <2>3. left' \in [User -> 0 .. MAXN]
    BY DEF TypeOK
  <2> QED BY <1>0, <2>1, <2>2, <2>3 DEF TypeOK, Count
<1>2. LockInv'
  BY DEF LockInv
<1>3. EndInv'
  BY DEF EndInv
<1>4. SleepInv'
  BY DEF TypeOK, LockInv, Inside, SleepInv
<1>5. ReaderNotMissed'
  BY DEF LockInv, EndInv, Inside, ReaderNotMissed
<1>6. WriterNotMissed'
  BY DEF LockInv, Inside, WriterNotMissed
<1> QED BY <1>1, <1>2, <1>3, <1>4, <1>5, <1>6

\* The pipe was not empty, so no reader is asleep but for a killed writer's
\* silence; a writer will be woken by p.
LEMMA GetByteStep ==
  ASSUME IInv, NEW p \in User, GetByte(p)
  PROVE  IInv'
<1>0. /\ nread' \in 0 .. WRAP - 1 /\ Count > 0 /\ Count' = Count - 1
      /\ addr' \in Byte
  BY GetFacts
<1>a. Count \in 0 .. PIPESIZE
  BY CountFacts DEF IInv
<1> USE PipeAssumption DEF IInv, User, GetByte
<1>1. TypeOK'
  <2>1. Count' <= PIPESIZE
    BY <1>0, <1>a
  <2>2. left' \in [User -> 0 .. MAXN]
    BY DEF TypeOK
  <2> QED BY <1>0, <2>1, <2>2 DEF TypeOK, Count
<1>2. LockInv'
  BY DEF LockInv
<1>3. EndInv'
  BY DEF EndInv
<1>4. SleepInv'
  BY DEF TypeOK, LockInv, Inside, SleepInv
<1>5. ReaderNotMissed'
  BY DEF LockInv, Inside, ReaderNotMissed
<1>6. WriterNotMissed'
  BY DEF EndInv, LockInv, Inside, WriterNotMissed
<1> QED BY <1>1, <1>2, <1>3, <1>4, <1>5, <1>6

-----------------------------------------------------------------------------
(* The theorems                                                            *)

\* pipealloc() establishes the invariant.
LEMMA InitInv == Init => IInv
<1> SUFFICES ASSUME Init PROVE IInv
  OBVIOUS
<1> USE PipeAssumption DEF Init, User
<1>1. (nwrite - nread) % WRAP = 0
  OBVIOUS
<1>a. pc \in [User -> Places] /\ left \in [User -> 0 .. MAXN]
  BY DEF Places
<1>2. TypeOK
  <2>1. killed \in [User -> BOOLEAN]
    OBVIOUS
  <2>2. (nwrite - nread) % WRAP <= PIPESIZE
    BY <1>1
  <2>3. nread \in 0 .. WRAP - 1 /\ nwrite \in 0 .. WRAP - 1
    OBVIOUS
  <2> QED BY <1>a, <2>1, <2>2, <2>3 DEF TypeOK
<1>3. LockInv /\ EndInv /\ SleepInv
  BY DEF LockInv, Inside, EndInv, SleepInv
<1>4. ReaderNotMissed /\ WriterNotMissed
  BY DEF ReaderNotMissed, WriterNotMissed
<1> QED BY <1>2, <1>3, <1>4 DEF IInv

\* Every step preserves the invariant.
LEMMA NextInv == IInv /\ [Next]_vars => IInv'
<1> SUFFICES ASSUME IInv, [Next]_vars PROVE IInv'
  OBVIOUS
<1>1. CASE UNCHANGED vars
  BY <1>1 DEF vars, pipeVars, IInv, TypeOK, LockInv, EndInv, SleepInv,
              ReaderNotMissed, WriterNotMissed, Full, Empty
<1>2. ASSUME NEW p \in User, KernelStep(p)
      PROVE  IInv'
  BY <1>2, WriteAcquireStep, PutByteStep, WriteFailStep, WriteWaitStep, WriteSleepStep,
     WriteDoneStep, ReadAcquireStep, ReadFailStep, ReadWaitStep, ReadSleepStep,
     ReadReadyStep, GetByteStep, ReadDoneStep, ReturnStep
     DEF KernelStep
<1>3. ASSUME NEW p \in User, Close(p) \/ Kill(p)
      PROVE  IInv'
  BY <1>3, CloseStep, KillStep
<1>4. ASSUME NEW p \in User, NEW n \in 1 .. MAXN, WriteCall(p, n) \/ ReadCall(p, n)
      PROVE  IInv'
  BY <1>4, WriteCallStep, ReadCallStep
<1> QED BY <1>1, <1>2, <1>3, <1>4 DEF Next, Finished

\* The inductive invariant holds in every reachable state: pipewrite(),
\* piperead() and pipeclose() keep the lock, the two ends and the counters in
\* step however their callers interleave and are killed.
THEOREM Invariance == Spec => []IInv
BY InitInv, NextInv, PTL DEF Spec

\* Every variable keeps its type, and the counters, wrapping at 2^32, are never
\* more than PIPESIZE apart.
THEOREM TypeCorrect == Spec => []TypeOK
<1>1. IInv => TypeOK
  BY DEF IInv
<1> QED BY <1>1, Invariance, PTL

\* No wakeup(&p->nread) is missed: a reader sleeps in piperead() only while the
\* pipe is empty and has a writer, or the wakeup is still to come, or was left
\* out by a killed writer.
THEOREM NoReaderMissed == Spec => []ReaderNotMissed
<1>1. IInv => ReaderNotMissed
  BY DEF IInv
<1> QED BY <1>1, Invariance, PTL

\* No wakeup(&p->nwrite) is missed: a writer sleeps in pipewrite() only while
\* the pipe is full and has a reader, or the wakeup is still to come.
THEOREM NoWriterMissed == Spec => []WriterNotMissed
<1>1. IInv => WriterNotMissed
  BY DEF IInv
<1> QED BY <1>1, Invariance, PTL

\* Every step of the pipe puts a byte into the queue, takes one out of it, or
\* leaves the queue and the last byte read alone.
LEMMA FifoStep ==
  IInv /\ [Next]_vars => [(\E b \in Byte : F!Put(b)) \/ F!Get]_<<Contents, addr>>
<1> SUFFICES ASSUME IInv, Next,
                    ~(UNCHANGED <<nread, nwrite, data, addr>>)
             PROVE  (\E b \in Byte : F!Put(b)) \/ F!Get
  BY DEF vars, pipeVars, Contents
<1>1. \/ \E p \in User : \E b \in Byte : PutByte(p, b)
      \/ \E p \in User : GetByte(p)
  BY DEF Next, Finished, KernelStep, vars, pipeVars, WriteAcquire, WriteFail, WriteWait,
         WriteSleep, WriteDone, ReadAcquire, ReadFail, ReadWait, ReadSleep, ReadReady,
         ReadDone, Return, Close, Kill, WriteCall, ReadCall
<1>2. ASSUME NEW p \in User, NEW b \in Byte, PutByte(p, b)
      PROVE  F!Put(b)
  <2>1. Count < PIPESIZE /\ Contents' = Append(Contents, b)
    BY <1>2, PutFacts
  <2>2. Count \in Nat /\ Contents = [i \in 1 .. Count |-> data[(nread + i - 1) % PIPESIZE]]
    BY CountFacts DEF IInv, Contents, Count
  <2>3. Len(Contents) = Count
    BY <2>2
  <2> QED BY <1>2, <2>1, <2>3 DEF F!Put, PutByte
<1>3. ASSUME NEW p \in User, GetByte(p)
      PROVE  F!Get
  BY <1>3, GetFacts DEF F!Get
<1> QED BY <1>1, <1>2, <1>3

\* The pipe implements a FIFO queue of PIPESIZE bytes: no byte is lost, read
\* twice or read out of order, also after the counters have wrapped around.
THEOREM PipeIsFifo == Spec => ImplementsFifo
<1>1. Init => F!FifoInit
  <2> SUFFICES ASSUME Init PROVE F!FifoInit
    OBVIOUS
  <2>1. (nwrite - nread) % WRAP = 0
    BY PipeAssumption DEF Init
  <2>2. Contents = <<>>
    BY <2>1 DEF Contents
  <2> QED BY <2>2 DEF Init, F!FifoInit
<1> QED BY <1>1, Invariance, FifoStep, PTL DEF Spec, ImplementsFifo, F!FifoSpec
=============================================================================
