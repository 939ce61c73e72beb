# A TLA+ model of the xv6 kernel with process tickets

The repository is xv6, a small Unix-like kernel for x86 multiprocessors, with a
laboratory exercise on top: every process has a number of *tickets*
(`settickets`), children inherit them, and `getpinfo` reports them together
with the ticks each process has used. The scheduler is still the round-robin
of xv6.

This directory holds TLA+ modules for the parts of the system whose
correctness depends on interleavings, interrupts, crashes, failures half-way
and wakeups, the TLC configurations that check them, and TLAPS proofs about the
modules that everything else rests on: the process table, the spinlocks, the
pipes, the buffer cache and the redo log.

## 1. Inventory

| part | source | state | operations | what is hard | what makes it correct |
|---|---|---|---|---|---|
| process table, scheduler | `proc.c`, `sysproc.c`, `trap.c` | `ptable` (state, pid, parent, chan, killed, tickets, kstack, pgdir), `nextpid`, `cpu->proc` | fork, exit, wait, kill, sleep, wakeup, yield, sched, scheduler, settickets, getpinfo | `ptable.lock` changes hands in `swtch`; wait frees the stack of an exiting process; lost wakeups; orphans; failures half-way through fork | one CPU per process, no stack freed in use, every ZOMBIE reaped, no starvation |
| spinlocks | `spinlock.c` | `locked`, `cpu`, `ncli`, `intena`, the interrupt flag | acquire, release, holding, pushcli, popcli | interrupts inside critical sections; the owner field is written after the lock; `intena` is per CPU but belongs to a thread | mutual exclusion, no self-deadlock, interrupts restored |
| redo log | `log.c` | on-disk header and log blocks, `log.lh`, `outstanding`, `committing` | begin_op, end_op, log_write, commit, recovery | crashes between any two writes; concurrent operations in one transaction; space reserved in advance | a group of operations is durable as a whole or not at all; no overflow; no forgotten sleeper |
| pipes | `pipe.c` | ring buffer, `nread`, `nwrite`, `readopen`, `writeopen` | read, write, close, kill | several processes per end; both ends asleep; kill during sleep; counters wrap | FIFO, nobody sleeps without a reason |
| buffer cache, sleep-locks, disk driver | `bio.c`, `sleeplock.c`, `ide.c` | LRU list, reference counts, B_VALID/B_DIRTY, request queue | bget, bread, bwrite, brelse, iderw, ideintr | a sleeper holds only a reference; completion by interrupt | one buffer per block; a request completes once |
| inodes, directories, path names | `fs.c`, `sysfile.c` | inode cache (ref, valid, type, nlink, lock), inodes and directories on disk, `cwd` | iget, ilock, iput, ialloc, dirlookup, dirlink, namex; open, mkdir, mknod, link, unlink, chdir | iput against iget; locks given up and taken again in the middle of a call; several calls in one transaction; crashes | references exact, an inode freed only when nobody has it, link counts right after every crash, no deadlock |
| contents of files | `fs.c`, `file.c` | bitmap, `addrs`, indirect block, size, offset of open files | balloc, bfree, bmap, itrunc, readi, writei, fileread, filewrite | allocation and truncation of different files interleave; shared offsets; a full disk | a block has one owner; a file is a sequence of bytes |
| file table | `file.c`, `sysfile.c` | `ftable`, `ofile` | filealloc, filedup, fileclose, dup, close, pipe | references shared over fork; last close outside the lock; pipe failing half-way | references exact, a pipe end open as long as a file is |
| memory | `kalloc.c`, `vm.c`, `exec.c`, `syscall.c` | free list, page tables, `sz`, `cr3` | kalloc, kfree, allocuvm, deallocuvm, copyuvm, exec, sbrk, argument checks | failure at any allocation; a page table in use; sizes that wrap or are 0 | a page has one owner; exactly the pages below `sz` are mapped |
| shell, init | `sh.c`, `init.c`, `cat.c`, `echo.c` | command tree, descriptors of a pipeline | parsecmd, runcmd, main | copies of pipe ends in several processes; forks that fail | the prompt returns; a line means what its syntax says |
| console | `console.c`, `kbd.c`, `uart.c` | input ring with three indices | consoleintr, consoleread | line editing against a reader; a full ring | no input overwritten before it is read |
| start-up, interrupt controllers, boot | `main.c`, `mp.c`, `lapic.c`, ... | hardware | run once | - | - |
| `mkfs` | `mkfs.c` | the disk image | ialloc, iappend | - | the initial states of the file-system modules |
| other user programs | `usertests.c`, `ls.c`, ... | - | clients of the kernel | - | - |

The components meet in five places: every kernel part uses spinlocks; every
part that waits calls `sleep`/`wakeup` of the process table; the file system
reaches the disk only through the buffer cache and the log; `fork`, `exit` and
`exec` go through the process table, the file table, the inodes and memory;
the timer interrupt drives `wakeup(&ticks)` and `yield` from any code that
holds no spinlock.

`PROJECT.json` lists the components with their status, the hazards line by
line, and for each definition the source lines it models.

## 2. Modules

| module | models | kind |
|---|---|---|
| `Proc` | `proc.c`, `sysproc.c`, the system-call and timer paths of `trap.c` | state machine |
| `Spinlock` | `spinlock.c`, `sched`/`scheduler` as far as interrupts and locks go, the gates of `trap.c` | state machine |
| `Log` | `log.c` over cache and disk | state machine, refines `TxDisk` |
| `TxDisk` | what `log.c` promises: an atomic, durable disk | abstract specification |
| `Pipe` | `pipe.c`, with `sleep`, `wakeup`, `kill` and the last `fileclose` | state machine, refines `Fifo` |
| `Fifo` | what a pipe promises: a bounded queue | abstract specification |
| `BufCache` | `bio.c`, `sleeplock.c`, the request queue and interrupt of `ide.c` | state machine, refines `BlockStore` |
| `BlockStore` | what `bio.c` promises: blocks with one holder at a time | abstract specification |
| `FileSys` | inode cache, directories and path names of `fs.c` under the calls of `sysfile.c`, on the disk that `TxDisk` promises | state machine |
| `FileSysLinks` | nothing more of the code: `FileSys` with a history of the names that were lost, for `LinksCounted` | history variables |
| `FileData` | block allocation, `bmap`, `itrunc`, `readi`, `writei` of `fs.c` under `file.c` | state machine, refines `ByteFile` |
| `ByteFile` | what `read` and `write` promise: sequences of bytes and shared offsets | abstract specification |
| `Memory` | `kalloc.c`, `vm.c`, the address-space part of `exec.c`, `growproc`, the argument checks of `syscall.c` | state machine |
| `FileTable` | `file.c`, descriptors, `pipealloc`, `pipeclose`, `fork`/`exit`/`wait` as far as files go | component of `Shell` |
| `Shell` | `init.c`, `sh.c` with its parser, `cat`, `echo`, composed with `FileTable` | state machine |
| `MCProc`, `MCSpinlock`, `MCLog`, `MCPipe`, `MCBufCache`, `MCFileSys`, `MCFileData`, `MCMemory`, `MCShell` | small instances for TLC | |
| `ProcProofs`, `ProcFamilyProofs`, `SpinlockProofs`, `PipeProofs`, `BufCacheProofs`, `LogProofs`, `MemoryProofs`, `FileSysProofs` | theorems and proofs | |

In every module the definitions named "Mutant of X" are faults seeded on
purpose: TLC has to find a violation when X is replaced by one of them, which
shows that the property can fail. No specification uses them.

### Proc

The variables are the columns of `ptable.proc`, the per-CPU `cpu->proc`, and
for each process the place its kernel thread is at. `plock` and `tlock` are the
CPUs that hold `ptable.lock` and `tickslock`. An action is one critical section
or one unlocked write: `Allocproc` is the locked part of `allocproc`,
`AllocKstack` what follows it without the lock, and so on; the failures of
`kalloc` and `copyuvm` are nondeterministic choices. `mode[c]` says whether CPU
`c` is in the scheduler, runs a process, is on its way into `swtch` while still
on the process's stack, or is inside the timer interrupt. `mem` records which
of the kernel stack and the page table a slot owns.

The first call of `forkret` also runs `iinit` and `initlog`: they begin `FileSys`
and `Log`. `left` is `n - (ticks - ticks0)` of `sys_sleep`, so the clock itself does not
grow. Not in this module: open files and the current directory (`FileSys`,
`FileTable`), `sbrk` (`Memory`), `getpid`, `uptime`.

### Spinlock

A context is a kernel thread or the scheduler of a CPU. One step is one access
to shared memory: the `xchg`, the store of the owner, its clearing, the store
that unlocks. A thread may hold any one lock, `ptable.lock` inside it, as
`sleep` and `wakeup` do, and `kmem.lock` inside `ptable.lock`, as `kfree` in `wait`
does. That `sched` is called with `ptable.lock` alone is a guard here; that its
callers do so is `SchedAsserts` of `Proc`. A thread is interrupted wherever the
interrupt flag is on,
the handler takes locks too and may itself end in `sched` (that is `yield`),
and a thread resumes on any CPU. Memory is sequentially consistent; the
barriers of `acquire` and `release` are what makes that a fair model.

### Log

A block's content is the number of the operation that wrote it last, so lost
and partial updates can be told apart. One step is one critical section of
`log.lock` or one `bwrite`; a crash can come between any two and throws all of
memory away, during recovery too. The buffer cache is there only as the set of
cached blocks, the dirty ones, and the freedom to recycle any other. The log
area has `SIZE - 1` blocks, one less than `log.size`, as on the disk.

### Pipe

Processes of `Reader` and `Writer` share the two ends. `p->lock` is a variable;
`kill` does not need it, which matters between the test of `killed` and
`sleep`. `uint` counters are reduced modulo `WRAP`, a small multiple of
`PIPESIZE` as 2^32 is of 512.

### BufCache

The variables are the fields of `struct buf`, the LRU list, the queue of
`ide.c` with the command the disk is busy with, and for each process where it
is in `bread`, `bwrite` or `brelse`, which buffer it is at (`tgt`), and which
buffers it has locked (`mine`). One step is one critical section of
`bcache.lock`, of a sleep-lock's spinlock, or of `idelock`. A command takes its
data at `idestart`, as `outsl` does, and completes at the interrupt; with
`DiskErrors` it may fail. `log_write` appears as what it does to a buffer: the
contents change and `B_DIRTY` pins it. A process may lock `HOLDS` buffers, in
the order of their numbers: the callers lock a log block before its home block
and an indirect block before the bitmap, never the other way round.

### FileSys

`dinode` is the disk as the running transaction sees it, `committed` as the last
commit left it; a crash goes back to the second and empties memory, which is
what `TxDisk` promises of the log. A process inside a call has a list of frames
(`todo`): a function that calls another puts the callee's frame in front of its
own rest. A step ends where another process can get in the way: it takes at
most one inode's sleep-lock, and a change of a reference count is a critical
section of `icache.lock`. `Wants` names the lock that the next step of a process
needs; the step is disabled while another process has it, so a deadlock is a set
of processes that want each other's locks. `iput` is three steps: `IputLook`
takes the lock and reads the reference count, `IputFree` frees the inode,
`IputDrop` lowers the count. `iget` takes the least free entry, and panics when
every entry is in use. The transaction commits when the last call in it
ends, as `end_op` does. A process has one open file. File contents are
in `FileData`. `dirlink` fails only for a name that is there: a full disk is not
met, and `create`'s panic "create dots" cannot come.

`FileSysLinks` adds two variables that record, for each inode, how many of its
names went with a directory that was freed (`gone`), and how many had at the
last commit (`kept`). They are history: no step depends on them.

### FileData

`used` is the bitmap, `data` the blocks, and an indirect block is a block of
bytes read as block numbers. The inode's lock is held over a read and over one
chunk of a write, and each block of the loops in `readi`, `writei` and `itrunc`
is a step, so calls on different files interleave in the allocator. The inode
is removed (`TruncBegin`) only when no open file has it, which is
`HeldIsAllocated` of `FileSys`. The refinement maps a chunk to the step that
starts it, since nobody can look before the lock is released. `balloc` with
its `bzero`, and the two `balloc` of a first indirect block, are one step
together with `bmap`: the bitmap's buffer is locked for the first, and the inode
for all. Sizes are natural numbers, so the test for `off + n` that wraps
(`fs.c:465`, `494`) is left out.

### Memory

`mem` holds page directories, page tables, data or junk, by physical page;
`freelist` is `kmem.freelist` in its order. A process in a call has a plan, the
list of the things to do, and each `kalloc` or `kfree` is one step, so any
allocation can be the one that fails, and other processes take and give pages in
between. A size is counted in units of which `PGSIZE` make a page, and `uint`
sizes wrap at `WORD`. One table stands for all that `setupkvm` makes for the
kernel: a failure after some of them is one of `freevm` on what is there, in the
loop that is modelled. `cr3` is the page table a CPU has while it runs the
process. `Argument` is a system call that tests a pointer against `p->sz` and
then uses it: the kernel panics in `trap` if a byte is not mapped. A process
becomes a zombie and leaves its page table in one critical section of
`ptable.lock`, and in one step: that `wait` does not come in between is checked
and proved of `Proc` (`StackInUse`), so `TableInUse` is about `exec`.

### FileTable, Shell

A process is a list of things to do: system calls and parts of programs.
`Runcmd` gives the list of each kind of command as `runcmd` has it; `fork` gives
the child a list of its own. `close`, `pipe` and `exit` take several steps where
the code gives up `ftable.lock`. `pipe`, `open` and `fork` fail when files,
descriptors, pages or slots run out, and the failures take the paths of `sh.c`,
which end in `exit`. `echo` writes two bytes, more than the pipe of `MCShell`
holds. "hoard" is not a program of the repository: it stands for any that calls
`pipe` with a single descriptor left. The parser is a set of recursive operators on sequences of
tokens; `Unparse` is its reference: it writes a tree as a line.

## 3. Runs

| run | instance | checks |
|---|---|---|
| `MCProc` | 2 slots, 2 CPUs, 4 pids; every system call, sleeps of up to 2 ticks | `StackInUse`, `RunsOnOneCPU`, `SchedAsserts`, `TickNotMissed`, `PinfoConsistent`, `TicketsInherited` |
| `MCProcLive` | 3 slots, 1 CPU; fork, exit, wait, with fairness | `WaitNotMissed`, `NoOrphans`, `NoStarvation`, `OrphansReaped` |
| `MCSpinlock` | 2 CPUs, 3 threads, 3 locks | `MutualExclusion`, `NoPanic`, `NoIntrInside`, `IntrRestored` |
| `MCLog` | 3 blocks, 3 processes, 3 operations of up to 3 blocks out of 5 reserved, room for 2 operations | `ReservationHolds`, `CommitAlone`, `BeginNotMissed`, `ImplementsTxDisk` |
| `MCPipe` | 1 reader, 2 writers, 2 bytes of buffer, counters modulo 6, calls of up to 3 bytes | `ReaderNotMissed`, `WriterNotMissed`, `ImplementsFifo` |
| `MCBufCache` | 2 processes, 3 blocks, 2 buffers, 1 of them pinned at most; the disk works | `OneBufferPerBlock`, `TargetIsWanted`, `PanicMeansFull`, `ImplementsStore` |
| `MCBufLive` | 2 processes with 2 buffers each at a time, 2 blocks, with fairness; the disk may fail | `IdeServes`, `LockComesFree` |
| `MCFileSys` | 2 processes, 4 inodes, 3 cache entries, 4 calls out of eight, and fork, close, exit, crash | `RefsCounted`, `HeldIsAllocated`, `CacheIsCurrent`, `LinksCounted`, `FsAsserts` |
| `MCFsDeadlock` | the calls of `linkunlink()` in `usertests.c`, 3 of them | `NoDeadlock`, violated |
| `MCFileData` | 2 processes, 2 open files, 2 inodes, 1 direct and 2 indirect blocks per file, 5 blocks on the disk, 5 calls | `BlocksOwnedOnce`, `ImplementsBytes` |
| `MCMemory` | 3 processes, 13 pages, page tables of 2 entries, 4 calls | `PagesOwnedOnce`, `UserMapped`, `TableInUse` |
| `MCShell` | init and 4 slots, 4 files, 5 descriptors, 1 pipe of 1 byte, 2 lines out of eight; the parser on all trees of depth 2 | `FilesCounted`, `ParsedAsMeant`, `PromptReturns` |

Why the bounds are enough for the question asked:

* Two CPUs are the fewest that can be on one stack, and with init and one child
  the child's slot is freed and reused while init, on the other CPU, forks and
  waits (larger tables are covered by the proofs of section 5). In `MCProcLive`
  a child is orphaned before and after it exits. Its parent's parent is always
  init, so the two wakeups of `exit` (the parent's and init's) are told apart
  only by a fourth slot, which is beyond TLC together with liveness; that
  neither is lost is what `WaitWakesUp` proves, for every number of slots.
* In `MCLog` two operations can be in a transaction while a third waits, and
  the header has more than one entry, so a crash can fall between two writes of
  every loop. The sizes are tight: a third operation let in, or one let in
  without counting what is logged, could fill the log, although three blocks
  do not. `ReservationHolds` therefore counts what the operations may write.
* `MCPipe` passes more bytes than the buffer holds in one call, and the counters
  wrap.
* `MCBufCache` has fewer buffers than blocks, so that reads recycle them, and
  so few that `bget` also panics.
* In `MCFileSys` two calls run against each other after two that prepared the
  state (a directory, a second link, a changed directory). Four inodes are the
  root, one in use and two to make, so that a freed inode is allocated anew, and
  three cache entries are few enough that `iget` finds none and panics. Names
  are made in removed directories, by a process that is in one and by a `link`
  that had it at hand, and are lost with them. `mknod`, which differs from `mkdir`
  in the type only, is not among the calls.
* `MCFileData` has a disk smaller than two full files: `balloc` runs out, blocks
  go from one file to the other, and writes have a second chunk.
* `MCMemory` has room for two small processes of five pages each, and not for a
  third, or an exec beside two: a third fork fails at every one of its
  allocations, and every `kalloc` of every call fails in some behaviour. Sizes
  end inside pages and tables.
* `MCShell` can make a pipeline with all slots taken, and every fork, `pipe` and
  `open` of it may fail, `pipe` for want of files, of a page and of a second
  descriptor. A writer finds the pipe full and waits, or finds that the reader
  has gone. A pipeline of three stages needs six slots and is out of reach.

`MAXPID`, `MAXSLEEP`, `MAXOPS`, `OPBLOCKS`, `MAXN`, `HOLDS`, `MAXPIN`,
`MaxCalls`, `MaxOps` and `MaxLines` bound the histories; each appears in one
guard or one range of inputs. Deadlock is not checked where these bounds, or
`FileSys`'s panics, end a behaviour.

`SYMMETRY` is used where processes, blocks, bytes, threads and CPUs are
interchangeable, never with a liveness property and never in `Proc`, whose
slots are scanned in order.

`PanicMeansFull` says that `bget` panics only when every buffer is pinned or in
use; it does not say that this cannot happen. `NBUF` and `LOGSIZE` are both
`MAXOPBLOCKS*3`, so a log filled to its reservations leaves next to nothing for
readers. `UserMapped` makes one exception, for a process that gave back all its
memory (below).

### A disagreement between the code and a test

`usertests.c:855` has "another concurrent link/unlink/create test, to look for
deadlocks". `MCFsDeadlock` runs its calls and finds one: `create` has entered the
new name in the directory and calls `iunlockput(dp)` while it holds the new
inode's lock; `iunlockput` gives the directory's lock up and `iput` takes it
again (`fs.c:335`). In between `unlink` of the same name locks the directory
(`sysfile.c:201`) and waits for the new inode (`sysfile.c:209`).

### Seen while modelling

These follow from the code as modelled, without a run of their own:

* `kill` tests only the pid, so `kill(0)`, or the pid of a fork that failed,
  marks a free slot killed; `allocproc` does not clear the mark, and the next
  process made there dies at its first return from the kernel (`proc.c:494`,
  `504`).
* `kill` between the test of `killed` and `sleep` in `pipe.c:107` finds its
  victim not asleep yet; it then sleeps, killed, until somebody uses the pipe
  (`proc.c:506`).
* `ideintr` sets `B_VALID` after a failed read too, so `bread` returns what the
  buffer held before, another block's contents (`ide.c:118`, `bio.c:95`).
* `ticks` is reported by `getpinfo` and never counted (`pstat.h:10`,
  `proc.c:220`): the variable is constant in `Proc`.
* `begin_op` reserves up to `LOGSIZE` blocks, but `log.size` counts the header
  too, so the log area has `LOGSIZE - 1` (`log.c:132`, `218`, `mkfs.c:25`), and
  `log_write` wants a free entry also for a block that it then absorbs.
  Operations that use their whole reservation can panic in it. `LogAssumption`
  therefore has `LOGSIZE - (MAXOPBLOCKS - OPBLOCKS) < SIZE - 1`: with 30, 10 and
  30 an operation may write 8 blocks. `filewrite` writes three blocks' worth of
  data, four data blocks if it begins inside one, and with the indirect
  block, the inode and the bitmap (a file system of `FSSIZE` 1000 has a single
  bitmap block) that makes 7, the most of all calls.
* A killed writer returns from `pipewrite` without waking the reader of the
  bytes it has put in (`pipe.c:86-88`); `ReaderNotMissed` makes that exception.
* `link(x, "d/.")` finds the name ".", whose inode is the locked directory, and
  `dirlink`'s `iput` waits for itself (`fs.c:561`). The calls of `MCFileSys` do
  not use "." and "..".
* The ".." of a directory that was removed while somebody is in it names an
  inode that may be free by now; `ilock` then panics ("no type").
* Names that are made in a removed directory are lost when it is freed, and the
  link count of the inode they named is not lowered: `iput` truncates the
  directory without looking at its entries (`fs.c:342`). A process can be in such a
  directory, or `sys_link` can have looked it up (`sysfile.c:144`) and `unlink`
  remove it before it is locked (`sysfile.c:146`). The inode is then never freed,
  or its count is one too high for as long as it has a name. `LinksCounted`
  counts these names (`kept`), and says that there is no other difference.
* `iput` reads `ref == 1` after which another `iput` of the same inode may have
  run; an inode with no links can then stay allocated until the disk is made
  anew, as it does when a crash comes while an unlinked file is open. `LinksCounted`
  speaks of the inodes that have a name.
* `growproc` takes the new size 0 for a failure: `sbrk(-sz)` frees every page,
  returns -1 and leaves `p->sz`, so a later `fork` panics in `copyuvm`, or the
  kernel traps on a pointer that passed its test. A size below zero is a large
  one, and `sbrk` succeeds and does nothing.
* The arguments of `exec` have one page: below it is the guard page, which
  `copyout` refuses.
* When the second fork of a pipeline fails, `sh` exits at once and its left side
  goes on as a child of init. When the shell has died and init cannot fork,
  init exits and the kernel panics; `MCShell` reaches this, and `PromptReturns`
  allows it.

## 4. Fairness

* `Proc!FairSpec` is stated for one CPU. The kernel's own steps are weakly
  fair; the timer interrupt is strongly fair because a pending interrupt stays
  latched until interrupts are on; so are the scheduler's `acquire` and the
  steps of an interruptible thread, which are enabled again after every
  interrupt; and init calls `wait` again and again (`init.c:34`). User programs
  promise nothing. With several CPUs strong fairness of a critical section
  would claim that the `xchg` loop of `acquire` serves every CPU, which it does
  not, so no liveness is claimed there.
* `BufCache!FairSpec`: a process inside `bio.c` or `ide.c` goes on, the disk
  answers every command, well or badly, and a caller comes to its `brelse`
  (strong fairness, since the caller may be inside `bwrite` again and again).
  `acquiresleep` itself is not fair: `LockComesFree` says that a sleeper is
  woken to try again, and is checked for two processes. With more, a process
  that holds one buffer could lose the race for its second one for ever.
* `Shell!Spec`: every process that can take a step takes one in the end, which
  `NoStarvation` says of the scheduler, and init goes on. Nobody has to type:
  `Getcmd` is not fair.

The liveness properties of `Proc` and `Shell` hold "or the kernel has panicked":
init may exit, and then the kernel stops.

## 5. Proofs

TLAPS checks the proof modules to the last leaf, for every value of the
constants that the named assumptions of the modules allow: `ProcAssumption` and
`SpinlockAssumption` (a non-empty table, at least the boot CPU, names that do
not collide), `PipeAssumption` (the buffer's size divides the range of the
counters, as 512 divides 2^32), `BufAssumption` and `LogAssumption` (a finite
set of processes, at least one buffer; a log with room for one operation, and
operations that leave enough of their reservation for the blocks of the log to
be one less than `log.size`, see section 3),
`MemoryAssumption` (a finite set of processes, of numbers above 0; the five pages
that the first process needs; at least one entry of a page directory below the
kernel's), `FsAssumption` (a finite set of processes, an inode on the disk beside
the root, at least one cache entry, calls that are among the seven modelled).
One theorem, `CacheIsStore`, has a hypothesis of its own, named below.

| module | theorems |
|---|---|
| `ProcProofs` | `TypesCorrect`, `OneCPUEach`, `StackNotFreed`, `SchedNeverPanics` |
| `ProcFamilyProofs` | `OrphansAdopted`, `WaitWakesUp`, `TickWakesUp`, `PinfoTrue`, `ChildTickets` |
| `SpinlockProofs` | `LocksExclude`, `ChecksPass`, `NoHandlerInside`, `InterruptsRestored` |
| `PipeProofs` | `TypeCorrect`, `NoReaderMissed`, `NoWriterMissed`, `PipeIsFifo` |
| `BufCacheProofs` | `TypeCorrect`, `NoTwoBuffers`, `RightBuffer`, `PanicIsHonest`, `CacheIsStore` |
| `LogProofs` | `TypeCorrect`, `CommitsAlone`, `NoBeginMissed`, `ReservationSuffices`, `LogIsTransactional` |
| `MemoryProofs` | `TypeCorrect`, `TableInUseHolds`, `PagesOwnedOnceHolds` |
| `FileSysProofs` | `RefsCountedHolds`, `OneEntryEach`, `CacheIsCurrentHolds` |

All have the same plan: an inductive invariant that TLC checked first, one lemma
per action that the action preserves it, a theorem `Invariance` (or
`TableInvariance`), and the properties as consequences. The refinements take
every action to a step of the abstract specification or to a stutter.

`ProcProofs` proves `TypeOK`, `RunsOnOneCPU`, `StackInUse` and `SchedAsserts`.
None is inductive: whether the scheduler may take a RUNNABLE process depends on
nobody being on its stack, which depends on every CPU inside `sched` holding
`ptable.lock`, which depends on where the processes are. The inductive
invariant `IInv` is the conjunction of

* `TypeOK`;
* `CpuInv`: the modes of a CPU against `cpu->proc` and `ptable.lock`;
* `StateInv`: a process on a CPU is RUNNING, until it is inside `sched`, and a
  RUNNING process is on a CPU;
* `PlaceInv`: where a process can be in each state, and on a CPU by whether
  that CPU holds `ptable.lock`: this is the protocol of who releases the lock
  after `swtch`;
* `ForkInv`: the slot that `fork` is filling is an EMBRYO, belongs to one
  `fork`, and has its context and memory by the time it is made RUNNABLE: this
  is why the unlocked writes of `allocproc` and `fork` are safe;
* `MemInv`: a process between `fork` and `wait` has its memory;
* `TlockInv`: `tickslock` is held exactly in the clock interrupt and in the
  loop of `sys_sleep`.

One lemma per action shows that it preserves `IInv`; `Invariance` combines
them, and the four theorems follow.

`ProcFamilyProofs` adds `TableInv` to `IInv`: `FamilyInv`, the family tree (init
lives and is nobody's child, a process that can run has a living parent, an
EMBRYO belongs to the `fork` that fills it); `LeftInv`, that no tick is counted
between the test of `sys_sleep` and its sleep; `PidInv`; `TicketInv`; and the two
wakeup properties themselves. Most actions leave the table alone, and share one
frame lemma (`Quiet`); the work is in `exit`, which hands its children to init
and wakes it if one is a ZOMBIE, in `wait`, and in the end of `fork`. The action
property `TicketsInherited` follows from `TicketInv`.

`SpinlockProofs` proves `MutualExclusion`, `NoPanic`, `NoIntrInside` and
`IntrRestored` in the same way. The invariant relates `held`, the locks a CPU
is inside of, with `locked` and the owner field (which lags behind at two
places), `ncli` with the number of locks held or half released, and `intena`
with the kind of code that runs, for threads on a CPU and, through `saved`, for
threads that are switched out.

`PipeProofs`: the wakeup invariants need `LockInv` (who is inside `p->lock`),
`EndInv` (an end is open while some process has it) and `SleepInv` (what the loop
tested still holds when `sleep` is entered). `PipeIsFifo` needs arithmetic: the
counters wrap modulo `WRAP`, the slots modulo `PIPESIZE`, and two bytes in the
buffer are never in one slot because there are at most `PIPESIZE` of them.

`BufCacheProofs`: `RefInv` says that `refcnt` is the number of processes that have
the buffer, wait for its lock or are about to give it back, counted as a set;
from it follows that a buffer with a user is not recycled (`RightBuffer`) and
that a panic is honest. `LockInv` and `PlaceInv` say where a process has its
buffer locked and where it has only a reference; `QueueInv` that each request in
the queue has its one sleeper, which holds the buffer, and that the disk is at
work on the first; `DataInv` that a clean buffer agrees with the disk; `LruInv`
that the list is a permutation. `CacheIsStore` assumes a disk that does not fail
(`~DiskErrors`): with failures it is false, since a failed read still sets
`B_VALID`. The other theorems hold with failures too.

`LogProofs`: `CountInv` and `PhaseInv` say which loop runs when and that nobody is
inside an operation then. `RoomInv` is the reservation argument: the header and
what the running operations may still add, a set of pairs of a process and a
number above the number of blocks it has logged, are together at most
`LOGSIZE - (MAXOPBLOCKS - OPBLOCKS)`; a block that is new in the header is new to
its operation, since all it has logged is there (`OpInv`), so it takes one pair
away. With `LogAssumption` this is less than the log has blocks, which is
`ReservationHolds`, and no loop of commit or recovery leaves the log area. `HeaderInv`, `CacheInv`
and `CopyInv` relate the two headers, the buffers, the log blocks and the home
locations in every phase of commit and recovery; with them the write of the
header is the only step that changes what a crash would leave, and
`LogIsTransactional` follows.

`MemoryProofs`: `PagesOwnedOnce` counts the pointers to a page, and a step of
`freevm`, `copyuvm` or `exec` moves pages between owners that the count does not
tell apart. `OwnInv` says it without counting: there are a kind, an owner and a
place for every page (`Owned`) such that every pointer in the free list, the
directories, the tables, the stacks and the plans is the one that these tell, and
every page has that pointer. An action then changes the kind, owner and place of
the one or two pages that it moves. `PlanInv` says which frames a plan can hold
and in which order, so a call has one page table under construction and one page
in hand at most; `SizeInv` that the next page to map is a user page; `NewDir` that
the directory of `setupkvm` is empty when the kernel's table is put in; `ProcInv` relates the
state of a process with its stack, its table and `cr3`, and gives a child to one
`fork` or `wait`. `TableInUse` follows: `cr3` is `pgdir`, which has an owner.

`FileSysProofs`: `RefsCounted` needs to know what every call still has to give
back. `FrameInv` says which frames can be in front of which: a frame points to
one cache entry or to two or to none, a function that returns an inode is
followed by one that takes it over, and the inode it returned is kept (`Kept`)
through the steps of an `iput` that come first; a process inside a call has a
current directory. `CacheOK` says that no inode has two entries. The pointers to
an entry are a set; it is split into those of one process and those of the
others, so an action has to show only that it adds to `ref` what it adds to the
pointers of one process (the child's, for `fork`). That a call which fails
half-way has one `iput` for every `iget` and `idup` is then a matter of its
frames.
`CacheIsCurrent` has an invariant of its own on top, `CurInv`. The step in
question is `IputFree`, which writes the inode and clears `valid` after
`icache.lock` was released: `FreesInv` says that the entry is still valid then
and that no other process is about to free it or to enter it in a directory,
since whoever came later found a count above one; `MakesInv` that an inode
between `ialloc` and `dirlink` has the type it was allocated with. The theorem
holds for all calls and paths, those too for which `HeldIsAllocated` is false.

Only model-checked:

* of `FileSys`, `HeldIsAllocated` and `FsAsserts`, and `LinksCounted` of
  `FileSysLinks`. The first two are false for some paths through the ".." of a
  removed directory (section 3), which the calls of the run leave out. A proof
  needs an invariant over directory entries, link counts and all calls under
  way together;
* of `Memory`, `UserMapped`;
* `FileData` with its refinement of `ByteFile`: what its initial disk contains is
  the result of a fold, and needs induction over data;
* `FileTable` and `Shell`, and the parser (recursive operators, which the prover
  cannot use);
* all liveness (the prover does not reason about fairness and ENABLED).

The abstractions that one module makes of another (the log's cache in
`Log`, the transactions in `FileSys`) are arguments of this text, not theorems.

## 6. Not modelled

* Console, keyboard and serial port; start-up, boot and interrupt controllers;
  `ulib.c`, `umalloc.c`, `printf.c` and the other user programs, whose system
  calls are the free choices of the models; `fstat`, `getpid` and `uptime`,
  which change nothing.
* The x86 memory order, and interrupts other than the timer in `Proc`.
* Devices as open files: reads and writes of the console.
* The layout of directories: a directory is a set of entries in `FileSys`, and
  its growth and blocks are those of a file in `FileData`; a full disk or a
  directory of the largest size is not met there.
* The TLB: `Memory` has `cr3` and no stale translations, except that a process
  which has no page left may come to one more call.
* Arguments of `sleep` below zero (compared as unsigned in `sysproc.c:72`) and
  the wrap-around of `nextpid` and of `ticks`.
* In `Pipe`, a process that has both ends open, and `dup` (both are in
  `FileTable`); a process closes its end once.

## 7. Plan

1. Proofs: `HeldIsAllocated` and `LinksCounted` for calls without "..",
   `UserMapped` of `Memory`, `BlocksOwnedOnce` of `FileData`.
2. `Console`: the input ring between `consoleintr` and `consoleread`.
3. `umalloc` as a pure algorithm against a reference.
4. An abstract process life cycle (alive, exited, reaped, by pid) that `Proc`
   implements.
