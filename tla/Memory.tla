------------------------------- MODULE Memory -------------------------------
(***************************************************************************)
(* Physical pages (kalloc.c), two-level page tables (vm.c) and the calls   *)
(* that build, change and free address spaces: fork(), exec(), sbrk() and  *)
(* wait().  Each kalloc() and kfree() is a step, so processes take pages   *)
(* from the free list in any order and any allocation may be the one that  *)
(* fails.  A process in a call has a plan: the list of things to do next.  *)
(* Sizes are counted in units of which PGSIZE make a page.                 *)
(***************************************************************************)
EXTENDS Integers, Sequences, FiniteSets

CONSTANTS
  Proc, InitProc,
  NPAGES,      \* pages between the end of the kernel and PHYSTOP
  PGSIZE,
  NPTENTRIES, NPDENTRIES,
  INTSIZE,     \* the size of an int
  Images,      \* the programs for exec(): where their segments begin and end
  ArgSizes,    \* the room that the arguments of a program take
  Amounts,     \* the arguments of sbrk()
  Addrs, Lens, \* the pointers and lengths that system calls are given
  MaxCalls     \* the bound on the number of calls

ASSUME MemoryAssumption ==
  /\ InitProc \in Proc /\ IsFiniteSet(Proc) /\ 0 \notin Proc
  /\ {NPAGES, PGSIZE, NPTENTRIES, NPDENTRIES, INTSIZE, MaxCalls}
       \subseteq Nat \ {0}
  /\ NPAGES >= 5 /\ NPDENTRIES >= 2
  /\ Images \subseteq Seq(Nat \X Nat) /\ ArgSizes \subseteq Nat \ {0}
  /\ Amounts \subseteq Int /\ Addrs \subseteq Nat /\ Lens \subseteq Int

Page == 1 .. NPAGES
KPDX == NPDENTRIES - 1                  \* the entry that maps the kernel
NUSER == KPDX * NPTENTRIES              \* user pages
KERNBASE == NUSER * PGSIZE
WORD == 2 * KERNBASE                    \* sizes are uint: they wrap around

VARIABLES
  freelist,    \* kmem.freelist
  mem,         \* the contents of pages
  state,       \* of a process: "unused", "embryo", "run", "zombie", "reaped"
  kstack, pgdir, sz,
  cr3,         \* the page table that the CPU has while it runs the process
  plan,        \* what the process has to do
  calls, panic

vars == <<freelist, mem, state, kstack, pgdir, sz, cr3, plan, calls, panic>>

Junk == "junk"        \* kfree() fills the page with ones
Data == "data"
NoDir == [k \in 0 .. KPDX |-> 0]
NoPte == [pa |-> 0, user |-> FALSE]
NoTable == [k \in 0 .. NPTENTRIES - 1 |-> NoPte]

PDX(v) == v \div NPTENTRIES
PTX(v) == v % NPTENTRIES

\* Mutant of Roundup: a size is rounded down to a page.
RounddownBug(n) == n \div PGSIZE

\* PGROUNDUP, as the number of a page.
Roundup(n) == (n + PGSIZE - 1) \div PGSIZE

\* The pages of a size: a = PGROUNDUP(lo); a < hi; a += PGSIZE
PagesFrom(lo, hi) == {v \in 0 .. NUSER - 1 : v >= Roundup(lo) /\ v * PGSIZE < hi}

\* walkpgdir() without alloc, and the entry it finds in the memory m.
PteIn(m, d, v) == IF m[d][PDX(v)] = 0 THEN NoPte ELSE m[m[d][PDX(v)]][PTX(v)]
Pte(d, v) == PteIn(mem, d, v)

Present(d, lo, hi) == {v \in PagesFrom(lo, hi) : Pte(d, v).pa # 0}

Least(S) == CHOOSE v \in S : \A w \in S : v <= w

\* kinit2() puts the pages on the list from the first one on, and userinit()
\* takes the last five: a stack, a page table with the kernel's part, and
\* initcode's page with the table for it.
Init ==
  /\ freelist = [k \in 1 .. NPAGES - 5 |-> NPAGES - 4 - k]
  /\ mem = [g \in Page |->
       CASE g = NPAGES - 1 -> [NoDir EXCEPT ![KPDX] = NPAGES - 2,
                                            ![0] = NPAGES - 4]
         [] g = NPAGES - 2 -> NoTable
         [] g = NPAGES - 4 ->
              [NoTable EXCEPT ![0] = [pa |-> NPAGES - 3, user |-> TRUE]]
         [] g \in {NPAGES, NPAGES - 3} -> Data
         [] OTHER -> Junk]
  /\ state = [p \in Proc |-> IF p = InitProc THEN "run" ELSE "unused"]
  /\ kstack = [p \in Proc |-> IF p = InitProc THEN NPAGES ELSE 0]
  /\ pgdir = [p \in Proc |-> IF p = InitProc THEN NPAGES - 1 ELSE 0]
  /\ sz = [p \in Proc |-> IF p = InitProc THEN PGSIZE ELSE 0]
  /\ cr3 = pgdir
  /\ plan = [p \in Proc |-> <<>>]
  /\ calls = 0 /\ panic = ""

-----------------------------------------------------------------------------
(* Plans                                                                   *)

\* d is a page table, g a page in hand, base, lo and hi are sizes, q is a child
\* and segs what is left of a program.
Todo == [do |-> "", d |-> 0, g |-> 0, base |-> 0, lo |-> 0, hi |-> 0,
         q |-> 0, segs |-> <<>>]

Freevm(d) == [Todo EXCEPT !.do = "freevm", !.d = d]
Alloc(d, lo, hi) ==
  [Todo EXCEPT !.do = "alloc", !.d = d, !.base = lo, !.lo = lo, !.hi = hi]
Dealloc(d, hi, lo) ==
  [Todo EXCEPT !.do = "dealloc", !.d = d, !.lo = lo, !.hi = hi]
Kfree(g) == [Todo EXCEPT !.do = "kfree", !.g = g]
Undo(q) == [Todo EXCEPT !.do = "undo", !.q = q]
Grown(n) == [Todo EXCEPT !.do = "grown", !.hi = n]

At(p, do) == panic = "" /\ plan[p] # <<>> /\ Head(plan[p]).do = do

Go(p, s) == plan' = [plan EXCEPT ![p] = s]
Then(p, s) == Go(p, s \o Tail(plan[p]))

\* kalloc() succeeds, with the page Got; its new contents.
Got == Head(freelist)
Kalloc(contents) ==
  /\ freelist # <<>>
  /\ freelist' = Tail(freelist)
  /\ mem' = [mem EXCEPT ![Got] = contents]

\* kfree() of page g; the other contents are m.
KfreeIn(m, g) ==
  /\ freelist' = <<g>> \o freelist
  /\ mem' = [m EXCEPT ![g] = Junk]

Call(p) ==
  /\ panic = "" /\ state[p] = "run" /\ plan[p] = <<>>
  /\ calls < MaxCalls /\ calls' = calls + 1

\* The process gave all its memory back.  It faults and exits, but until the
\* TLB forgets its pages it may still come to another call, as fork().
Emptied(p) == Present(pgdir[p], 0, KERNBASE) = {}

-----------------------------------------------------------------------------
(* Pages                                                                   *)

KfreePage(p) ==
  /\ At(p, "kfree")
  /\ KfreeIn(mem, Head(plan[p]).g)
  /\ Then(p, <<>>)
  /\ UNCHANGED <<state, kstack, pgdir, sz, cr3, calls, panic>>

\* deallocuvm(): the next page that is present.
DeallocPage(p) ==
  /\ At(p, "dealloc")
  /\ LET t == Head(plan[p])
         rest == Present(t.d, t.lo, t.hi)
         v == Least(rest) IN
     IF rest = {} THEN Then(p, <<>>) /\ UNCHANGED <<freelist, mem>>
     ELSE /\ KfreeIn([mem EXCEPT ![mem[t.d][PDX(v)]][PTX(v)] = NoPte],
                     Pte(t.d, v).pa)
          /\ plan' = plan
  /\ UNCHANGED <<state, kstack, pgdir, sz, cr3, calls, panic>>

\* freevm(), once deallocuvm(pgdir, KERNBASE, 0) has been done: the tables and
\* the directory.
FreeTables(p) ==
  /\ At(p, "freevm")
  /\ LET d == Head(plan[p]).d
         tabs == {k \in 0 .. KPDX : mem[d][k] # 0}
         k == Least(tabs) IN
     IF Present(d, 0, KERNBASE) # {}
     THEN Then(p, <<Dealloc(d, KERNBASE, 0), Freevm(d)>>)
          /\ UNCHANGED <<freelist, mem>>
     ELSE IF tabs # {}
     THEN KfreeIn([mem EXCEPT ![d][k] = 0], mem[d][k]) /\ plan' = plan
     ELSE KfreeIn(mem, d) /\ Then(p, <<>>)
  /\ UNCHANGED <<state, kstack, pgdir, sz, cr3, calls, panic>>

\* setupkvm(): the directory, then one table that stands for those of the
\* kernel, which freevm() frees in the same loop.
SetupDir(p) ==
  /\ At(p, "setupkvm")
  /\ \/ Kalloc(NoDir)
        /\ Then(p, <<[Head(plan[p]) EXCEPT !.do = "kmap", !.d = Got]>>)
     \/ freelist = <<>> /\ Go(p, <<Undo(Head(plan[p]).q)>>)
        /\ UNCHANGED <<freelist, mem>>
  /\ UNCHANGED <<state, kstack, pgdir, sz, cr3, calls, panic>>

SetupKmap(p) ==
  /\ At(p, "kmap")
  /\ LET t == Head(plan[p]) IN
     \/ /\ freelist # <<>> /\ freelist' = Tail(freelist)
        /\ mem' = [mem EXCEPT ![Got] = NoTable, ![t.d][KPDX] = Got]
        /\ Go(p, <<[t EXCEPT !.do = IF t.q = 0 THEN "load" ELSE "copy"]>>)
     \/ /\ freelist = <<>> /\ UNCHANGED <<freelist, mem>>
        /\ Go(p, <<Freevm(t.d), Undo(t.q)>>)
  /\ UNCHANGED <<state, kstack, pgdir, sz, cr3, calls, panic>>

-----------------------------------------------------------------------------
(* mappages() of one page, for allocuvm() and copyuvm()                    *)

\* The page in hand is entered at size lo; a table is made if need be.
Map(p) ==
  /\ At(p, "map") \/ At(p, "mapcopy")
  /\ LET t == Head(plan[p])
         v == Roundup(t.lo)
         tab == mem[t.d][PDX(v)] IN
     /\ freelist # <<>> \/ tab # 0
     /\ IF tab = 0
        THEN /\ freelist' = Tail(freelist)
             /\ mem' = [mem EXCEPT ![Got] = NoTable, ![t.d][PDX(v)] = Got]
             /\ UNCHANGED <<plan, panic>>
        ELSE IF Pte(t.d, v).pa # 0
        THEN panic' = "remap" /\ UNCHANGED <<freelist, mem, plan>>
        ELSE /\ mem' = [mem EXCEPT ![tab][PTX(v)] =
                          [pa |-> t.g, user |->
                             t.do = "map" \/ Pte(pgdir[p], v).user]]
             /\ Then(p, <<[t EXCEPT !.do = IF @ = "map" THEN "alloc" ELSE "copy",
                                    !.g = 0, !.lo = (v + 1) * PGSIZE]>>)
             /\ UNCHANGED <<freelist, panic>>
  /\ UNCHANGED <<state, kstack, pgdir, sz, cr3, calls>>

\* Mutant of Unmapped: the page that could not be entered is forgotten.
UnmappedLost(g) == <<>>

\* kfree(mem), where mappages() failed
Unmapped(g) == <<Kfree(g)>>

-----------------------------------------------------------------------------
(* allocuvm(), and where it is called from                                 *)

AllocPage(p) ==
  /\ At(p, "alloc")
  /\ LET t == Head(plan[p]) IN
     /\ PagesFrom(t.lo, t.hi) # {}
     /\ Kalloc(Data)
     /\ Then(p, <<[t EXCEPT !.do = "map", !.g = Got]>>)
  /\ UNCHANGED <<state, kstack, pgdir, sz, cr3, calls, panic>>

AllocDone(p) ==
  /\ At(p, "alloc")
  /\ PagesFrom(Head(plan[p]).lo, Head(plan[p]).hi) = {}
  /\ Then(p, <<>>)
  /\ UNCHANGED <<freelist, mem, state, kstack, pgdir, sz, cr3, calls, panic>>

\* What the caller does when allocuvm() returns 0: growproc() is done, exec()
\* gives up the new page table.
AllocBad(p, d) == IF d = pgdir[p] THEN <<>> ELSE <<Freevm(d)>>

\* No page, or no table for it.
AllocFails(p) ==
  /\ freelist = <<>>
  /\ LET t == Head(plan[p]) IN
     \/ /\ At(p, "alloc") /\ PagesFrom(t.lo, t.hi) # {}
        /\ Go(p, <<Dealloc(t.d, t.hi, t.base)>> \o AllocBad(p, t.d))
     \/ /\ At(p, "map") /\ mem[t.d][PDX(Roundup(t.lo))] = 0
        /\ Go(p, <<Dealloc(t.d, t.hi, t.base)>> \o Unmapped(t.g)
                 \o AllocBad(p, t.d))
  /\ UNCHANGED <<freelist, mem, state, kstack, pgdir, sz, cr3, calls, panic>>

-----------------------------------------------------------------------------
(* fork()                                                                  *)

\* allocproc() has a slot.
Fork(p, q) ==
  /\ Call(p) /\ state[q] = "unused"
  /\ state' = [state EXCEPT ![q] = "embryo"]
  /\ Go(p, <<[Todo EXCEPT !.do = "kstack", !.q = q]>>)
  /\ UNCHANGED <<freelist, mem, kstack, pgdir, sz, cr3, panic>>

ForkKstack(p) ==
  /\ At(p, "kstack")
  /\ LET t == Head(plan[p]) IN
     \/ /\ Kalloc(Data)
        /\ kstack' = [kstack EXCEPT ![t.q] = Got]
        /\ Go(p, <<[t EXCEPT !.do = "setupkvm"]>>)
        /\ state' = state
     \/ /\ freelist = <<>>
        /\ state' = [state EXCEPT ![t.q] = "unused"]
        /\ Go(p, <<>>)
        /\ UNCHANGED <<freelist, mem, kstack>>
  /\ UNCHANGED <<pgdir, sz, cr3, calls, panic>>

\* copyuvm(): the next page of the parent.
CopyPage(p) ==
  /\ At(p, "copy")
  /\ LET t == Head(plan[p]) IN
     /\ t.lo < sz[p]
     /\ IF Pte(pgdir[p], Roundup(t.lo)).pa = 0
        THEN /\ panic' = "copyuvm: page not present"
             /\ UNCHANGED <<freelist, mem, plan>>
        ELSE /\ Kalloc(Data)
             /\ Go(p, <<[t EXCEPT !.do = "mapcopy", !.g = Got]>>)
             /\ panic' = panic
  /\ UNCHANGED <<state, kstack, pgdir, sz, cr3, calls>>

CopyFails(p) ==
  /\ freelist = <<>>
  /\ LET t == Head(plan[p]) IN
     \/ /\ At(p, "copy") /\ t.lo < sz[p]
        /\ Pte(pgdir[p], Roundup(t.lo)).pa # 0
        /\ Go(p, <<Freevm(t.d), Undo(t.q)>>)
     \/ /\ At(p, "mapcopy") /\ mem[t.d][PDX(Roundup(t.lo))] = 0
        /\ Go(p, Unmapped(t.g) \o <<Freevm(t.d), Undo(t.q)>>)
  /\ UNCHANGED <<freelist, mem, state, kstack, pgdir, sz, cr3, calls, panic>>

ForkDone(p) ==
  /\ At(p, "copy") /\ Head(plan[p]).lo >= sz[p]
  /\ LET t == Head(plan[p]) IN
     /\ pgdir' = [pgdir EXCEPT ![t.q] = t.d]
     /\ cr3' = [cr3 EXCEPT ![t.q] = t.d]
     /\ sz' = [sz EXCEPT ![t.q] = sz[p]]
     /\ state' = [state EXCEPT ![t.q] = "run"]
  /\ Go(p, <<>>)
  /\ UNCHANGED <<freelist, mem, kstack, calls, panic>>

\* The call failed for want of a page table: fork() frees the child's stack.
UndoCall(p) ==
  /\ At(p, "undo")
  /\ LET q == Head(plan[p]).q IN
     IF q = 0 THEN UNCHANGED <<freelist, mem, state, kstack>>
     ELSE /\ KfreeIn(mem, kstack[q])
          /\ kstack' = [kstack EXCEPT ![q] = 0]
          /\ state' = [state EXCEPT ![q] = "unused"]
  /\ Go(p, <<>>)
  /\ UNCHANGED <<pgdir, sz, cr3, calls, panic>>

-----------------------------------------------------------------------------
(* exec()                                                                  *)

Exec(p, image) ==
  /\ Call(p) /\ ~Emptied(p)
  /\ Go(p, <<[Todo EXCEPT !.do = "setupkvm", !.segs = image]>>)
  /\ UNCHANGED <<freelist, mem, state, kstack, pgdir, sz, cr3, panic>>

\* The next segment, which may end below the one before.  allocuvm() that
\* returns 0, the size of a segment that needs no memory too, is a failure.
ExecSegment(p) ==
  /\ At(p, "load") /\ Head(plan[p]).segs # <<>>
  /\ LET t == [Head(plan[p]) EXCEPT !.do = "loaduvm"]
         new == Head(t.segs)[2] IN
     Go(p, IF new >= KERNBASE \/ (new = 0 /\ t.hi = 0) THEN <<Freevm(t.d)>>
           ELSE IF new < t.hi THEN <<t>>
           ELSE <<Alloc(t.d, t.hi, new), [t EXCEPT !.hi = new]>>)
  /\ UNCHANGED <<freelist, mem, state, kstack, pgdir, sz, cr3, calls, panic>>

\* Its pages are read from the file, if it begins at a page boundary.
Loaduvm(p) ==
  /\ At(p, "loaduvm")
  /\ LET t == Head(plan[p])
         seg == Head(t.segs)
         lost == {v \in PagesFrom(seg[1], seg[2]) : mem[t.d][PDX(v)] = 0} IN
     IF seg[1] % PGSIZE # 0 THEN Go(p, <<Freevm(t.d)>>) /\ panic' = panic
     ELSE /\ Go(p, <<[t EXCEPT !.do = "load", !.segs = Tail(@)]>>)
          /\ panic' = IF lost = {} THEN "" ELSE "loaduvm: address should exist"
  /\ UNCHANGED <<freelist, mem, state, kstack, pgdir, sz, cr3, calls>>

\* The program is loaded: two more pages for the stack, at a page boundary.
ExecStack(p) ==
  /\ At(p, "load") /\ Head(plan[p]).segs = <<>>
  /\ LET t == Head(plan[p])
         base == Roundup(t.hi) * PGSIZE
         top == base + 2 * PGSIZE IN
     Go(p, IF top >= KERNBASE THEN <<Freevm(t.d)>>
           ELSE <<Alloc(t.d, base, top),
                  [t EXCEPT !.do = "commit", !.hi = top]>>)
  /\ UNCHANGED <<freelist, mem, state, kstack, pgdir, sz, cr3, calls, panic>>

\* A bad program file, found before or while it is loaded.
ExecBad(p) ==
  /\ At(p, "load") \/ At(p, "loaduvm")
  /\ Go(p, <<Freevm(Head(plan[p]).d)>>)
  /\ UNCHANGED <<freelist, mem, state, kstack, pgdir, sz, cr3, calls, panic>>

\* copyout() of n bytes that end at hi: uva2ka() finds every page, for users.
Copyout(m, d, hi, n) ==
  n <= hi /\ \A v \in (hi - n) \div PGSIZE .. (hi - 1) \div PGSIZE :
                PteIn(m, d, v).user

\* Mutant of Switchuvm: the CPU keeps the page table that it has.
SwitchuvmNot(p, d) == cr3

\* switchuvm(): lcr3()
Switchuvm(p, d) == [cr3 EXCEPT ![p] = d]

\* clearpteu() of the page below the stack, which so holds arguments of at most
\* a page; then the new image, and freevm(old).
ExecCommit(p, n) ==
  /\ At(p, "commit")
  /\ LET t == Head(plan[p])
         guard == (t.hi \div PGSIZE) - 2 IN
     /\ mem' = [mem EXCEPT ![mem[t.d][PDX(guard)]][PTX(guard)].user = FALSE]
     /\ IF Copyout(mem', t.d, t.hi, n)
        THEN /\ pgdir' = [pgdir EXCEPT ![p] = t.d]
             /\ sz' = [sz EXCEPT ![p] = t.hi]
             /\ cr3' = Switchuvm(p, t.d)
             /\ Go(p, <<Freevm(pgdir[p])>>)
        ELSE Go(p, <<Freevm(t.d)>>) /\ UNCHANGED <<pgdir, sz, cr3>>
  /\ UNCHANGED <<freelist, state, kstack, calls, panic>>

-----------------------------------------------------------------------------
(* sbrk(), growproc()                                                      *)

\* Sizes wrap around.  The new size is set where pages were allocated.
Grow(p, n) ==
  /\ Call(p) /\ ~Emptied(p) /\ n > 0
  /\ LET new == (sz[p] + n) % WORD IN
     IF new >= KERNBASE THEN UNCHANGED plan
     ELSE Go(p, <<Alloc(pgdir[p], sz[p], new), Grown(new)>>)
  /\ UNCHANGED <<freelist, mem, state, kstack, pgdir, sz, cr3, panic>>

\* A negative size is a large one: then deallocuvm() does nothing.
Shrink(p, n) ==
  /\ Call(p) /\ ~Emptied(p) /\ n < 0
  /\ LET new == (sz[p] + n) % WORD IN
     IF new >= sz[p] THEN UNCHANGED plan
     ELSE Go(p, <<Dealloc(pgdir[p], sz[p], new), Grown(new)>>)
  /\ UNCHANGED <<freelist, mem, state, kstack, pgdir, sz, cr3, panic>>

\* A new size of 0 looks like a failure, and the old size stays.
SetSize(p) ==
  /\ At(p, "grown")
  /\ LET new == Head(plan[p]).hi IN
     IF new = 0 THEN UNCHANGED <<sz, cr3>>
     ELSE sz' = [sz EXCEPT ![p] = new] /\ cr3' = Switchuvm(p, pgdir[p])
  /\ Go(p, <<>>)
  /\ UNCHANGED <<freelist, mem, state, kstack, pgdir, calls, panic>>

-----------------------------------------------------------------------------
(* The arguments of system calls                                           *)

\* fetchint(), argptr() and fetchstr() compare with p->sz only; sums wrap.
Fetchint(s, a) == a < s /\ (a + INTSIZE) % WORD <= s
Argptr(s, a, n) == n >= 0 /\ a < s /\ (a + n) % WORD <= s
Fetchstr(s, a) == a < s

\* The kernel uses n bytes at a: trap() panics where one is not mapped.
Touch(p, a, n) ==
  panic' = IF \A b \in a .. a + n - 1 :
                b < KERNBASE /\ Pte(pgdir[p], b \div PGSIZE).pa # 0
           THEN "" ELSE "trap"

\* A string may go on to the end of the memory.
Argument(p, a, n) ==
  /\ panic = "" /\ state[p] = "run" /\ plan[p] = <<>>
  /\ \/ Fetchint(sz[p], a) /\ Touch(p, a, INTSIZE)
     \/ Argptr(sz[p], a, n) /\ Touch(p, a, n)
     \/ Fetchstr(sz[p], a) /\ Touch(p, a, sz[p] - a)
  /\ UNCHANGED <<freelist, mem, state, kstack, pgdir, sz, cr3, plan, calls>>

-----------------------------------------------------------------------------
(* exit(), wait()                                                          *)

\* The process becomes a zombie and leaves its page table, for the scheduler's,
\* with ptable.lock held in between: no wait() can come between the two.  That
\* it cannot is Proc's StackInUse.
Exit(p) ==
  /\ panic = "" /\ p # InitProc /\ state[p] = "run" /\ plan[p] = <<>>
  /\ state' = [state EXCEPT ![p] = "zombie"]
  /\ cr3' = [cr3 EXCEPT ![p] = 0]
  /\ UNCHANGED <<freelist, mem, kstack, pgdir, sz, plan, calls, panic>>

\* wait() finds a zombie: its stack first, then freevm().  Who is whose parent
\* is Proc's; here any process may wait for any other.  p->pgdir stays in the
\* table, where nobody reads it before fork() sets it: it is 0 here.
Wait(p, q) ==
  /\ panic = "" /\ state[p] = "run" /\ plan[p] = <<>> /\ state[q] = "zombie"
  /\ state' = [state EXCEPT ![q] = "reaped"]
  /\ KfreeIn(mem, kstack[q])
  /\ kstack' = [kstack EXCEPT ![q] = 0]
  /\ Go(p, <<Freevm(pgdir[q]), [Todo EXCEPT !.do = "reaped", !.q = q]>>)
  /\ pgdir' = [pgdir EXCEPT ![q] = 0]
  /\ UNCHANGED <<sz, cr3, calls, panic>>

Reaped(p) ==
  /\ At(p, "reaped")
  /\ state' = [state EXCEPT ![Head(plan[p]).q] = "unused"]
  /\ sz' = [sz EXCEPT ![Head(plan[p]).q] = 0]
  /\ Go(p, <<>>)
  /\ UNCHANGED <<freelist, mem, kstack, pgdir, cr3, calls, panic>>

-----------------------------------------------------------------------------
Next ==
  \E p \in Proc :
    \/ KfreePage(p) \/ DeallocPage(p) \/ FreeTables(p)
    \/ SetupDir(p) \/ SetupKmap(p) \/ Map(p)
    \/ AllocPage(p) \/ AllocDone(p) \/ AllocFails(p)
    \/ \E q \in Proc : Fork(p, q) \/ Wait(p, q)
    \/ ForkKstack(p) \/ CopyPage(p) \/ CopyFails(p) \/ ForkDone(p)
    \/ UndoCall(p)
    \/ \E image \in Images : Exec(p, image)
    \/ ExecSegment(p) \/ Loaduvm(p) \/ ExecStack(p) \/ ExecBad(p)
    \/ \E n \in ArgSizes : ExecCommit(p, n)
    \/ \E a \in Addrs, n \in Lens : Argument(p, a, n)
    \/ \E n \in Amounts : Grow(p, n) \/ Shrink(p, n)
    \/ SetSize(p) \/ Exit(p) \/ Reaped(p)

Spec == Init /\ [][Next]_vars

-----------------------------------------------------------------------------
(* Properties                                                              *)

\* The pointers to pages: from where, and to which page (0 is none).
Dirs(p) == {pgdir[p]} \cup {plan[p][k].d : k \in DOMAIN plan[p]}

Pointers ==
  LET dirs == (UNION {Dirs(p) : p \in Proc}) \ {0}
      hands(p) == {<<"hand", p, k, plan[p][k].g>> : k \in DOMAIN plan[p]}
  IN {<<"free", k, freelist[k]>> : k \in DOMAIN freelist}
     \cup {<<"kstack", p, kstack[p]>> : p \in Proc}
     \cup {<<"dir", x[1], x[2]>> :
             x \in {x \in Proc \X dirs : x[2] \in Dirs(x[1])}}
     \cup {<<"table", d, k, mem[d][k]>> : d \in dirs, k \in 0 .. KPDX}
     \cup {<<"page", d, v, Pte(d, v).pa>> : d \in dirs, v \in 0 .. NUSER - 1}
     \cup UNION {hands(p) : p \in Proc}

\* Every page is in one place: on the free list, once, or a kernel stack, a
\* page table, a user page of one process, or in the hands of a call.  So no
\* page is lost or freed twice, whichever kalloc() of a call fails and
\* whatever other calls do at the same time.
PagesOwnedOnce ==
  LET all == Pointers IN
  \A g \in Page : Cardinality({x \in all : x[Len(x)] = g}) = 1

\* Between calls exactly the pages below p->sz are mapped, though sizes need not
\* be multiples of PGSIZE and wrap around; only then are the panics "remap",
\* "copyuvm: page not present" and "loaduvm: address should exist" out of reach,
\* and the tests that system calls make of their pointers enough.  The
\* exception is a process that gave back all of its memory: growproc() takes
\* the size 0 for a failure and leaves p->sz as it was.
UserMapped ==
  /\ \A p \in Proc :
       state[p] = "run" /\ plan[p] = <<>> /\ ~Emptied(p) =>
         Present(pgdir[p], 0, KERNBASE) = PagesFrom(0, sz[p])
  /\ panic # "" => \E p \in Proc : state[p] = "run" /\ Emptied(p)

\* No CPU runs on a page table that is on the free list, so exec() must leave
\* the old one before freevm(), and exit() before wait() can free it.
TableInUse ==
  \A p \in Proc : \A k \in DOMAIN freelist : cr3[p] # freelist[k]
=============================================================================
