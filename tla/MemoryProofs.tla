---------------------------- MODULE MemoryProofs ----------------------------
(* Proofs about Memory: any number of pages, any size of pages and tables,  *)
(* any finite set of processes, any programs and any number of calls.       *)
EXTENDS Memory, SequenceTheorems, FiniteSetTheorems, NaturalsInduction, WellFoundedInduction, TLAPS

-----------------------------------------------------------------------------
(* The inductive invariant                                                 *)

\* Frames that end a plan, and those that have a page in hand.
Solo == {"kstack", "setupkvm", "kmap", "copy", "mapcopy", "load", "loaduvm",
         "commit", "grown", "undo", "reaped"}
Front == {"alloc", "map", "dealloc", "freevm", "kfree"}
Handing == {"map", "mapcopy", "kfree"}

\* Frames for a new page table, one that the process does not run on.
Building == {"kmap", "copy", "mapcopy", "load", "loaduvm", "commit"}

\* Frames that have no page table, and those of fork() and wait().
NoTab == {"kstack", "setupkvm", "undo", "reaped", "grown", "kfree"}
Forking == {"kstack", "setupkvm", "kmap", "copy", "mapcopy", "undo"}

Size == 0 .. KERNBASE

Frames ==
  [do : Solo \cup Front, d : 0 .. NPAGES, g : 0 .. NPAGES, base : Size,
   lo : Nat, hi : Size, q : Proc \cup {0}, segs : Seq(Nat \X Nat)]

TypeOK ==
  /\ freelist \in Seq(Page)
  /\ DOMAIN mem = Page
  /\ state \in [Proc -> {"unused", "embryo", "run", "zombie", "reaped"}]
  /\ kstack \in [Proc -> 0 .. NPAGES]
  /\ pgdir \in [Proc -> 0 .. NPAGES]
  /\ cr3 \in [Proc -> 0 .. NPAGES]
  /\ sz \in [Proc -> Size]
  /\ plan \in [Proc -> Seq(Frames)]

\* One frame of a plan s: what is behind it, and its fields.
FrameOK(p, s, k) ==
  LET t == s[k] IN
  /\ t.do \in Solo => k = Len(s)
  /\ t.do \in {"alloc", "map"} =>
       /\ k = 1 /\ Len(s) = 2 /\ t.d # 0
       /\ \/ t.d = pgdir[p] /\ s[2].do = "grown"
          \/ t.d # pgdir[p] /\ s[2].do \in {"loaduvm", "commit"} /\ s[2].d = t.d
  /\ t.do = "dealloc" =>
       /\ k = 1 /\ t.d # 0
       /\ \/ /\ t.d = pgdir[p]
             /\ Len(s) = 1 \/ (Len(s) = 2 /\ s[2].do \in {"grown", "kfree"})
          \/ /\ t.d # pgdir[p] /\ Len(s) > 1
             /\ \/ s[2].do = "freevm" /\ s[2].d = t.d
                \/ /\ s[2].do = "kfree" /\ Len(s) > 2
                   /\ s[3].do = "freevm" /\ s[3].d = t.d
  /\ t.do = "freevm" =>
       /\ t.d # 0 /\ t.d # pgdir[p]
       /\ k = Len(s) \/ s[k + 1].do \in {"undo", "reaped"}
  /\ t.do = "kfree" => k = Len(s) \/ s[k + 1].do = "freevm"
  /\ t.do \in Building => t.d # 0 /\ t.d # pgdir[p]
  /\ t.do \in NoTab => t.d = 0
  /\ t.g # 0 <=> t.do \in Handing
  /\ t.q # 0 => t.do \in Forking \cup {"reaped"}
  /\ t.do \in {"kstack", "copy", "mapcopy", "reaped"} => t.q # 0

\* A plan has one page table and one page in hand at most.
PlanOK(p, s) ==
  /\ \A k \in DOMAIN s : FrameOK(p, s, k)
  /\ \A j, k \in DOMAIN s :
       /\ s[j].d # 0 /\ s[k].d # 0 => s[j].d = s[k].d
       /\ s[j].g # 0 /\ s[k].g # 0 => j = k

PlanInv == \A p \in Proc : PlanOK(p, plan[p])

\* The sizes in a plan: the next page to map is a user page.  While a segment
\* is loaded there is one.
SizeOK(t) ==
  /\ t.do = "map" => Roundup(t.lo) \in 0 .. NUSER - 1
  /\ t.do \in {"kstack", "setupkvm", "kmap", "copy", "mapcopy"} =>
       \E m \in Nat : t.lo = m * PGSIZE
  /\ t.do = "mapcopy" => Roundup(t.lo) \in 0 .. NUSER - 1
  /\ t.do = "commit" => \E m \in 0 .. NUSER - 1 : t.hi = (m + 2) * PGSIZE
  /\ t.do = "loaduvm" => t.segs # <<>>

SizeInv == \A p \in Proc : \A k \in DOMAIN plan[p] : SizeOK(plan[p][k])

\* What a process has, by its state; a child is on the plan of one process.
ProcInv ==
  \A p \in Proc :
    /\ plan[p] # <<>> => state[p] = "run"
    /\ state[p] \in {"unused", "reaped"} => kstack[p] = 0
    /\ state[p] \in {"run", "zombie"} <=> pgdir[p] # 0
    /\ state[p] \in {"run", "zombie"} => kstack[p] # 0
    /\ cr3[p] \in {0, pgdir[p]} /\ (state[p] = "zombie" => cr3[p] = 0)
    /\ \A k \in DOMAIN plan[p] :
         LET t == plan[p][k] IN
         /\ t.q # 0 /\ t.do \in Forking => state[t.q] = "embryo"
         /\ t.q # 0 /\ t.do \in Forking => (kstack[t.q] = 0 <=> t.do = "kstack")
         /\ t.do = "reaped" => state[t.q] = "reaped"
         /\ \A r \in Proc : \A j \in DOMAIN plan[r] :
              plan[r][j].q # 0 /\ plan[r][j].q = t.q => r = p

\* What is in hand in a plan, and the page tables that it knows.
HandIn(s) == {s[k].g : k \in DOMAIN s} \ {0}
TabIn(s) == {s[k].d : k \in DOMAIN s} \ {0}

Hands == [p \in Proc |-> HandIn(plan[p])]
Tabs == [p \in Proc |-> TabIn(plan[p]) \cup ({pgdir[p]} \ {0})]
FreeSet == {freelist[k] : k \in DOMAIN freelist}

Directory == [0 .. KPDX -> 0 .. NPAGES]
Entry == [pa : 0 .. NPAGES, user : BOOLEAN]
Table == [0 .. NPTENTRIES - 1 -> Entry]
Kinds == {"free", "stack", "dir", "hand", "table", "user"}

\* Every page has a kind, an owner up and, in a table, a place ix there; and
\* every pointer to a page is the one that these tell.  fs are the free pages,
\* m the memory, ks the stacks, tb the page tables and hd the pages in hand of
\* the processes.
Pointed(fs, ks, tb, hd, kind, up) ==
  /\ fs \subseteq Page
  /\ \A g \in fs : kind[g] = "free"
  /\ \A p \in Proc : ks[p] # 0 =>
       ks[p] \in Page /\ kind[ks[p]] = "stack" /\ up[ks[p]] = p
  /\ \A p \in Proc : \A d \in tb[p] : d \in Page /\ kind[d] = "dir" /\ up[d] = p
  /\ \A p \in Proc : \A g \in hd[p] : g \in Page /\ kind[g] = "hand" /\ up[g] = p
  /\ \A g \in Page :
       /\ kind[g] = "free" => g \in fs
       /\ kind[g] = "stack" => up[g] \in Proc /\ ks[up[g]] = g
       /\ kind[g] = "dir" => up[g] \in Proc /\ g \in tb[up[g]]
       /\ kind[g] = "hand" => up[g] \in Proc /\ g \in hd[up[g]]

Mapped(m, kind, up, ix) ==
  \A g \in Page :
    /\ kind[g] = "table" =>
         /\ up[g] \in Page /\ kind[up[g]] = "dir"
         /\ ix[g] \in 0 .. KPDX /\ m[up[g]][ix[g]] = g
    /\ kind[g] = "user" =>
         /\ up[g] \in Page /\ kind[up[g]] = "table" /\ ix[up[g]] # KPDX
         /\ ix[g] \in 0 .. NPTENTRIES - 1 /\ m[up[g]][ix[g]].pa = g
    /\ kind[g] = "dir" =>
         /\ m[g] \in Directory
         /\ \A k \in 0 .. KPDX : m[g][k] # 0 =>
              kind[m[g][k]] = "table" /\ up[m[g][k]] = g /\ ix[m[g][k]] = k
    /\ kind[g] = "table" =>
         /\ m[g] \in Table
         /\ \A j \in 0 .. NPTENTRIES - 1 : m[g][j].pa # 0 =>
              /\ kind[m[g][j].pa] = "user" /\ up[m[g][j].pa] = g
              /\ ix[m[g][j].pa] = j

Owned(fs, m, ks, tb, hd, kind, up, ix) ==
  /\ DOMAIN m = Page /\ DOMAIN ks = Proc /\ DOMAIN tb = Proc /\ DOMAIN hd = Proc
  /\ kind \in [Page -> Kinds] /\ DOMAIN up = Page /\ DOMAIN ix = Page
  /\ Pointed(fs, ks, tb, hd, kind, up)
  /\ Mapped(m, kind, up, ix)

CanOwn(fs, m, ks, tb, hd) ==
  \E kind, up, ix : Owned(fs, m, ks, tb, hd, kind, up, ix)

Distinct(s) == \A j, k \in DOMAIN s : s[j] = s[k] => j = k

OwnInv ==
  /\ Distinct(freelist)
  /\ CanOwn(FreeSet, mem, kstack, Tabs, Hands)

\* setupkvm() has made a directory, with nothing in it.
NewDir ==
  \A p \in Proc : \A k \in DOMAIN plan[p] :
    plan[p][k].do = "kmap" => mem[plan[p][k].d] = NoDir

IInv == TypeOK /\ PlanInv /\ SizeInv /\ ProcInv /\ OwnInv /\ NewDir

-----------------------------------------------------------------------------
(* Numbers                                                                 *)

LEMMA Constants ==
  /\ NPAGES \in Nat /\ NPAGES >= 5
  /\ PGSIZE \in Nat /\ PGSIZE > 0 /\ NPTENTRIES \in Nat /\ NPTENTRIES > 0
  /\ KPDX \in Nat /\ KPDX > 0
  /\ NUSER \in Nat /\ KERNBASE \in Nat /\ NUSER > 0 /\ KERNBASE >= PGSIZE
  /\ IsFiniteSet(Proc) /\ 0 \notin Proc /\ InitProc \in Proc
<1>1. NPAGES \in Nat /\ NPAGES >= 5 /\ PGSIZE \in Nat /\ PGSIZE > 0
      /\ NPTENTRIES \in Nat /\ NPTENTRIES > 0 /\ KPDX \in Nat /\ KPDX > 0
  BY MemoryAssumption DEF KPDX
<1>2. \A a, b \in Nat : a > 0 /\ b > 0 => a * b \in Nat /\ a * b >= b /\ a * b > 0
  OBVIOUS
<1>3. NUSER \in Nat /\ NUSER > 0
  BY <1>1, <1>2 DEF NUSER
<1>4. KERNBASE \in Nat /\ KERNBASE >= PGSIZE
  BY <1>1, <1>2, <1>3 DEF KERNBASE
<1> QED BY <1>1, <1>3, <1>4, MemoryAssumption

\* The least element that the loops of vm.c come to first.
LEMMA LeastNat ==
  ASSUME NEW S \in SUBSET Nat, S # {}
  PROVE  Least(S) \in S
<1>1. \E x \in S : \A y \in S : ~ (<<y, x>> \in OpToRel(<, Nat))
  BY NatLessThanWellFounded, WFMin
<1>2. \A x, y \in S : y < x => <<y, x>> \in OpToRel(<, Nat)
  BY DEF OpToRel
<1>3. \E x \in S : \A y \in S : ~ (y < x)
  BY <1>1, <1>2, Zenon
<1>4. \E x \in S : \A y \in S : x <= y
  BY <1>3
<1> QED BY <1>4 DEF Least

\* A user page has one place: an entry of a table that is not the kernel's.
LEMMA Places ==
  /\ \A v \in 0 .. NUSER - 1 :
       /\ PDX(v) \in 0 .. KPDX - 1 /\ PTX(v) \in 0 .. NPTENTRIES - 1
       /\ v = PDX(v) * NPTENTRIES + PTX(v)
  /\ \A k \in 0 .. KPDX - 1, j \in 0 .. NPTENTRIES - 1 :
       \E v \in 0 .. NUSER - 1 : PDX(v) = k /\ PTX(v) = j
<1> DEFINE n == NPTENTRIES
<1>0. n \in Nat /\ n > 0 /\ KPDX \in Nat
  BY Constants
<1>1. NUSER = KPDX * n
  BY DEF NUSER
<1>2. ASSUME NEW v \in 0 .. NUSER - 1
      PROVE  /\ PDX(v) \in 0 .. KPDX - 1 /\ PTX(v) \in 0 .. n - 1
             /\ v = PDX(v) * n + PTX(v)
  <2> DEFINE a == v \div n  b == v % n
  <2>0. v \in Nat /\ v < KPDX * n
    BY <1>0, <1>1, Constants
  <2>1. a \in Int /\ b \in 0 .. n - 1 /\ v = n * a + b
    BY <1>0, <2>0
  <2> HIDE DEF a, b, n
  <2>2. a >= 0
    <3>1. ASSUME a <= -1 PROVE n * a <= n * (-1)
      BY <3>1, <2>1, <1>0
    <3> QED BY <3>1, <2>0, <2>1, <1>0
  <2>3. a < KPDX
    <3>1. ASSUME a >= KPDX PROVE a * n >= KPDX * n
      BY <3>1, <2>1, <1>0
    <3> QED BY <3>1, <2>0, <2>1, <1>0
  <2>4. n * a = a * n
    BY <1>0, <2>1
  <2> QED BY <2>1, <2>2, <2>3, <2>4, <1>0 DEF PDX, PTX, a, b, n
<1>3. ASSUME NEW k \in 0 .. KPDX - 1, NEW j \in 0 .. n - 1
      PROVE  \E v \in 0 .. NUSER - 1 : PDX(v) = k /\ PTX(v) = j
  <2> DEFINE v == n * k + j  a == v \div n  b == v % n
  <2> HIDE DEF n
  <2>0. k \in Nat /\ k + 1 <= KPDX /\ j \in Nat /\ j < n
    BY <1>0
  <2>1. (k + 1) * n <= KPDX * n /\ (k + 1) * n = n * k + n /\ n * k \in Nat
    BY <2>0, <1>0
  <2>2. v \in 0 .. NUSER - 1
    BY <2>0, <2>1, <1>0, <1>1, Constants
  <2>3. a \in Int /\ b \in 0 .. n - 1 /\ v = n * a + b
    BY <1>0, <2>2
  <2>4. a = k
    <3> HIDE DEF a, b
    <3>1. ASSUME a >= k + 1 PROVE n * a >= n * (k + 1)
      BY <3>1, <2>3, <1>0, <2>0
    <3>2. ASSUME a <= k - 1 PROVE n * a <= n * (k - 1)
      BY <3>2, <2>3, <1>0, <2>0
    <3>3. n * (k + 1) = n * k + n /\ n * (k - 1) = n * k - n
      BY <1>0, <2>0
    <3> QED BY <3>1, <3>2, <3>3, <2>3, <2>0, <2>1, <1>0
  <2>5. b = j
    <3> HIDE DEF a, b
    <3> QED BY <2>3, <2>4, <2>0, <2>1, <1>0
  <2> QED BY <2>2, <2>4, <2>5 DEF PDX, PTX, n
<1> QED BY <1>2, <1>3

\* PGROUNDUP of a size that is a number of pages, and of any size.
LEMMA Rounding ==
  /\ \A x \in Nat : Roundup(x) \in Nat
  /\ \A m \in Nat : Roundup(m * PGSIZE) = m /\ (m * PGSIZE) \div PGSIZE = m
                    /\ m * PGSIZE \in Nat
  /\ \A m \in Nat : m * PGSIZE < KERNBASE => m \in 0 .. NUSER - 1
<1> DEFINE n == PGSIZE
<1>0. n \in Nat /\ n > 0 /\ NUSER \in Nat
  BY Constants
<1>1. ASSUME NEW x \in Nat PROVE Roundup(x) \in Nat
  <2> DEFINE y == x + n - 1  a == y \div n  b == y % n
  <2>1. y \in Nat /\ a \in Int /\ b \in 0 .. n - 1 /\ y = n * a + b
    BY <1>0
  <2>2. a >= 0
    <3> HIDE DEF a, b, y, n
    <3>1. ASSUME a <= -1 PROVE n * a <= n * (-1)
      BY <3>1, <2>1, <1>0
    <3> QED BY <3>1, <2>1, <1>0
  <2> QED BY <2>1, <2>2 DEF Roundup
<1>2. ASSUME NEW m \in Nat, NEW r \in 0 .. n - 1 PROVE (n * m + r) \div n = m
  <2> DEFINE y == n * m + r  a == y \div n  b == y % n
  <2> HIDE DEF n
  <2>0. n * m \in Nat /\ r \in Nat /\ r < n
    BY <1>0
  <2>1. y \in Nat /\ a \in Int /\ b \in 0 .. n - 1 /\ y = n * a + b
    BY <1>0, <2>0
  <2> HIDE DEF a, b
  <2>2. ASSUME a >= m + 1 PROVE n * a >= n * (m + 1)
    BY <2>2, <2>1, <1>0
  <2>3. ASSUME a <= m - 1 PROVE n * a <= n * (m - 1)
    BY <2>3, <2>1, <1>0
  <2>4. n * (m + 1) = n * m + n /\ n * (m - 1) = n * m - n
    BY <1>0
  <2>5. a = m
    BY <2>0, <2>1, <2>2, <2>3, <2>4, <1>0
  <2> QED BY <2>5 DEF a
<1>3. ASSUME NEW m \in Nat
      PROVE  Roundup(m * n) = m /\ (m * n) \div n = m /\ m * n \in Nat
  <2>1. m * n = n * m /\ n * m \in Nat /\ n - 1 \in 0 .. n - 1 /\ 0 \in 0 .. n - 1
    BY <1>0
  <2>2. (n * m + 0) \div n = m /\ (n * m + (n - 1)) \div n = m
    BY <1>2, <2>1
  <2>3. n * m + 0 = n * m /\ n * m + (n - 1) = n * m + n - 1
    BY <2>1, <1>0
  <2> QED BY <2>1, <2>2, <2>3 DEF Roundup
<1>4. ASSUME NEW m \in Nat, m * n < KERNBASE PROVE m \in 0 .. NUSER - 1
  <2> HIDE DEF n
  <2>1. ASSUME m >= NUSER PROVE m * n >= NUSER * n
    BY <2>1, <1>0
  <2>2. KERNBASE = NUSER * n /\ m * n \in Nat /\ NUSER * n \in Nat
    BY <1>0 DEF KERNBASE, n
  <2> QED BY <2>1, <2>2, <1>4, <1>0
<1> QED BY <1>1, <1>3, <1>4

-----------------------------------------------------------------------------
(* What becomes of the pages                                               *)

LEMMA PagesAreNumbers == Page \subseteq Nat /\ 0 \notin Page /\ Page = 1 .. NPAGES
BY Constants DEF Page

\* What a directory and a table point to.
LEMMA Links ==
  ASSUME NEW m, NEW kind, NEW up, NEW ix, Mapped(m, kind, up, ix), NEW h \in Page
  PROVE  /\ kind[h] = "dir" =>
              /\ m[h] \in Directory
              /\ \A l \in 0 .. KPDX : m[h][l] # 0 =>
                   /\ m[h][l] \in Page /\ kind[m[h][l]] = "table"
                   /\ up[m[h][l]] = h /\ ix[m[h][l]] = l
         /\ kind[h] = "table" =>
              /\ m[h] \in Table
              /\ \A i \in 0 .. NPTENTRIES - 1 : m[h][i].pa # 0 =>
                   /\ m[h][i].pa \in Page /\ kind[m[h][i].pa] = "user"
                   /\ up[m[h][i].pa] = h /\ ix[m[h][i].pa] = i
<1>1. ASSUME kind[h] = "dir", NEW l \in 0 .. KPDX, m[h][l] # 0
      PROVE  m[h][l] \in Page
  <2>1. m[h] \in Directory
    BY <1>1 DEF Mapped
  <2> QED BY <2>1, <1>1, PagesAreNumbers, Constants DEF Directory
<1>2. ASSUME kind[h] = "table", NEW i \in 0 .. NPTENTRIES - 1, m[h][i].pa # 0
      PROVE  m[h][i].pa \in Page
  <2>1. m[h] \in Table
    BY <1>2 DEF Mapped
  <2> QED BY <2>1, <1>2, PagesAreNumbers, Constants DEF Table, Entry
<1> QED BY <1>1, <1>2 DEF Mapped

\* A page that is no page table, no table and not mapped may be filled with
\* anything and given to anyone.
LEMMA MappedPlain ==
  ASSUME NEW m, DOMAIN m = Page, NEW kind \in [Page -> Kinds],
         NEW up, DOMAIN up = Page, NEW ix, Mapped(m, kind, up, ix),
         NEW g \in Page, kind[g] \in {"free", "hand", "stack"},
         NEW c \in {"free", "hand", "stack"}, NEW x, NEW y
  PROVE  Mapped([m EXCEPT ![g] = x], [kind EXCEPT ![g] = c],
                [up EXCEPT ![g] = y], ix)
<1> DEFINE m2 == [m EXCEPT ![g] = x]  kind2 == [kind EXCEPT ![g] = c]
           up2 == [up EXCEPT ![g] = y]
<1>1. \A h \in Page \ {g} : m2[h] = m[h] /\ kind2[h] = kind[h] /\ up2[h] = up[h]
  OBVIOUS
<1>2. kind2[g] = c
  OBVIOUS
<1> HIDE DEF m2, kind2, up2
<1>3. ASSUME NEW h \in Page
      PROVE  /\ kind2[h] = "table" =>
                  /\ up2[h] \in Page /\ kind2[up2[h]] = "dir"
                  /\ ix[h] \in 0 .. KPDX /\ m2[up2[h]][ix[h]] = h
             /\ kind2[h] = "user" =>
                  /\ up2[h] \in Page /\ kind2[up2[h]] = "table" /\ ix[up2[h]] # KPDX
                  /\ ix[h] \in 0 .. NPTENTRIES - 1 /\ m2[up2[h]][ix[h]].pa = h
  BY <1>1, <1>2 DEF Mapped
<1>4. ASSUME NEW h \in Page, kind2[h] = "dir"
      PROVE  /\ m2[h] \in Directory
             /\ \A k \in 0 .. KPDX : m2[h][k] # 0 =>
                  /\ kind2[m2[h][k]] = "table" /\ up2[m2[h][k]] = h
                  /\ ix[m2[h][k]] = k
  <2>1. m2[h] = m[h] /\ m[h] \in Directory /\ kind[h] = "dir"
    BY <1>1, <1>2, <1>4 DEF Mapped
  <2>2. ASSUME NEW k \in 0 .. KPDX, m[h][k] # 0
        PROVE  /\ kind2[m[h][k]] = "table" /\ up2[m[h][k]] = h /\ ix[m[h][k]] = k
    <3>1. m[h][k] \in Page
      BY <2>1, <2>2, PagesAreNumbers DEF Directory
    <3>2. kind[m[h][k]] = "table" /\ up[m[h][k]] = h /\ ix[m[h][k]] = k
      BY <2>1, <2>2 DEF Mapped
    <3> QED BY <3>1, <3>2, <1>1
  <2> QED BY <2>1, <2>2
<1>5. ASSUME NEW h \in Page, kind2[h] = "table"
      PROVE  /\ m2[h] \in Table
             /\ \A j \in 0 .. NPTENTRIES - 1 : m2[h][j].pa # 0 =>
                  /\ kind2[m2[h][j].pa] = "user" /\ up2[m2[h][j].pa] = h
                  /\ ix[m2[h][j].pa] = j
  <2>1. m2[h] = m[h] /\ m[h] \in Table /\ kind[h] = "table"
    BY <1>1, <1>2, <1>5 DEF Mapped
  <2>2. ASSUME NEW j \in 0 .. NPTENTRIES - 1, m[h][j].pa # 0
        PROVE  /\ kind2[m[h][j].pa] = "user" /\ up2[m[h][j].pa] = h
               /\ ix[m[h][j].pa] = j
    <3>1. m[h][j].pa \in Page
      BY <2>1, <2>2, PagesAreNumbers DEF Table, Entry
    <3>2. kind[m[h][j].pa] = "user" /\ up[m[h][j].pa] = h /\ ix[m[h][j].pa] = j
      BY <2>1, <2>2 DEF Mapped
    <3> QED BY <3>1, <3>2, <1>1
  <2> QED BY <2>1, <2>2
<1> QED BY <1>3, <1>4, <1>5 DEF Mapped, m2, kind2, up2

\* kalloc() of a page that a process then has in hand.
LEMMA AllocHand ==
  ASSUME NEW fs, NEW m, NEW ks, NEW tb, NEW hd, CanOwn(fs, m, ks, tb, hd),
         NEW g \in fs, NEW p \in Proc, hd[p] = {}, NEW x
  PROVE  CanOwn(fs \ {g}, [m EXCEPT ![g] = x], ks, tb, [hd EXCEPT ![p] = {g}])
<1>1. PICK kind, up, ix : Owned(fs, m, ks, tb, hd, kind, up, ix)
  BY DEF CanOwn
<1>2. g \in Page /\ kind[g] = "free"
  BY <1>1 DEF Owned, Pointed
<1> DEFINE kind2 == [kind EXCEPT ![g] = "hand"]  up2 == [up EXCEPT ![g] = p]
           m2 == [m EXCEPT ![g] = x]  hd2 == [hd EXCEPT ![p] = {g}]
<1>3. Pointed(fs \ {g}, ks, tb, hd2, kind2, up2)
  BY <1>1, <1>2 DEF Owned, Pointed, Kinds
<1>4. Mapped(m2, kind2, up2, ix)
  BY <1>1, <1>2, MappedPlain DEF Owned
<1>5. Owned(fs \ {g}, m2, ks, tb, hd2, kind2, up2, ix)
  BY <1>1, <1>3, <1>4 DEF Owned, Kinds
<1> QED BY <1>5 DEF CanOwn

\* kalloc() of the stack of a process.
LEMMA AllocStack ==
  ASSUME NEW fs, NEW m, NEW ks, NEW tb, NEW hd, CanOwn(fs, m, ks, tb, hd),
         NEW g \in fs, NEW p \in Proc, ks[p] = 0, NEW x
  PROVE  CanOwn(fs \ {g}, [m EXCEPT ![g] = x], [ks EXCEPT ![p] = g], tb, hd)
<1>1. PICK kind, up, ix : Owned(fs, m, ks, tb, hd, kind, up, ix)
  BY DEF CanOwn
<1>2. g \in Page /\ kind[g] = "free"
  BY <1>1 DEF Owned, Pointed
<1> DEFINE kind2 == [kind EXCEPT ![g] = "stack"]  up2 == [up EXCEPT ![g] = p]
           m2 == [m EXCEPT ![g] = x]  ks2 == [ks EXCEPT ![p] = g]
<1>3. Pointed(fs \ {g}, ks2, tb, hd, kind2, up2)
  BY <1>1, <1>2, PagesAreNumbers DEF Owned, Pointed, Kinds
<1>4. Mapped(m2, kind2, up2, ix)
  BY <1>1, <1>2, MappedPlain DEF Owned
<1>5. Owned(fs \ {g}, m2, ks2, tb, hd, kind2, up2, ix)
  BY <1>1, <1>3, <1>4 DEF Owned, Kinds
<1> QED BY <1>5 DEF CanOwn

\* kalloc() of a directory, which is empty.
LEMMA AllocDir ==
  ASSUME NEW fs, NEW m, NEW ks, NEW tb, NEW hd, CanOwn(fs, m, ks, tb, hd),
         NEW g \in fs, NEW p \in Proc
  PROVE  CanOwn(fs \ {g}, [m EXCEPT ![g] = NoDir], ks,
                [tb EXCEPT ![p] = @ \cup {g}], hd)
<1>1. PICK kind, up, ix : Owned(fs, m, ks, tb, hd, kind, up, ix)
  BY DEF CanOwn
<1>2. g \in Page /\ kind[g] = "free"
  BY <1>1 DEF Owned, Pointed
<1> DEFINE kind2 == [kind EXCEPT ![g] = "dir"]  up2 == [up EXCEPT ![g] = p]
           m2 == [m EXCEPT ![g] = NoDir]  tb2 == [tb EXCEPT ![p] = @ \cup {g}]
<1>3. Pointed(fs \ {g}, ks, tb2, hd, kind2, up2)
  BY <1>1, <1>2, PagesAreNumbers DEF Owned, Pointed, Kinds
<1>4. NoDir \in Directory /\ \A k \in 0 .. KPDX : NoDir[k] = 0
  BY Constants DEF NoDir, Directory
<1>5. Mapped(m2, kind2, up2, ix)
  BY <1>1, <1>2, <1>4, PagesAreNumbers DEF Owned, Mapped, Kinds
<1>6. Owned(fs \ {g}, m2, ks, tb2, hd, kind2, up2, ix)
  BY <1>1, <1>3, <1>5 DEF Owned, Kinds
<1> QED BY <1>6 DEF CanOwn

\* kalloc() of a table, which is entered into a directory.
LEMMA AllocTable ==
  ASSUME NEW fs, NEW m, NEW ks, NEW tb, NEW hd, CanOwn(fs, m, ks, tb, hd),
         NEW g \in fs, NEW p \in Proc, NEW d \in tb[p], NEW k \in 0 .. KPDX,
         m[d][k] = 0
  PROVE  CanOwn(fs \ {g}, [m EXCEPT ![g] = NoTable, ![d][k] = g], ks, tb, hd)
<1>1. PICK kind, up, ix : Owned(fs, m, ks, tb, hd, kind, up, ix)
  BY DEF CanOwn
<1>2. g \in Page /\ kind[g] = "free" /\ d \in Page /\ kind[d] = "dir" /\ d # g
  BY <1>1 DEF Owned, Pointed
<1> DEFINE kind2 == [kind EXCEPT ![g] = "table"]  up2 == [up EXCEPT ![g] = d]
           ix2 == [ix EXCEPT ![g] = k]
           m2 == [m EXCEPT ![g] = NoTable, ![d][k] = g]
<1>3. Pointed(fs \ {g}, ks, tb, hd, kind2, up2)
  BY <1>1, <1>2, PagesAreNumbers DEF Owned, Pointed, Kinds
<1>4. NoTable \in Table /\ \A j \in 0 .. NPTENTRIES - 1 : NoTable[j].pa = 0
  BY Constants DEF NoTable, Table, NoPte, Entry
<1>5. m[d] \in Directory
  BY <1>1, <1>2 DEF Owned, Mapped
<1>6. /\ m2[g] = NoTable /\ \A h \in Page \ {g, d} : m2[h] = m[h]
      /\ m2[d] = [m[d] EXCEPT ![k] = g] /\ DOMAIN m2 = Page
  BY <1>1, <1>2 DEF Owned
<1>7. m2[d] \in Directory
  BY <1>2, <1>5, <1>6, PagesAreNumbers DEF Directory
<1> HIDE DEF m2
<1>8. Mapped(m2, kind2, up2, ix2)
  <2>1. \A h \in Page : kind2[h] = "table" =>
          /\ up2[h] \in Page /\ kind2[up2[h]] = "dir"
          /\ ix2[h] \in 0 .. KPDX /\ m2[up2[h]][ix2[h]] = h
    <3>1. ASSUME NEW h \in Page, kind[h] = "table"
          PROVE  /\ up[h] \in Page /\ kind[up[h]] = "dir" /\ up[h] # g /\ h # g
                 /\ ix[h] \in 0 .. KPDX /\ m2[up[h]][ix[h]] = h
      <4>1. /\ up[h] \in Page /\ kind[up[h]] = "dir" /\ up[h] # g /\ h # g
            /\ ix[h] \in 0 .. KPDX /\ m[up[h]][ix[h]] = h
        BY <1>1, <1>2, <3>1 DEF Owned, Mapped
      <4>2. ~(up[h] = d /\ ix[h] = k)
        BY <4>1, PagesAreNumbers
      <4> QED BY <4>1, <4>2, <1>5, <1>6 DEF Directory
    <3>2. m2[d][k] = g
      BY <1>5, <1>6 DEF Directory
    <3> QED BY <3>1, <3>2, <1>1, <1>2 DEF Owned
  <2>2. \A h \in Page : kind2[h] = "user" =>
          /\ up2[h] \in Page /\ kind2[up2[h]] = "table" /\ ix2[up2[h]] # KPDX
          /\ ix2[h] \in 0 .. NPTENTRIES - 1 /\ m2[up2[h]][ix2[h]].pa = h
    BY <1>1, <1>2, <1>6 DEF Owned, Mapped, Kinds
  <2>3. \A h \in Page : kind2[h] = "dir" =>
         /\ m2[h] \in Directory
         /\ \A l \in 0 .. KPDX : m2[h][l] # 0 =>
              /\ kind2[m2[h][l]] = "table" /\ up2[m2[h][l]] = h
              /\ ix2[m2[h][l]] = l
    <3>1. ASSUME NEW h \in Page, kind[h] = "dir", NEW l \in 0 .. KPDX, m[h][l] # 0
          PROVE  /\ kind2[m[h][l]] = "table" /\ up2[m[h][l]] = h /\ ix2[m[h][l]] = l
      <4>1. m[h][l] \in Page
        BY <3>1, <1>1, Links DEF Owned
      <4>2. kind[m[h][l]] = "table" /\ up[m[h][l]] = h /\ ix[m[h][l]] = l
        BY <3>1, <1>1 DEF Owned, Mapped
      <4> QED BY <4>1, <4>2, <1>1, <1>2 DEF Owned
    <3>2. \A h \in Page : kind2[h] = "dir" => h # g /\ kind[h] = "dir"
      BY <1>1, <1>2 DEF Owned
    <3>3. \A h \in Page : kind[h] = "dir" => m[h] \in Directory
      BY <1>1 DEF Owned, Mapped
    <3>4. kind2[g] = "table" /\ up2[g] = d /\ ix2[g] = k
      BY <1>1, <1>2 DEF Owned
    <3>5. m2[d][k] = g /\ \A l \in 0 .. KPDX : l # k => m2[d][l] = m[d][l]
      BY <1>5, <1>6 DEF Directory
    <3> HIDE DEF kind2, up2, ix2
    <3>6. ASSUME NEW h \in Page, kind2[h] = "dir", NEW l \in 0 .. KPDX, m2[h][l] # 0
          PROVE  /\ kind2[m2[h][l]] = "table" /\ up2[m2[h][l]] = h
                 /\ ix2[m2[h][l]] = l
      <4>1. CASE h = d /\ l = k
        BY <4>1, <3>4, <3>5
      <4>2. CASE ~(h = d /\ l = k)
        <5>1. m2[h][l] = m[h][l]
          BY <4>2, <3>2, <3>5, <3>6, <1>6
        <5> QED BY <5>1, <3>1, <3>2, <3>6
      <4> QED BY <4>1, <4>2
    <3>7. \A h \in Page : kind2[h] = "dir" => m2[h] \in Directory
      BY <3>2, <3>3, <1>6, <1>7
    <3> QED BY <3>6, <3>7
  <2>4. \A h \in Page : kind2[h] = "table" =>
         /\ m2[h] \in Table
         /\ \A j \in 0 .. NPTENTRIES - 1 : m2[h][j].pa # 0 =>
              /\ kind2[m2[h][j].pa] = "user" /\ up2[m2[h][j].pa] = h
              /\ ix2[m2[h][j].pa] = j
    BY <1>1, <1>2, <1>4, <1>6, PagesAreNumbers DEF Owned, Mapped, Kinds
  <2> QED BY <2>1, <2>2, <2>3, <2>4 DEF Mapped
<1>9. Owned(fs \ {g}, m2, ks, tb, hd, kind2, up2, ix2)
  BY <1>1, <1>2, <1>3, <1>6, <1>8 DEF Owned, Kinds
<1> QED BY <1>9 DEF CanOwn, m2

\* mappages(): a page in hand is entered into a table.
LEMMA MapPage ==
  ASSUME NEW fs, NEW m, NEW ks, NEW tb, NEW hd, CanOwn(fs, m, ks, tb, hd),
         NEW p \in Proc, NEW g, hd[p] = {g}, NEW d \in tb[p],
         NEW k \in 0 .. KPDX - 1, m[d][k] # 0,
         NEW j \in 0 .. NPTENTRIES - 1, m[m[d][k]][j].pa = 0, NEW u \in BOOLEAN
  PROVE  CanOwn(fs, [m EXCEPT ![m[d][k]][j] = [pa |-> g, user |-> u]],
                ks, tb, [hd EXCEPT ![p] = {}])
<1>1. PICK kind, up, ix : Owned(fs, m, ks, tb, hd, kind, up, ix)
  BY DEF CanOwn
<1> DEFINE t == m[d][k]
<1>2. g \in Page /\ kind[g] = "hand" /\ d \in Page /\ kind[d] = "dir"
  BY <1>1 DEF Owned, Pointed
<1>3. /\ t \in Page /\ kind[t] = "table" /\ ix[t] = k /\ up[t] = d /\ k # KPDX
      /\ m[t] \in Table /\ t # g
  BY <1>1, <1>2, PagesAreNumbers, Constants DEF Owned, Mapped, Directory
<1> HIDE DEF t
<1> DEFINE kind2 == [kind EXCEPT ![g] = "user"]  up2 == [up EXCEPT ![g] = t]
           ix2 == [ix EXCEPT ![g] = j]  hd2 == [hd EXCEPT ![p] = {}]
           m2 == [m EXCEPT ![t][j] = [pa |-> g, user |-> u]]
<1>4. Pointed(fs, ks, tb, hd2, kind2, up2)
  BY <1>1, <1>2, PagesAreNumbers DEF Owned, Pointed, Kinds
<1>5. /\ \A h \in Page \ {t} : m2[h] = m[h]
      /\ m2[t] = [m[t] EXCEPT ![j] = [pa |-> g, user |-> u]] /\ DOMAIN m2 = Page
  BY <1>1, <1>3 DEF Owned
<1>6. m2[t] \in Table
  BY <1>2, <1>3, <1>5, PagesAreNumbers DEF Table, Entry
<1>7. /\ m2[t][j].pa = g
      /\ \A i \in 0 .. NPTENTRIES - 1 : i # j => m2[t][i] = m[t][i]
  BY <1>3, <1>5 DEF Table
<1> HIDE DEF m2
<1>8. Mapped(m2, kind2, up2, ix2)
  <2>1. \A h \in Page : kind2[h] = "table" =>
          /\ up2[h] \in Page /\ kind2[up2[h]] = "dir"
          /\ ix2[h] \in 0 .. KPDX /\ m2[up2[h]][ix2[h]] = h
    BY <1>1, <1>2, <1>3, <1>5 DEF Owned, Mapped, Kinds
  <2>2. \A h \in Page : kind2[h] = "user" =>
          /\ up2[h] \in Page /\ kind2[up2[h]] = "table" /\ ix2[up2[h]] # KPDX
          /\ ix2[h] \in 0 .. NPTENTRIES - 1 /\ m2[up2[h]][ix2[h]].pa = h
    <3>1. ASSUME NEW h \in Page, kind2[h] = "user", h # g
          PROVE  /\ up2[h] \in Page /\ kind2[up2[h]] = "table" /\ ix2[up2[h]] # KPDX
                 /\ ix2[h] \in 0 .. NPTENTRIES - 1 /\ m2[up2[h]][ix2[h]].pa = h
      <4>1. /\ up[h] \in Page /\ kind[up[h]] = "table" /\ ix[up[h]] # KPDX
            /\ ix[h] \in 0 .. NPTENTRIES - 1 /\ m[up[h]][ix[h]].pa = h
        BY <1>1, <3>1 DEF Owned, Mapped
      <4>2. ~(up[h] = t /\ ix[h] = j)
        BY <4>1, PagesAreNumbers DEF t
      <4> QED BY <4>1, <4>2, <3>1, <1>1, <1>2, <1>5, <1>7 DEF Owned
    <3> QED BY <3>1, <1>1, <1>2, <1>3, <1>7 DEF Owned
  <2>3. \A h \in Page : kind2[h] = "dir" =>
         /\ m2[h] \in Directory
         /\ \A l \in 0 .. KPDX : m2[h][l] # 0 =>
              /\ kind2[m2[h][l]] = "table" /\ up2[m2[h][l]] = h
              /\ ix2[m2[h][l]] = l
    BY <1>1, <1>2, <1>3, <1>5, PagesAreNumbers DEF Owned, Mapped, Kinds
  <2>4. \A h \in Page : kind2[h] = "table" =>
         /\ m2[h] \in Table
         /\ \A i \in 0 .. NPTENTRIES - 1 : m2[h][i].pa # 0 =>
              /\ kind2[m2[h][i].pa] = "user" /\ up2[m2[h][i].pa] = h
              /\ ix2[m2[h][i].pa] = i
    <3>1. ASSUME NEW h \in Page, kind[h] = "table", NEW i \in 0 .. NPTENTRIES - 1,
                 m[h][i].pa # 0
          PROVE  /\ kind2[m[h][i].pa] = "user" /\ up2[m[h][i].pa] = h
                 /\ ix2[m[h][i].pa] = i
      <4>1. m[h][i].pa \in Page
        BY <3>1, <1>1, Links DEF Owned
      <4>2. kind[m[h][i].pa] = "user" /\ up[m[h][i].pa] = h /\ ix[m[h][i].pa] = i
        BY <3>1, <1>1 DEF Owned, Mapped
      <4> QED BY <4>1, <4>2, <1>1, <1>2 DEF Owned
    <3>2. \A h \in Page : kind2[h] = "table" => h # g /\ kind[h] = "table"
      BY <1>1, <1>2 DEF Owned
    <3>3. \A h \in Page : kind[h] = "table" => m[h] \in Table
      BY <1>1 DEF Owned, Mapped
    <3>4. kind2[g] = "user" /\ up2[g] = t /\ ix2[g] = j
      BY <1>1, <1>2 DEF Owned
    <3> HIDE DEF kind2, up2, ix2
    <3>6. ASSUME NEW h \in Page, kind2[h] = "table", NEW i \in 0 .. NPTENTRIES - 1,
                 m2[h][i].pa # 0
          PROVE  /\ kind2[m2[h][i].pa] = "user" /\ up2[m2[h][i].pa] = h
                 /\ ix2[m2[h][i].pa] = i
      <4>1. CASE h = t /\ i = j
        BY <4>1, <3>4, <1>7
      <4>2. CASE ~(h = t /\ i = j)
        <5>1. m2[h][i] = m[h][i]
          BY <4>2, <3>2, <3>6, <1>5, <1>7
        <5> QED BY <5>1, <3>1, <3>2, <3>6
      <4> QED BY <4>1, <4>2
    <3>7. \A h \in Page : kind2[h] = "table" => m2[h] \in Table
      BY <3>2, <3>3, <1>5, <1>6
    <3> QED BY <3>6, <3>7
  <2> QED BY <2>1, <2>2, <2>3, <2>4 DEF Mapped
<1>9. Owned(fs, m2, ks, tb, hd2, kind2, up2, ix2)
  BY <1>1, <1>2, <1>4, <1>5, <1>8 DEF Owned, Kinds
<1> QED BY <1>9 DEF CanOwn, m2, t

\* kfree() of a page in hand.
LEMMA FreeHand ==
  ASSUME NEW fs, NEW m, NEW ks, NEW tb, NEW hd, CanOwn(fs, m, ks, tb, hd),
         NEW p \in Proc, NEW g, hd[p] = {g}, NEW x
  PROVE  /\ g \in Page \ fs
         /\ CanOwn(fs \cup {g}, [m EXCEPT ![g] = x], ks, tb, [hd EXCEPT ![p] = {}])
<1>1. PICK kind, up, ix : Owned(fs, m, ks, tb, hd, kind, up, ix)
  BY DEF CanOwn
<1>2. g \in Page \ fs /\ kind[g] = "hand"
  BY <1>1 DEF Owned, Pointed
<1> DEFINE kind2 == [kind EXCEPT ![g] = "free"]  up2 == [up EXCEPT ![g] = p]
           m2 == [m EXCEPT ![g] = x]  hd2 == [hd EXCEPT ![p] = {}]
<1>3. Pointed(fs \cup {g}, ks, tb, hd2, kind2, up2)
  BY <1>1, <1>2, PagesAreNumbers DEF Owned, Pointed, Kinds
<1>4. Mapped(m2, kind2, up2, ix)
  BY <1>1, <1>2, MappedPlain DEF Owned
<1>5. Owned(fs \cup {g}, m2, ks, tb, hd2, kind2, up2, ix)
  BY <1>1, <1>3, <1>4 DEF Owned, Kinds
<1> QED BY <1>2, <1>5 DEF CanOwn

\* kfree() of the stack of a process.
LEMMA FreeStack ==
  ASSUME NEW fs, NEW m, NEW ks, NEW tb, NEW hd, CanOwn(fs, m, ks, tb, hd),
         NEW p \in Proc, ks[p] # 0, NEW x
  PROVE  /\ ks[p] \in Page \ fs
         /\ CanOwn(fs \cup {ks[p]}, [m EXCEPT ![ks[p]] = x],
                   [ks EXCEPT ![p] = 0], tb, hd)
<1>1. PICK kind, up, ix : Owned(fs, m, ks, tb, hd, kind, up, ix)
  BY DEF CanOwn
<1> DEFINE g == ks[p]
<1>2. g \in Page \ fs /\ kind[g] = "stack" /\ up[g] = p
  BY <1>1 DEF Owned, Pointed
<1> HIDE DEF g
<1> DEFINE kind2 == [kind EXCEPT ![g] = "free"]  up2 == [up EXCEPT ![g] = p]
           m2 == [m EXCEPT ![g] = x]  ks2 == [ks EXCEPT ![p] = 0]
<1>3. Pointed(fs \cup {g}, ks2, tb, hd, kind2, up2)
  BY <1>1, <1>2, PagesAreNumbers DEF Owned, Pointed, Kinds, g
<1>4. Mapped(m2, kind2, up2, ix)
  BY <1>1, <1>2, MappedPlain DEF Owned
<1>5. Owned(fs \cup {g}, m2, ks2, tb, hd, kind2, up2, ix)
  BY <1>1, <1>3, <1>4 DEF Owned, Kinds
<1> QED BY <1>2, <1>5 DEF CanOwn, g

\* deallocuvm(): a page is taken out of its table and freed.
LEMMA FreeUser ==
  ASSUME NEW fs, NEW m, NEW ks, NEW tb, NEW hd, CanOwn(fs, m, ks, tb, hd),
         NEW p \in Proc, NEW d \in tb[p], NEW k \in 0 .. KPDX, m[d][k] # 0,
         NEW j \in 0 .. NPTENTRIES - 1, m[m[d][k]][j].pa # 0, NEW x
  PROVE  /\ m[m[d][k]][j].pa \in Page \ fs
         /\ CanOwn(fs \cup {m[m[d][k]][j].pa},
                   [[m EXCEPT ![m[d][k]][j] = NoPte]
                       EXCEPT ![m[m[d][k]][j].pa] = x], ks, tb, hd)
<1>1. PICK kind, up, ix : Owned(fs, m, ks, tb, hd, kind, up, ix)
  BY DEF CanOwn
<1> DEFINE t == m[d][k]  g == m[t][j].pa
<1>2. d \in Page /\ kind[d] = "dir"
  BY <1>1 DEF Owned, Pointed
<1>3. t \in Page /\ kind[t] = "table" /\ m[t] \in Table
  BY <1>1, <1>2, Links DEF Owned
<1> HIDE DEF t
<1>4. g \in Page \ fs /\ kind[g] = "user" /\ up[g] = t /\ ix[g] = j /\ g # t
  BY <1>1, <1>3, Links DEF Owned, Pointed, t
<1> HIDE DEF g
<1> DEFINE kind2 == [kind EXCEPT ![g] = "free"]
           m2 == [[m EXCEPT ![t][j] = NoPte] EXCEPT ![g] = x]
<1>5. Pointed(fs \cup {g}, ks, tb, hd, kind2, up)
  BY <1>1, <1>4, PagesAreNumbers DEF Owned, Pointed, Kinds
<1>6. /\ \A h \in Page \ {t, g} : m2[h] = m[h]
      /\ m2[t] = [m[t] EXCEPT ![j] = NoPte] /\ DOMAIN m2 = Page
  BY <1>1, <1>3, <1>4 DEF Owned
<1> HIDE DEF m2
<1>7. /\ m2[t][j].pa = 0 /\ m2[t] \in Table
      /\ \A i \in 0 .. NPTENTRIES - 1 : i # j => m2[t][i] = m[t][i]
  BY <1>3, <1>6, Constants DEF Table, Entry, NoPte
<1>8. kind2[g] = "free" /\ \A h \in Page \ {g} : kind2[h] = kind[h]
  BY <1>1, <1>4 DEF Owned
<1> HIDE DEF kind2
<1>9. Mapped(m2, kind2, up, ix)
  <2>1. ASSUME NEW h \in Page, kind2[h] = "table"
        PROVE  /\ up[h] \in Page /\ kind2[up[h]] = "dir"
               /\ ix[h] \in 0 .. KPDX /\ m2[up[h]][ix[h]] = h
    <3>1. /\ up[h] \in Page /\ kind[up[h]] = "dir"
          /\ ix[h] \in 0 .. KPDX /\ m[up[h]][ix[h]] = h
      BY <1>1, <1>8, <2>1 DEF Owned, Mapped
    <3> QED BY <3>1, <1>3, <1>4, <1>6, <1>8
  <2>2. ASSUME NEW h \in Page, kind2[h] = "user"
        PROVE  /\ up[h] \in Page /\ kind2[up[h]] = "table" /\ ix[up[h]] # KPDX
               /\ ix[h] \in 0 .. NPTENTRIES - 1 /\ m2[up[h]][ix[h]].pa = h
    <3>1. /\ h # g /\ up[h] \in Page /\ kind[up[h]] = "table" /\ ix[up[h]] # KPDX
          /\ ix[h] \in 0 .. NPTENTRIES - 1 /\ m[up[h]][ix[h]].pa = h
      BY <1>1, <1>8, <2>2 DEF Owned, Mapped
    <3>2. ~(up[h] = t /\ ix[h] = j)
      BY <3>1 DEF g
    <3> QED BY <3>1, <3>2, <1>4, <1>6, <1>7, <1>8
  <2>3. ASSUME NEW h \in Page, kind2[h] = "dir"
        PROVE  /\ m2[h] \in Directory
               /\ \A l \in 0 .. KPDX : m2[h][l] # 0 =>
                    kind2[m2[h][l]] = "table" /\ up[m2[h][l]] = h /\ ix[m2[h][l]] = l
    <3>1. m2[h] = m[h] /\ kind[h] = "dir"
      BY <2>3, <1>3, <1>6, <1>8
    <3>2. m[h] \in Directory
      BY <3>1, <1>1, Links DEF Owned
    <3>3. ASSUME NEW l \in 0 .. KPDX, m[h][l] # 0
          PROVE  kind2[m[h][l]] = "table" /\ up[m[h][l]] = h /\ ix[m[h][l]] = l
      <4>1. /\ m[h][l] \in Page /\ kind[m[h][l]] = "table" /\ up[m[h][l]] = h
            /\ ix[m[h][l]] = l
        BY <3>1, <3>3, <1>1, Links DEF Owned
      <4> QED BY <4>1, <1>4, <1>8
    <3> QED BY <3>1, <3>2, <3>3
  <2>4. ASSUME NEW h \in Page, kind2[h] = "table"
        PROVE  /\ m2[h] \in Table
               /\ \A i \in 0 .. NPTENTRIES - 1 : m2[h][i].pa # 0 =>
                    /\ kind2[m2[h][i].pa] = "user" /\ up[m2[h][i].pa] = h
                    /\ ix[m2[h][i].pa] = i
    <3>1. kind[h] = "table" /\ h # g /\ m[h] \in Table
      BY <2>4, <1>1, <1>8, Links DEF Owned
    <3>2. ASSUME NEW i \in 0 .. NPTENTRIES - 1, m2[h][i].pa # 0
          PROVE  /\ kind2[m2[h][i].pa] = "user" /\ up[m2[h][i].pa] = h
                 /\ ix[m2[h][i].pa] = i
      <4>1. m2[h][i] = m[h][i] /\ ~(h = t /\ i = j)
        BY <3>1, <3>2, <1>6, <1>7
      <4>2. /\ m[h][i].pa \in Page /\ kind[m[h][i].pa] = "user"
            /\ up[m[h][i].pa] = h /\ ix[m[h][i].pa] = i
        BY <3>1, <3>2, <4>1, <1>1, Links DEF Owned
      <4>3. m[h][i].pa # g
        BY <4>1, <4>2, <1>4
      <4> QED BY <4>1, <4>2, <4>3, <1>8
    <3> QED BY <3>1, <3>2, <1>6, <1>7
  <2> QED BY <2>1, <2>2, <2>3, <2>4 DEF Mapped
<1>10. kind2 \in [Page -> Kinds]
  BY <1>1, <1>4 DEF Owned, Kinds, kind2
<1>11. Owned(fs \cup {g}, m2, ks, tb, hd, kind2, up, ix)
  BY <1>1, <1>5, <1>6, <1>9, <1>10 DEF Owned
<1>12. CanOwn(fs \cup {g}, m2, ks, tb, hd)
  BY <1>11 DEF CanOwn
<1> QED BY <1>4, <1>12 DEF m2, g, t

\* freevm(): a table without entries is taken out of its directory and freed.
LEMMA FreeTable ==
  ASSUME NEW fs, NEW m, NEW ks, NEW tb, NEW hd, CanOwn(fs, m, ks, tb, hd),
         NEW p \in Proc, NEW d \in tb[p], NEW k \in 0 .. KPDX, m[d][k] # 0,
         k # KPDX => \A j \in 0 .. NPTENTRIES - 1 : m[m[d][k]][j].pa = 0, NEW x
  PROVE  /\ m[d][k] \in Page \ fs
         /\ CanOwn(fs \cup {m[d][k]},
                   [[m EXCEPT ![d][k] = 0] EXCEPT ![m[d][k]] = x], ks, tb, hd)
<1>1. PICK kind, up, ix : Owned(fs, m, ks, tb, hd, kind, up, ix)
  BY DEF CanOwn
<1> DEFINE g == m[d][k]
<1>2. d \in Page /\ kind[d] = "dir" /\ m[d] \in Directory
  BY <1>1, Links DEF Owned, Pointed
<1>3. g \in Page \ fs /\ kind[g] = "table" /\ g # d /\ up[g] = d /\ ix[g] = k
  BY <1>1, <1>2, Links DEF Owned, Pointed
<1> HIDE DEF g
<1>4. ASSUME NEW h \in Page, kind[h] = "user" PROVE up[h] # g
  <2>1. /\ ix[up[h]] # KPDX /\ ix[h] \in 0 .. NPTENTRIES - 1
        /\ m[up[h]][ix[h]].pa = h
    BY <1>1, <1>4 DEF Owned, Mapped
  <2> QED BY <2>1, <1>3, PagesAreNumbers DEF g
<1> DEFINE kind2 == [kind EXCEPT ![g] = "free"]
           m2 == [[m EXCEPT ![d][k] = 0] EXCEPT ![g] = x]
<1>5. Pointed(fs \cup {g}, ks, tb, hd, kind2, up)
  BY <1>1, <1>3, PagesAreNumbers DEF Owned, Pointed, Kinds
<1>6. /\ \A h \in Page \ {d, g} : m2[h] = m[h]
      /\ m2[d] = [m[d] EXCEPT ![k] = 0] /\ DOMAIN m2 = Page
  BY <1>1, <1>2, <1>3 DEF Owned
<1> HIDE DEF m2
<1>7. /\ m2[d][k] = 0 /\ m2[d] \in Directory
      /\ \A l \in 0 .. KPDX : l # k => m2[d][l] = m[d][l]
  BY <1>2, <1>6, Constants DEF Directory
<1>8. kind2[g] = "free" /\ \A h \in Page \ {g} : kind2[h] = kind[h]
  BY <1>1, <1>3 DEF Owned
<1> HIDE DEF kind2
<1>9. Mapped(m2, kind2, up, ix)
  <2>1. ASSUME NEW h \in Page, kind2[h] = "table"
        PROVE  /\ up[h] \in Page /\ kind2[up[h]] = "dir"
               /\ ix[h] \in 0 .. KPDX /\ m2[up[h]][ix[h]] = h
    <3>1. /\ h # g /\ up[h] \in Page /\ kind[up[h]] = "dir"
          /\ ix[h] \in 0 .. KPDX /\ m[up[h]][ix[h]] = h
      BY <1>1, <1>8, <2>1 DEF Owned, Mapped
    <3>2. ~(up[h] = d /\ ix[h] = k)
      BY <3>1 DEF g
    <3> QED BY <3>1, <3>2, <1>3, <1>6, <1>7, <1>8
  <2>2. ASSUME NEW h \in Page, kind2[h] = "user"
        PROVE  /\ up[h] \in Page /\ kind2[up[h]] = "table" /\ ix[up[h]] # KPDX
               /\ ix[h] \in 0 .. NPTENTRIES - 1 /\ m2[up[h]][ix[h]].pa = h
    <3>1. /\ h # g /\ up[h] \in Page /\ kind[up[h]] = "table" /\ ix[up[h]] # KPDX
          /\ ix[h] \in 0 .. NPTENTRIES - 1 /\ m[up[h]][ix[h]].pa = h /\ up[h] # g
      BY <1>1, <1>4, <1>8, <2>2 DEF Owned, Mapped
    <3> QED BY <3>1, <1>2, <1>6, <1>8
  <2>3. ASSUME NEW h \in Page, kind2[h] = "dir"
        PROVE  /\ m2[h] \in Directory
               /\ \A l \in 0 .. KPDX : m2[h][l] # 0 =>
                    kind2[m2[h][l]] = "table" /\ up[m2[h][l]] = h /\ ix[m2[h][l]] = l
    <3>1. kind[h] = "dir" /\ h # g /\ m[h] \in Directory
      BY <2>3, <1>1, <1>8, Links DEF Owned
    <3>2. ASSUME NEW l \in 0 .. KPDX, m2[h][l] # 0
          PROVE  kind2[m2[h][l]] = "table" /\ up[m2[h][l]] = h /\ ix[m2[h][l]] = l
      <4>1. m2[h][l] = m[h][l] /\ ~(h = d /\ l = k)
        BY <3>1, <3>2, <1>6, <1>7
      <4>2. /\ m[h][l] \in Page /\ kind[m[h][l]] = "table" /\ up[m[h][l]] = h
            /\ ix[m[h][l]] = l
        BY <3>1, <3>2, <4>1, <1>1, Links DEF Owned
      <4>3. m[h][l] # g
        BY <4>1, <4>2, <1>3
      <4> QED BY <4>1, <4>2, <4>3, <1>8
    <3> QED BY <3>1, <3>2, <1>6, <1>7
  <2>4. ASSUME NEW h \in Page, kind2[h] = "table"
        PROVE  /\ m2[h] \in Table
               /\ \A i \in 0 .. NPTENTRIES - 1 : m2[h][i].pa # 0 =>
                    /\ kind2[m2[h][i].pa] = "user" /\ up[m2[h][i].pa] = h
                    /\ ix[m2[h][i].pa] = i
    <3>1. m2[h] = m[h] /\ kind[h] = "table"
      BY <2>4, <1>2, <1>6, <1>8
    <3>2. ASSUME NEW i \in 0 .. NPTENTRIES - 1, m[h][i].pa # 0
          PROVE  /\ kind2[m[h][i].pa] = "user" /\ up[m[h][i].pa] = h
                 /\ ix[m[h][i].pa] = i
      <4>1. /\ m[h][i].pa \in Page /\ kind[m[h][i].pa] = "user"
            /\ up[m[h][i].pa] = h /\ ix[m[h][i].pa] = i
        BY <3>1, <3>2, <1>1, Links DEF Owned
      <4> QED BY <4>1, <1>3, <1>8
    <3>3. m[h] \in Table
      BY <3>1, <1>1, Links DEF Owned
    <3> QED BY <3>1, <3>2, <3>3
  <2> QED BY <2>1, <2>2, <2>3, <2>4 DEF Mapped
<1>10. kind2 \in [Page -> Kinds]
  BY <1>1, <1>3 DEF Owned, Kinds, kind2
<1>11. Owned(fs \cup {g}, m2, ks, tb, hd, kind2, up, ix)
  BY <1>1, <1>5, <1>6, <1>9, <1>10 DEF Owned
<1>12. CanOwn(fs \cup {g}, m2, ks, tb, hd)
  BY <1>11 DEF CanOwn
<1> QED BY <1>3, <1>12 DEF m2, g

\* freevm(): a directory without tables is freed.
LEMMA FreeDir ==
  ASSUME NEW fs, NEW m, NEW ks, NEW tb, NEW hd, CanOwn(fs, m, ks, tb, hd),
         NEW p \in Proc, NEW d \in tb[p], \A k \in 0 .. KPDX : m[d][k] = 0, NEW x
  PROVE  /\ d \in Page \ fs
         /\ CanOwn(fs \cup {d}, [m EXCEPT ![d] = x], ks,
                   [tb EXCEPT ![p] = @ \ {d}], hd)
<1>1. PICK kind, up, ix : Owned(fs, m, ks, tb, hd, kind, up, ix)
  BY DEF CanOwn
<1>2. d \in Page \ fs /\ kind[d] = "dir" /\ up[d] = p
  BY <1>1 DEF Owned, Pointed
<1>3. ASSUME NEW h \in Page, kind[h] = "table" PROVE up[h] # d
  BY <1>1, <1>3, PagesAreNumbers DEF Owned, Mapped
<1> DEFINE kind2 == [kind EXCEPT ![d] = "free"]  m2 == [m EXCEPT ![d] = x]
           tb2 == [tb EXCEPT ![p] = @ \ {d}]
<1>4. Pointed(fs \cup {d}, ks, tb2, hd, kind2, up)
  BY <1>1, <1>2, PagesAreNumbers DEF Owned, Pointed, Kinds
<1>5. \A h \in Page \ {d} : m2[h] = m[h] /\ kind2[h] = kind[h]
  BY <1>1 DEF Owned
<1>6. kind2[d] = "free" /\ DOMAIN m2 = Page /\ kind2 \in [Page -> Kinds]
  BY <1>1, <1>2 DEF Owned, Kinds
<1> HIDE DEF m2, kind2
<1>7. Mapped(m2, kind2, up, ix)
  <2>1. ASSUME NEW h \in Page, kind2[h] = "table"
        PROVE  /\ up[h] \in Page /\ kind2[up[h]] = "dir"
               /\ ix[h] \in 0 .. KPDX /\ m2[up[h]][ix[h]] = h
    <3>1. h # d /\ kind[h] = "table"
      BY <2>1, <1>5, <1>6
    <3>2. /\ up[h] \in Page /\ kind[up[h]] = "dir" /\ up[h] # d
          /\ ix[h] \in 0 .. KPDX /\ m[up[h]][ix[h]] = h
      BY <1>1, <1>3, <3>1 DEF Owned, Mapped
    <3> QED BY <3>1, <3>2, <1>5
  <2>2. ASSUME NEW h \in Page, kind2[h] = "user"
        PROVE  /\ up[h] \in Page /\ kind2[up[h]] = "table" /\ ix[up[h]] # KPDX
               /\ ix[h] \in 0 .. NPTENTRIES - 1 /\ m2[up[h]][ix[h]].pa = h
    <3>1. h # d /\ kind[h] = "user"
      BY <2>2, <1>5, <1>6
    <3>2. /\ up[h] \in Page /\ kind[up[h]] = "table" /\ ix[up[h]] # KPDX
          /\ ix[h] \in 0 .. NPTENTRIES - 1 /\ m[up[h]][ix[h]].pa = h
      BY <1>1, <3>1 DEF Owned, Mapped
    <3> QED BY <3>1, <3>2, <1>2, <1>5
  <2>3. ASSUME NEW h \in Page, kind2[h] = "dir"
        PROVE  /\ m2[h] \in Directory
               /\ \A l \in 0 .. KPDX : m2[h][l] # 0 =>
                    kind2[m2[h][l]] = "table" /\ up[m2[h][l]] = h /\ ix[m2[h][l]] = l
    <3>1. h # d /\ kind[h] = "dir" /\ m2[h] = m[h]
      BY <2>3, <1>5, <1>6
    <3>2. m[h] \in Directory
      BY <3>1, <1>1, Links DEF Owned
    <3>3. ASSUME NEW l \in 0 .. KPDX, m[h][l] # 0
          PROVE  kind2[m[h][l]] = "table" /\ up[m[h][l]] = h /\ ix[m[h][l]] = l
      <4>1. /\ m[h][l] \in Page /\ kind[m[h][l]] = "table" /\ up[m[h][l]] = h
            /\ ix[m[h][l]] = l
        BY <3>1, <3>3, <1>1, Links DEF Owned
      <4> QED BY <4>1, <1>2, <1>5
    <3> QED BY <3>1, <3>2, <3>3
  <2>4. ASSUME NEW h \in Page, kind2[h] = "table"
        PROVE  /\ m2[h] \in Table
               /\ \A i \in 0 .. NPTENTRIES - 1 : m2[h][i].pa # 0 =>
                    /\ kind2[m2[h][i].pa] = "user" /\ up[m2[h][i].pa] = h
                    /\ ix[m2[h][i].pa] = i
    <3>1. h # d /\ m2[h] = m[h] /\ kind[h] = "table"
      BY <2>4, <1>5, <1>6
    <3>2. m[h] \in Table
      BY <3>1, <1>1, Links DEF Owned
    <3>3. ASSUME NEW i \in 0 .. NPTENTRIES - 1, m[h][i].pa # 0
          PROVE  /\ kind2[m[h][i].pa] = "user" /\ up[m[h][i].pa] = h
                 /\ ix[m[h][i].pa] = i
      <4>1. /\ m[h][i].pa \in Page /\ kind[m[h][i].pa] = "user"
            /\ up[m[h][i].pa] = h /\ ix[m[h][i].pa] = i
        BY <3>1, <3>3, <1>1, Links DEF Owned
      <4> QED BY <4>1, <1>2, <1>5
    <3> QED BY <3>1, <3>2, <3>3
  <2> QED BY <2>1, <2>2, <2>3, <2>4 DEF Mapped
<1>8. Owned(fs \cup {d}, m2, ks, tb2, hd, kind2, up, ix)
  BY <1>1, <1>4, <1>6, <1>7 DEF Owned
<1>9. CanOwn(fs \cup {d}, m2, ks, tb2, hd)
  BY <1>8 DEF CanOwn
<1> QED BY <1>2, <1>9 DEF m2

\* A page table goes from one process to another, from fork() or to wait().
LEMMA MoveDir ==
  ASSUME NEW fs, NEW m, NEW ks, NEW tb, NEW hd, CanOwn(fs, m, ks, tb, hd),
         NEW p \in Proc, NEW q \in Proc, p # q, NEW d \in tb[p]
  PROVE  CanOwn(fs, m, ks, [tb EXCEPT ![p] = @ \ {d}, ![q] = @ \cup {d}], hd)
<1>1. PICK kind, up, ix : Owned(fs, m, ks, tb, hd, kind, up, ix)
  BY DEF CanOwn
<1>2. d \in Page /\ kind[d] = "dir" /\ up[d] = p
  BY <1>1 DEF Owned, Pointed
<1> DEFINE up2 == [up EXCEPT ![d] = q]
           tb2 == [tb EXCEPT ![p] = @ \ {d}, ![q] = @ \cup {d}]
<1>3. /\ tb2[p] = tb[p] \ {d} /\ tb2[q] = tb[q] \cup {d} /\ DOMAIN tb2 = Proc
      /\ \A r \in Proc \ {p, q} : tb2[r] = tb[r]
  BY <1>1 DEF Owned
<1>4. /\ up2[d] = q /\ DOMAIN up2 = Page
      /\ \A h \in Page \ {d} : up2[h] = up[h]
  BY <1>1, <1>2 DEF Owned
<1> HIDE DEF up2, tb2
<1>5. Pointed(fs, ks, tb2, hd, kind, up2)
  BY <1>1, <1>2, <1>3, <1>4 DEF Owned, Pointed
<1>6. Mapped(m, kind, up2, ix)
  <2>1. ASSUME NEW h \in Page, kind[h] \in {"table", "user"} PROVE up2[h] = up[h]
    BY <2>1, <1>2, <1>4
  <2>2. ASSUME NEW h \in Page, kind[h] = "dir", NEW l \in 0 .. KPDX, m[h][l] # 0
        PROVE  up2[m[h][l]] = h
    BY <2>1, <2>2, <1>1, Links DEF Owned
  <2>3. ASSUME NEW h \in Page, kind[h] = "table", NEW i \in 0 .. NPTENTRIES - 1,
               m[h][i].pa # 0
        PROVE  up2[m[h][i].pa] = h
    BY <2>1, <2>3, <1>1, Links DEF Owned
  <2> QED BY <2>1, <2>2, <2>3, <1>1 DEF Owned, Mapped
<1>7. Owned(fs, m, ks, tb2, hd, kind, up2, ix)
  BY <1>1, <1>3, <1>4, <1>5, <1>6 DEF Owned
<1> QED BY <1>7 DEF CanOwn, tb2

\* clearpteu(): a page stays where it is.
LEMMA ClearUser ==
  ASSUME NEW fs, NEW m, NEW ks, NEW tb, NEW hd, CanOwn(fs, m, ks, tb, hd),
         NEW p \in Proc, NEW d \in tb[p], NEW k \in 0 .. KPDX,
         NEW j \in 0 .. NPTENTRIES - 1
  PROVE  CanOwn(fs, [m EXCEPT ![m[d][k]][j].user = FALSE], ks, tb, hd)
<1>1. PICK kind, up, ix : Owned(fs, m, ks, tb, hd, kind, up, ix)
  BY DEF CanOwn
<1> DEFINE t == m[d][k]  m2 == [m EXCEPT ![t][j].user = FALSE]
<1>2. d \in Page /\ kind[d] = "dir"
  BY <1>1 DEF Owned, Pointed
<1>3. CASE t = 0
  <2>1. DOMAIN m2 = Page /\ \A h \in Page : m2[h] = m[h]
    BY <1>1, <1>3, PagesAreNumbers DEF Owned
  <2> HIDE DEF m2, t
  <2>2. Mapped(m2, kind, up, ix)
    BY <1>1, <2>1 DEF Owned, Mapped
  <2>3. Owned(fs, m2, ks, tb, hd, kind, up, ix)
    BY <1>1, <2>1, <2>2 DEF Owned
  <2> QED BY <2>3 DEF CanOwn, m2, t
<1>4. CASE t # 0
  <2>1. t \in Page /\ kind[t] = "table" /\ m[t] \in Table
    BY <1>1, <1>2, <1>4, Links DEF Owned
  <2> HIDE DEF t
  <2>2. /\ DOMAIN m2 = Page /\ \A h \in Page \ {t} : m2[h] = m[h]
        /\ m2[t] = [m[t] EXCEPT ![j].user = FALSE]
    BY <1>1, <2>1 DEF Owned
  <2> HIDE DEF m2
  <2>3. /\ m2[t] \in Table
        /\ \A i \in 0 .. NPTENTRIES - 1 : m2[t][i].pa = m[t][i].pa
    <3>1. [m[t][j] EXCEPT !.user = FALSE] \in Entry
          /\ [m[t][j] EXCEPT !.user = FALSE].pa = m[t][j].pa
      BY <2>1 DEF Table, Entry
    <3>2. m2[t] = [m[t] EXCEPT ![j] = [m[t][j] EXCEPT !.user = FALSE]]
      BY <2>1, <2>2 DEF Table
    <3> QED BY <3>1, <3>2, <2>1 DEF Table
  <2>4. Mapped(m2, kind, up, ix)
    <3>1. ASSUME NEW h \in Page, kind[h] = "dir" PROVE m2[h] = m[h]
      BY <3>1, <2>1, <2>2
    <3>2. ASSUME NEW h \in Page, kind[h] = "table"
          PROVE  /\ m2[h] \in Table
                 /\ \A i \in 0 .. NPTENTRIES - 1 : m2[h][i].pa = m[h][i].pa
      <4>1. m[h] \in Table
        BY <3>2, <1>1, Links DEF Owned
      <4> QED BY <4>1, <2>2, <2>3
    <3> QED BY <3>1, <3>2, <1>1 DEF Owned, Mapped
  <2>5. Owned(fs, m2, ks, tb, hd, kind, up, ix)
    BY <1>1, <2>2, <2>4 DEF Owned
  <2> QED BY <2>5 DEF CanOwn, m2, t
<1> QED BY <1>3, <1>4

-----------------------------------------------------------------------------
(* The free list and the plans                                             *)

LEMMA KallocList ==
  ASSUME freelist \in Seq(Page), Distinct(freelist), freelist # <<>>,
         freelist' = Tail(freelist)
  PROVE  /\ freelist' \in Seq(Page) /\ Distinct(freelist)'
         /\ Got \in FreeSet /\ FreeSet' = FreeSet \ {Got}
<1>1. Len(freelist) \in Nat /\ Len(freelist) > 0 /\ Got = freelist[1]
  BY DEF Got
<1>2. /\ freelist' \in Seq(Page) /\ Len(freelist') = Len(freelist) - 1
      /\ \A k \in 1 .. Len(freelist) - 1 : freelist'[k] = freelist[k + 1]
  BY <1>1
<1>3. DOMAIN freelist = 1 .. Len(freelist) /\ DOMAIN freelist' = 1 .. Len(freelist) - 1
  BY <1>1, <1>2
<1>4. Distinct(freelist)'
  BY <1>1, <1>2, <1>3 DEF Distinct
<1>5. Got \in FreeSet
  BY <1>1, <1>3 DEF FreeSet
<1>6. ASSUME NEW g \in FreeSet' PROVE g \in FreeSet \ {Got}
  BY <1>1, <1>2, <1>3 DEF FreeSet, Distinct
<1>7. ASSUME NEW g \in FreeSet \ {Got} PROVE g \in FreeSet'
  <2>1. PICK k \in DOMAIN freelist : g = freelist[k]
    BY DEF FreeSet
  <2>2. k - 1 \in DOMAIN freelist' /\ freelist'[k - 1] = g
    BY <1>1, <1>2, <1>3, <2>1
  <2> QED BY <2>2 DEF FreeSet
<1> QED BY <1>2, <1>4, <1>5, <1>6, <1>7

LEMMA KfreeList ==
  ASSUME freelist \in Seq(Page), Distinct(freelist),
         NEW g \in Page \ FreeSet, freelist' = <<g>> \o freelist
  PROVE  /\ freelist' \in Seq(Page) /\ Distinct(freelist)'
         /\ FreeSet' = FreeSet \cup {g}
<1>1. Len(freelist) \in Nat /\ DOMAIN freelist = 1 .. Len(freelist)
  OBVIOUS
<1>2. /\ freelist' \in Seq(Page) /\ Len(freelist') = Len(freelist) + 1
      /\ freelist'[1] = g
      /\ \A k \in 2 .. Len(freelist) + 1 : freelist'[k] = freelist[k - 1]
  BY <1>1
<1>3. DOMAIN freelist' = 1 .. Len(freelist) + 1
  BY <1>2, <1>1
<1>4. \A k \in DOMAIN freelist : freelist[k] # g
  BY DEF FreeSet
<1>5. Distinct(freelist)'
  BY <1>1, <1>2, <1>3, <1>4 DEF Distinct
<1>6. ASSUME NEW h \in FreeSet' PROVE h \in FreeSet \cup {g}
  BY <1>1, <1>2, <1>3 DEF FreeSet
<1>7. ASSUME NEW h \in FreeSet PROVE h \in FreeSet'
  <2>1. PICK k \in DOMAIN freelist : h = freelist[k]
    BY DEF FreeSet
  <2>2. k + 1 \in DOMAIN freelist' /\ freelist'[k + 1] = h
    BY <1>1, <1>2, <1>3, <2>1
  <2> QED BY <2>2 DEF FreeSet
<1>8. g \in FreeSet'
  BY <1>1, <1>2, <1>3 DEF FreeSet
<1> QED BY <1>2, <1>5, <1>6, <1>7, <1>8

\* The frames that the calls put into plans.
LEMMA TodoFrame ==
  /\ Todo.d = 0 /\ Todo.g = 0 /\ Todo.q = 0 /\ Todo.lo = 0 /\ Todo.hi = 0
  /\ \A o \in Solo \cup Front : [Todo EXCEPT !.do = o] \in Frames
<1>1. 0 \in Size /\ 0 \in 0 .. NPAGES /\ <<>> \in Seq(Nat \X Nat)
  BY Constants DEF Size
<1> QED BY <1>1 DEF Todo, Frames

LEMMA NewFrames ==
  /\ \A d \in 0 .. NPAGES :
       /\ Freevm(d) \in Frames /\ Freevm(d).do = "freevm" /\ Freevm(d).d = d
       /\ Freevm(d).g = 0 /\ Freevm(d).q = 0
  /\ \A d \in 0 .. NPAGES, lo, hi \in Size :
       /\ Alloc(d, lo, hi) \in Frames /\ Alloc(d, lo, hi).do = "alloc"
       /\ Alloc(d, lo, hi).d = d /\ Alloc(d, lo, hi).g = 0 /\ Alloc(d, lo, hi).q = 0
       /\ Dealloc(d, hi, lo) \in Frames /\ Dealloc(d, hi, lo).do = "dealloc"
       /\ Dealloc(d, hi, lo).d = d /\ Dealloc(d, hi, lo).g = 0
       /\ Dealloc(d, hi, lo).q = 0
  /\ \A g \in 0 .. NPAGES :
       /\ Kfree(g) \in Frames /\ Kfree(g).do = "kfree" /\ Kfree(g).d = 0
       /\ Kfree(g).g = g /\ Kfree(g).q = 0
  /\ \A q \in Proc \cup {0} :
       /\ Undo(q) \in Frames /\ Undo(q).do = "undo" /\ Undo(q).d = 0
       /\ Undo(q).g = 0 /\ Undo(q).q = q
  /\ \A n \in Size :
       /\ Grown(n) \in Frames /\ Grown(n).do = "grown" /\ Grown(n).d = 0
       /\ Grown(n).g = 0 /\ Grown(n).q = 0
<1>1. 0 \in Size /\ Size \subseteq Nat /\ 0 \in 0 .. NPAGES /\ <<>> \in Seq(Nat \X Nat)
  BY Constants DEF Size
<1>2. ASSUME NEW d \in 0 .. NPAGES
      PROVE  /\ Freevm(d) \in Frames /\ Freevm(d).do = "freevm" /\ Freevm(d).d = d
             /\ Freevm(d).g = 0 /\ Freevm(d).q = 0
  BY <1>1 DEF Todo, Frames, Freevm, Front
<1>3. ASSUME NEW d \in 0 .. NPAGES, NEW lo \in Size, NEW hi \in Size
      PROVE  /\ Alloc(d, lo, hi) \in Frames /\ Alloc(d, lo, hi).do = "alloc"
             /\ Alloc(d, lo, hi).d = d /\ Alloc(d, lo, hi).g = 0
             /\ Alloc(d, lo, hi).q = 0
  BY <1>1 DEF Todo, Frames, Alloc, Front
<1>4. ASSUME NEW d \in 0 .. NPAGES, NEW lo \in Size, NEW hi \in Size
      PROVE  /\ Dealloc(d, hi, lo) \in Frames /\ Dealloc(d, hi, lo).do = "dealloc"
             /\ Dealloc(d, hi, lo).d = d /\ Dealloc(d, hi, lo).g = 0
             /\ Dealloc(d, hi, lo).q = 0
  BY <1>1 DEF Todo, Frames, Dealloc, Front
<1>5. ASSUME NEW g \in 0 .. NPAGES
      PROVE  /\ Kfree(g) \in Frames /\ Kfree(g).do = "kfree" /\ Kfree(g).d = 0
             /\ Kfree(g).g = g /\ Kfree(g).q = 0
  BY <1>1 DEF Todo, Frames, Kfree, Front
<1>6. ASSUME NEW q \in Proc \cup {0}
      PROVE  /\ Undo(q) \in Frames /\ Undo(q).do = "undo" /\ Undo(q).d = 0
             /\ Undo(q).g = 0 /\ Undo(q).q = q
  BY <1>1 DEF Todo, Frames, Undo, Solo
<1>7. ASSUME NEW n \in Size
      PROVE  /\ Grown(n) \in Frames /\ Grown(n).do = "grown" /\ Grown(n).d = 0
             /\ Grown(n).g = 0 /\ Grown(n).q = 0
  BY <1>1 DEF Todo, Frames, Grown, Solo
<1> QED BY <1>2, <1>3, <1>4, <1>5, <1>6, <1>7

\* A plan that may be in the place of the one of p.
Fit(p, s) ==
  /\ s \in Seq(Frames) /\ PlanOK(p, s)
  /\ \A k \in DOMAIN s : SizeOK(s[k])

\* The children in a plan s are those of the plan of p, for the same end.
Sons(p, s) ==
  \A k \in DOMAIN s :
    /\ s[k].do = "reaped" => s[k].q # 0
    /\ s[k].q # 0 =>
         \E j \in DOMAIN plan[p] :
           /\ plan[p][j].q = s[k].q
           /\ s[k].do \in Forking =>
                /\ plan[p][j].do \in Forking
                /\ plan[p][j].do = "kstack" <=> s[k].do = "kstack"
           /\ s[k].do = "reaped" => plan[p][j].do = "reaped"

\* A plan without children, which does not build a page table either.
Plain(s) == \A k \in DOMAIN s : s[k].q = 0 /\ s[k].do \notin {"reaped", "kmap"}

\* One process has a new plan.
LEMMA Replan ==
  ASSUME plan \in [Proc -> Seq(Frames)], PlanInv, SizeInv, NEW p \in Proc,
         NEW s, Fit(p, s),
         plan' = [plan EXCEPT ![p] = s], pgdir' = pgdir, DOMAIN pgdir = Proc
  PROVE  /\ plan' \in [Proc -> Seq(Frames)] /\ PlanInv' /\ SizeInv'
         /\ Hands' = [Hands EXCEPT ![p] = HandIn(s)]
         /\ Tabs' = [Tabs EXCEPT ![p] = TabIn(s) \cup ({pgdir[p]} \ {0})]
<1>1. plan'[p] = s /\ \A r \in Proc \ {p} : plan'[r] = plan[r]
  OBVIOUS
<1>2. plan' \in [Proc -> Seq(Frames)]
  BY DEF Fit
<1>3. PlanInv'
  BY <1>1 DEF PlanInv, PlanOK, FrameOK, Fit
<1>4. SizeInv'
  <2>1. ASSUME NEW r \in Proc, NEW k \in DOMAIN plan'[r] PROVE SizeOK(plan'[r][k])
    <3>1. CASE r = p
      BY <3>1, <2>1, <1>1 DEF Fit
    <3>2. CASE r # p
      BY <3>2, <2>1, <1>1 DEF SizeInv
    <3> QED BY <3>1, <3>2
  <2> QED BY <2>1 DEF SizeInv
<1>5. Hands' = [Hands EXCEPT ![p] = HandIn(s)]
  BY <1>1 DEF Hands
<1>6. Tabs' = [Tabs EXCEPT ![p] = TabIn(s) \cup ({pgdir[p]} \ {0})]
  BY <1>1 DEF Tabs
<1> QED BY <1>2, <1>3, <1>4, <1>5, <1>6

\* The head of a plan is replaced or done.
LEMMA Heads ==
  ASSUME NEW s \in Seq(Frames), s # <<>>
  PROVE  /\ Len(s) \in Nat /\ Len(s) >= 1 /\ Head(s) = s[1] /\ s[1] \in Frames
         /\ DOMAIN s = 1 .. Len(s)
         /\ \A x \in Frames :
              /\ <<x>> \o Tail(s) \in Seq(Frames)
              /\ DOMAIN (<<x>> \o Tail(s)) = 1 .. Len(s)
              /\ Len(<<x>> \o Tail(s)) = Len(s)
              /\ (<<x>> \o Tail(s))[1] = x
              /\ \A k \in 2 .. Len(s) : (<<x>> \o Tail(s))[k] = s[k]
         /\ <<>> \o Tail(s) \in Seq(Frames)
         /\ DOMAIN (<<>> \o Tail(s)) = 1 .. Len(s) - 1
         /\ Len(<<>> \o Tail(s)) = Len(s) - 1
         /\ \A k \in 1 .. Len(s) - 1 : (<<>> \o Tail(s))[k] = s[k + 1]
<1>1. /\ Len(s) \in Nat /\ Len(s) >= 1 /\ Head(s) = s[1] /\ s[1] \in Frames
      /\ DOMAIN s = 1 .. Len(s)
  OBVIOUS
<1>2. /\ Tail(s) \in Seq(Frames) /\ Len(Tail(s)) = Len(s) - 1
      /\ \A k \in 1 .. Len(s) - 1 : Tail(s)[k] = s[k + 1]
  BY <1>1
<1>3. <<>> \o Tail(s) = Tail(s)
  BY <1>2
<1>4. ASSUME NEW x \in Frames
      PROVE  /\ <<x>> \o Tail(s) \in Seq(Frames)
             /\ Len(<<x>> \o Tail(s)) = Len(s)
             /\ (<<x>> \o Tail(s))[1] = x
             /\ \A k \in 2 .. Len(s) : (<<x>> \o Tail(s))[k] = s[k]
  BY <1>1, <1>2
<1>5. /\ Len(<<>> \o Tail(s)) = Len(s) - 1 /\ <<>> \o Tail(s) \in Seq(Frames)
      /\ \A k \in 1 .. Len(s) - 1 : (<<>> \o Tail(s))[k] = s[k + 1]
  BY <1>2, <1>3
<1>6. DOMAIN (<<>> \o Tail(s)) = 1 .. Len(s) - 1
  BY <1>5
<1>7. \A x \in Frames : DOMAIN (<<x>> \o Tail(s)) = 1 .. Len(s)
  BY <1>4
<1> QED BY <1>1, <1>4, <1>5, <1>6, <1>7

\* The processes and their children are as they were: the new plan of p has only
\* children that the old one has, and has them for the same end.
LEMMA SameChildren ==
  ASSUME TypeOK, ProcInv, NEW p \in Proc, NEW s \in Seq(Frames),
         plan' = [plan EXCEPT ![p] = s], UNCHANGED <<state, kstack, pgdir, cr3>>,
         s # <<>> => state[p] = "run", Sons(p, s)
  PROVE  ProcInv'
<1>1. plan'[p] = s /\ \A r \in Proc \ {p} : plan'[r] = plan[r]
  BY DEF TypeOK
<1>2. ASSUME NEW r \in Proc, NEW k \in DOMAIN plan'[r], plan'[r][k].q # 0
      PROVE  \E j \in DOMAIN plan[r] :
               /\ plan[r][j].q = plan'[r][k].q
               /\ plan'[r][k].do \in Forking =>
                    /\ plan[r][j].do \in Forking
                    /\ plan[r][j].do = "kstack" <=> plan'[r][k].do = "kstack"
               /\ plan'[r][k].do = "reaped" => plan[r][j].do = "reaped"
  BY <1>1, <1>2 DEF Sons
<1>3. ASSUME NEW r \in Proc
      PROVE  /\ plan'[r] # <<>> => state'[r] = "run"
             /\ state'[r] \in {"unused", "reaped"} => kstack'[r] = 0
             /\ state'[r] \in {"run", "zombie"} <=> pgdir'[r] # 0
             /\ state'[r] \in {"run", "zombie"} => kstack'[r] # 0
             /\ cr3'[r] \in {0, pgdir'[r]}
  BY <1>1 DEF ProcInv
<1>4. ASSUME NEW r \in Proc, NEW k \in DOMAIN plan'[r]
      PROVE  LET t == plan'[r][k] IN
             /\ t.q # 0 /\ t.do \in Forking => state'[t.q] = "embryo"
             /\ t.q # 0 /\ t.do \in Forking => (kstack'[t.q] = 0 <=> t.do = "kstack")
             /\ t.do = "reaped" => state'[t.q] = "reaped"
             /\ \A u \in Proc : \A j \in DOMAIN plan'[u] :
                  plan'[u][j].q # 0 /\ plan'[u][j].q = t.q => u = r
  <2> DEFINE t == plan'[r][k]
  <2>1. t.q # 0 /\ t.do \in Forking =>
          state[t.q] = "embryo" /\ (kstack[t.q] = 0 <=> t.do = "kstack")
    BY <1>2 DEF ProcInv
  <2>2. t.do = "reaped" => state[t.q] = "reaped"
    <3>1. CASE r = p
      BY <3>1, <1>1, <1>2 DEF ProcInv, Sons
    <3>2. CASE r # p
      BY <3>2, <1>1 DEF ProcInv
    <3> QED BY <3>1, <3>2
  <2>3. ASSUME NEW u \in Proc, NEW j \in DOMAIN plan'[u],
               plan'[u][j].q # 0, plan'[u][j].q = t.q
        PROVE  u = r
    <3>1. PICK a \in DOMAIN plan[u] : plan[u][a].q = t.q
      BY <2>3, <1>2
    <3>2. PICK b \in DOMAIN plan[r] : plan[r][b].q = t.q
      BY <2>3, <1>2
    <3> QED BY <3>1, <3>2, <2>3 DEF ProcInv
  <2> QED BY <2>1, <2>2, <2>3
<1> QED BY <1>3, <1>4 DEF ProcInv

\* Short plans.
LEMMA Plans ==
  /\ HandIn(<<>>) = {} /\ TabIn(<<>>) = {} /\ \A p \in Proc : PlanOK(p, <<>>)
  /\ \A a : HandIn(<<a>>) = {a.g} \ {0} /\ TabIn(<<a>>) = {a.d} \ {0}
  /\ \A a, b : /\ HandIn(<<a, b>>) = {a.g, b.g} \ {0}
               /\ TabIn(<<a, b>>) = {a.d, b.d} \ {0}
  /\ \A a, b, c : /\ HandIn(<<a, b, c>>) = {a.g, b.g, c.g} \ {0}
                  /\ TabIn(<<a, b, c>>) = {a.d, b.d, c.d} \ {0}
<1>1. HandIn(<<>>) = {} /\ TabIn(<<>>) = {} /\ \A p \in Proc : PlanOK(p, <<>>)
  BY DEF HandIn, TabIn, PlanOK
<1>2. \A a : HandIn(<<a>>) = {a.g} \ {0} /\ TabIn(<<a>>) = {a.d} \ {0}
  BY DEF HandIn, TabIn
<1>3. ASSUME NEW a, NEW b
      PROVE  /\ HandIn(<<a, b>>) = {a.g, b.g} \ {0}
             /\ TabIn(<<a, b>>) = {a.d, b.d} \ {0}
  <2>1. DOMAIN <<a, b>> = {1, 2} /\ <<a, b>>[1] = a /\ <<a, b>>[2] = b
    OBVIOUS
  <2> QED BY <2>1, Zenon DEF HandIn, TabIn
<1>4. ASSUME NEW a, NEW b, NEW c
      PROVE  /\ HandIn(<<a, b, c>>) = {a.g, b.g, c.g} \ {0}
             /\ TabIn(<<a, b, c>>) = {a.d, b.d, c.d} \ {0}
  <2>1. /\ DOMAIN <<a, b, c>> = {1, 2, 3}
        /\ <<a, b, c>>[1] = a /\ <<a, b, c>>[2] = b /\ <<a, b, c>>[3] = c
    OBVIOUS
  <2> QED BY <2>1, Zenon DEF HandIn, TabIn
<1> QED BY <1>1, <1>2, <1>3, <1>4

\* A plan that is at a frame which ends it.
LEMMA SoloPlan ==
  ASSUME NEW p \in Proc, NEW s \in Seq(Frames), s # <<>>, PlanOK(p, s),
         Head(s).do \in Solo
  PROVE  /\ s = <<Head(s)>> /\ Head(s) \in Frames /\ FrameOK(p, s, 1)
         /\ HandIn(s) = {Head(s).g} \ {0} /\ TabIn(s) = {Head(s).d} \ {0}
         /\ \A x : <<x>> \o Tail(s) = <<x>>
<1>0. 1 \in DOMAIN s /\ Head(s) = s[1]
  BY Heads
<1>1. Len(s) = 1 /\ FrameOK(p, s, 1)
  <2>1. FrameOK(p, s, 1)
    BY <1>0 DEF PlanOK
  <2> QED BY <2>1, <1>0 DEF FrameOK
<1>2. s = <<Head(s)>> /\ Head(s) \in Frames
  BY <1>1, Heads
<1>3. HandIn(s) = {Head(s).g} \ {0} /\ TabIn(s) = {Head(s).d} \ {0}
  BY <1>2, Plans, Zenon
<1>4. Tail(s) = <<>>
  <2>1. Tail(s) \in Seq(Frames) /\ Len(Tail(s)) = 0
    BY <1>1
  <2> QED BY <2>1, EmptySeq
<1>5. ASSUME NEW x PROVE <<x>> \o Tail(s) = <<x>>
  <2>1. <<x>> \in Seq({x})
    OBVIOUS
  <2> QED BY <1>4, <2>1, ConcatEmptySeq
<1> QED BY <1>1, <1>2, <1>3, <1>5

\* All of the invariant, from its parts, where one process has a new plan.
LEMMA Assemble ==
  ASSUME IInv, NEW p \in Proc, NEW s, Fit(p, s), plan' = [plan EXCEPT ![p] = s],
         UNCHANGED pgdir, ProcInv',
         sz' \in [Proc -> Size], cr3' \in [Proc -> 0 .. NPAGES],
         state' \in [Proc -> {"unused", "embryo", "run", "zombie", "reaped"}],
         kstack' \in [Proc -> 0 .. NPAGES],
         freelist' \in Seq(Page), Distinct(freelist)', DOMAIN mem' = Page,
         CanOwn(FreeSet', mem', kstack',
                [Tabs EXCEPT ![p] = TabIn(s) \cup ({pgdir[p]} \ {0})],
                [Hands EXCEPT ![p] = HandIn(s)]),
         \A r \in Proc \ {p} : \A d \in Tabs[r] : mem'[d] = mem[d],
         \A k \in DOMAIN s : s[k].do = "kmap" => mem'[s[k].d] = NoDir
  PROVE  IInv'
<1>1. /\ plan' \in [Proc -> Seq(Frames)] /\ PlanInv' /\ SizeInv'
      /\ Hands' = [Hands EXCEPT ![p] = HandIn(s)]
      /\ Tabs' = [Tabs EXCEPT ![p] = TabIn(s) \cup ({pgdir[p]} \ {0})]
  BY Replan DEF IInv, TypeOK
<1>2. TypeOK'
  BY <1>1 DEF IInv, TypeOK
<1>3. OwnInv'
  BY <1>1 DEF OwnInv
<1>4. NewDir'
  <2>1. ASSUME NEW r \in Proc, r # p, NEW k \in DOMAIN plan[r],
               plan[r][k].do = "kmap"
        PROVE  mem'[plan[r][k].d] = NoDir
    <3>1. mem[plan[r][k].d] = NoDir
      BY <2>1 DEF IInv, NewDir
    <3>2. plan[r][k].d # 0
      BY <2>1 DEF IInv, PlanInv, PlanOK, FrameOK, Building
    <3>3. plan[r][k].d \in Tabs[r]
      BY <3>2 DEF Tabs, TabIn
    <3> QED BY <3>1, <3>3, <2>1
  <2>2. plan'[p] = s /\ \A r \in Proc \ {p} : plan'[r] = plan[r]
    BY DEF IInv, TypeOK
  <2> QED BY <2>1, <2>2 DEF NewDir
<1> QED BY <1>1, <1>2, <1>3, <1>4 DEF IInv

\* Only the plan of one process changes.
LEMMA PlanOnly ==
  ASSUME IInv, NEW p \in Proc, NEW s, Fit(p, s),
         \A k \in DOMAIN s : s[k].do = "kmap" => mem[s[k].d] = NoDir,
         plan' = [plan EXCEPT ![p] = s],
         UNCHANGED <<freelist, mem, state, kstack, pgdir, sz, cr3>>,
         HandIn(s) = HandIn(plan[p]),
         TabIn(s) \cup ({pgdir[p]} \ {0}) = TabIn(plan[p]) \cup ({pgdir[p]} \ {0}),
         s # <<>> => state[p] = "run", Sons(p, s)
  PROVE  IInv'
<1>1. ProcInv'
  BY SameChildren DEF IInv, Fit
<1>2. /\ [Tabs EXCEPT ![p] = TabIn(s) \cup ({pgdir[p]} \ {0})] = Tabs
      /\ [Hands EXCEPT ![p] = HandIn(s)] = Hands
  BY DEF Tabs, Hands
<1>3. FreeSet' = FreeSet /\ Distinct(freelist)'
  BY DEF FreeSet, IInv, OwnInv
<1>4. CanOwn(FreeSet', mem', kstack',
             [Tabs EXCEPT ![p] = TabIn(s) \cup ({pgdir[p]} \ {0})],
             [Hands EXCEPT ![p] = HandIn(s)])
  BY <1>2, <1>3, Zenon DEF IInv, OwnInv
<1>5. /\ freelist' \in Seq(Page) /\ DOMAIN mem' = Page
      /\ sz' \in [Proc -> Size] /\ cr3' \in [Proc -> 0 .. NPAGES]
      /\ state' \in [Proc -> {"unused", "embryo", "run", "zombie", "reaped"}]
      /\ kstack' \in [Proc -> 0 .. NPAGES]
  BY DEF IInv, TypeOK
<1> QED BY <1>1, <1>3, <1>4, <1>5, Assemble

-----------------------------------------------------------------------------
(* The steps                                                               *)

\* The page tables of a process are pages of their own, and so are the tables
\* and the pages that they lead to.
LEMMA Apart ==
  ASSUME IInv, NEW p \in Proc, NEW d \in Tabs[p]
  PROVE  /\ d \in Page /\ d # 0 /\ mem[d] \in Directory /\ d \notin FreeSet
         /\ \A r \in Proc \ {p} : d \notin Tabs[r]
         /\ \A r \in Proc : d # kstack[r] /\ d \notin Hands[r]
         /\ \A r \in Proc : \A e \in Tabs[r] : \A k \in 0 .. KPDX :
              /\ mem[e][k] # d
              /\ mem[e][k] # 0 => \A j \in 0 .. NPTENTRIES - 1 :
                                    mem[mem[e][k]][j].pa # d
         /\ \A k \in 0 .. KPDX : mem[d][k] # 0 =>
              mem[d][k] \in Page /\ mem[mem[d][k]] \in Table
<1>1. PICK kind, up, ix : Owned(FreeSet, mem, kstack, Tabs, Hands, kind, up, ix)
  BY DEF IInv, OwnInv, CanOwn
<1>2. Mapped(mem, kind, up, ix) /\ Pointed(FreeSet, kstack, Tabs, Hands, kind, up)
  BY <1>1 DEF Owned
<1>3. d \in Page /\ kind[d] = "dir" /\ up[d] = p
  BY <1>2 DEF Pointed
<1>4. d # 0
  BY <1>3, PagesAreNumbers
<1>5. /\ d \notin FreeSet /\ \A r \in Proc \ {p} : d \notin Tabs[r]
      /\ \A r \in Proc : d # kstack[r] /\ d \notin Hands[r]
  BY <1>2, <1>3, <1>4 DEF Pointed
<1>6. ASSUME NEW r \in Proc, NEW e \in Tabs[r], NEW k \in 0 .. KPDX, mem[e][k] # 0
      PROVE  /\ mem[e][k] \in Page /\ mem[mem[e][k]] \in Table
             /\ kind[mem[e][k]] = "table"
             /\ \A j \in 0 .. NPTENTRIES - 1 : mem[mem[e][k]][j].pa # d
  <2>1. e \in Page /\ kind[e] = "dir"
    BY <1>2 DEF Pointed
  <2>2. mem[e][k] \in Page /\ kind[mem[e][k]] = "table"
    BY <1>2, <1>6, <2>1, Links
  <2>3. /\ mem[mem[e][k]] \in Table
        /\ \A j \in 0 .. NPTENTRIES - 1 : mem[mem[e][k]][j].pa # 0 =>
             kind[mem[mem[e][k]][j].pa] = "user"
    BY <1>2, <2>2, Links
  <2> QED BY <2>2, <2>3, <1>3, <1>4
<1>7. mem[d] \in Directory
  BY <1>2, <1>3, Links
<1> QED BY <1>3, <1>4, <1>5, <1>6, <1>7

\* What is known of a process in a call, at the head of its plan.
LEMMA InCall ==
  ASSUME IInv, NEW p \in Proc, plan[p] # <<>>, NEW t, t = Head(plan[p])
  PROVE  /\ plan[p] \in Seq(Frames) /\ PlanOK(p, plan[p])
         /\ t \in Frames /\ plan[p][1] = t /\ 1 \in DOMAIN plan[p]
         /\ FrameOK(p, plan[p], 1) /\ SizeOK(t)
         /\ state[p] = "run" /\ pgdir[p] \in Page /\ pgdir[p] \in Tabs[p]
         /\ t.d # 0 => t.d \in Tabs[p] /\ t.d \in Page
         /\ t.g # 0 => Hands[p] = {t.g} /\ t.g \in Page
         /\ Tabs[p] = TabIn(plan[p]) \cup {pgdir[p]}
         /\ Hands[p] = HandIn(plan[p])
<1>1. plan[p] \in Seq(Frames) /\ PlanOK(p, plan[p])
  BY DEF IInv, TypeOK, PlanInv
<1>2. t \in Frames /\ plan[p][1] = t /\ 1 \in DOMAIN plan[p]
  BY <1>1, Heads
<1>3. FrameOK(p, plan[p], 1) /\ SizeOK(t)
  BY <1>1, <1>2 DEF PlanOK, IInv, SizeInv
<1>4. state[p] = "run" /\ pgdir[p] # 0 /\ pgdir[p] \in 0 .. NPAGES
  BY DEF IInv, ProcInv, TypeOK
<1>5. /\ pgdir[p] \in Page /\ pgdir[p] \in Tabs[p]
      /\ Tabs[p] = TabIn(plan[p]) \cup {pgdir[p]}
  BY <1>4, PagesAreNumbers, Constants DEF Tabs
<1>6. Hands[p] = HandIn(plan[p])
  BY DEF Hands
<1>7. ASSUME t.g # 0 PROVE Hands[p] = {t.g} /\ t.g \in Page
  <2>1. \A k \in DOMAIN plan[p] : plan[p][k].g # 0 => k = 1
    BY <1>1, <1>2, <1>7 DEF PlanOK
  <2>2. Hands[p] = {t.g}
    BY <2>1, <1>2, <1>6, <1>7 DEF HandIn
  <2>3. t.g \in 0 .. NPAGES
    BY <1>2 DEF Frames
  <2> QED BY <2>2, <2>3, <1>7, PagesAreNumbers, Constants
<1>8. ASSUME t.d # 0 PROVE t.d \in Tabs[p] /\ t.d \in Page
  <2>1. t.d \in 0 .. NPAGES
    BY <1>2 DEF Frames
  <2>2. t.d \in TabIn(plan[p])
    BY <1>2, <1>8 DEF TabIn
  <2> QED BY <2>1, <2>2, <1>5, <1>8, PagesAreNumbers, Constants
<1> QED BY <1>1, <1>2, <1>3, <1>4, <1>5, <1>6, <1>7, <1>8

LEMMA FitOne ==
  ASSUME NEW p \in Proc, NEW a \in Frames, SizeOK(a), FrameOK(p, <<a>>, 1)
  PROVE  Fit(p, <<a>>)
<1>1. DOMAIN <<a>> = {1} /\ <<a>>[1] = a /\ <<a>> \in Seq(Frames)
  OBVIOUS
<1> QED BY <1>1, Zenon DEF Fit, PlanOK

LEMMA FitTwo ==
  ASSUME NEW p \in Proc, NEW a \in Frames, NEW b \in Frames,
         SizeOK(a), SizeOK(b), FrameOK(p, <<a, b>>, 1), FrameOK(p, <<a, b>>, 2),
         a.d = 0 \/ b.d = 0 \/ a.d = b.d, a.g = 0 \/ b.g = 0
  PROVE  Fit(p, <<a, b>>)
<1>1. /\ DOMAIN <<a, b>> = {1, 2} /\ <<a, b>>[1] = a /\ <<a, b>>[2] = b
      /\ <<a, b>> \in Seq(Frames)
  OBVIOUS
<1> QED BY <1>1, Zenon DEF Fit, PlanOK

LEMMA FitThree ==
  ASSUME NEW p \in Proc, NEW a \in Frames, NEW b \in Frames, NEW c \in Frames,
         SizeOK(a), SizeOK(b), SizeOK(c), FrameOK(p, <<a, b, c>>, 1),
         FrameOK(p, <<a, b, c>>, 2), FrameOK(p, <<a, b, c>>, 3),
         a.d = 0 \/ b.d = 0 \/ a.d = b.d, a.g = 0 \/ b.g = 0,
         a.d = 0 \/ c.d = 0 \/ a.d = c.d, a.g = 0 \/ c.g = 0,
         b.d = 0 \/ c.d = 0 \/ b.d = c.d, b.g = 0 \/ c.g = 0
  PROVE  Fit(p, <<a, b, c>>)
<1>1. /\ DOMAIN <<a, b, c>> = {1, 2, 3} /\ <<a, b, c>>[1] = a
      /\ <<a, b, c>>[2] = b /\ <<a, b, c>>[3] = c /\ <<a, b, c>> \in Seq(Frames)
  OBVIOUS
<1> QED BY <1>1, Zenon DEF Fit, PlanOK

\* The head of a plan is done.
LEMMA TailFits ==
  ASSUME NEW p \in Proc, NEW s, Fit(p, s), s # <<>>
  PROVE  /\ Fit(p, <<>> \o Tail(s))
         /\ HandIn(<<>> \o Tail(s)) = HandIn(s) \ {s[1].g}
         /\ TabIn(s) = TabIn(<<>> \o Tail(s)) \cup ({s[1].d} \ {0})
<1> DEFINE u == <<>> \o Tail(s)
<1>1. s \in Seq(Frames) /\ PlanOK(p, s)
  BY DEF Fit
<1>2. /\ Len(s) \in Nat /\ Len(s) >= 1 /\ DOMAIN s = 1 .. Len(s)
      /\ u \in Seq(Frames) /\ DOMAIN u = 1 .. Len(s) - 1 /\ Len(u) = Len(s) - 1
      /\ \A k \in 1 .. Len(s) - 1 : u[k] = s[k + 1]
  BY <1>1, Heads
<1> HIDE DEF u
<1>3. ASSUME NEW k \in DOMAIN u PROVE FrameOK(p, u, k)
  <2>1. FrameOK(p, s, k + 1) /\ u[k] = s[k + 1] /\ k \in Nat /\ k >= 1
    BY <1>1, <1>2 DEF PlanOK
  <2>2. k = Len(u) \/ u[k + 1] = s[k + 2]
    BY <1>2
  <2>3. u[k].do \notin {"alloc", "map", "dealloc"}
    BY <2>1 DEF FrameOK
  <2>4. (k + 1 = Len(s) <=> k = Len(u)) /\ k + 1 + 1 = k + 2
    BY <1>2
  <2> QED BY <2>1, <2>2, <2>3, <2>4 DEF FrameOK
<1>4. PlanOK(p, u)
  BY <1>1, <1>2, <1>3 DEF PlanOK
<1>5. \A k \in DOMAIN u : SizeOK(u[k])
  BY <1>2 DEF Fit
<1>6. HandIn(u) = HandIn(s) \ {s[1].g}
  <2>1. \A k \in DOMAIN s : s[k].g # 0 /\ s[k].g = s[1].g => k = 1
    BY <1>1, <1>2 DEF PlanOK
  <2>2. \A k \in DOMAIN s : k = 1 \/ (k - 1 \in DOMAIN u /\ s[k] = u[k - 1])
    BY <1>2
  <2>3. \A k \in DOMAIN u : k + 1 \in DOMAIN s /\ k + 1 # 1 /\ u[k] = s[k + 1]
    BY <1>2
  <2> QED BY <2>1, <2>2, <2>3 DEF HandIn
<1>7. TabIn(s) = TabIn(u) \cup ({s[1].d} \ {0})
  <2>2. \A k \in DOMAIN s : k = 1 \/ (k - 1 \in DOMAIN u /\ s[k] = u[k - 1])
    BY <1>2
  <2>3. \A k \in DOMAIN u : k + 1 \in DOMAIN s /\ u[k] = s[k + 1]
    BY <1>2
  <2>4. 1 \in DOMAIN s
    BY <1>2
  <2> QED BY <2>2, <2>3, <2>4 DEF TabIn
<1> QED BY <1>2, <1>4, <1>5, <1>6, <1>7 DEF Fit, u

LEMMA TailSons ==
  ASSUME IInv, NEW p \in Proc, plan[p] # <<>>
  PROVE  Sons(p, <<>> \o Tail(plan[p])) /\ Sons(p, plan[p])
<1>1. \A k \in DOMAIN plan[p] : plan[p][k].do = "reaped" => plan[p][k].q # 0
  BY DEF IInv, PlanInv, PlanOK, FrameOK
<1>2. plan[p] \in Seq(Frames)
  BY DEF IInv, TypeOK
<1>3. \A k \in DOMAIN (<<>> \o Tail(plan[p])) :
        k + 1 \in DOMAIN plan[p] /\ (<<>> \o Tail(plan[p]))[k] = plan[p][k + 1]
  BY <1>2, Heads
<1> QED BY <1>1, <1>3, Zenon DEF Sons

\* The head of a plan is changed.
LEMMA HeadFits ==
  ASSUME NEW p \in Proc, NEW s, Fit(p, s), s # <<>>, NEW x \in Frames, SizeOK(x),
         FrameOK(p, <<x>> \o Tail(s), 1), x.d = s[1].d,
         \A k \in 2 .. Len(s) : s[k].g = 0
  PROVE  /\ Fit(p, <<x>> \o Tail(s))
         /\ HandIn(<<x>> \o Tail(s)) = {x.g} \ {0}
         /\ HandIn(s) = {s[1].g} \ {0}
         /\ TabIn(<<x>> \o Tail(s)) = TabIn(s)
<1> DEFINE u == <<x>> \o Tail(s)
<1>1. s \in Seq(Frames) /\ PlanOK(p, s)
  BY DEF Fit
<1>2. /\ Len(s) \in Nat /\ Len(s) >= 1 /\ DOMAIN s = 1 .. Len(s)
      /\ u \in Seq(Frames) /\ DOMAIN u = 1 .. Len(s) /\ Len(u) = Len(s)
      /\ u[1] = x /\ \A k \in 2 .. Len(s) : u[k] = s[k]
  BY <1>1, Heads
<1>0. FrameOK(p, u, 1)
  OBVIOUS
<1> HIDE DEF u
<1>3. ASSUME NEW k \in DOMAIN u PROVE FrameOK(p, u, k)
  <2>1. CASE k = 1
    BY <2>1, <1>0
  <2>2. CASE k # 1
    <3>1. FrameOK(p, s, k) /\ u[k] = s[k] /\ k \in 2 .. Len(s)
      BY <1>1, <1>2, <2>2 DEF PlanOK
    <3>2. k = Len(s) \/ u[k + 1] = s[k + 1]
      BY <1>2, <3>1
    <3>3. u[k].do \notin {"alloc", "map", "dealloc"}
      BY <3>1, <2>2 DEF FrameOK
    <3> QED BY <3>1, <3>2, <3>3, <1>2 DEF FrameOK
  <2> QED BY <2>1, <2>2
<1>4. \A k \in DOMAIN u : k = 1 \/ k \in 2 .. Len(s)
  BY <1>2
<1>5. /\ \A k \in DOMAIN u : u[k].d = s[k].d
      /\ \A k \in DOMAIN u : k # 1 => u[k].g = 0
  BY <1>2, <1>4
<1>6. PlanOK(p, u)
  BY <1>1, <1>2, <1>3, <1>5 DEF PlanOK
<1>7. \A k \in DOMAIN u : SizeOK(u[k])
  BY <1>2, <1>4 DEF Fit
<1>8. HandIn(u) = {x.g} \ {0} /\ HandIn(s) = {s[1].g} \ {0}
  <2>1. 1 \in DOMAIN u /\ 1 \in DOMAIN s /\ DOMAIN u = DOMAIN s
    BY <1>2
  <2> QED BY <2>1, <1>2, <1>4, <1>5 DEF HandIn
<1>9. TabIn(u) = TabIn(s)
  BY <1>2, <1>5 DEF TabIn
<1> QED BY <1>2, <1>6, <1>7, <1>8, <1>9 DEF Fit, u

\* freevm() first calls deallocuvm().
LEMMA PushFits ==
  ASSUME NEW p \in Proc, NEW s, Fit(p, s), s # <<>>, NEW x \in Frames,
         x.do = "dealloc", x.g = 0, x.q = 0, x.d = s[1].d, s[1].do = "freevm"
  PROVE  /\ Fit(p, <<x>> \o s) /\ HandIn(<<x>> \o s) = HandIn(s)
         /\ TabIn(<<x>> \o s) = TabIn(s)
<1> DEFINE u == <<x>> \o s
<1>1. s \in Seq(Frames) /\ PlanOK(p, s)
  BY DEF Fit
<1>2. /\ Len(s) \in Nat /\ Len(s) >= 1 /\ DOMAIN s = 1 .. Len(s)
      /\ u \in Seq(Frames) /\ DOMAIN u = 1 .. Len(s) + 1 /\ Len(u) = Len(s) + 1
      /\ u[1] = x /\ \A k \in 2 .. Len(u) : u[k] = s[k - 1]
  BY <1>1
<1> HIDE DEF u
<1>3. FrameOK(p, s, 1)
  BY <1>1, <1>2 DEF PlanOK
<1>4. x.d # 0 /\ x.d # pgdir[p]
  BY <1>3 DEF FrameOK
<1>5. ASSUME NEW k \in DOMAIN u PROVE FrameOK(p, u, k)
  <2>1. CASE k = 1
    <3>1. u[2] = s[1] /\ u[1] = x /\ Len(u) > 1
      BY <1>2
    <3> QED BY <2>1, <3>1, <1>4, <1>2
            DEF FrameOK, Solo, Building, NoTab, Handing, Forking
  <2>2. CASE k # 1
    <3>1. FrameOK(p, s, k - 1) /\ u[k] = s[k - 1] /\ k \in 2 .. Len(u)
      BY <1>1, <1>2, <2>2 DEF PlanOK
    <3>2. k = Len(u) \/ (u[k + 1] = s[k] /\ k - 1 + 1 = k)
      BY <1>2, <3>1
    <3>3. u[k].do \notin {"alloc", "map", "dealloc"}
      <4>1. CASE k = 2
        BY <4>1, <3>1
      <4>2. CASE k # 2
        BY <4>2, <3>1, <1>2 DEF FrameOK
      <4> QED BY <4>1, <4>2
    <3>4. k - 1 = Len(s) <=> k = Len(u)
      BY <1>2, <3>1
    <3> QED BY <3>1, <3>2, <3>3, <3>4 DEF FrameOK
  <2> QED BY <2>1, <2>2
<1>6. \A k \in DOMAIN u : k = 1 \/ (k \in 2 .. Len(u) /\ k - 1 \in DOMAIN s
                                    /\ u[k] = s[k - 1])
  BY <1>2
<1>7. PlanOK(p, u)
  <2>1. ASSUME NEW j \in DOMAIN u, NEW k \in DOMAIN u
        PROVE  /\ u[j].d # 0 /\ u[k].d # 0 => u[j].d = u[k].d
               /\ u[j].g # 0 /\ u[k].g # 0 => j = k
    <3>1. \A i \in DOMAIN s : s[i].d # 0 => s[i].d = x.d
      BY <1>1, <1>2, <1>4 DEF PlanOK
    <3>2. u[j].d # 0 /\ u[k].d # 0 => u[j].d = u[k].d
      BY <3>1, <1>6, <1>2
    <3>3. u[j].g # 0 /\ u[k].g # 0 => j = k
      <4>1. ASSUME u[j].g # 0, u[k].g # 0 PROVE j - 1 = k - 1 /\ j # 1 /\ k # 1
        BY <4>1, <1>1, <1>2, <1>6 DEF PlanOK
      <4> QED BY <4>1, <1>2
    <3> QED BY <3>2, <3>3
  <2> QED BY <2>1, <1>5 DEF PlanOK
<1>8. SizeOK(x)
  BY DEF SizeOK
<1>9. \A k \in DOMAIN u : SizeOK(u[k])
  BY <1>2, <1>6, <1>8 DEF Fit
<1>10. \A k \in DOMAIN s : k + 1 \in DOMAIN u /\ s[k] = u[k + 1]
  BY <1>2
<1>13. /\ \A k \in DOMAIN u : u[k] = x \/ \E j \in DOMAIN s : u[k] = s[j]
       /\ \A k \in DOMAIN s : \E j \in DOMAIN u : s[k] = u[j]
       /\ 1 \in DOMAIN s
  BY <1>2, <1>6, <1>10
<1>11. HandIn(u) = HandIn(s)
  BY <1>13 DEF HandIn
<1>12. TabIn(u) = TabIn(s)
  BY <1>13, <1>4 DEF TabIn
<1> QED BY <1>2, <1>7, <1>9, <1>11, <1>12 DEF Fit, u

\* The plans of a call that gives a page table up.
LEMMA GiveUp ==
  ASSUME NEW p \in Proc, NEW d \in Page, d # pgdir[p]
  PROVE  /\ Fit(p, <<Freevm(d)>>) /\ HandIn(<<Freevm(d)>>) = {}
         /\ TabIn(<<Freevm(d)>>) = {d} /\ Plain(<<Freevm(d)>>)
<1> DEFINE a == Freevm(d)
<1>0. d # 0 /\ d \in 0 .. NPAGES
  BY PagesAreNumbers, Constants
<1>1. a \in Frames /\ a.do = "freevm" /\ a.d = d /\ a.g = 0 /\ a.q = 0
  BY <1>0, NewFrames
<1> HIDE DEF a
<1>2. DOMAIN <<a>> = {1} /\ <<a>>[1] = a /\ Len(<<a>>) = 1
  OBVIOUS
<1>3. FrameOK(p, <<a>>, 1)
  BY <1>0, <1>1, <1>2 DEF FrameOK, Solo, Building, NoTab, Handing, Forking
<1>4. SizeOK(a)
  BY <1>1 DEF SizeOK
<1>5. Fit(p, <<a>>)
  BY <1>1, <1>3, <1>4, FitOne
<1>6. HandIn(<<a>>) = {} /\ TabIn(<<a>>) = {d}
  BY <1>0, <1>1, Plans
<1> QED BY <1>1, <1>2, <1>5, <1>6 DEF a, Plain

LEMMA GiveUpFork ==
  ASSUME NEW p \in Proc, NEW d \in Page, d # pgdir[p], NEW q \in Proc \cup {0}
  PROVE  LET s == <<Freevm(d), Undo(q)>> IN
         /\ Fit(p, s) /\ HandIn(s) = {} /\ TabIn(s) = {d}
         /\ \A k \in DOMAIN s : /\ s[k].do \in {"freevm", "undo"}
                                /\ s[k].q # 0 => s[k].q = q /\ s[k].do = "undo"
<1> DEFINE a == Freevm(d)  b == Undo(q)
<1>0. d # 0 /\ d \in 0 .. NPAGES
  BY PagesAreNumbers, Constants
<1>1. /\ a \in Frames /\ a.do = "freevm" /\ a.d = d /\ a.g = 0 /\ a.q = 0
      /\ b \in Frames /\ b.do = "undo" /\ b.d = 0 /\ b.g = 0 /\ b.q = q
  BY <1>0, NewFrames
<1> HIDE DEF a, b
<1>2. /\ DOMAIN <<a, b>> = {1, 2} /\ <<a, b>>[1] = a /\ <<a, b>>[2] = b
      /\ Len(<<a, b>>) = 2
  OBVIOUS
<1>3. FrameOK(p, <<a, b>>, 1)
  BY <1>0, <1>1, <1>2 DEF FrameOK, Solo, Building, NoTab, Handing, Forking
<1>4. FrameOK(p, <<a, b>>, 2)
  BY <1>0, <1>1, <1>2 DEF FrameOK, Solo, Building, NoTab, Handing, Forking
<1>5. SizeOK(a) /\ SizeOK(b)
  BY <1>1 DEF SizeOK
<1>6. Fit(p, <<a, b>>)
  BY <1>1, <1>3, <1>4, <1>5, FitTwo
<1>7. HandIn(<<a, b>>) = {} /\ TabIn(<<a, b>>) = {d}
  BY <1>0, <1>1, Plans
<1> QED BY <1>1, <1>2, <1>6, <1>7 DEF a, b

LEMMA GiveUpCopy ==
  ASSUME NEW p \in Proc, NEW d \in Page, d # pgdir[p], NEW q \in Proc \cup {0},
         NEW g \in Page
  PROVE  LET s == <<Kfree(g), Freevm(d), Undo(q)>> IN
         /\ Fit(p, s) /\ HandIn(s) = {g} /\ TabIn(s) = {d}
         /\ \A k \in DOMAIN s : /\ s[k].do \in {"kfree", "freevm", "undo"}
                                /\ s[k].q # 0 => s[k].q = q /\ s[k].do = "undo"
<1> DEFINE a == Kfree(g)  b == Freevm(d)  c == Undo(q)
<1>0. d # 0 /\ d \in 0 .. NPAGES /\ g # 0 /\ g \in 0 .. NPAGES
  BY PagesAreNumbers, Constants
<1>1. /\ a \in Frames /\ a.do = "kfree" /\ a.d = 0 /\ a.g = g /\ a.q = 0
      /\ b \in Frames /\ b.do = "freevm" /\ b.d = d /\ b.g = 0 /\ b.q = 0
      /\ c \in Frames /\ c.do = "undo" /\ c.d = 0 /\ c.g = 0 /\ c.q = q
  BY <1>0, NewFrames
<1> HIDE DEF a, b, c
<1>2. /\ DOMAIN <<a, b, c>> = {1, 2, 3} /\ <<a, b, c>>[1] = a
      /\ <<a, b, c>>[2] = b /\ <<a, b, c>>[3] = c /\ Len(<<a, b, c>>) = 3
  OBVIOUS
<1>3. FrameOK(p, <<a, b, c>>, 1)
  BY <1>0, <1>1, <1>2 DEF FrameOK, Solo, Building, NoTab, Handing, Forking
<1>4. FrameOK(p, <<a, b, c>>, 2)
  BY <1>0, <1>1, <1>2 DEF FrameOK, Solo, Building, NoTab, Handing, Forking
<1>5. FrameOK(p, <<a, b, c>>, 3)
  BY <1>0, <1>1, <1>2 DEF FrameOK, Solo, Building, NoTab, Handing, Forking
<1>6. SizeOK(a) /\ SizeOK(b) /\ SizeOK(c)
  BY <1>1 DEF SizeOK
<1>7. Fit(p, <<a, b, c>>)
  BY <1>1, <1>3, <1>4, <1>5, <1>6, FitThree
<1>8. HandIn(<<a, b, c>>) = {g} /\ TabIn(<<a, b, c>>) = {d}
  BY <1>0, <1>1, Plans
<1> QED BY <1>1, <1>2, <1>7, <1>8 DEF a, b, c

LEMMA Joins ==
  /\ \A x : <<x>> \o <<>> = <<x>>
  /\ \A x, y : <<x>> \o <<y>> = <<x, y>>
  /\ \A x, y : <<x, y>> \o <<>> = <<x, y>>
  /\ \A x, y, z : <<x, y>> \o <<z>> = <<x, y, z>>
  /\ \A x, y, z : <<x>> \o <<y, z>> = <<x, y, z>>
<1>1. ASSUME NEW x PROVE <<x>> \o <<>> = <<x>>
  OBVIOUS
<1>2. ASSUME NEW x, NEW y PROVE <<x>> \o <<y>> = <<x, y>>
  <2>1. /\ <<x>> \o <<y>> \in Seq({x, y}) /\ <<x, y>> \in Seq({x, y})
        /\ Len(<<x>> \o <<y>>) = 2 /\ Len(<<x, y>>) = 2
        /\ (<<x>> \o <<y>>)[1] = <<x, y>>[1]
        /\ (<<x>> \o <<y>>)[2] = <<x, y>>[2]
    OBVIOUS
  <2>2. \A i \in 1 .. Len(<<x>> \o <<y>>) : (<<x>> \o <<y>>)[i] = <<x, y>>[i]
    BY <2>1
  <2> QED BY <2>1, <2>2, SeqEqual, Zenon
<1>3. ASSUME NEW x, NEW y PROVE <<x, y>> \o <<>> = <<x, y>>
  OBVIOUS
<1>4. ASSUME NEW x, NEW y, NEW z PROVE <<x, y>> \o <<z>> = <<x, y, z>>
  <2>1. /\ <<x, y>> \o <<z>> \in Seq({x, y, z}) /\ <<x, y, z>> \in Seq({x, y, z})
        /\ Len(<<x, y>> \o <<z>>) = 3 /\ Len(<<x, y, z>>) = 3
        /\ (<<x, y>> \o <<z>>)[1] = <<x, y, z>>[1]
        /\ (<<x, y>> \o <<z>>)[2] = <<x, y, z>>[2]
        /\ (<<x, y>> \o <<z>>)[3] = <<x, y, z>>[3]
    OBVIOUS
  <2>2. \A i \in 1 .. Len(<<x, y>> \o <<z>>) : (<<x, y>> \o <<z>>)[i] = <<x, y, z>>[i]
    BY <2>1
  <2> QED BY <2>1, <2>2, SeqEqual, Zenon
<1>5. ASSUME NEW x, NEW y, NEW z PROVE <<x>> \o <<y, z>> = <<x, y, z>>
  <2>1. /\ <<x>> \o <<y, z>> \in Seq({x, y, z}) /\ <<x, y, z>> \in Seq({x, y, z})
        /\ Len(<<x>> \o <<y, z>>) = 3 /\ Len(<<x, y, z>>) = 3
        /\ (<<x>> \o <<y, z>>)[1] = <<x, y, z>>[1]
        /\ (<<x>> \o <<y, z>>)[2] = <<x, y, z>>[2]
        /\ (<<x>> \o <<y, z>>)[3] = <<x, y, z>>[3]
    OBVIOUS
  <2>2. \A i \in 1 .. Len(<<x>> \o <<y, z>>) : (<<x>> \o <<y, z>>)[i] = <<x, y, z>>[i]
    BY <2>1
  <2> QED BY <2>1, <2>2, SeqEqual, Zenon
<1> QED BY <1>1, <1>2, <1>3, <1>4, <1>5

\* The plans of allocuvm() when there is no page: growproc() has nothing else to
\* do, exec() gives up its new page table.
LEMMA NoPage ==
  ASSUME NEW p \in Proc, pgdir[p] \in Page, NEW d \in Page,
         NEW lo \in Size, NEW hi \in Size
  PROVE  LET s == <<Dealloc(d, hi, lo)>> \o AllocBad(p, d) IN
         Fit(p, s) /\ HandIn(s) = {} /\ TabIn(s) = {d} /\ Plain(s)
<1> DEFINE a == Dealloc(d, hi, lo)  b == Freevm(d)
<1>0. d # 0 /\ d \in 0 .. NPAGES
  BY PagesAreNumbers, Constants
<1>1. /\ a \in Frames /\ a.do = "dealloc" /\ a.d = d /\ a.g = 0 /\ a.q = 0
      /\ b \in Frames /\ b.do = "freevm" /\ b.d = d /\ b.g = 0 /\ b.q = 0
  BY <1>0, NewFrames
<1>2. SizeOK(a) /\ SizeOK(b)
  BY <1>1 DEF SizeOK
<1>3. CASE d = pgdir[p]
  <2>1. <<a>> \o AllocBad(p, d) = <<a>>
    BY <1>3 DEF AllocBad
  <2> HIDE DEF a, b
  <2>2. DOMAIN <<a>> = {1} /\ <<a>>[1] = a /\ Len(<<a>>) = 1
    OBVIOUS
  <2>3. FrameOK(p, <<a>>, 1)
    BY <1>0, <1>1, <1>3, <2>2 DEF FrameOK, Solo, Building, NoTab, Handing, Forking
  <2>4. Fit(p, <<a>>)
    BY <1>1, <1>2, <2>3, FitOne
  <2>5. HandIn(<<a>>) = {} /\ TabIn(<<a>>) = {d}
    BY <1>0, <1>1, Plans
  <2> QED BY <1>1, <2>1, <2>2, <2>4, <2>5 DEF a, Plain
<1>4. CASE d # pgdir[p]
  <2>1. <<a>> \o AllocBad(p, d) = <<a, b>>
    BY <1>4, Joins, Zenon DEF AllocBad
  <2> HIDE DEF a, b
  <2>2. /\ DOMAIN <<a, b>> = {1, 2} /\ <<a, b>>[1] = a /\ <<a, b>>[2] = b
        /\ Len(<<a, b>>) = 2
    OBVIOUS
  <2>3. FrameOK(p, <<a, b>>, 1)
    BY <1>0, <1>1, <1>4, <2>2 DEF FrameOK, Solo, Building, NoTab, Handing, Forking
  <2>4. FrameOK(p, <<a, b>>, 2)
    BY <1>0, <1>1, <1>4, <2>2 DEF FrameOK, Solo, Building, NoTab, Handing, Forking
  <2>5. Fit(p, <<a, b>>)
    BY <1>1, <1>2, <2>3, <2>4, FitTwo
  <2>6. HandIn(<<a, b>>) = {} /\ TabIn(<<a, b>>) = {d}
    BY <1>0, <1>1, Plans
  <2> QED BY <1>1, <2>1, <2>2, <2>5, <2>6 DEF a, Plain
<1> QED BY <1>3, <1>4

LEMMA NoTableFor ==
  ASSUME NEW p \in Proc, pgdir[p] \in Page, NEW t \in Frames, t.d \in Page,
         t.g \in Page, NEW s, s = <<Dealloc(t.d, t.hi, t.base)>> \o Unmapped(t.g)
                                 \o AllocBad(p, t.d)
  PROVE  Fit(p, s) /\ HandIn(s) = {t.g} /\ TabIn(s) = {t.d} /\ Plain(s)
<1> DEFINE d == t.d  g == t.g  a == Dealloc(d, t.hi, t.base)
           b == Freevm(d)  c == Kfree(g)
<1>0. /\ d # 0 /\ d \in 0 .. NPAGES /\ g # 0 /\ g \in 0 .. NPAGES
      /\ t.hi \in Size /\ t.base \in Size
  BY PagesAreNumbers, Constants DEF Frames
<1>1. /\ a \in Frames /\ a.do = "dealloc" /\ a.d = d /\ a.g = 0 /\ a.q = 0
      /\ b \in Frames /\ b.do = "freevm" /\ b.d = d /\ b.g = 0 /\ b.q = 0
      /\ c \in Frames /\ c.do = "kfree" /\ c.d = 0 /\ c.g = g /\ c.q = 0
  BY <1>0, NewFrames
<1>2. SizeOK(a) /\ SizeOK(b) /\ SizeOK(c)
  BY <1>1 DEF SizeOK
<1>3. CASE d = pgdir[p]
  <2>1. <<a>> \o Unmapped(g) \o AllocBad(p, d) = <<a, c>>
    BY <1>3, Joins, Zenon DEF AllocBad, Unmapped
  <2> HIDE DEF a, b, c, d, g
  <2>2. /\ DOMAIN <<a, c>> = {1, 2} /\ <<a, c>>[1] = a /\ <<a, c>>[2] = c
        /\ Len(<<a, c>>) = 2
    OBVIOUS
  <2>3. FrameOK(p, <<a, c>>, 1)
    BY <1>0, <1>1, <1>3, <2>2 DEF FrameOK, Solo, Building, NoTab, Handing, Forking
  <2>4. FrameOK(p, <<a, c>>, 2)
    BY <1>0, <1>1, <1>3, <2>2 DEF FrameOK, Solo, Building, NoTab, Handing, Forking
  <2>5. Fit(p, <<a, c>>)
    BY <1>1, <1>2, <2>3, <2>4, FitTwo
  <2>6. HandIn(<<a, c>>) = {g} /\ TabIn(<<a, c>>) = {d}
    BY <1>0, <1>1, Plans
  <2> QED BY <1>1, <2>1, <2>2, <2>5, <2>6 DEF a, d, g, Plain
<1>4. CASE d # pgdir[p]
  <2>0. <<a>> \o Unmapped(g) = <<a, c>> /\ AllocBad(p, d) = <<b>>
    BY <1>4, Joins, Zenon DEF AllocBad, Unmapped
  <2>1. <<a>> \o Unmapped(g) \o AllocBad(p, d) = <<a, c, b>>
    <3>1. <<a, c>> \o <<b>> = <<a, c, b>>
      BY Joins, Zenon
    <3> QED BY <2>0, <3>1, Zenon
  <2> HIDE DEF a, b, c, d, g
  <2>2. /\ DOMAIN <<a, c, b>> = {1, 2, 3} /\ <<a, c, b>>[1] = a
        /\ <<a, c, b>>[2] = c /\ <<a, c, b>>[3] = b /\ Len(<<a, c, b>>) = 3
    OBVIOUS
  <2>3. FrameOK(p, <<a, c, b>>, 1)
    BY <1>0, <1>1, <1>4, <2>2 DEF FrameOK, Solo, Building, NoTab, Handing, Forking
  <2>4. FrameOK(p, <<a, c, b>>, 2)
    BY <1>0, <1>1, <1>4, <2>2 DEF FrameOK, Solo, Building, NoTab, Handing, Forking
  <2>5. FrameOK(p, <<a, c, b>>, 3)
    BY <1>0, <1>1, <1>4, <2>2 DEF FrameOK, Solo, Building, NoTab, Handing, Forking
  <2>6. Fit(p, <<a, c, b>>)
    BY <1>1, <1>2, <2>3, <2>4, <2>5, FitThree
  <2>7. HandIn(<<a, c, b>>) = {g} /\ TabIn(<<a, c, b>>) = {d}
    BY <1>0, <1>1, Plans
  <2> QED BY <1>1, <2>1, <2>2, <2>6, <2>7 DEF a, d, g, Plain
<1> QED BY <1>3, <1>4

\* The plans of allocuvm() for growproc() and exec(), and of deallocuvm().
LEMMA GrowFits ==
  ASSUME NEW p \in Proc, pgdir[p] \in Page, NEW d \in Page, NEW y \in Frames,
         SizeOK(y), y.g = 0, y.q = 0, NEW x \in Frames, x.d = d, x.g = 0, x.q = 0,
         \/ x.do \in {"alloc", "dealloc"} /\ d = pgdir[p]
            /\ y.do = "grown" /\ y.d = 0
         \/ x.do = "alloc" /\ d # pgdir[p]
            /\ y.do \in {"loaduvm", "commit"} /\ y.d = d
  PROVE  /\ Fit(p, <<x, y>>) /\ HandIn(<<x, y>>) = {} /\ TabIn(<<x, y>>) = {d}
         /\ Plain(<<x, y>>)
<1>0. d # 0
  BY PagesAreNumbers
<1>1. /\ DOMAIN <<x, y>> = {1, 2} /\ <<x, y>>[1] = x /\ <<x, y>>[2] = y
      /\ Len(<<x, y>>) = 2
  OBVIOUS
<1>2. FrameOK(p, <<x, y>>, 1)
  BY <1>0, <1>1 DEF FrameOK, Solo, Building, NoTab, Handing, Forking
<1>3. FrameOK(p, <<x, y>>, 2)
  BY <1>0, <1>1 DEF FrameOK, Solo, Building, NoTab, Handing, Forking
<1>4. SizeOK(x)
  BY DEF SizeOK
<1>5. Fit(p, <<x, y>>)
  BY <1>2, <1>3, <1>4, FitTwo
<1>6. HandIn(<<x, y>>) = {} /\ TabIn(<<x, y>>) = {d}
  BY <1>0, Plans
<1> QED BY <1>1, <1>5, <1>6 DEF Plain

\* A plan without children has those that any other has.
LEMMA NoSons ==
  ASSUME NEW p, NEW s, Plain(s)
  PROVE  Sons(p, s) /\ \A k \in DOMAIN s : s[k].do # "kmap"
BY DEF Sons, Plain

-----------------------------------------------------------------------------
(* The steps that change nothing but a plan                                *)

LEMMA KeepsAllocDone ==
  ASSUME IInv, NEW p \in Proc, AllocDone(p) PROVE IInv'
<1> DEFINE t == Head(plan[p])  s == <<>> \o Tail(plan[p])
<1>1. plan[p] # <<>> /\ t.do = "alloc"
  BY DEF AllocDone, At
<1>2. /\ plan[p] \in Seq(Frames) /\ PlanOK(p, plan[p]) /\ plan[p][1] = t
      /\ FrameOK(p, plan[p], 1) /\ state[p] = "run" /\ pgdir[p] \in Page
      /\ Fit(p, plan[p])
  BY <1>1, InCall DEF Fit, IInv, SizeInv
<1>3. /\ Fit(p, s) /\ HandIn(s) = HandIn(plan[p]) \ {t.g}
      /\ TabIn(plan[p]) = TabIn(s) \cup ({t.d} \ {0})
  BY <1>1, <1>2, TailFits
<1>4. /\ t.g = 0 /\ Len(plan[p]) = 2 /\ t.d # 0
      /\ \/ t.d = pgdir[p] /\ plan[p][2].do = "grown"
         \/ t.d # pgdir[p] /\ plan[p][2].do \in {"loaduvm", "commit"}
            /\ plan[p][2].d = t.d
  BY <1>1, <1>2 DEF FrameOK, Handing
<1>5. DOMAIN s = {1} /\ s[1] = plan[p][2]
  <2>1. DOMAIN s = 1 .. 1 /\ s[1] = plan[p][2]
    <3>1. /\ DOMAIN s = 1 .. Len(plan[p]) - 1
          /\ \A k \in 1 .. Len(plan[p]) - 1 : s[k] = plan[p][k + 1]
      BY <1>1, <1>2, Heads
    <3> HIDE DEF s
    <3> QED BY <3>1, <1>4
  <2> QED BY <2>1
<1>6. HandIn(s) = HandIn(plan[p])
  BY <1>3, <1>4 DEF HandIn
<1>7. TabIn(s) \cup ({pgdir[p]} \ {0}) = TabIn(plan[p]) \cup ({pgdir[p]} \ {0})
  <2>1. t.d = pgdir[p] \/ t.d \in TabIn(s)
    BY <1>4, <1>5 DEF TabIn
  <2> QED BY <2>1, <1>3
<1>8. Sons(p, s)
  BY <1>1, TailSons
<1>9. \A k \in DOMAIN s : s[k].do # "kmap"
  BY <1>4, <1>5
<1>10. /\ plan' = [plan EXCEPT ![p] = s]
       /\ UNCHANGED <<freelist, mem, state, kstack, pgdir, sz, cr3>>
  BY DEF AllocDone, Then, Go
<1> QED BY <1>2, <1>3, <1>6, <1>7, <1>8, <1>9, <1>10, PlanOnly

LEMMA KeepsAllocFails ==
  ASSUME IInv, NEW p \in Proc, AllocFails(p) PROVE IInv'
<1> DEFINE t == Head(plan[p])
<1>1. plan[p] # <<>> /\ t.do \in {"alloc", "map"}
  BY DEF AllocFails, At
<1>2. /\ plan[p] \in Seq(Frames) /\ PlanOK(p, plan[p]) /\ plan[p][1] = t
      /\ FrameOK(p, plan[p], 1) /\ state[p] = "run" /\ pgdir[p] \in Page
      /\ t \in Frames
      /\ t.d # 0 => t.d \in Page
      /\ t.g # 0 => t.g \in Page /\ Hands[p] = {t.g}
      /\ Hands[p] = HandIn(plan[p])
  BY <1>1, InCall
<1>3. /\ t.d # 0 /\ Len(plan[p]) = 2
      /\ \/ t.d = pgdir[p] /\ plan[p][2].do = "grown"
         \/ t.d # pgdir[p] /\ plan[p][2].do \in {"loaduvm", "commit"}
      /\ t.g # 0 <=> t.do = "map"
  BY <1>1, <1>2 DEF FrameOK, Handing
<1>4. t.d \in Page /\ t.hi \in Size /\ t.base \in Size
  BY <1>2, <1>3 DEF Frames
<1>5. /\ DOMAIN plan[p] = {1, 2} /\ FrameOK(p, plan[p], 2)
      /\ \A k \in DOMAIN plan[p] : plan[p][k].d # 0 => plan[p][k].d = t.d
  <2>1. DOMAIN plan[p] = 1 .. 2
    BY <1>2, <1>3
  <2> QED BY <2>1, <1>2, <1>3 DEF PlanOK
<1>6. TabIn(plan[p]) = {t.d}
  BY <1>2, <1>3, <1>5 DEF TabIn
<1>7. t.do = "alloc" => HandIn(plan[p]) = {}
  <2>1. plan[p][2].g = 0
    BY <1>3, <1>5 DEF FrameOK, Handing
  <2> QED BY <2>1, <1>2, <1>3, <1>5 DEF HandIn
<1>8. CASE t.do = "alloc"
  <2> DEFINE s == <<Dealloc(t.d, t.hi, t.base)>> \o AllocBad(p, t.d)
  <2>1. /\ plan' = [plan EXCEPT ![p] = s]
        /\ UNCHANGED <<freelist, mem, state, kstack, pgdir, sz, cr3>>
    BY <1>8 DEF AllocFails, Go, At
  <2>2. Fit(p, s) /\ HandIn(s) = {} /\ TabIn(s) = {t.d} /\ Plain(s)
    BY <1>2, <1>4, NoPage
  <2> HIDE DEF s
  <2>3. Sons(p, s) /\ \A k \in DOMAIN s : s[k].do # "kmap"
    BY <2>2, NoSons
  <2> QED BY <1>2, <1>6, <1>7, <1>8, <2>1, <2>2, <2>3, PlanOnly
<1>9. CASE t.do = "map"
  <2> DEFINE s == <<Dealloc(t.d, t.hi, t.base)>> \o Unmapped(t.g) \o AllocBad(p, t.d)
  <2>0. t.g \in Page /\ HandIn(plan[p]) = {t.g}
    BY <1>2, <1>3, <1>9
  <2>1. /\ plan' = [plan EXCEPT ![p] = s]
        /\ UNCHANGED <<freelist, mem, state, kstack, pgdir, sz, cr3>>
    BY <1>9 DEF AllocFails, Go, At
  <2>2. Fit(p, s) /\ HandIn(s) = {t.g} /\ TabIn(s) = {t.d} /\ Plain(s)
    <3>1. s = <<Dealloc(t.d, t.hi, t.base)>> \o Unmapped(t.g) \o AllocBad(p, t.d)
      OBVIOUS
    <3>2. pgdir[p] \in Page /\ t.d \in Page /\ t.g \in Page /\ t \in Frames
      BY <1>2, <1>4, <2>0
    <3> HIDE DEF s, t
    <3> QED BY <3>1, <3>2, NoTableFor, Zenon
  <2> HIDE DEF s
  <2>3. Sons(p, s) /\ \A k \in DOMAIN s : s[k].do # "kmap"
    BY <2>2, NoSons
  <2> QED BY <1>2, <1>6, <2>0, <2>1, <2>2, <2>3, PlanOnly
<1> QED BY <1>1, <1>8, <1>9

LEMMA PlainPlan ==
  ASSUME IInv, NEW p \in Proc, state[p] = "run", NEW s, Fit(p, s), Plain(s),
         plan' = [plan EXCEPT ![p] = s], HandIn(s) = HandIn(plan[p]),
         TabIn(s) \cup {pgdir[p]} = TabIn(plan[p]) \cup {pgdir[p]},
         UNCHANGED <<freelist, mem, state, kstack, pgdir, sz, cr3>>
  PROVE  IInv'
<1>1. Sons(p, s) /\ \A k \in DOMAIN s : s[k].do # "kmap"
  BY NoSons
<1>2. pgdir[p] # 0
  BY DEF IInv, ProcInv
<1> QED BY <1>1, <1>2, PlanOnly

\* A process that is at a frame which ends its plan.
LEMMA AtSolo ==
  ASSUME IInv, NEW p \in Proc, plan[p] # <<>>, NEW t, t = Head(plan[p]),
         t.do \in Solo
  PROVE  /\ plan[p] = <<t>> /\ t \in Frames /\ SizeOK(t)
         /\ state[p] = "run" /\ pgdir[p] \in Page /\ pgdir[p] \in Tabs[p]
         /\ HandIn(plan[p]) = {t.g} \ {0} /\ TabIn(plan[p]) = {t.d} \ {0}
         /\ Hands[p] = {t.g} \ {0} /\ Tabs[p] = ({t.d} \ {0}) \cup {pgdir[p]}
         /\ t.do \in Building => t.d \in Page /\ t.d # pgdir[p] /\ t.d \in Tabs[p]
         /\ t.do \in NoTab => t.d = 0
         /\ t.do = "mapcopy" => t.g \in Page
         /\ t.do # "mapcopy" => t.g = 0
         /\ t.q # 0 => t.do \in Forking \cup {"reaped"}
         /\ t.do \in {"kstack", "copy", "mapcopy", "reaped"} => t.q \in Proc
         /\ t.q \in Proc \cup {0}
<1>1. /\ plan[p] \in Seq(Frames) /\ PlanOK(p, plan[p]) /\ t \in Frames
      /\ plan[p][1] = t /\ FrameOK(p, plan[p], 1) /\ SizeOK(t)
      /\ state[p] = "run" /\ pgdir[p] \in Page /\ pgdir[p] \in Tabs[p]
      /\ t.d # 0 => t.d \in Tabs[p] /\ t.d \in Page
      /\ t.g # 0 => Hands[p] = {t.g} /\ t.g \in Page
      /\ Tabs[p] = TabIn(plan[p]) \cup {pgdir[p]}
      /\ Hands[p] = HandIn(plan[p])
  BY InCall
<1>2. /\ plan[p] = <<t>> /\ HandIn(plan[p]) = {t.g} \ {0}
      /\ TabIn(plan[p]) = {t.d} \ {0}
  BY <1>1, SoloPlan
<1>3. /\ t.do \in Building => t.d # 0 /\ t.d # pgdir[p]
      /\ t.do \in NoTab => t.d = 0
      /\ t.g # 0 <=> t.do \in Handing
      /\ t.q # 0 => t.do \in Forking \cup {"reaped"}
      /\ t.do \in {"kstack", "copy", "mapcopy", "reaped"} => t.q # 0
  BY <1>1 DEF FrameOK
<1>4. t.q \in Proc \cup {0}
  BY <1>1 DEF Frames
<1>5. t.do \in Handing <=> t.do = "mapcopy"
  BY DEF Handing, Solo
<1> QED BY <1>1, <1>2, <1>3, <1>4, <1>5

\* exec() gives up.
LEMMA ExecGivesUp ==
  ASSUME IInv, NEW p \in Proc, plan[p] # <<>>,
         Head(plan[p]).do \in {"load", "loaduvm", "commit"},
         plan' = [plan EXCEPT ![p] = <<Freevm(Head(plan[p]).d)>>],
         UNCHANGED <<freelist, mem, state, kstack, pgdir, sz, cr3>>
  PROVE  IInv'
<1> DEFINE t == Head(plan[p])  s == <<Freevm(t.d)>>
<1>1. /\ state[p] = "run" /\ HandIn(plan[p]) = {t.g} \ {0} /\ t.g = 0
      /\ TabIn(plan[p]) = {t.d} \ {0} /\ t.d \in Page /\ t.d # pgdir[p]
  BY AtSolo DEF Solo, Building
<1>2. Fit(p, s) /\ HandIn(s) = {} /\ TabIn(s) = {t.d} /\ Plain(s)
  BY <1>1, GiveUp
<1>3. HandIn(s) = HandIn(plan[p]) /\ TabIn(s) = TabIn(plan[p])
  BY <1>1, <1>2, PagesAreNumbers
<1> HIDE DEF s
<1> QED BY <1>1, <1>2, <1>3, PlainPlan DEF s

LEMMA KeepsExecBad ==
  ASSUME IInv, NEW p \in Proc, ExecBad(p) PROVE IInv'
BY ExecGivesUp DEF ExecBad, At, Go

LEMMA KeepsExecSegment ==
  ASSUME IInv, NEW p \in Proc, ExecSegment(p) PROVE IInv'
<1> DEFINE t == Head(plan[p])  t1 == [t EXCEPT !.do = "loaduvm"]
           new == Head(t1.segs)[2]  y == [t1 EXCEPT !.hi = new]
           bad == new >= KERNBASE \/ (new = 0 /\ t1.hi = 0)
<1>1. /\ plan[p] # <<>> /\ t.do = "load" /\ t.segs # <<>>
      /\ UNCHANGED <<freelist, mem, state, kstack, pgdir, sz, cr3>>
      /\ plan' = [plan EXCEPT ![p] =
                    IF bad THEN <<Freevm(t1.d)>>
                    ELSE IF new < t1.hi THEN <<t1>>
                    ELSE <<Alloc(t1.d, t1.hi, new), y>>]
  BY DEF ExecSegment, At, Go
<1>2. /\ state[p] = "run" /\ HandIn(plan[p]) = {t.g} \ {0} /\ t.g = 0
      /\ TabIn(plan[p]) = {t.d} \ {0} /\ t.d \in Page /\ t.d # pgdir[p]
      /\ t \in Frames /\ t.q = 0 /\ pgdir[p] \in Page
  BY <1>1, AtSolo DEF Solo, Building, Forking
<1>3. /\ t1 \in Frames /\ t1.do = "loaduvm" /\ t1.d = t.d /\ t1.g = 0
      /\ t1.q = 0 /\ t1.segs = t.segs /\ t1.hi = t.hi /\ t1.hi \in Size
  BY <1>2 DEF Frames, Solo
<1>4. HandIn(plan[p]) = {} /\ TabIn(plan[p]) = {t.d}
  BY <1>2, PagesAreNumbers
<1>5. new \in Nat
  <2>1. t1.segs \in Seq(Nat \X Nat) /\ t1.segs # <<>>
    BY <1>1, <1>3 DEF Frames
  <2>2. Head(t1.segs) \in Nat \X Nat
    BY <2>1
  <2> QED BY <2>2
<1>6. CASE bad
  BY <1>1, <1>3, <1>6, ExecGivesUp
<1>7. CASE ~bad /\ new < t1.hi
  <2>1. plan' = [plan EXCEPT ![p] = <<t1>>]
    BY <1>1, <1>7
  <2> HIDE DEF t1
  <2>2. SizeOK(t1)
    BY <1>1, <1>3 DEF SizeOK
  <2>3. DOMAIN <<t1>> = {1} /\ <<t1>>[1] = t1 /\ Len(<<t1>>) = 1
    OBVIOUS
  <2>4. FrameOK(p, <<t1>>, 1)
    BY <1>2, <1>3, <2>3, PagesAreNumbers
       DEF FrameOK, Solo, Building, NoTab, Handing, Forking
  <2>5. Fit(p, <<t1>>)
    BY <1>3, <2>2, <2>4, FitOne
  <2>6. Plain(<<t1>>)
    BY <1>3, <2>3 DEF Plain
  <2>7. HandIn(<<t1>>) = {} /\ TabIn(<<t1>>) = {t.d}
    BY <1>2, <1>3, Plans, PagesAreNumbers
  <2> QED BY <1>1, <1>2, <1>4, <2>1, <2>5, <2>6, <2>7, PlainPlan
<1>8. CASE ~bad /\ ~(new < t1.hi)
  <2> DEFINE x == Alloc(t.d, t.hi, new)
  <2>0. new \in Size
    BY <1>5, <1>8, Constants DEF Size
  <2>1. plan' = [plan EXCEPT ![p] = <<x, y>>]
    BY <1>1, <1>3, <1>8
  <2>2. /\ y \in Frames /\ y.do = "loaduvm" /\ y.d = t.d /\ y.g = 0
        /\ y.q = 0 /\ y.segs = t.segs
    BY <1>3, <2>0 DEF Frames
  <2>3. SizeOK(y)
    BY <1>1, <2>2 DEF SizeOK
  <2>4. x \in Frames /\ x.do = "alloc" /\ x.d = t.d /\ x.g = 0 /\ x.q = 0
    <3>1. t.d \in 0 .. NPAGES /\ t.hi \in Size
      BY <1>2 DEF Frames
    <3> QED BY <3>1, <2>0, NewFrames
  <2> HIDE DEF x, y
  <2>5. /\ Fit(p, <<x, y>>) /\ HandIn(<<x, y>>) = {} /\ TabIn(<<x, y>>) = {t.d}
        /\ Plain(<<x, y>>)
    BY <1>2, <2>2, <2>3, <2>4, GrowFits
  <2> QED BY <1>1, <1>2, <1>4, <2>1, <2>5, PlainPlan
<1> QED BY <1>6, <1>7, <1>8

LEMMA KeepsLoaduvm ==
  ASSUME IInv, NEW p \in Proc, Loaduvm(p) PROVE IInv'
<1> DEFINE t == Head(plan[p])  x == [t EXCEPT !.do = "load", !.segs = Tail(@)]
<1>1. /\ plan[p] # <<>> /\ t.do = "loaduvm"
      /\ UNCHANGED <<freelist, mem, state, kstack, pgdir, sz, cr3>>
      /\ \/ plan' = [plan EXCEPT ![p] = <<Freevm(t.d)>>]
         \/ plan' = [plan EXCEPT ![p] = <<x>>]
  BY DEF Loaduvm, At, Go
<1>2. /\ state[p] = "run" /\ HandIn(plan[p]) = {t.g} \ {0} /\ t.g = 0
      /\ TabIn(plan[p]) = {t.d} \ {0} /\ t.d \in Page /\ t.d # pgdir[p]
      /\ t \in Frames /\ t.q = 0 /\ pgdir[p] \in Page /\ SizeOK(t)
  BY <1>1, AtSolo DEF Solo, Building, Forking
<1>3. CASE plan' = [plan EXCEPT ![p] = <<Freevm(t.d)>>]
  BY <1>1, <1>3, ExecGivesUp
<1>4. CASE plan' = [plan EXCEPT ![p] = <<x>>]
  <2>1. t.segs \in Seq(Nat \X Nat) /\ t.segs # <<>>
    BY <1>1, <1>2 DEF Frames, SizeOK
  <2>2. Tail(t.segs) \in Seq(Nat \X Nat)
    BY <2>1
  <2>3. x \in Frames /\ x.do = "load" /\ x.d = t.d /\ x.g = 0 /\ x.q = 0
    BY <1>2, <2>2 DEF Frames, Solo
  <2> HIDE DEF x
  <2>4. SizeOK(x)
    BY <2>3 DEF SizeOK
  <2>5. DOMAIN <<x>> = {1} /\ <<x>>[1] = x /\ Len(<<x>>) = 1
    OBVIOUS
  <2>6. FrameOK(p, <<x>>, 1)
    BY <1>2, <2>3, <2>5, PagesAreNumbers
       DEF FrameOK, Solo, Building, NoTab, Handing, Forking
  <2>7. Fit(p, <<x>>)
    BY <2>3, <2>4, <2>6, FitOne
  <2>8. Plain(<<x>>)
    BY <2>3, <2>5 DEF Plain
  <2>9. /\ HandIn(<<x>>) = HandIn(plan[p])
        /\ TabIn(<<x>>) = TabIn(plan[p])
    BY <1>2, <2>3, Plans
  <2> QED BY <1>1, <1>2, <1>4, <2>7, <2>8, <2>9, PlainPlan
<1> QED BY <1>1, <1>3, <1>4

LEMMA KeepsExecStack ==
  ASSUME IInv, NEW p \in Proc, ExecStack(p) PROVE IInv'
<1> DEFINE t == Head(plan[p])  m == Roundup(t.hi)
           base == m * PGSIZE  top == base + 2 * PGSIZE
           x == Alloc(t.d, base, top)  y == [t EXCEPT !.do = "commit", !.hi = top]
<1>1. /\ plan[p] # <<>> /\ t.do = "load"
      /\ UNCHANGED <<freelist, mem, state, kstack, pgdir, sz, cr3>>
      /\ plan' = [plan EXCEPT ![p] =
                    IF top >= KERNBASE THEN <<Freevm(t.d)>> ELSE <<x, y>>]
  BY DEF ExecStack, At, Go
<1>2. /\ state[p] = "run" /\ HandIn(plan[p]) = {t.g} \ {0} /\ t.g = 0
      /\ TabIn(plan[p]) = {t.d} \ {0} /\ t.d \in Page /\ t.d # pgdir[p]
      /\ t \in Frames /\ t.q = 0 /\ pgdir[p] \in Page
  BY <1>1, AtSolo DEF Solo, Building, Forking
<1>3. CASE top >= KERNBASE
  BY <1>1, <1>3, ExecGivesUp
<1>4. CASE ~(top >= KERNBASE)
  <2>1. t.hi \in Nat
    BY <1>2, Constants DEF Frames, Size
  <2>2. m \in Nat /\ base \in Nat
    BY <2>1, Rounding
  <2>3. plan' = [plan EXCEPT ![p] = <<x, y>>]
    BY <1>1, <1>4
  <2>4. base < KERNBASE /\ base \in Size /\ top \in Size /\ base \in Nat
    <3> HIDE DEF base
    <3> QED BY <1>4, <2>2, Constants DEF Size
  <2>5. m \in 0 .. NUSER - 1
    BY <2>2, <2>4, Rounding
  <2> HIDE DEF m
  <2>6. top = (m + 2) * PGSIZE
    BY <2>2, Constants
  <2> HIDE DEF base, top
  <2>7. /\ y \in Frames /\ y.do = "commit" /\ y.d = t.d /\ y.g = 0 /\ y.q = 0
        /\ y.hi = top
    BY <1>2, <2>4 DEF Frames, Solo
  <2>8. SizeOK(y)
    BY <2>5, <2>6, <2>7 DEF SizeOK
  <2>9. x \in Frames /\ x.do = "alloc" /\ x.d = t.d /\ x.g = 0 /\ x.q = 0
    <3>1. t.d \in 0 .. NPAGES
      BY <1>2 DEF Frames
    <3> QED BY <3>1, <2>4, NewFrames
  <2> HIDE DEF x, y
  <2>10. /\ Fit(p, <<x, y>>) /\ HandIn(<<x, y>>) = {} /\ TabIn(<<x, y>>) = {t.d}
         /\ Plain(<<x, y>>)
    BY <1>2, <2>7, <2>8, <2>9, GrowFits
  <2>11. /\ HandIn(<<x, y>>) = HandIn(plan[p])
         /\ TabIn(<<x, y>>) = TabIn(plan[p])
    BY <1>2, <2>10, PagesAreNumbers
  <2> QED BY <1>1, <1>2, <2>3, <2>10, <2>11, PlainPlan
<1> QED BY <1>3, <1>4

LEMMA KeepsExec ==
  ASSUME IInv, NEW p \in Proc, NEW image \in Images, Exec(p, image) PROVE IInv'
<1> DEFINE x == [Todo EXCEPT !.do = "setupkvm", !.segs = image]
<1>1. /\ plan[p] = <<>> /\ state[p] = "run"
      /\ UNCHANGED <<freelist, mem, state, kstack, pgdir, sz, cr3>>
      /\ plan' = [plan EXCEPT ![p] = <<x>>]
  BY DEF Exec, Call, Go
<1>2. /\ x \in Frames /\ x.do = "setupkvm" /\ x.d = 0 /\ x.g = 0 /\ x.q = 0
      /\ x.lo = 0
  <2>1. 0 \in Size /\ 0 \in 0 .. NPAGES /\ image \in Seq(Nat \X Nat)
    BY Constants, MemoryAssumption DEF Size
  <2> QED BY <2>1 DEF Todo, Frames, Solo
<1> HIDE DEF x
<1>3. SizeOK(x)
  <2>1. 0 \in Nat /\ x.lo = 0 * PGSIZE
    BY <1>2, Constants
  <2> QED BY <2>1, <1>2 DEF SizeOK
<1>4. DOMAIN <<x>> = {1} /\ <<x>>[1] = x /\ Len(<<x>>) = 1
  OBVIOUS
<1>5. FrameOK(p, <<x>>, 1)
  BY <1>2, <1>4 DEF FrameOK, Solo, Building, NoTab, Handing, Forking
<1>6. Fit(p, <<x>>)
  BY <1>2, <1>3, <1>5, FitOne
<1>7. Plain(<<x>>)
  BY <1>2, <1>4 DEF Plain
<1>8. HandIn(<<x>>) = HandIn(plan[p]) /\ TabIn(<<x>>) = TabIn(plan[p])
  BY <1>1, <1>2, Plans
<1> QED BY <1>1, <1>6, <1>7, <1>8, PlainPlan

\* Nothing changes but the number of calls and the panic.
LEMMA Still ==
  ASSUME IInv,
         UNCHANGED <<freelist, mem, state, kstack, pgdir, sz, cr3, plan>>
  PROVE  IInv'
<1>1. TypeOK'
  BY DEF IInv, TypeOK
<1>2. PlanInv' /\ SizeInv'
  BY DEF IInv, PlanInv, PlanOK, FrameOK, SizeInv, SizeOK
<1>3. ProcInv'
  BY DEF IInv, ProcInv
<1>4. OwnInv'
  BY DEF IInv, OwnInv, FreeSet, Tabs, Hands
<1>5. NewDir'
  BY DEF IInv, NewDir
<1> QED BY <1>1, <1>2, <1>3, <1>4, <1>5 DEF IInv

\* sbrk(): the first thing that growproc() does.
LEMMA Growing ==
  ASSUME IInv, NEW p \in Proc, state[p] = "run", plan[p] = <<>>,
         NEW n \in Size, NEW x \in Frames, x.do \in {"alloc", "dealloc"},
         x.d = pgdir[p], x.g = 0, x.q = 0,
         plan' = [plan EXCEPT ![p] = <<x, Grown(n)>>],
         UNCHANGED <<freelist, mem, state, kstack, pgdir, sz, cr3>>
  PROVE  IInv'
<1> DEFINE y == Grown(n)
<1>1. pgdir[p] \in Page
  BY PagesAreNumbers, Constants DEF IInv, TypeOK, ProcInv
<1>2. y \in Frames /\ y.do = "grown" /\ y.d = 0 /\ y.g = 0 /\ y.q = 0
  BY NewFrames
<1>3. plan' = [plan EXCEPT ![p] = <<x, y>>]
  OBVIOUS
<1> HIDE DEF y
<1>4. SizeOK(y)
  BY <1>2 DEF SizeOK
<1>5. /\ Fit(p, <<x, y>>) /\ HandIn(<<x, y>>) = {}
      /\ TabIn(<<x, y>>) = {pgdir[p]} /\ Plain(<<x, y>>)
  BY <1>1, <1>2, <1>4, GrowFits
<1>6. HandIn(plan[p]) = {} /\ TabIn(plan[p]) = {}
  BY Plans
<1> QED BY <1>3, <1>5, <1>6, PlainPlan

LEMMA KeepsGrow ==
  ASSUME IInv, NEW p \in Proc, NEW n \in Amounts, Grow(p, n) \/ Shrink(p, n)
  PROVE  IInv'
<1> DEFINE new == (sz[p] + n) % WORD
<1>1. /\ plan[p] = <<>> /\ state[p] = "run"
      /\ UNCHANGED <<freelist, mem, state, kstack, pgdir, sz, cr3>>
      /\ \/ UNCHANGED plan
         \/ /\ ~(new >= KERNBASE)
            /\ plan' = [plan EXCEPT ![p] = <<Alloc(pgdir[p], sz[p], new), Grown(new)>>]
         \/ /\ ~(new >= sz[p])
            /\ plan' = [plan EXCEPT ![p] = <<Dealloc(pgdir[p], sz[p], new), Grown(new)>>]
  BY DEF Grow, Shrink, Call, Go
<1>2. pgdir[p] \in 0 .. NPAGES /\ sz[p] \in Size /\ sz[p] \in 0 .. KERNBASE
  BY DEF IInv, TypeOK, Size
<1>3. new \in Nat
  <2>1. sz[p] + n \in Int /\ WORD \in Nat /\ WORD > 0
    BY <1>2, Constants, MemoryAssumption DEF WORD
  <2> QED BY <2>1
<1> HIDE DEF new
<1>4. CASE UNCHANGED plan
  BY <1>1, <1>4, Still
<1>5. CASE /\ ~(new >= KERNBASE)
           /\ plan' = [plan EXCEPT ![p] = <<Alloc(pgdir[p], sz[p], new), Grown(new)>>]
  <2> DEFINE x == Alloc(pgdir[p], sz[p], new)
  <2>1. new \in Size
    BY <1>3, <1>5, Constants DEF Size
  <2>2. x \in Frames /\ x.do = "alloc" /\ x.d = pgdir[p] /\ x.g = 0 /\ x.q = 0
    BY <1>2, <2>1, NewFrames
  <2>3. plan' = [plan EXCEPT ![p] = <<x, Grown(new)>>]
    BY <1>5
  <2> HIDE DEF x
  <2> QED BY <1>1, <2>1, <2>2, <2>3, Growing
<1>6. CASE /\ ~(new >= sz[p])
           /\ plan' = [plan EXCEPT ![p] = <<Dealloc(pgdir[p], sz[p], new), Grown(new)>>]
  <2> DEFINE x == Dealloc(pgdir[p], sz[p], new)
  <2>1. new \in Size
    BY <1>2, <1>3, <1>6, Constants DEF Size
  <2>2. x \in Frames /\ x.do = "dealloc" /\ x.d = pgdir[p] /\ x.g = 0 /\ x.q = 0
    BY <1>2, <2>1, NewFrames
  <2>3. plan' = [plan EXCEPT ![p] = <<x, Grown(new)>>]
    BY <1>6
  <2> HIDE DEF x
  <2> QED BY <1>1, <2>1, <2>2, <2>3, Growing
<1> QED BY <1>1, <1>4, <1>5, <1>6

\* fork(), or exec(), has no page table.
LEMMA UndoSons ==
  ASSUME IInv, NEW p \in Proc, plan[p] # <<>>, NEW t, t = Head(plan[p]),
         t.do \in {"setupkvm", "kmap", "copy", "mapcopy"}, NEW s,
         \A k \in DOMAIN s : /\ s[k].do \in {"kfree", "freevm", "undo"}
                             /\ s[k].q # 0 => s[k].q = t.q /\ s[k].do = "undo"
  PROVE  Sons(p, s) /\ \A k \in DOMAIN s : s[k].do # "kmap"
<1>1. 1 \in DOMAIN plan[p] /\ plan[p][1] = t
  BY InCall
<1> QED BY <1>1 DEF Sons, Forking

LEMMA CallGivesUp ==
  ASSUME IInv, NEW p \in Proc, plan[p] # <<>>, NEW t, t = Head(plan[p]),
         t.do \in {"kmap", "copy"},
         plan' = [plan EXCEPT ![p] = <<Freevm(t.d), Undo(t.q)>>],
         UNCHANGED <<freelist, mem, state, kstack, pgdir, sz, cr3>>
  PROVE  IInv'
<1> DEFINE s == <<Freevm(t.d), Undo(t.q)>>
<1>1. /\ state[p] = "run" /\ HandIn(plan[p]) = {t.g} \ {0} /\ t.g = 0
      /\ TabIn(plan[p]) = {t.d} \ {0} /\ t.d \in Page /\ t.d # pgdir[p]
      /\ t.q \in Proc \cup {0}
  BY AtSolo DEF Solo, Building
<1>2. /\ Fit(p, s) /\ HandIn(s) = {} /\ TabIn(s) = {t.d}
      /\ \A k \in DOMAIN s : /\ s[k].do \in {"freevm", "undo"}
                             /\ s[k].q # 0 => s[k].q = t.q /\ s[k].do = "undo"
  BY <1>1, GiveUpFork
<1>0. plan' = [plan EXCEPT ![p] = s]
  OBVIOUS
<1> HIDE DEF s
<1>3. HandIn(s) = HandIn(plan[p]) /\ TabIn(s) = TabIn(plan[p])
  BY <1>1, <1>2, PagesAreNumbers
<1>4. Sons(p, s) /\ \A k \in DOMAIN s : s[k].do # "kmap"
  BY <1>2, UndoSons
<1> QED BY <1>0, <1>1, <1>2, <1>3, <1>4, PlanOnly

LEMMA KeepsCopyFails ==
  ASSUME IInv, NEW p \in Proc, CopyFails(p) PROVE IInv'
<1> DEFINE t == Head(plan[p])
<1>1. /\ plan[p] # <<>> /\ t.do \in {"copy", "mapcopy"}
      /\ UNCHANGED <<freelist, mem, state, kstack, pgdir, sz, cr3>>
      /\ t.do = "copy" => plan' = [plan EXCEPT ![p] = <<Freevm(t.d), Undo(t.q)>>]
      /\ t.do = "mapcopy" => plan' = [plan EXCEPT ![p] =
                               Unmapped(t.g) \o <<Freevm(t.d), Undo(t.q)>>]
  BY DEF CopyFails, At, Go
<1>2. CASE t.do = "copy"
  BY <1>1, <1>2, CallGivesUp
<1>3. CASE t.do = "mapcopy"
  <2> DEFINE s == <<Kfree(t.g), Freevm(t.d), Undo(t.q)>>
  <2>1. Unmapped(t.g) \o <<Freevm(t.d), Undo(t.q)>> = s
    BY Joins, Zenon DEF Unmapped
  <2>0. plan' = [plan EXCEPT ![p] = s]
    BY <1>1, <1>3, <2>1, Zenon
  <2>2. /\ state[p] = "run" /\ HandIn(plan[p]) = {t.g} \ {0} /\ t.g \in Page
        /\ TabIn(plan[p]) = {t.d} \ {0} /\ t.d \in Page /\ t.d # pgdir[p]
        /\ t.q \in Proc \cup {0}
    BY <1>1, <1>3, AtSolo DEF Solo, Building
  <2>3. /\ Fit(p, s) /\ HandIn(s) = {t.g} /\ TabIn(s) = {t.d}
        /\ \A k \in DOMAIN s : /\ s[k].do \in {"kfree", "freevm", "undo"}
                               /\ s[k].q # 0 => s[k].q = t.q /\ s[k].do = "undo"
    <3> HIDE DEF t
    <3> QED BY <2>2, GiveUpCopy
  <2> HIDE DEF s
  <2>4. HandIn(s) = HandIn(plan[p]) /\ TabIn(s) = TabIn(plan[p])
    BY <2>2, <2>3, PagesAreNumbers
  <2>5. Sons(p, s) /\ \A k \in DOMAIN s : s[k].do # "kmap"
    BY <1>1, <1>3, <2>3, UndoSons
  <2> QED BY <1>1, <2>0, <2>2, <2>3, <2>4, <2>5, PlanOnly
<1> QED BY <1>1, <1>2, <1>3

LEMMA KeepsArgument ==
  ASSUME IInv, NEW p \in Proc, NEW a, NEW n, Argument(p, a, n) PROVE IInv'
BY Still DEF Argument

-----------------------------------------------------------------------------
(* The steps that give and take pages                                      *)

LEMMA KeepsKfreePage ==
  ASSUME IInv, NEW p \in Proc, KfreePage(p) PROVE IInv'
<1> DEFINE t == Head(plan[p])  s == <<>> \o Tail(plan[p])  g == t.g
<1>1. /\ plan[p] # <<>> /\ t.do = "kfree"
      /\ freelist' = <<g>> \o freelist /\ mem' = [mem EXCEPT ![g] = Junk]
      /\ plan' = [plan EXCEPT ![p] = s]
      /\ UNCHANGED <<state, kstack, pgdir, sz, cr3>>
  BY DEF KfreePage, At, KfreeIn, Then, Go
<1>2. /\ plan[p] \in Seq(Frames) /\ plan[p][1] = t /\ FrameOK(p, plan[p], 1)
      /\ state[p] = "run" /\ pgdir[p] \in Page /\ Fit(p, plan[p])
      /\ t.g # 0 => Hands[p] = {t.g} /\ t.g \in Page
      /\ Hands[p] = HandIn(plan[p])
      /\ Tabs[p] = TabIn(plan[p]) \cup {pgdir[p]}
  BY <1>1, InCall DEF Fit, IInv, SizeInv
<1>3. t.g # 0 /\ t.d = 0
  BY <1>1, <1>2 DEF FrameOK, Handing, NoTab
<1>4. /\ Fit(p, s) /\ HandIn(s) = HandIn(plan[p]) \ {t.g}
      /\ TabIn(plan[p]) = TabIn(s) \cup ({t.d} \ {0})
  BY <1>1, <1>2, TailFits
<1>5. HandIn(s) = {} /\ TabIn(s) = TabIn(plan[p])
  BY <1>2, <1>3, <1>4
<1> HIDE DEF s
<1>6. /\ g \in Page \ FreeSet
      /\ CanOwn(FreeSet \cup {g}, mem', kstack, Tabs, [Hands EXCEPT ![p] = {}])
  <2>1. CanOwn(FreeSet, mem, kstack, Tabs, Hands) /\ Hands[p] = {g}
    BY <1>2, <1>3 DEF IInv, OwnInv
  <2> HIDE DEF g
  <2>2. /\ g \in Page \ FreeSet
        /\ CanOwn(FreeSet \cup {g}, [mem EXCEPT ![g] = Junk], kstack, Tabs,
                  [Hands EXCEPT ![p] = {}])
    BY <2>1, FreeHand
  <2> QED BY <2>2, <1>1
<1>7. /\ freelist' \in Seq(Page) /\ Distinct(freelist)'
      /\ FreeSet' = FreeSet \cup {g}
  BY <1>1, <1>6, KfreeList DEF IInv, TypeOK, OwnInv
<1>8. /\ [Tabs EXCEPT ![p] = TabIn(s) \cup ({pgdir[p]} \ {0})] = Tabs
      /\ [Hands EXCEPT ![p] = HandIn(s)] = [Hands EXCEPT ![p] = {}]
  BY <1>2, <1>5, PagesAreNumbers DEF Tabs
<1>9. \A r \in Proc : \A d \in Tabs[r] : mem'[d] = mem[d]
  <2>1. \A r \in Proc : \A d \in Tabs[r] : d \in Page /\ d # g
    BY <1>2, <1>3, Apart
  <2> QED BY <2>1, <1>1 DEF IInv, TypeOK
<1>10. Sons(p, s)
  BY <1>1, TailSons DEF s
<1>11. \A k \in DOMAIN s : s[k].do = "kmap" => mem'[s[k].d] = NoDir
  <2>1. ASSUME NEW k \in DOMAIN s, s[k].do = "kmap" PROVE mem'[s[k].d] = NoDir
    <3>1. k + 1 \in DOMAIN plan[p] /\ s[k] = plan[p][k + 1]
      BY <1>1, <1>2, Heads DEF s
    <3>2. mem[s[k].d] = NoDir /\ s[k].d # 0
      BY <2>1, <3>1 DEF IInv, NewDir, PlanInv, PlanOK, FrameOK, Building
    <3>3. s[k].d \in Tabs[p]
      BY <3>1, <3>2, <1>2 DEF TabIn
    <3> QED BY <3>2, <3>3, <1>9
  <2> QED BY <2>1
<1>12. ProcInv'
  BY <1>1, <1>2, <1>4, <1>10, SameChildren DEF IInv, Fit
<1> QED BY <1>1, <1>4, <1>6, <1>7, <1>8, <1>9, <1>11, <1>12, Assemble
           DEF IInv, TypeOK

LEMMA TailKmap ==
  ASSUME IInv, NEW p \in Proc, plan[p] # <<>>, NEW s, s = <<>> \o Tail(plan[p])
  PROVE  \A k \in DOMAIN s : s[k].do = "kmap" =>
           mem[s[k].d] = NoDir /\ s[k].d \in Tabs[p]
<1>1. ASSUME NEW k \in DOMAIN s, s[k].do = "kmap"
      PROVE  mem[s[k].d] = NoDir /\ s[k].d \in Tabs[p]
  <2>1. plan[p] \in Seq(Frames)
    BY InCall
  <2>2. k + 1 \in DOMAIN plan[p] /\ s[k] = plan[p][k + 1]
    BY <2>1, Heads
  <2>3. mem[s[k].d] = NoDir /\ s[k].d # 0
    BY <1>1, <2>2 DEF IInv, NewDir, PlanInv, PlanOK, FrameOK, Building
  <2>4. s[k].d \in Tabs[p]
    BY <2>2, <2>3 DEF Tabs, TabIn
  <2> QED BY <2>3, <2>4
<1> QED BY <1>1

\* Pages move, and the plans stay as they are.
LEMMA SamePlans ==
  ASSUME IInv, UNCHANGED <<state, kstack, pgdir, sz, cr3, plan>>,
         freelist' \in Seq(Page), Distinct(freelist)', DOMAIN mem' = Page,
         CanOwn(FreeSet', mem', kstack, Tabs, Hands),
         \A p \in Proc : \A k \in DOMAIN plan[p] :
           plan[p][k].do = "kmap" => mem'[plan[p][k].d] = NoDir
  PROVE  IInv'
<1>1. TypeOK'
  BY DEF IInv, TypeOK
<1>2. PlanInv' /\ SizeInv'
  BY DEF IInv, PlanInv, PlanOK, FrameOK, SizeInv, SizeOK
<1>3. ProcInv'
  BY DEF IInv, ProcInv
<1>4. Tabs' = Tabs /\ Hands' = Hands
  BY DEF Tabs, Hands
<1>5. OwnInv'
  BY <1>4 DEF OwnInv
<1>6. NewDir'
  BY DEF NewDir
<1> QED BY <1>1, <1>2, <1>3, <1>5, <1>6 DEF IInv

\* The directories of setupkvm() stay as they are.
LEMMA KmapTabs ==
  ASSUME IInv, NEW p \in Proc, NEW k \in DOMAIN plan[p], plan[p][k].do = "kmap"
  PROVE  mem[plan[p][k].d] = NoDir /\ plan[p][k].d \in Tabs[p]
<1>1. mem[plan[p][k].d] = NoDir /\ plan[p][k].d # 0
  BY DEF IInv, NewDir, PlanInv, PlanOK, FrameOK, Building
<1> QED BY <1>1 DEF Tabs, TabIn

LEMMA Entries ==
  ASSUME IInv, NEW p \in Proc, NEW d \in Tabs[p], NEW v \in 0 .. NUSER - 1
  PROVE  /\ PDX(v) \in 0 .. KPDX /\ PDX(v) \in 0 .. KPDX - 1
         /\ PTX(v) \in 0 .. NPTENTRIES - 1
         /\ Pte(d, v).pa # 0 =>
              /\ mem[d][PDX(v)] # 0
              /\ Pte(d, v).pa = mem[mem[d][PDX(v)]][PTX(v)].pa
         /\ mem[d][PDX(v)] # 0 => Pte(d, v) = mem[mem[d][PDX(v)]][PTX(v)]
         /\ Pte(d, v).user \in BOOLEAN
<1>1. /\ PDX(v) \in 0 .. KPDX /\ PDX(v) \in 0 .. KPDX - 1
      /\ PTX(v) \in 0 .. NPTENTRIES - 1
  BY Places, Constants
<1>2. mem[d][PDX(v)] # 0 => mem[mem[d][PDX(v)]] \in Table
  BY <1>1, Apart
<1>3. Pte(d, v).user \in BOOLEAN
  BY <1>1, <1>2 DEF Pte, PteIn, NoPte, Table, Entry
<1> QED BY <1>1, <1>3 DEF Pte, PteIn, NoPte

LEMMA KeepsDeallocPage ==
  ASSUME IInv, NEW p \in Proc, DeallocPage(p) PROVE IInv'
<1> DEFINE t == Head(plan[p])  s == <<>> \o Tail(plan[p])
           rest == Present(t.d, t.lo, t.hi)  v == Least(rest)
<1>1. /\ plan[p] # <<>> /\ t.do = "dealloc"
      /\ UNCHANGED <<state, kstack, pgdir, sz, cr3>>
      /\ rest = {} => plan' = [plan EXCEPT ![p] = s] /\ UNCHANGED <<freelist, mem>>
      /\ rest # {} =>
           /\ freelist' = <<Pte(t.d, v).pa>> \o freelist
           /\ mem' = [[mem EXCEPT ![mem[t.d][PDX(v)]][PTX(v)] = NoPte]
                        EXCEPT ![Pte(t.d, v).pa] = Junk]
           /\ plan' = plan
  BY DEF DeallocPage, At, KfreeIn, Then, Go
<1>2. /\ plan[p] \in Seq(Frames) /\ plan[p][1] = t /\ FrameOK(p, plan[p], 1)
      /\ state[p] = "run" /\ pgdir[p] \in Page /\ Fit(p, plan[p])
      /\ t.d # 0 => t.d \in Tabs[p]
      /\ Hands[p] = HandIn(plan[p])
      /\ Tabs[p] = TabIn(plan[p]) \cup {pgdir[p]}
  BY <1>1, InCall DEF Fit, IInv, SizeInv
<1>3. /\ t.g = 0 /\ t.d # 0
      /\ \/ t.d = pgdir[p]
         \/ Len(plan[p]) > 1 /\ plan[p][2].d = t.d
         \/ Len(plan[p]) > 2 /\ plan[p][3].d = t.d
  BY <1>1, <1>2 DEF FrameOK, Handing
<1>4. CASE rest = {}
  <2>1. /\ Fit(p, s) /\ HandIn(s) = HandIn(plan[p]) \ {t.g}
        /\ TabIn(plan[p]) = TabIn(s) \cup ({t.d} \ {0})
    BY <1>1, <1>2, TailFits
  <2>2. /\ Len(plan[p]) \in Nat /\ DOMAIN s = 1 .. Len(plan[p]) - 1
        /\ \A k \in 1 .. Len(plan[p]) - 1 : s[k] = plan[p][k + 1]
    BY <1>1, <1>2, Heads
  <2>3. Sons(p, s)
    BY <1>1, TailSons
  <2>4. \A k \in DOMAIN s : s[k].do = "kmap" => mem[s[k].d] = NoDir
    <3>1. s = <<>> \o Tail(plan[p])
      OBVIOUS
    <3>2. plan[p] # <<>>
      BY <1>1
    <3> HIDE DEF s
    <3> QED BY <3>1, <3>2, TailKmap
  <2>5. plan' = [plan EXCEPT ![p] = s] /\ UNCHANGED <<freelist, mem>>
    BY <1>1, <1>4
  <2> HIDE DEF s
  <2>6. t.d = pgdir[p] \/ t.d \in TabIn(s)
    <3>1. ASSUME NEW k \in DOMAIN s, s[k].d = t.d PROVE t.d \in TabIn(s)
      BY <3>1, <1>3 DEF TabIn
    <3>2. Len(plan[p]) > 1 => 1 \in DOMAIN s /\ s[1] = plan[p][2]
      BY <2>2
    <3>3. Len(plan[p]) > 2 => 2 \in DOMAIN s /\ s[2] = plan[p][3]
      BY <2>2
    <3> QED BY <3>1, <3>2, <3>3, <1>3
  <2>7. HandIn(s) = HandIn(plan[p])
    BY <2>1, <1>3 DEF HandIn
  <2>8. TabIn(s) \cup ({pgdir[p]} \ {0}) = TabIn(plan[p]) \cup ({pgdir[p]} \ {0})
    BY <2>1, <2>6, <1>3
  <2> QED BY <1>1, <1>2, <2>1, <2>3, <2>4, <2>5, <2>7, <2>8, PlanOnly
<1>5. CASE rest # {}
  <2> DEFINE d == t.d  k == PDX(v)  j == PTX(v)  g == Pte(d, v).pa
             m2 == [[mem EXCEPT ![mem[d][k]][j] = NoPte] EXCEPT ![g] = Junk]
  <2>1. v \in rest
    <3>1. rest \in SUBSET Nat
      BY Constants DEF Present, PagesFrom
    <3> QED BY <3>1, <1>5, LeastNat
  <2>2. v \in 0 .. NUSER - 1 /\ g # 0 /\ d \in Tabs[p]
    BY <2>1, <1>2, <1>3 DEF Present, PagesFrom
  <2>3. freelist' = <<g>> \o freelist /\ mem' = m2 /\ plan' = plan
    BY <1>1, <1>5
  <2> HIDE DEF v, d
  <2>4. /\ k \in 0 .. KPDX /\ j \in 0 .. NPTENTRIES - 1 /\ mem[d][k] # 0
        /\ g = mem[mem[d][k]][j].pa
    BY <2>2, Entries
  <2> HIDE DEF k, j, g
  <2>5. CanOwn(FreeSet, mem, kstack, Tabs, Hands)
    BY DEF IInv, OwnInv
  <2>6. g \in Page \ FreeSet /\ CanOwn(FreeSet \cup {g}, m2, kstack, Tabs, Hands)
    BY <2>2, <2>4, <2>5, FreeUser
  <2>7. /\ freelist' \in Seq(Page) /\ Distinct(freelist)'
        /\ FreeSet' = FreeSet \cup {g}
    BY <2>3, <2>6, KfreeList DEF IInv, TypeOK, OwnInv
  <2>8. \A r \in Proc : \A e \in Tabs[r] : e \in Page /\ e # mem[d][k] /\ e # g
    BY <2>2, <2>4, Apart
  <2>9. DOMAIN mem = Page
    BY DEF IInv, TypeOK
  <2>10. \A r \in Proc : \A e \in Tabs[r] : m2[e] = mem[e]
    BY <2>8, <2>9
  <2>11. DOMAIN m2 = Page
    BY <2>9
  <2>12. \A r \in Proc : \A i \in DOMAIN plan[r] :
           plan[r][i].do = "kmap" => m2[plan[r][i].d] = NoDir
    BY <2>10, KmapTabs
  <2> HIDE DEF m2
  <2> QED BY <1>1, <2>3, <2>6, <2>7, <2>11, <2>12, SamePlans
<1> QED BY <1>4, <1>5

\* A process that frees a page table has nothing else in its plan but the end.
LEMMA AtFreevm ==
  ASSUME IInv, NEW p \in Proc, plan[p] # <<>>, NEW t, t = Head(plan[p]),
         t.do = "freevm"
  PROVE  /\ t.d \in Page /\ t.d # pgdir[p] /\ t.d \in Tabs[p]
         /\ Len(plan[p]) \in 1 .. 2 /\ t.q = 0
         /\ \A k \in 2 .. Len(plan[p]) :
              /\ plan[p][k].do \in {"undo", "reaped"}
              /\ plan[p][k].d = 0 /\ plan[p][k].g = 0
         /\ Tabs[p] = {t.d, pgdir[p]} /\ TabIn(plan[p]) = {t.d}
         /\ HandIn(plan[p]) = {} /\ Hands[p] = {}
<1>1. /\ plan[p] \in Seq(Frames) /\ PlanOK(p, plan[p]) /\ plan[p][1] = t
      /\ FrameOK(p, plan[p], 1) /\ 1 \in DOMAIN plan[p]
      /\ t.d # 0 => t.d \in Tabs[p] /\ t.d \in Page
      /\ Tabs[p] = TabIn(plan[p]) \cup {pgdir[p]}
      /\ Hands[p] = HandIn(plan[p])
  BY InCall
<1>2. /\ t.d # 0 /\ t.d # pgdir[p] /\ t.g = 0 /\ t.q = 0
      /\ 1 = Len(plan[p]) \/ plan[p][2].do \in {"undo", "reaped"}
  BY <1>1 DEF FrameOK, Handing, Forking
<1>3. Len(plan[p]) \in Nat /\ Len(plan[p]) >= 1 /\ DOMAIN plan[p] = 1 .. Len(plan[p])
  BY <1>1, Heads
<1>4. ASSUME Len(plan[p]) # 1
      PROVE  /\ Len(plan[p]) = 2 /\ plan[p][2].do \in {"undo", "reaped"}
             /\ plan[p][2].d = 0 /\ plan[p][2].g = 0
  <2>0. 2 \in 1 .. Len(plan[p])
    <3>1. \A n \in Nat : n >= 1 /\ n # 1 => 2 \in 1 .. n
      OBVIOUS
    <3> QED BY <3>1, <1>3, <1>4, Zenon
  <2>1. plan[p][2].do \in {"undo", "reaped"} /\ 2 \in DOMAIN plan[p]
    BY <1>2, <1>3, <1>4, <2>0, Zenon
  <2>2. FrameOK(p, plan[p], 2)
    BY <1>1, <2>1 DEF PlanOK
  <2> QED BY <2>1, <2>2 DEF FrameOK, Solo, NoTab, Handing
<1>5. \A k \in 2 .. Len(plan[p]) :
        /\ plan[p][k].do \in {"undo", "reaped"}
        /\ plan[p][k].d = 0 /\ plan[p][k].g = 0
  BY <1>3, <1>4
<1>6. \A k \in DOMAIN plan[p] : k = 1 \/ k \in 2 .. Len(plan[p])
  BY <1>3
<1>7. TabIn(plan[p]) = {t.d}
  BY <1>1, <1>2, <1>5, <1>6 DEF TabIn
<1>8. HandIn(plan[p]) = {}
  BY <1>1, <1>2, <1>5, <1>6 DEF HandIn
<1> QED BY <1>1, <1>2, <1>3, <1>4, <1>5, <1>7, <1>8

LEMMA FreevmDealloc ==
  ASSUME IInv, NEW p \in Proc, plan[p] # <<>>, NEW t, t = Head(plan[p]),
         t.do = "freevm",
         plan' = [plan EXCEPT ![p] =
                    <<Dealloc(t.d, KERNBASE, 0), Freevm(t.d)>> \o Tail(plan[p])],
         UNCHANGED <<freelist, mem, state, kstack, pgdir, sz, cr3>>
  PROVE  IInv'
<1> DEFINE x == Dealloc(t.d, KERNBASE, 0)  y == Freevm(t.d)
           u == <<y>> \o Tail(plan[p])  s == <<x>> \o u
<1>1. /\ plan[p] \in Seq(Frames) /\ plan[p][1] = t /\ state[p] = "run"
      /\ pgdir[p] \in Page /\ Fit(p, plan[p])
  BY InCall DEF Fit, IInv, SizeInv
<1>2. /\ t.d \in Page /\ t.d # pgdir[p] /\ t.q = 0
      /\ \A k \in 2 .. Len(plan[p]) :
           /\ plan[p][k].do \in {"undo", "reaped"}
           /\ plan[p][k].d = 0 /\ plan[p][k].g = 0
      /\ TabIn(plan[p]) = {t.d} /\ HandIn(plan[p]) = {}
  BY AtFreevm
<1>3. /\ x \in Frames /\ x.do = "dealloc" /\ x.d = t.d /\ x.g = 0 /\ x.q = 0
      /\ y \in Frames /\ y.do = "freevm" /\ y.d = t.d /\ y.g = 0 /\ y.q = 0
  <2>1. t.d \in 0 .. NPAGES /\ KERNBASE \in Size /\ 0 \in Size
    BY <1>2, PagesAreNumbers, Constants DEF Size
  <2> QED BY <2>1, NewFrames
<1>4. /\ Tail(plan[p]) \in Seq(Frames) /\ Len(plan[p]) \in Nat /\ Len(plan[p]) >= 1
      /\ DOMAIN plan[p] = 1 .. Len(plan[p])
  BY <1>1
<1> HIDE DEF x, y
<1>5. <<x, y>> \o Tail(plan[p]) = s
  <2>1. <<x>> \o <<y>> = <<x, y>>
    BY Joins, Zenon
  <2>2. <<x>> \in Seq(Frames) /\ <<y>> \in Seq(Frames)
    BY <1>3
  <2>3. (<<x>> \o <<y>>) \o Tail(plan[p]) = <<x>> \o (<<y>> \o Tail(plan[p]))
    BY <2>2, <1>4, ConcatAssociative
  <2> QED BY <2>1, <2>3, Zenon
<1>6. /\ u \in Seq(Frames) /\ DOMAIN u = 1 .. Len(plan[p]) /\ Len(u) = Len(plan[p])
      /\ u[1] = y /\ \A k \in 2 .. Len(plan[p]) : u[k] = plan[p][k]
  BY <1>1, <1>3, Heads
<1>7. FrameOK(p, u, 1)
  <2>1. FrameOK(p, plan[p], 1)
    BY <1>1, <1>4 DEF Fit, PlanOK
  <2>2. 1 = Len(plan[p]) \/ (u[2] = plan[p][2] /\ 1 + 1 = 2)
    BY <1>4, <1>6
  <2> HIDE DEF u
  <2> QED BY <1>1, <1>2, <1>3, <1>6, <2>1, <2>2
          DEF FrameOK, Solo, Building, NoTab, Handing, Forking
<1>8. SizeOK(y)
  BY <1>3 DEF SizeOK
<1>9. Fit(p, u) /\ HandIn(u) = {y.g} \ {0} /\ TabIn(u) = TabIn(plan[p])
  <2>1. \A k \in 2 .. Len(plan[p]) : plan[p][k].g = 0
    BY <1>2
  <2>2. y.d = plan[p][1].d
    BY <1>1, <1>3
  <2>3. FrameOK(p, <<y>> \o Tail(plan[p]), 1)
    BY <1>7
  <2> QED BY <1>1, <1>3, <1>8, <2>1, <2>2, <2>3, HeadFits
<1> HIDE DEF u
<1>10. /\ Fit(p, s) /\ HandIn(s) = HandIn(u) /\ TabIn(s) = TabIn(u)
  <2>1. u # <<>>
    BY <1>4, <1>6
  <2> QED BY <1>3, <1>6, <1>9, <2>1, PushFits
<1>11. \A k \in DOMAIN s :
         \/ s[k].q = 0 /\ s[k].do \in {"dealloc", "freevm"}
         \/ \E j \in DOMAIN plan[p] : /\ s[k] = plan[p][j]
                                      /\ s[k].do \in {"undo", "reaped"}
  <2>1. \A k \in DOMAIN s : k = 1 \/ k = 2 \/ k - 1 \in 2 .. Len(plan[p])
    BY <1>3, <1>6
  <2>2. s[1] = x /\ s[2] = y
    BY <1>3, <1>4, <1>6
  <2>3. \A k \in DOMAIN s : k # 1 => s[k] = u[k - 1]
    BY <1>3, <1>6
  <2> HIDE DEF s
  <2>4. ASSUME NEW k \in DOMAIN s, k # 1, k # 2
        PROVE  k - 1 \in DOMAIN plan[p] /\ s[k] = plan[p][k - 1]
               /\ s[k].do \in {"undo", "reaped"}
    BY <2>1, <2>3, <2>4, <1>2, <1>4, <1>6
  <2> QED BY <2>2, <2>4, <1>3
<1> HIDE DEF s
<1>12. Sons(p, s) /\ \A k \in DOMAIN s : s[k].do # "kmap"
  <2>1. \A k \in DOMAIN plan[p] : plan[p][k].do = "reaped" => plan[p][k].q # 0
    BY DEF IInv, PlanInv, PlanOK, FrameOK
  <2> QED BY <2>1, <1>11 DEF Sons
<1>13. HandIn(s) = HandIn(plan[p]) /\ TabIn(s) = TabIn(plan[p])
  BY <1>2, <1>3, <1>9, <1>10
<1>14. plan' = [plan EXCEPT ![p] = s]
  BY <1>5 DEF x, y
<1> QED BY <1>1, <1>10, <1>12, <1>13, <1>14, PlanOnly

\* After deallocuvm(pgdir, KERNBASE, 0) the tables for users have no entries.
LEMMA EmptyTables ==
  ASSUME IInv, NEW p \in Proc, NEW d \in Tabs[p], Present(d, 0, KERNBASE) = {},
         NEW k \in 0 .. KPDX, k # KPDX, mem[d][k] # 0, NEW j \in 0 .. NPTENTRIES - 1
  PROVE  mem[mem[d][k]][j].pa = 0
<1>1. k \in 0 .. KPDX - 1
  BY Constants
<1>2. PICK v \in 0 .. NUSER - 1 : PDX(v) = k /\ PTX(v) = j
  BY <1>1, Places
<1>3. Roundup(0) = 0
  <2>1. 0 * PGSIZE = 0 /\ 0 \in Nat
    BY Constants
  <2> QED BY <2>1, Rounding
<1>4. v * PGSIZE < KERNBASE
  <2>1. v \in Nat /\ NUSER \in Nat /\ v < NUSER /\ PGSIZE \in Nat /\ PGSIZE > 0
    BY <1>2, Constants
  <2>2. \A a, b, c \in Nat : a < b /\ c > 0 => a * c < b * c
    <3>1. ASSUME NEW a \in Nat, NEW b \in Nat, NEW c \in Nat, a < b, c > 0
          PROVE  a * c < b * c
      <4>1. PICK e \in Nat : b = a + 1 + e
        <5>1. b - a - 1 \in Nat /\ b = a + 1 + (b - a - 1)
          BY <3>1
        <5> QED BY <5>1
      <4>2. b * c = a * c + c + e * c
        BY <4>1, <3>1
      <4>3. e * c \in Nat /\ a * c \in Nat
        BY <4>1, <3>1
      <4> QED BY <4>2, <4>3, <3>1
    <3> QED BY <3>1
  <2> QED BY <2>1, <2>2 DEF KERNBASE
<1>5. v \in PagesFrom(0, KERNBASE)
  BY <1>2, <1>3, <1>4 DEF PagesFrom
<1>6. Pte(d, v).pa = 0
  BY <1>5 DEF Present
<1> QED BY <1>2, <1>6, Entries

LEMMA FreevmTable ==
  ASSUME IInv, NEW p \in Proc, NEW d \in Tabs[p], NEW k \in 0 .. KPDX,
         mem[d][k] # 0, Present(d, 0, KERNBASE) = {},
         freelist' = <<mem[d][k]>> \o freelist,
         mem' = [[mem EXCEPT ![d][k] = 0] EXCEPT ![mem[d][k]] = Junk],
         UNCHANGED <<state, kstack, pgdir, sz, cr3, plan>>
  PROVE  IInv'
<1> DEFINE g == mem[d][k]  m2 == [[mem EXCEPT ![d][k] = 0] EXCEPT ![g] = Junk]
<1>1. k # KPDX => \A j \in 0 .. NPTENTRIES - 1 : mem[g][j].pa = 0
  BY EmptyTables
<1>2. CanOwn(FreeSet, mem, kstack, Tabs, Hands)
  BY DEF IInv, OwnInv
<1>3. g \in Page \ FreeSet /\ CanOwn(FreeSet \cup {g}, m2, kstack, Tabs, Hands)
  BY <1>1, <1>2, FreeTable
<1>4. /\ freelist' \in Seq(Page) /\ Distinct(freelist)'
      /\ FreeSet' = FreeSet \cup {g}
  BY <1>3, KfreeList DEF IInv, TypeOK, OwnInv
<1>5. \A r \in Proc : \A e \in Tabs[r] : e \in Page /\ e # g
  BY Apart
<1>6. DOMAIN mem = Page
  BY DEF IInv, TypeOK
<1>7. DOMAIN m2 = Page /\ \A r \in Proc : \A e \in Tabs[r] : e # d => m2[e] = mem[e]
  BY <1>5, <1>6
<1>8. ASSUME NEW r \in Proc, NEW i \in DOMAIN plan[r], plan[r][i].do = "kmap"
      PROVE  m2[plan[r][i].d] = NoDir
  <2>1. mem[plan[r][i].d] = NoDir /\ plan[r][i].d \in Tabs[r]
    BY <1>8, KmapTabs
  <2>2. plan[r][i].d # d
    BY <2>1 DEF NoDir
  <2> QED BY <2>1, <2>2, <1>7
<1>9. mem' = m2
  OBVIOUS
<1> HIDE DEF m2, g
<1>10. CanOwn(FreeSet', mem', kstack, Tabs, Hands)
  BY <1>3, <1>4, <1>9, Zenon
<1>11. DOMAIN mem' = Page
  BY <1>7, <1>9, Zenon
<1>12. \A r \in Proc : \A i \in DOMAIN plan[r] :
         plan[r][i].do = "kmap" => mem'[plan[r][i].d] = NoDir
  BY <1>8, <1>9, Zenon
<1> QED BY <1>4, <1>10, <1>11, <1>12, SamePlans

LEMMA FreevmDir ==
  ASSUME IInv, NEW p \in Proc, plan[p] # <<>>, NEW t, t = Head(plan[p]),
         t.do = "freevm", \A k \in 0 .. KPDX : mem[t.d][k] = 0,
         freelist' = <<t.d>> \o freelist, mem' = [mem EXCEPT ![t.d] = Junk],
         plan' = [plan EXCEPT ![p] = <<>> \o Tail(plan[p])],
         UNCHANGED <<state, kstack, pgdir, sz, cr3>>
  PROVE  IInv'
<1> DEFINE d == t.d  s == <<>> \o Tail(plan[p])
<1>1. /\ plan[p] \in Seq(Frames) /\ plan[p][1] = t /\ state[p] = "run"
      /\ pgdir[p] \in Page /\ Fit(p, plan[p])
  BY InCall DEF Fit, IInv, SizeInv
<1>2. /\ d \in Page /\ d # pgdir[p] /\ d \in Tabs[p]
      /\ \A k \in 2 .. Len(plan[p]) :
           /\ plan[p][k].do \in {"undo", "reaped"}
           /\ plan[p][k].d = 0 /\ plan[p][k].g = 0
      /\ Tabs[p] = {d, pgdir[p]}
      /\ HandIn(plan[p]) = {} /\ Hands[p] = {}
  BY AtFreevm
<1>3. Fit(p, s) /\ HandIn(s) = HandIn(plan[p]) \ {t.g}
  BY <1>1, TailFits
<1>4. /\ Len(plan[p]) \in Nat /\ DOMAIN s = 1 .. Len(plan[p]) - 1
      /\ \A k \in 1 .. Len(plan[p]) - 1 : s[k] = plan[p][k + 1]
  BY <1>1, Heads
<1>5. Sons(p, s)
  BY TailSons
<1>0. plan' = [plan EXCEPT ![p] = s]
  OBVIOUS
<1> HIDE DEF s
<1>6. \A k \in DOMAIN s : s[k].do \in {"undo", "reaped"} /\ s[k].d = 0
  <2>1. ASSUME NEW k \in DOMAIN s
        PROVE  k + 1 \in 2 .. Len(plan[p]) /\ s[k] = plan[p][k + 1]
    BY <1>4
  <2> QED BY <2>1, <1>2
<1>7. TabIn(s) = {} /\ HandIn(s) = {}
  BY <1>2, <1>3, <1>6 DEF TabIn
<1>8. CanOwn(FreeSet, mem, kstack, Tabs, Hands)
  BY DEF IInv, OwnInv
<1>9. /\ d \in Page \ FreeSet
      /\ CanOwn(FreeSet \cup {d}, [mem EXCEPT ![d] = Junk], kstack,
                [Tabs EXCEPT ![p] = @ \ {d}], Hands)
  <2> HIDE DEF d
  <2>1. \A k \in 0 .. KPDX : mem[d][k] = 0
    BY DEF d
  <2> QED BY <1>2, <1>8, <2>1, FreeDir
<1>10. /\ freelist' \in Seq(Page) /\ Distinct(freelist)'
       /\ FreeSet' = FreeSet \cup {d}
  BY <1>9, KfreeList DEF IInv, TypeOK, OwnInv
<1>11. /\ [Tabs EXCEPT ![p] = TabIn(s) \cup ({pgdir[p]} \ {0})] =
            [Tabs EXCEPT ![p] = @ \ {d}]
       /\ [Hands EXCEPT ![p] = HandIn(s)] = Hands
  <2>1. TabIn(s) \cup ({pgdir[p]} \ {0}) = Tabs[p] \ {d}
    BY <1>1, <1>2, <1>7, PagesAreNumbers
  <2> QED BY <2>1, <1>2, <1>7 DEF Tabs, Hands
<1>12. \A r \in Proc \ {p} : \A e \in Tabs[r] : mem'[e] = mem[e]
  <2>1. \A r \in Proc \ {p} : \A e \in Tabs[r] : e \in Page /\ e # d
    BY <1>2, Apart
  <2> QED BY <2>1 DEF IInv, TypeOK
<1>13. ProcInv'
  BY <1>0, <1>1, <1>3, <1>5, SameChildren DEF IInv, Fit
<1>14. /\ DOMAIN mem' = Page /\ sz' \in [Proc -> Size]
       /\ cr3' \in [Proc -> 0 .. NPAGES] /\ kstack' \in [Proc -> 0 .. NPAGES]
       /\ state' \in [Proc -> {"unused", "embryo", "run", "zombie", "reaped"}]
  BY DEF IInv, TypeOK
<1>15. CanOwn(FreeSet', mem', kstack',
              [Tabs EXCEPT ![p] = TabIn(s) \cup ({pgdir[p]} \ {0})],
              [Hands EXCEPT ![p] = HandIn(s)])
  BY <1>9, <1>10, <1>11
<1>16. \A k \in DOMAIN s : s[k].do = "kmap" => mem'[s[k].d] = NoDir
  BY <1>6
<1> QED BY <1>0, <1>3, <1>10, <1>12, <1>13, <1>14, <1>15, <1>16, Assemble

LEMMA KeepsFreeTables ==
  ASSUME IInv, NEW p \in Proc, FreeTables(p) PROVE IInv'
<1> DEFINE t == Head(plan[p])  d == t.d  tabs == {k \in 0 .. KPDX : mem[d][k] # 0}
           k == Least(tabs)  some == Present(d, 0, KERNBASE)
<1>1. /\ plan[p] # <<>> /\ t.do = "freevm"
      /\ UNCHANGED <<state, kstack, pgdir, sz, cr3>>
      /\ \/ /\ plan' = [plan EXCEPT ![p] = <<Dealloc(d, KERNBASE, 0), Freevm(d)>>
                                           \o Tail(plan[p])]
            /\ UNCHANGED <<freelist, mem>>
         \/ /\ some = {} /\ tabs # {} /\ plan' = plan
            /\ freelist' = <<mem[d][k]>> \o freelist
            /\ mem' = [[mem EXCEPT ![d][k] = 0] EXCEPT ![mem[d][k]] = Junk]
         \/ /\ tabs = {} /\ plan' = [plan EXCEPT ![p] = <<>> \o Tail(plan[p])]
            /\ freelist' = <<d>> \o freelist
            /\ mem' = [mem EXCEPT ![d] = Junk]
  BY DEF FreeTables, At, KfreeIn, Then, Go
<1>2. CASE /\ plan' = [plan EXCEPT ![p] = <<Dealloc(d, KERNBASE, 0), Freevm(d)>>
                                          \o Tail(plan[p])]
           /\ UNCHANGED <<freelist, mem>>
  BY <1>1, <1>2, FreevmDealloc
<1>3. CASE /\ some = {} /\ tabs # {} /\ plan' = plan
           /\ freelist' = <<mem[d][k]>> \o freelist
           /\ mem' = [[mem EXCEPT ![d][k] = 0] EXCEPT ![mem[d][k]] = Junk]
  <2>1. k \in tabs
    <3>1. tabs \in SUBSET Nat
      BY Constants
    <3> QED BY <3>1, <1>3, LeastNat
  <2>2. k \in 0 .. KPDX /\ mem[d][k] # 0
    BY <2>1
  <2>3. d \in Tabs[p]
    BY <1>1, AtFreevm
  <2> HIDE DEF k, d
  <2> QED BY <1>1, <1>3, <2>2, <2>3, FreevmTable
<1>4. CASE /\ tabs = {} /\ plan' = [plan EXCEPT ![p] = <<>> \o Tail(plan[p])]
           /\ freelist' = <<d>> \o freelist
           /\ mem' = [mem EXCEPT ![d] = Junk]
  <2>1. \A i \in 0 .. KPDX : mem[d][i] = 0
    BY <1>4
  <2> QED BY <1>1, <1>4, <2>1, FreevmDir
<1> QED BY <1>1, <1>2, <1>3, <1>4

\* A plan of one frame.
LEMMA SoloFits ==
  ASSUME NEW p \in Proc, NEW x \in Frames, SizeOK(x), x.do \in Solo,
         x.do \in Building => x.d \in Page /\ x.d # pgdir[p],
         x.do \in NoTab => x.d = 0, x.g # 0 <=> x.do = "mapcopy",
         x.q # 0 => x.do \in Forking \cup {"reaped"},
         x.do \in {"kstack", "copy", "mapcopy", "reaped"} => x.q # 0
  PROVE  /\ Fit(p, <<x>>) /\ HandIn(<<x>>) = {x.g} \ {0}
         /\ TabIn(<<x>>) = {x.d} \ {0}
         /\ DOMAIN <<x>> = {1} /\ <<x>>[1] = x
<1>1. DOMAIN <<x>> = {1} /\ <<x>>[1] = x /\ Len(<<x>>) = 1
  OBVIOUS
<1>2. FrameOK(p, <<x>>, 1)
  BY <1>1, PagesAreNumbers DEF FrameOK, Solo, Building, NoTab, Handing, Forking
<1> QED BY <1>1, <1>2, FitOne, Plans

LEMMA SoloSons ==
  ASSUME IInv, NEW p \in Proc, plan[p] # <<>>, NEW t, t = Head(plan[p]),
         NEW x, x.do # "reaped", x.q \in {0, t.q},
         (t.do \in Forking \ {"kstack"} /\ x.do # "kstack") \/ x.do \notin Forking
  PROVE  Sons(p, <<x>>)
<1>1. 1 \in DOMAIN plan[p] /\ plan[p][1] = t
  BY InCall
<1>2. DOMAIN <<x>> = {1} /\ <<x>>[1] = x
  OBVIOUS
<1> QED BY <1>1, <1>2, Zenon DEF Sons

\* A page from the free list is not a page table.
LEMMA Fresh ==
  ASSUME IInv, freelist # <<>>, freelist' = Tail(freelist)
  PROVE  /\ freelist' \in Seq(Page) /\ Distinct(freelist)'
         /\ Got \in FreeSet /\ FreeSet' = FreeSet \ {Got} /\ Got \in Page
         /\ \A r \in Proc : \A d \in Tabs[r] : d # Got /\ d \in Page
         /\ CanOwn(FreeSet, mem, kstack, Tabs, Hands)
<1>1. /\ freelist' \in Seq(Page) /\ Distinct(freelist)'
      /\ Got \in FreeSet /\ FreeSet' = FreeSet \ {Got}
  BY KallocList DEF IInv, TypeOK, OwnInv
<1>2. Got \in Page
  BY DEF Got, IInv, TypeOK
<1>3. \A r \in Proc : \A d \in Tabs[r] : d # Got /\ d \in Page
  BY <1>1, Apart
<1> QED BY <1>1, <1>2, <1>3 DEF IInv, OwnInv

LEMMA KeepsSetupDir ==
  ASSUME IInv, NEW p \in Proc, SetupDir(p) PROVE IInv'
<1> DEFINE t == Head(plan[p])  x == [t EXCEPT !.do = "kmap", !.d = Got]
           y == Undo(t.q)
<1>1. /\ plan[p] # <<>> /\ t.do = "setupkvm"
      /\ UNCHANGED <<state, kstack, pgdir, sz, cr3>>
      /\ \/ /\ freelist # <<>> /\ freelist' = Tail(freelist)
            /\ mem' = [mem EXCEPT ![Got] = NoDir]
            /\ plan' = [plan EXCEPT ![p] = <<x>> \o Tail(plan[p])]
         \/ plan' = [plan EXCEPT ![p] = <<y>>] /\ UNCHANGED <<freelist, mem>>
  BY DEF SetupDir, At, Kalloc, Then, Go
<1>2. /\ plan[p] = <<t>> /\ t \in Frames /\ SizeOK(t)
      /\ state[p] = "run" /\ pgdir[p] \in Page /\ pgdir[p] \in Tabs[p]
      /\ HandIn(plan[p]) = {t.g} \ {0} /\ TabIn(plan[p]) = {t.d} \ {0}
      /\ Tabs[p] = ({t.d} \ {0}) \cup {pgdir[p]} /\ Hands[p] = {t.g} \ {0}
      /\ t.d = 0 /\ t.g = 0 /\ t.q \in Proc \cup {0}
  BY <1>1, AtSolo DEF Solo, NoTab
<1>3. CASE /\ freelist # <<>> /\ freelist' = Tail(freelist)
           /\ mem' = [mem EXCEPT ![Got] = NoDir]
           /\ plan' = [plan EXCEPT ![p] = <<x>> \o Tail(plan[p])]
  <2>1. <<x>> \o Tail(plan[p]) = <<x>>
    <3>1. plan[p] \in Seq(Frames) /\ PlanOK(p, plan[p])
      BY DEF IInv, TypeOK, PlanInv
    <3>2. Head(plan[p]).do \in Solo
      BY <1>1 DEF Solo
    <3> QED BY <1>1, <3>1, <3>2, SoloPlan
  <2>2. /\ freelist' \in Seq(Page) /\ Distinct(freelist)'
        /\ Got \in FreeSet /\ FreeSet' = FreeSet \ {Got} /\ Got \in Page
        /\ \A r \in Proc : \A d \in Tabs[r] : d # Got /\ d \in Page
        /\ CanOwn(FreeSet, mem, kstack, Tabs, Hands)
    BY <1>3, Fresh
  <2>3. /\ x \in Frames /\ x.do = "kmap" /\ x.d = Got /\ x.g = 0 /\ x.q = t.q
        /\ x.lo = t.lo
    <3>1. Got \in 0 .. NPAGES
      BY <2>2, PagesAreNumbers, Constants
    <3> QED BY <1>2, <3>1 DEF Frames, Solo
  <2>4. plan' = [plan EXCEPT ![p] = <<x>>]
    BY <1>3, <2>1
  <2> HIDE DEF x
  <2>5. SizeOK(x)
    BY <1>1, <1>2, <2>3 DEF SizeOK
  <2>6. /\ Fit(p, <<x>>) /\ HandIn(<<x>>) = {x.g} \ {0}
        /\ TabIn(<<x>>) = {x.d} \ {0} /\ DOMAIN <<x>> = {1} /\ <<x>>[1] = x
    <3>1. x.d \in Page /\ x.d # pgdir[p]
      BY <1>2, <2>2, <2>3
    <3> QED BY <2>3, <2>5, <3>1, SoloFits DEF Solo, NoTab, Forking
  <2>7. Sons(p, <<x>>)
    BY <1>1, <2>3, SoloSons DEF Forking
  <2>8. CanOwn(FreeSet \ {Got}, mem', kstack, [Tabs EXCEPT ![p] = @ \cup {Got}], Hands)
    BY <1>3, <2>2, AllocDir
  <2>9. /\ [Tabs EXCEPT ![p] = TabIn(<<x>>) \cup ({pgdir[p]} \ {0})] =
             [Tabs EXCEPT ![p] = @ \cup {Got}]
        /\ [Hands EXCEPT ![p] = HandIn(<<x>>)] = Hands
    <3>1. TabIn(<<x>>) \cup ({pgdir[p]} \ {0}) = Tabs[p] \cup {Got}
      BY <1>2, <2>2, <2>3, <2>6, PagesAreNumbers
    <3>2. HandIn(<<x>>) = Hands[p]
      BY <1>2, <2>3, <2>6
    <3> QED BY <3>1, <3>2 DEF Tabs, Hands
  <2>10. \A r \in Proc \ {p} : \A d \in Tabs[r] : mem'[d] = mem[d]
    BY <1>3, <2>2 DEF IInv, TypeOK
  <2>11. ProcInv'
    BY <1>1, <1>2, <2>4, <2>6, <2>7, SameChildren DEF IInv, Fit
  <2>12. /\ DOMAIN mem' = Page /\ sz' \in [Proc -> Size]
         /\ cr3' \in [Proc -> 0 .. NPAGES] /\ kstack' \in [Proc -> 0 .. NPAGES]
         /\ state' \in [Proc -> {"unused", "embryo", "run", "zombie", "reaped"}]
    BY <1>1, <1>3 DEF IInv, TypeOK
  <2>13. CanOwn(FreeSet', mem', kstack',
                [Tabs EXCEPT ![p] = TabIn(<<x>>) \cup ({pgdir[p]} \ {0})],
                [Hands EXCEPT ![p] = HandIn(<<x>>)])
    BY <1>1, <2>2, <2>8, <2>9
  <2>14. \A k \in DOMAIN <<x>> : <<x>>[k].do = "kmap" => mem'[<<x>>[k].d] = NoDir
    BY <1>3, <2>2, <2>3, <2>6 DEF IInv, TypeOK
  <2> QED BY <1>1, <2>2, <2>4, <2>6, <2>10, <2>11, <2>12, <2>13, <2>14, Assemble
<1>4. CASE plan' = [plan EXCEPT ![p] = <<y>>] /\ UNCHANGED <<freelist, mem>>
  <2>1. y \in Frames /\ y.do = "undo" /\ y.d = 0 /\ y.g = 0 /\ y.q = t.q
    BY <1>2, NewFrames
  <2> HIDE DEF y
  <2>2. SizeOK(y)
    BY <2>1 DEF SizeOK
  <2>3. /\ Fit(p, <<y>>) /\ HandIn(<<y>>) = {y.g} \ {0}
        /\ TabIn(<<y>>) = {y.d} \ {0} /\ DOMAIN <<y>> = {1} /\ <<y>>[1] = y
    BY <2>1, <2>2, SoloFits DEF Solo, Building, Forking
  <2>4. Sons(p, <<y>>)
    BY <1>1, <2>1, SoloSons DEF Forking
  <2>5. HandIn(<<y>>) = HandIn(plan[p]) /\ TabIn(<<y>>) = TabIn(plan[p])
    BY <1>2, <2>1, <2>3
  <2>6. \A k \in DOMAIN <<y>> : <<y>>[k].do = "kmap" => mem[<<y>>[k].d] = NoDir
    BY <2>1, <2>3
  <2> QED BY <1>1, <1>2, <1>4, <2>3, <2>4, <2>5, <2>6, PlanOnly
<1> QED BY <1>1, <1>3, <1>4

LEMMA KeepsSetupKmap ==
  ASSUME IInv, NEW p \in Proc, SetupKmap(p) PROVE IInv'
<1> DEFINE t == Head(plan[p])  d == t.d
           x == [t EXCEPT !.do = IF t.q = 0 THEN "load" ELSE "copy"]
           m2 == [mem EXCEPT ![Got] = NoTable, ![d][KPDX] = Got]
<1>1. /\ plan[p] # <<>> /\ t.do = "kmap"
      /\ UNCHANGED <<state, kstack, pgdir, sz, cr3>>
      /\ \/ /\ freelist # <<>> /\ freelist' = Tail(freelist)
            /\ mem' = m2 /\ plan' = [plan EXCEPT ![p] = <<x>>]
         \/ /\ plan' = [plan EXCEPT ![p] = <<Freevm(t.d), Undo(t.q)>>]
            /\ UNCHANGED <<freelist, mem>>
  BY DEF SetupKmap, At, Go
<1>2. /\ plan[p] = <<t>> /\ t \in Frames /\ SizeOK(t)
      /\ state[p] = "run" /\ pgdir[p] \in Page /\ pgdir[p] \in Tabs[p]
      /\ HandIn(plan[p]) = {t.g} \ {0} /\ TabIn(plan[p]) = {t.d} \ {0}
      /\ Tabs[p] = ({t.d} \ {0}) \cup {pgdir[p]} /\ Hands[p] = {t.g} \ {0}
      /\ d \in Page /\ d # pgdir[p] /\ d \in Tabs[p] /\ t.g = 0
      /\ t.q \in Proc \cup {0}
  BY <1>1, AtSolo DEF Solo, Building
<1>3. CASE /\ freelist # <<>> /\ freelist' = Tail(freelist)
           /\ mem' = m2 /\ plan' = [plan EXCEPT ![p] = <<x>>]
  <2>1. mem[d] = NoDir
    <3>1. 1 \in DOMAIN plan[p] /\ plan[p][1] = t
      BY <1>1, InCall
    <3> QED BY <3>1, <1>1 DEF IInv, NewDir
  <2>2. /\ freelist' \in Seq(Page) /\ Distinct(freelist)'
        /\ Got \in FreeSet /\ FreeSet' = FreeSet \ {Got} /\ Got \in Page
        /\ \A r \in Proc : \A e \in Tabs[r] : e # Got /\ e \in Page
        /\ CanOwn(FreeSet, mem, kstack, Tabs, Hands)
    BY <1>3, Fresh
  <2>3. /\ x \in Frames /\ x.do \in {"load", "copy"} /\ x.d = d /\ x.g = 0
        /\ x.q = t.q /\ x.lo = t.lo /\ (x.do = "copy" <=> t.q # 0)
    BY <1>2 DEF Frames, Solo
  <2> HIDE DEF x
  <2>4. SizeOK(x)
    BY <1>1, <1>2, <2>3 DEF SizeOK
  <2>5. /\ Fit(p, <<x>>) /\ HandIn(<<x>>) = {x.g} \ {0}
        /\ TabIn(<<x>>) = {x.d} \ {0} /\ DOMAIN <<x>> = {1} /\ <<x>>[1] = x
    BY <1>2, <2>3, <2>4, SoloFits DEF Solo, NoTab, Forking
  <2>6. Sons(p, <<x>>)
    BY <1>1, <2>3, SoloSons DEF Forking
  <2>7. CanOwn(FreeSet \ {Got}, m2, kstack, Tabs, Hands)
    <3>1. mem[d][KPDX] = 0 /\ KPDX \in 0 .. KPDX
      BY <2>1, Constants DEF NoDir
    <3> HIDE DEF d
    <3> QED BY <1>2, <2>2, <3>1, AllocTable
  <2>8. /\ [Tabs EXCEPT ![p] = TabIn(<<x>>) \cup ({pgdir[p]} \ {0})] = Tabs
        /\ [Hands EXCEPT ![p] = HandIn(<<x>>)] = Hands
    <3>1. TabIn(<<x>>) \cup ({pgdir[p]} \ {0}) = Tabs[p] /\ HandIn(<<x>>) = Hands[p]
      BY <1>2, <2>3, <2>5, PagesAreNumbers
    <3> QED BY <3>1 DEF Tabs, Hands
  <2>9. \A r \in Proc \ {p} : \A e \in Tabs[r] : mem'[e] = mem[e]
    <3>1. \A r \in Proc \ {p} : \A e \in Tabs[r] : e # d
      BY <1>2, Apart
    <3> QED BY <1>3, <2>2, <3>1 DEF IInv, TypeOK
  <2>10. ProcInv'
    BY <1>1, <1>2, <1>3, <2>5, <2>6, SameChildren DEF IInv, Fit
  <2>11. /\ DOMAIN mem' = Page /\ sz' \in [Proc -> Size]
         /\ cr3' \in [Proc -> 0 .. NPAGES] /\ kstack' \in [Proc -> 0 .. NPAGES]
         /\ state' \in [Proc -> {"unused", "embryo", "run", "zombie", "reaped"}]
    BY <1>1, <1>3 DEF IInv, TypeOK
  <2>12. CanOwn(FreeSet', mem', kstack',
                [Tabs EXCEPT ![p] = TabIn(<<x>>) \cup ({pgdir[p]} \ {0})],
                [Hands EXCEPT ![p] = HandIn(<<x>>)])
    BY <1>1, <1>3, <2>2, <2>7, <2>8
  <2>13. \A k \in DOMAIN <<x>> : <<x>>[k].do = "kmap" => mem'[<<x>>[k].d] = NoDir
    BY <2>3, <2>5
  <2> QED BY <1>1, <1>3, <2>2, <2>5, <2>9, <2>10, <2>11, <2>12, <2>13, Assemble
<1>4. CASE /\ plan' = [plan EXCEPT ![p] = <<Freevm(t.d), Undo(t.q)>>]
           /\ UNCHANGED <<freelist, mem>>
  BY <1>1, <1>4, CallGivesUp
<1> QED BY <1>1, <1>3, <1>4

\* Pages move and one process has a new plan.
LEMMA Moved ==
  ASSUME IInv, NEW p \in Proc, state[p] = "run", NEW s, Fit(p, s), Sons(p, s),
         plan' = [plan EXCEPT ![p] = s], UNCHANGED <<state, kstack, pgdir, sz, cr3>>,
         freelist' \in Seq(Page), Distinct(freelist)', DOMAIN mem' = Page,
         TabIn(s) \cup {pgdir[p]} = Tabs[p],
         CanOwn(FreeSet', mem', kstack, Tabs, [Hands EXCEPT ![p] = HandIn(s)]),
         \A r \in Proc \ {p} : \A d \in Tabs[r] : mem'[d] = mem[d],
         \A k \in DOMAIN s : s[k].do # "kmap"
  PROVE  IInv'
<1>1. pgdir[p] # 0
  BY DEF IInv, ProcInv
<1>2. [Tabs EXCEPT ![p] = TabIn(s) \cup ({pgdir[p]} \ {0})] = Tabs
  BY <1>1 DEF Tabs
<1>3. ProcInv'
  BY SameChildren DEF IInv, Fit
<1>4. /\ sz' \in [Proc -> Size]
      /\ cr3' \in [Proc -> 0 .. NPAGES] /\ kstack' \in [Proc -> 0 .. NPAGES]
      /\ state' \in [Proc -> {"unused", "embryo", "run", "zombie", "reaped"}]
  BY DEF IInv, TypeOK
<1>5. CanOwn(FreeSet', mem', kstack',
             [Tabs EXCEPT ![p] = TabIn(s) \cup ({pgdir[p]} \ {0})],
             [Hands EXCEPT ![p] = HandIn(s)])
  BY <1>2
<1> QED BY <1>3, <1>4, <1>5, Assemble

LEMMA HeadSons ==
  ASSUME IInv, NEW p \in Proc, plan[p] # <<>>, NEW t, t = Head(plan[p]),
         NEW x \in Frames, x.q = t.q, x.do \notin {"kstack", "reaped"},
         t.do \in Forking \ {"kstack"} \/ x.do \notin Forking
  PROVE  Sons(p, <<x>> \o Tail(plan[p]))
<1> DEFINE u == <<x>> \o Tail(plan[p])
<1>1. plan[p] \in Seq(Frames) /\ 1 \in DOMAIN plan[p] /\ plan[p][1] = t
  BY InCall
<1>2. /\ Len(plan[p]) \in Nat /\ DOMAIN plan[p] = 1 .. Len(plan[p])
      /\ DOMAIN u = 1 .. Len(plan[p])
      /\ u[1] = x /\ \A k \in 2 .. Len(plan[p]) : u[k] = plan[p][k]
  BY <1>1, Heads
<1> HIDE DEF u
<1>3. \A k \in DOMAIN u : k # 1 => k \in DOMAIN plan[p] /\ u[k] = plan[p][k]
  BY <1>2
<1>4. \A k \in DOMAIN plan[p] : plan[p][k].do = "reaped" => plan[p][k].q # 0
  BY DEF IInv, PlanInv, PlanOK, FrameOK
<1>5. Sons(p, u)
  BY <1>1, <1>2, <1>3, <1>4, Zenon DEF Sons
<1> QED BY <1>5 DEF u

\* While a page is mapped there is no new directory in the plan.
LEMMA Mapping ==
  ASSUME IInv, NEW p \in Proc, plan[p] # <<>>, NEW t, t = Head(plan[p]),
         t.do \in {"alloc", "map", "mapcopy"}
  PROVE  /\ t.d \in Page /\ t.d \in Tabs[p] /\ t \in Frames /\ SizeOK(t)
         /\ \A k \in DOMAIN plan[p] : plan[p][k].do # "kmap"
         /\ \A k \in 2 .. Len(plan[p]) : plan[p][k].g = 0
         /\ t.do # "alloc" => t.g \in Page /\ Hands[p] = {t.g}
         /\ t.do = "alloc" => t.g = 0 /\ Hands[p] = {}
         /\ t.do = "mapcopy" => t.q # 0 /\ t.d # pgdir[p] /\ Len(plan[p]) = 1
         /\ t.do # "mapcopy" =>
              /\ t.q = 0 /\ Len(plan[p]) = 2
              /\ \/ t.d = pgdir[p] /\ plan[p][2].do = "grown"
                 \/ /\ t.d # pgdir[p] /\ plan[p][2].do \in {"loaduvm", "commit"}
                    /\ plan[p][2].d = t.d
<1>1. /\ plan[p] \in Seq(Frames) /\ PlanOK(p, plan[p]) /\ t \in Frames
      /\ plan[p][1] = t /\ FrameOK(p, plan[p], 1) /\ SizeOK(t) /\ 1 \in DOMAIN plan[p]
      /\ t.d # 0 => t.d \in Tabs[p] /\ t.d \in Page
      /\ t.g # 0 => Hands[p] = {t.g} /\ t.g \in Page
      /\ Hands[p] = HandIn(plan[p])
  BY InCall
<1>2. /\ t.do = "mapcopy" => t.q # 0 /\ t.d # pgdir[p] /\ 1 = Len(plan[p])
      /\ t.do # "mapcopy" =>
           /\ t.q = 0 /\ Len(plan[p]) = 2
           /\ \/ t.d = pgdir[p] /\ plan[p][2].do = "grown"
              \/ /\ t.d # pgdir[p] /\ plan[p][2].do \in {"loaduvm", "commit"}
                 /\ plan[p][2].d = t.d
      /\ t.d # 0 /\ (t.g # 0 <=> t.do # "alloc")
  BY <1>1 DEF FrameOK, Solo, Building, Handing, Forking
<1>3. \A k \in DOMAIN plan[p] : k = 1 \/ (k = 2 /\ t.do # "mapcopy")
  <2>1. DOMAIN plan[p] = 1 .. Len(plan[p])
    BY <1>1, Heads
  <2>2. (\A k \in 1 .. 1 : k = 1) /\ \A k \in 1 .. 2 : k = 1 \/ k = 2
    OBVIOUS
  <2> QED BY <2>1, <2>2, <1>2, Zenon
<1>4. \A k \in DOMAIN plan[p] : k # 1 =>
        plan[p][k].do \in {"grown", "loaduvm", "commit"} /\ plan[p][k].g = 0
  <2>1. \A k \in DOMAIN plan[p] : FrameOK(p, plan[p], k)
    BY <1>1 DEF PlanOK
  <2> QED BY <2>1, <1>2, <1>3 DEF FrameOK, Handing
<1>5. \A k \in 2 .. Len(plan[p]) : k \in DOMAIN plan[p] /\ k # 1
  BY <1>1, Heads
<1>6. t.do = "alloc" => Hands[p] = {}
  BY <1>1, <1>2, <1>4 DEF HandIn
<1> QED BY <1>1, <1>2, <1>4, <1>5, <1>6

LEMMA MapTable ==
  ASSUME IInv, NEW p \in Proc, plan[p] # <<>>, NEW t, t = Head(plan[p]),
         t.do \in {"map", "mapcopy"}, NEW k \in 0 .. KPDX, mem[t.d][k] = 0,
         freelist # <<>>, freelist' = Tail(freelist),
         mem' = [mem EXCEPT ![Got] = NoTable, ![t.d][k] = Got],
         UNCHANGED <<state, kstack, pgdir, sz, cr3, plan>>
  PROVE  IInv'
<1> DEFINE d == t.d  m2 == [mem EXCEPT ![Got] = NoTable, ![d][k] = Got]
<1>1. d \in Tabs[p] /\ \A i \in DOMAIN plan[p] : plan[p][i].do # "kmap"
  BY Mapping
<1>2. /\ freelist' \in Seq(Page) /\ Distinct(freelist)'
      /\ Got \in FreeSet /\ FreeSet' = FreeSet \ {Got} /\ Got \in Page
      /\ \A r \in Proc : \A e \in Tabs[r] : e # Got /\ e \in Page
      /\ CanOwn(FreeSet, mem, kstack, Tabs, Hands)
  BY Fresh
<1>3. mem[d][k] = 0 /\ mem' = m2
  OBVIOUS
<1> HIDE DEF d
<1>4. CanOwn(FreeSet \ {Got}, m2, kstack, Tabs, Hands)
  BY <1>1, <1>2, <1>3, AllocTable
<1>5. DOMAIN m2 = Page /\ \A e \in Page : e # Got /\ e # d => m2[e] = mem[e]
  BY DEF IInv, TypeOK
<1> HIDE DEF m2
<1>6. ASSUME NEW r \in Proc, NEW i \in DOMAIN plan[r], plan[r][i].do = "kmap"
      PROVE  m2[plan[r][i].d] = NoDir
  <2>1. mem[plan[r][i].d] = NoDir /\ plan[r][i].d \in Tabs[r]
    BY <1>6, KmapTabs
  <2>2. r # p
    BY <1>1, <1>6
  <2>3. plan[r][i].d # d
    BY <1>1, <2>1, <2>2, Apart
  <2> QED BY <2>1, <2>3, <1>2, <1>5
<1>7. /\ CanOwn(FreeSet', mem', kstack, Tabs, Hands) /\ DOMAIN mem' = Page
      /\ \A r \in Proc : \A i \in DOMAIN plan[r] :
           plan[r][i].do = "kmap" => mem'[plan[r][i].d] = NoDir
  <2>1. mem' = m2 /\ FreeSet' = FreeSet \ {Got}
    BY <1>2, <1>3
  <2>2. CanOwn(FreeSet', mem', kstack, Tabs, Hands)
    BY <2>1, <1>4, Zenon
  <2>3. DOMAIN mem' = Page
    BY <2>1, <1>5
  <2>4. \A r \in Proc : \A i \in DOMAIN plan[r] :
          plan[r][i].do = "kmap" => m2[plan[r][i].d] = NoDir
    BY <1>6
  <2> QED BY <2>1, <2>2, <2>3, <2>4
<1> QED BY <1>2, <1>7, SamePlans

LEMMA MapEntry ==
  ASSUME IInv, NEW p \in Proc, plan[p] # <<>>, NEW t, t = Head(plan[p]),
         t.do \in {"map", "mapcopy"}, NEW v \in 0 .. NUSER - 1,
         NEW tab, tab = mem[t.d][PDX(v)], tab # 0, Pte(t.d, v).pa = 0,
         NEW u \in BOOLEAN, NEW x \in Frames,
         x.do = (IF t.do = "map" THEN "alloc" ELSE "copy"),
         x.g = 0, x.d = t.d, x.q = t.q, x.lo = (v + 1) * PGSIZE,
         mem' = [mem EXCEPT ![tab][PTX(v)] = [pa |-> t.g, user |-> u]],
         plan' = [plan EXCEPT ![p] = <<x>> \o Tail(plan[p])],
         UNCHANGED <<freelist, state, kstack, pgdir, sz, cr3>>
  PROVE  IInv'
<1> DEFINE s == <<x>> \o Tail(plan[p])  k == PDX(v)  j == PTX(v)  d == t.d  g == t.g
           m2 == [mem EXCEPT ![mem[d][k]][j] = [pa |-> g, user |-> u]]
<1>1. /\ plan[p] \in Seq(Frames) /\ plan[p][1] = t /\ state[p] = "run"
      /\ pgdir[p] \in Page /\ Fit(p, plan[p])
      /\ Tabs[p] = TabIn(plan[p]) \cup {pgdir[p]}
  BY InCall DEF Fit, IInv, SizeInv
<1>2. /\ d \in Page /\ d \in Tabs[p]
      /\ \A i \in DOMAIN plan[p] : plan[p][i].do # "kmap"
      /\ \A i \in 2 .. Len(plan[p]) : plan[p][i].g = 0
      /\ g \in Page /\ Hands[p] = {g}
      /\ t.do = "mapcopy" => t.q # 0 /\ t.d # pgdir[p] /\ Len(plan[p]) = 1
      /\ t.do # "mapcopy" =>
           /\ t.q = 0 /\ Len(plan[p]) = 2
           /\ \/ t.d = pgdir[p] /\ plan[p][2].do = "grown"
              \/ /\ t.d # pgdir[p] /\ plan[p][2].do \in {"loaduvm", "commit"}
                 /\ plan[p][2].d = t.d
  BY Mapping
<1>3. /\ Len(plan[p]) \in Nat /\ DOMAIN plan[p] = 1 .. Len(plan[p])
      /\ s \in Seq(Frames) /\ DOMAIN s = 1 .. Len(plan[p]) /\ Len(s) = Len(plan[p])
      /\ s[1] = x /\ \A i \in 2 .. Len(plan[p]) : s[i] = plan[p][i]
  BY <1>1, Heads
<1>4. SizeOK(x)
  <2>1. v + 1 \in Nat
    BY Constants
  <2> QED BY <2>1 DEF SizeOK
<1>5. FrameOK(p, s, 1)
  <2>1. t.do = "map" => s[2] = plan[p][2]
    BY <1>2, <1>3
  <2> HIDE DEF s
  <2>2. CASE t.do = "map"
    BY <2>1, <2>2, <1>2, <1>3, PagesAreNumbers
       DEF FrameOK, Solo, Building, NoTab, Handing, Forking
  <2>3. CASE t.do = "mapcopy"
    BY <2>3, <1>2, <1>3, PagesAreNumbers
       DEF FrameOK, Solo, Building, NoTab, Handing, Forking
  <2> QED BY <2>2, <2>3
<1>6. Fit(p, s) /\ HandIn(s) = {x.g} \ {0} /\ TabIn(s) = TabIn(plan[p])
  <2>1. x.d = plan[p][1].d /\ FrameOK(p, <<x>> \o Tail(plan[p]), 1)
    BY <1>1, <1>5
  <2> QED BY <1>1, <1>2, <1>4, <2>1, HeadFits
<1>7. Sons(p, s)
  BY HeadSons DEF Forking
<1>8. mem' = m2 /\ plan' = [plan EXCEPT ![p] = s]
  OBVIOUS
<1>9. /\ k \in 0 .. KPDX - 1 /\ k \in 0 .. KPDX /\ j \in 0 .. NPTENTRIES - 1
      /\ mem[d][k] # 0 /\ mem[mem[d][k]][j].pa = 0
  BY <1>2, Entries
<1> HIDE DEF s, k, j, d, g
<1>10. CanOwn(FreeSet, mem, kstack, Tabs, Hands)
  BY DEF IInv, OwnInv
<1>11. CanOwn(FreeSet, m2, kstack, Tabs, [Hands EXCEPT ![p] = {}])
  BY <1>2, <1>9, <1>10, MapPage
<1>12. FreeSet' = FreeSet /\ freelist' \in Seq(Page) /\ Distinct(freelist)'
  BY DEF FreeSet, IInv, TypeOK, OwnInv
<1>13. DOMAIN m2 = Page /\ \A e \in Page : e # mem[d][k] => m2[e] = mem[e]
  BY DEF IInv, TypeOK
<1> HIDE DEF m2
<1>14. \A r \in Proc \ {p} : \A e \in Tabs[r] : mem'[e] = mem[e]
  <2>1. \A r \in Proc : \A e \in Tabs[r] : e \in Page /\ e # mem[d][k]
    BY <1>2, <1>9, Apart
  <2> QED BY <2>1, <1>8, <1>13
<1>15. \A i \in DOMAIN s : s[i].do # "kmap"
  <2>1. \A i \in DOMAIN s : i = 1 \/ (i \in DOMAIN plan[p] /\ s[i] = plan[p][i])
    BY <1>3
  <2> QED BY <2>1, <1>2, <1>3
<1>16. HandIn(s) = {} /\ TabIn(s) \cup {pgdir[p]} = Tabs[p]
  BY <1>1, <1>6
<1>17. /\ CanOwn(FreeSet', mem', kstack, Tabs, [Hands EXCEPT ![p] = HandIn(s)])
       /\ DOMAIN mem' = Page
  BY <1>8, <1>11, <1>12, <1>13, <1>16
<1> QED BY <1>1, <1>6, <1>7, <1>8, <1>12, <1>14, <1>15, <1>16, <1>17, Moved

LEMMA KeepsMap ==
  ASSUME IInv, NEW p \in Proc, Map(p) PROVE IInv'
<1> DEFINE t == Head(plan[p])  v == Roundup(t.lo)  tab == mem[t.d][PDX(v)]
           u == (t.do = "map" \/ Pte(pgdir[p], v).user)
           x == [t EXCEPT !.do = IF @ = "map" THEN "alloc" ELSE "copy",
                          !.g = 0, !.lo = (v + 1) * PGSIZE]
<1>1. /\ plan[p] # <<>> /\ t.do \in {"map", "mapcopy"}
      /\ UNCHANGED <<state, kstack, pgdir, sz, cr3>>
      /\ \/ /\ tab = 0 /\ freelist # <<>> /\ freelist' = Tail(freelist)
            /\ mem' = [mem EXCEPT ![Got] = NoTable, ![t.d][PDX(v)] = Got]
            /\ plan' = plan
         \/ UNCHANGED <<freelist, mem, plan>>
         \/ /\ tab # 0 /\ Pte(t.d, v).pa = 0
            /\ mem' = [mem EXCEPT ![tab][PTX(v)] = [pa |-> t.g, user |-> u]]
            /\ plan' = [plan EXCEPT ![p] = <<x>> \o Tail(plan[p])]
            /\ freelist' = freelist
  BY DEF Map, At, Then, Go
<1>2. /\ t.d \in Tabs[p] /\ t \in Frames /\ SizeOK(t)
  BY <1>1, Mapping
<1>3. v \in 0 .. NUSER - 1
  BY <1>1, <1>2 DEF SizeOK
<1> HIDE DEF v
<1>4. PDX(v) \in 0 .. KPDX /\ pgdir[p] \in Tabs[p]
  BY <1>1, <1>2, <1>3, Entries, InCall
<1>5. CASE /\ tab = 0 /\ freelist # <<>> /\ freelist' = Tail(freelist)
           /\ mem' = [mem EXCEPT ![Got] = NoTable, ![t.d][PDX(v)] = Got]
           /\ plan' = plan
  BY <1>1, <1>4, <1>5, MapTable
<1>6. CASE UNCHANGED <<freelist, mem, plan>>
  BY <1>1, <1>6, Still
<1>7. CASE /\ tab # 0 /\ Pte(t.d, v).pa = 0
           /\ mem' = [mem EXCEPT ![tab][PTX(v)] = [pa |-> t.g, user |-> u]]
           /\ plan' = [plan EXCEPT ![p] = <<x>> \o Tail(plan[p])]
           /\ freelist' = freelist
  <2>1. u \in BOOLEAN
    <3>1. Pte(pgdir[p], v).user \in BOOLEAN
      BY <1>3, <1>4, Entries
    <3> QED BY <3>1
  <2>2. (v + 1) * PGSIZE \in Nat
    <3>1. v + 1 \in Nat
      BY <1>3, Constants
    <3> QED BY <3>1, Rounding
  <2>3. /\ x \in Frames /\ x.do = (IF t.do = "map" THEN "alloc" ELSE "copy")
        /\ x.g = 0 /\ x.d = t.d /\ x.q = t.q /\ x.lo = (v + 1) * PGSIZE
    <3>1. 0 \in 0 .. NPAGES
      BY Constants
    <3> QED BY <1>2, <2>2, <3>1 DEF Frames, Solo, Front
  <2> HIDE DEF u, x, tab
  <2>4. tab = mem[t.d][PDX(v)]
    BY DEF tab
  <2>5. /\ plan[p] # <<>> /\ t.do \in {"map", "mapcopy"}
        /\ UNCHANGED <<freelist, state, kstack, pgdir, sz, cr3>>
    BY <1>1, <1>7
  <2> HIDE DEF t
  <2>6. t = Head(plan[p])
    BY DEF t
  <2> QED BY <1>3, <1>7, <2>1, <2>3, <2>4, <2>5, <2>6, MapEntry
<1> QED BY <1>1, <1>5, <1>6, <1>7

\* kalloc() of a page for the plan s.
LEMMA TakePage ==
  ASSUME IInv, NEW p \in Proc, state[p] = "run", NEW s, Fit(p, s), Sons(p, s),
         Hands[p] = {}, HandIn(s) = {Got}, TabIn(s) \cup {pgdir[p]} = Tabs[p],
         \A k \in DOMAIN s : s[k].do # "kmap",
         freelist # <<>>, freelist' = Tail(freelist),
         mem' = [mem EXCEPT ![Got] = Data], plan' = [plan EXCEPT ![p] = s],
         UNCHANGED <<state, kstack, pgdir, sz, cr3>>
  PROVE  IInv'
<1>1. /\ freelist' \in Seq(Page) /\ Distinct(freelist)'
      /\ Got \in FreeSet /\ FreeSet' = FreeSet \ {Got} /\ Got \in Page
      /\ \A r \in Proc : \A e \in Tabs[r] : e # Got /\ e \in Page
      /\ CanOwn(FreeSet, mem, kstack, Tabs, Hands)
  BY Fresh
<1>2. CanOwn(FreeSet \ {Got}, [mem EXCEPT ![Got] = Data], kstack, Tabs,
             [Hands EXCEPT ![p] = {Got}])
  BY <1>1, AllocHand
<1>3. CanOwn(FreeSet', mem', kstack, Tabs, [Hands EXCEPT ![p] = HandIn(s)])
  BY <1>1, <1>2
<1>4. DOMAIN mem' = Page /\ \A r \in Proc \ {p} : \A e \in Tabs[r] : mem'[e] = mem[e]
  BY <1>1 DEF IInv, TypeOK
<1> QED BY <1>1, <1>3, <1>4, Moved

LEMMA KeepsAllocPage ==
  ASSUME IInv, NEW p \in Proc, AllocPage(p) PROVE IInv'
<1> DEFINE t == Head(plan[p])  x == [t EXCEPT !.do = "map", !.g = Got]
           s == <<x>> \o Tail(plan[p])
<1>1. /\ plan[p] # <<>> /\ t.do = "alloc" /\ PagesFrom(t.lo, t.hi) # {}
      /\ freelist # <<>> /\ freelist' = Tail(freelist)
      /\ mem' = [mem EXCEPT ![Got] = Data] /\ plan' = [plan EXCEPT ![p] = s]
      /\ UNCHANGED <<state, kstack, pgdir, sz, cr3>>
  BY DEF AllocPage, At, Kalloc, Then, Go
<1>2. /\ plan[p] \in Seq(Frames) /\ plan[p][1] = t /\ state[p] = "run"
      /\ pgdir[p] \in Page /\ Fit(p, plan[p])
      /\ Tabs[p] = TabIn(plan[p]) \cup {pgdir[p]}
  BY <1>1, InCall DEF Fit, IInv, SizeInv
<1>3. /\ t.d \in Page /\ t \in Frames
      /\ \A i \in DOMAIN plan[p] : plan[p][i].do # "kmap"
      /\ \A i \in 2 .. Len(plan[p]) : plan[p][i].g = 0
      /\ Hands[p] = {} /\ t.q = 0 /\ Len(plan[p]) = 2
      /\ \/ t.d = pgdir[p] /\ plan[p][2].do = "grown"
         \/ /\ t.d # pgdir[p] /\ plan[p][2].do \in {"loaduvm", "commit"}
            /\ plan[p][2].d = t.d
  BY <1>1, Mapping
<1>4. Got \in Page /\ Got # 0 /\ Got \in 0 .. NPAGES
  BY <1>1, Fresh, PagesAreNumbers, Constants
<1>5. /\ x \in Frames /\ x.do = "map" /\ x.d = t.d /\ x.g = Got /\ x.q = 0
      /\ x.lo = t.lo
  BY <1>3, <1>4 DEF Frames, Front
<1>6. Roundup(t.lo) \in 0 .. NUSER - 1
  <2>1. PICK v \in 0 .. NUSER - 1 : v >= Roundup(t.lo)
    BY <1>1 DEF PagesFrom
  <2>2. t.lo \in Nat
    BY <1>3 DEF Frames
  <2>3. Roundup(t.lo) \in Nat
    BY <2>2, Rounding
  <2> QED BY <2>1, <2>3, Constants
<1> HIDE DEF x
<1>7. SizeOK(x)
  BY <1>5, <1>6 DEF SizeOK
<1>8. /\ DOMAIN plan[p] = 1 .. Len(plan[p])
      /\ s \in Seq(Frames) /\ DOMAIN s = 1 .. Len(plan[p]) /\ Len(s) = Len(plan[p])
      /\ s[1] = x /\ \A i \in 2 .. Len(plan[p]) : s[i] = plan[p][i]
  BY <1>1, <1>2, <1>5, Heads
<1>9. FrameOK(p, s, 1)
  <2>1. s[2] = plan[p][2]
    BY <1>3, <1>8
  <2> HIDE DEF s
  <2> QED BY <2>1, <1>3, <1>4, <1>5, <1>8, PagesAreNumbers
          DEF FrameOK, Solo, Building, NoTab, Handing, Forking
<1>10. Fit(p, s) /\ HandIn(s) = {x.g} \ {0} /\ TabIn(s) = TabIn(plan[p])
  <2>1. x.d = plan[p][1].d /\ FrameOK(p, <<x>> \o Tail(plan[p]), 1)
    BY <1>2, <1>5, <1>9
  <2> QED BY <1>1, <1>2, <1>3, <1>5, <1>7, <2>1, HeadFits
<1>11. Sons(p, s)
  BY <1>1, <1>3, <1>5, HeadSons DEF Forking
<1> HIDE DEF s
<1>12. \A i \in DOMAIN s : s[i].do # "kmap"
  <2>1. \A i \in DOMAIN s : i = 1 \/ (i \in DOMAIN plan[p] /\ s[i] = plan[p][i])
    BY <1>3, <1>8
  <2> QED BY <2>1, <1>3, <1>5, <1>8
<1>13. HandIn(s) = {Got} /\ TabIn(s) \cup {pgdir[p]} = Tabs[p]
  BY <1>2, <1>4, <1>5, <1>10
<1> QED BY <1>1, <1>2, <1>3, <1>10, <1>11, <1>12, <1>13, TakePage

LEMMA KeepsCopyPage ==
  ASSUME IInv, NEW p \in Proc, CopyPage(p) PROVE IInv'
<1> DEFINE t == Head(plan[p])  x == [t EXCEPT !.do = "mapcopy", !.g = Got]
<1>1. /\ plan[p] # <<>> /\ t.do = "copy" /\ t.lo < sz[p]
      /\ UNCHANGED <<state, kstack, pgdir, sz, cr3>>
      /\ \/ UNCHANGED <<freelist, mem, plan>>
         \/ /\ freelist # <<>> /\ freelist' = Tail(freelist)
            /\ mem' = [mem EXCEPT ![Got] = Data]
            /\ plan' = [plan EXCEPT ![p] = <<x>>]
  BY DEF CopyPage, At, Kalloc, Go
<1>2. /\ t \in Frames /\ SizeOK(t) /\ state[p] = "run" /\ pgdir[p] \in Page
      /\ Tabs[p] = ({t.d} \ {0}) \cup {pgdir[p]} /\ Hands[p] = {t.g} \ {0}
      /\ t.d \in Page /\ t.d # pgdir[p] /\ t.g = 0 /\ t.q \in Proc
  BY <1>1, AtSolo DEF Solo, Building
<1>3. CASE UNCHANGED <<freelist, mem, plan>>
  BY <1>1, <1>3, Still
<1>4. CASE /\ freelist # <<>> /\ freelist' = Tail(freelist)
           /\ mem' = [mem EXCEPT ![Got] = Data]
           /\ plan' = [plan EXCEPT ![p] = <<x>>]
  <2>1. Got \in Page /\ Got # 0 /\ Got \in 0 .. NPAGES
    BY <1>4, Fresh, PagesAreNumbers, Constants
  <2>2. /\ x \in Frames /\ x.do = "mapcopy" /\ x.d = t.d /\ x.g = Got
        /\ x.q = t.q /\ x.lo = t.lo
    BY <1>2, <2>1 DEF Frames, Solo
  <2> HIDE DEF x
  <2>3. SizeOK(x)
    <3>1. PICK m \in Nat : t.lo = m * PGSIZE
      BY <1>1, <1>2 DEF SizeOK
    <3>2. sz[p] \in 0 .. KERNBASE
      BY DEF IInv, TypeOK, Size
    <3>3. m * PGSIZE \in Nat /\ Roundup(m * PGSIZE) = m
      BY Rounding
    <3>4. m * PGSIZE < KERNBASE
      BY <1>1, <3>1, <3>2, <3>3, Constants
    <3>5. Roundup(x.lo) \in 0 .. NUSER - 1
      BY <2>2, <3>1, <3>3, <3>4, Rounding
    <3> QED BY <2>2, <3>1, <3>5 DEF SizeOK
  <2>4. /\ Fit(p, <<x>>) /\ HandIn(<<x>>) = {x.g} \ {0}
        /\ TabIn(<<x>>) = {x.d} \ {0} /\ DOMAIN <<x>> = {1} /\ <<x>>[1] = x
    <3>1. x.q # 0
      BY <1>2, <2>2, Constants
    <3> QED BY <1>2, <2>1, <2>2, <2>3, <3>1, SoloFits DEF Solo, NoTab, Forking
  <2>5. Sons(p, <<x>>)
    BY <1>1, <2>2, SoloSons DEF Forking
  <2>6. /\ HandIn(<<x>>) = {Got} /\ TabIn(<<x>>) \cup {pgdir[p]} = Tabs[p]
        /\ Hands[p] = {}
    BY <1>2, <2>1, <2>2, <2>4
  <2>7. \A k \in DOMAIN <<x>> : <<x>>[k].do # "kmap"
    BY <2>2, <2>4
  <2> QED BY <1>1, <1>2, <1>4, <2>4, <2>5, <2>6, <2>7, TakePage
<1> QED BY <1>1, <1>3, <1>4

-----------------------------------------------------------------------------
(* The steps that change a process                                         *)

\* No plan but that of p has the child q.
OnlyOf(p, q) == \A r \in Proc \ {p} : \A k \in DOMAIN plan[r] : plan[r][k].q # q

\* A child in a plan belongs to that plan only, and does nothing itself.
LEMMA ChildOf ==
  ASSUME IInv, NEW p \in Proc, NEW k \in DOMAIN plan[p], NEW q \in Proc,
         plan[p][k].q = q
  PROVE  /\ q # p /\ plan[q] = <<>> /\ pgdir[q] = 0 /\ Tabs[q] = {}
         /\ state[q] = IF plan[p][k].do = "reaped" THEN "reaped" ELSE "embryo"
         /\ plan[p][k].do # "reaped" => (kstack[q] = 0 <=> plan[p][k].do = "kstack")
         /\ OnlyOf(p, q)
<1>1. q # 0
  BY Constants
<1>2. plan[p][k].do \in Forking \cup {"reaped"}
  BY <1>1 DEF IInv, PlanInv, PlanOK, FrameOK
<1>3. /\ state[q] = IF plan[p][k].do = "reaped" THEN "reaped" ELSE "embryo"
      /\ plan[p][k].do # "reaped" => (kstack[q] = 0 <=> plan[p][k].do = "kstack")
  BY <1>1, <1>2 DEF IInv, ProcInv, Forking
<1>4. plan[p] # <<>>
  OBVIOUS
<1>5. q # p /\ plan[q] = <<>> /\ pgdir[q] = 0
  BY <1>3, <1>4 DEF IInv, ProcInv
<1>6. Tabs[q] = {}
  BY <1>5, Plans DEF Tabs
<1>7. OnlyOf(p, q)
  BY <1>1 DEF OnlyOf, IInv, ProcInv
<1> QED BY <1>3, <1>5, <1>6, <1>7

\* A process that is not a child in any plan.
LEMMA NoChild ==
  ASSUME IInv, NEW q \in Proc, state[q] \notin {"embryo", "reaped"}
  PROVE  \A r \in Proc : \A j \in DOMAIN plan[r] : plan[r][j].q # q
BY ChildOf

\* The child q in a plan s, in the state st and with the stack ks.
SonOf(s, q, st, ks) ==
  \A k \in DOMAIN s :
    /\ s[k].q \in {0, q}
    /\ s[k].q = q /\ s[k].do \in Forking => st = "embryo" /\ (ks = 0 <=> s[k].do = "kstack")
    /\ s[k].do = "reaped" => s[k].q = q /\ st = "reaped"

\* What becomes of a process that is not in a call.
Turns(q, st, ks, e, c) ==
  /\ state' = [state EXCEPT ![q] = st] /\ kstack' = [kstack EXCEPT ![q] = ks]
  /\ pgdir' = [pgdir EXCEPT ![q] = e] /\ cr3' = [cr3 EXCEPT ![q] = c]
  /\ st \in {"unused", "reaped"} => ks = 0
  /\ st \in {"run", "zombie"} <=> e # 0
  /\ st \in {"run", "zombie"} => ks # 0
  /\ c \in {0, e} /\ (st = "zombie" => c = 0)

\* p has the new plan s, and the process q, which is not in a call, changes.
LEMMA ChildStep ==
  ASSUME IInv, NEW p \in Proc, NEW q \in Proc, q # p, plan[q] = <<>>,
         NEW s, plan' = [plan EXCEPT ![p] = s], s # <<>> => state[p] = "run",
         NEW st, NEW ks, NEW e, NEW c, Turns(q, st, ks, e, c), OnlyOf(p, q),
         SonOf(s, q, st, ks)
  PROVE  ProcInv'
<1>1. /\ plan'[p] = s /\ \A r \in Proc \ {p} : plan'[r] = plan[r]
      /\ state'[q] = st /\ kstack'[q] = ks /\ pgdir'[q] = e /\ cr3'[q] = c
      /\ \A r \in Proc \ {q} : /\ state'[r] = state[r] /\ kstack'[r] = kstack[r]
                               /\ pgdir'[r] = pgdir[r] /\ cr3'[r] = cr3[r]
  BY DEF IInv, TypeOK, Turns
<1>2. q # 0
  BY Constants
<1>3. ASSUME NEW r \in Proc
      PROVE  /\ plan'[r] # <<>> => state'[r] = "run"
             /\ state'[r] \in {"unused", "reaped"} => kstack'[r] = 0
             /\ state'[r] \in {"run", "zombie"} <=> pgdir'[r] # 0
             /\ state'[r] \in {"run", "zombie"} => kstack'[r] # 0
             /\ cr3'[r] \in {0, pgdir'[r]} /\ (state'[r] = "zombie" => cr3'[r] = 0)
  BY <1>1 DEF IInv, ProcInv, Turns
<1>4. ASSUME NEW r \in Proc, NEW k \in DOMAIN plan'[r]
      PROVE  LET t == plan'[r][k] IN
             /\ t.q # 0 /\ t.do \in Forking => state'[t.q] = "embryo"
             /\ t.q # 0 /\ t.do \in Forking => (kstack'[t.q] = 0 <=> t.do = "kstack")
             /\ t.do = "reaped" => state'[t.q] = "reaped"
             /\ \A u \in Proc : \A j \in DOMAIN plan'[u] :
                  plan'[u][j].q # 0 /\ plan'[u][j].q = t.q => u = r
  <2>1. CASE r = p
    <3>1. \A u \in Proc : \A j \in DOMAIN plan'[u] :
            plan'[u][j].q # 0 /\ plan'[u][j].q = plan'[r][k].q => u = r
      BY <2>1, <1>1, <1>4 DEF SonOf, OnlyOf
    <3> QED BY <2>1, <3>1, <1>1, <1>2 DEF SonOf
  <2>2. CASE r # p
    <3> DEFINE t == plan[r][k]
    <3>1. plan'[r] = plan[r] /\ t.q # q
      BY <2>2, <1>1, <1>4 DEF OnlyOf
    <3>2. /\ t \in Frames /\ (t.do = "reaped" => t.q # 0)
      <4>1. plan[r] \in Seq(Frames) /\ k \in DOMAIN plan[r]
        BY <3>1, <1>4 DEF IInv, TypeOK
      <4> QED BY <4>1, <3>1 DEF IInv, PlanInv, PlanOK, FrameOK
    <3>3. t.q \in Proc \cup {0}
      BY <3>2 DEF Frames
    <3>4. /\ t.q # 0 /\ t.do \in Forking => state[t.q] = "embryo"
          /\ t.q # 0 /\ t.do \in Forking => (kstack[t.q] = 0 <=> t.do = "kstack")
          /\ t.do = "reaped" => state[t.q] = "reaped"
      BY <3>1 DEF IInv, ProcInv
    <3>5. t.q # 0 => state'[t.q] = state[t.q] /\ kstack'[t.q] = kstack[t.q]
      BY <3>1, <3>3, <1>1
    <3>6. ASSUME NEW u \in Proc, NEW j \in DOMAIN plan'[u],
                 plan'[u][j].q # 0, plan'[u][j].q = t.q
          PROVE  u = r
      <4>1. u # p
        BY <3>1, <3>6, <1>1 DEF SonOf
      <4> QED BY <4>1, <3>1, <3>6, <1>1 DEF IInv, ProcInv
    <3> QED BY <3>1, <3>2, <3>4, <3>5, <3>6
  <2> QED BY <2>1, <2>2
<1> QED BY <1>3, <1>4 DEF ProcInv

\* The pages are owned after p gets the plan s, and q the page table e.
OwnedNow(p, q, s, e) ==
  /\ pgdir' = [pgdir EXCEPT ![q] = e]
  /\ Distinct(freelist')
  /\ CanOwn(FreeSet', mem', kstack',
            [Tabs EXCEPT ![p] = TabIn(s) \cup ({pgdir[p]} \ {0}), ![q] = {e} \ {0}],
            [Hands EXCEPT ![p] = HandIn(s)])
  /\ \A r \in Proc : \A d \in Tabs[r] : mem'[d] = mem[d]

\* All of the invariant, from its parts, where such a process changes too.
LEMMA Another ==
  ASSUME IInv, NEW p \in Proc, NEW q \in Proc, q # p, plan[q] = <<>>,
         NEW s, Fit(p, s), plan' = [plan EXCEPT ![p] = s],
         NEW e, ProcInv', TypeOK', OwnedNow(p, q, s, e),
         \A k \in DOMAIN s : s[k].do # "kmap"
  PROVE  IInv'
<1>1. /\ plan'[p] = s /\ \A r \in Proc \ {p} : plan'[r] = plan[r]
      /\ pgdir'[q] = e /\ \A r \in Proc \ {q} : pgdir'[r] = pgdir[r]
      /\ plan'[q] = <<>> /\ pgdir' \in [Proc -> 0 .. NPAGES]
  BY DEF IInv, TypeOK, OwnedNow
<1>3. PlanInv'
  <2>1. ASSUME NEW r \in Proc, r # q PROVE PlanOK(r, plan[r]) /\ pgdir'[r] = pgdir[r]
    BY <2>1, <1>1 DEF IInv, PlanInv
  <2>2. PlanOK(q, plan[q])'
    BY <1>1 DEF PlanOK
  <2>3. PlanOK(p, plan[p])'
    <3>1. PlanOK(p, s) /\ pgdir'[p] = pgdir[p] /\ plan'[p] = s
      BY <1>1 DEF Fit
    <3> QED BY <3>1 DEF PlanOK, FrameOK
  <2>4. ASSUME NEW r \in Proc, r # q, r # p PROVE PlanOK(r, plan[r])'
    BY <2>1, <2>4, <1>1 DEF PlanOK, FrameOK
  <2> QED BY <2>2, <2>3, <2>4 DEF PlanInv
<1>4. SizeInv'
  <2>1. ASSUME NEW r \in Proc, NEW k \in DOMAIN plan'[r] PROVE SizeOK(plan'[r][k])
    <3>1. CASE r = p
      BY <3>1, <2>1, <1>1 DEF Fit
    <3>2. CASE r # p
      BY <3>2, <2>1, <1>1 DEF SizeInv, IInv
    <3> QED BY <3>1, <3>2
  <2> QED BY <2>1 DEF SizeInv
<1>5. Hands' = [Hands EXCEPT ![p] = HandIn(s)]
  <2>1. \A r \in Proc : HandIn(plan'[r]) = [Hands EXCEPT ![p] = HandIn(s)][r]
    BY <1>1 DEF Hands
  <2>2. Hands' = [r \in Proc |-> HandIn(plan'[r])]
    BY DEF Hands
  <2> QED BY <2>1, <2>2 DEF Hands
<1>6. Tabs' = [Tabs EXCEPT ![p] = TabIn(s) \cup ({pgdir[p]} \ {0}), ![q] = {e} \ {0}]
  <2> DEFINE tb == [Tabs EXCEPT ![p] = TabIn(s) \cup ({pgdir[p]} \ {0}),
                                ![q] = {e} \ {0}]
  <2>1. ASSUME NEW r \in Proc
        PROVE  TabIn(plan'[r]) \cup ({pgdir'[r]} \ {0}) = tb[r]
    <3>1. CASE r = p
      BY <3>1, <1>1 DEF Tabs
    <3>2. CASE r = q
      BY <3>2, <1>1, Plans DEF Tabs
    <3>3. CASE r # p /\ r # q
      BY <3>3, <1>1 DEF Tabs
    <3> QED BY <3>1, <3>2, <3>3
  <2>2. /\ Tabs' = [r \in Proc |-> TabIn(plan'[r]) \cup ({pgdir'[r]} \ {0})]
        /\ tb = [r \in Proc |-> tb[r]]
    BY DEF Tabs
  <2> QED BY <2>1, <2>2
<1>8. OwnInv'
  BY <1>5, <1>6 DEF OwnInv, OwnedNow
<1>9. NewDir'
  <2>1. ASSUME NEW r \in Proc, NEW k \in DOMAIN plan[r], plan[r][k].do = "kmap"
        PROVE  mem'[plan[r][k].d] = NoDir
    BY <2>1, KmapTabs DEF OwnedNow
  <2> QED BY <2>1, <1>1 DEF NewDir
<1> QED BY <1>3, <1>4, <1>8, <1>9 DEF IInv

LEMMA KeepsFork ==
  ASSUME IInv, NEW p \in Proc, NEW q \in Proc, Fork(p, q) PROVE IInv'
<1> DEFINE x == [Todo EXCEPT !.do = "kstack", !.q = q]
<1>1. /\ plan[p] = <<>> /\ state[p] = "run" /\ state[q] = "unused"
      /\ state' = [state EXCEPT ![q] = "embryo"]
      /\ plan' = [plan EXCEPT ![p] = <<x>>]
      /\ UNCHANGED <<freelist, mem, kstack, pgdir, sz, cr3>>
  BY DEF Fork, Call, Go
<1>2. /\ x \in Frames /\ x.do = "kstack" /\ x.d = 0 /\ x.g = 0 /\ x.q = q
      /\ x.lo = 0
  <2>1. 0 \in Size /\ 0 \in 0 .. NPAGES /\ <<>> \in Seq(Nat \X Nat)
    BY Constants DEF Size
  <2> QED BY <2>1 DEF Todo, Frames, Solo
<1> HIDE DEF x
<1>3. SizeOK(x)
  <2>1. 0 \in Nat /\ x.lo = 0 * PGSIZE
    BY <1>2, Constants
  <2> QED BY <2>1, <1>2 DEF SizeOK
<1>4. /\ Fit(p, <<x>>) /\ HandIn(<<x>>) = {x.g} \ {0}
      /\ TabIn(<<x>>) = {x.d} \ {0} /\ DOMAIN <<x>> = {1} /\ <<x>>[1] = x
  BY <1>2, <1>3, Constants, SoloFits DEF Solo, Building, Forking
<1>5. q # p /\ plan[q] = <<>> /\ kstack[q] = 0 /\ pgdir[q] = 0
  BY <1>1 DEF IInv, ProcInv
<1>6. state' \in [Proc -> {"unused", "embryo", "run", "zombie", "reaped"}]
  BY <1>1 DEF IInv, TypeOK
<1>7. OnlyOf(p, q)
  BY <1>1, NoChild DEF OnlyOf
<1>8. cr3[q] = 0
  BY <1>5 DEF IInv, ProcInv
<1>9. ProcInv'
  <2>1. SonOf(<<x>>, q, "embryo", 0)
    BY <1>2, <1>4 DEF SonOf
  <2>2. Turns(q, "embryo", 0, 0, 0)
    BY <1>1, <1>5, <1>8 DEF IInv, TypeOK, Turns
  <2> QED BY <1>1, <1>5, <1>7, <2>1, <2>2, ChildStep
<1>10. HandIn(<<x>>) = HandIn(plan[p]) /\ TabIn(<<x>>) = TabIn(plan[p])
  BY <1>1, <1>2, <1>4, Plans
<1>11. /\ [Tabs EXCEPT ![p] = TabIn(<<x>>) \cup ({pgdir[p]} \ {0})] = Tabs
       /\ [Hands EXCEPT ![p] = HandIn(<<x>>)] = Hands
  BY <1>10 DEF Tabs, Hands
<1>12. FreeSet' = FreeSet /\ Distinct(freelist)' /\ freelist' \in Seq(Page)
  BY <1>1 DEF FreeSet, IInv, OwnInv, TypeOK
<1>13. CanOwn(FreeSet', mem', kstack',
              [Tabs EXCEPT ![p] = TabIn(<<x>>) \cup ({pgdir[p]} \ {0})],
              [Hands EXCEPT ![p] = HandIn(<<x>>)])
  BY <1>1, <1>11, <1>12 DEF IInv, OwnInv
<1>14. /\ DOMAIN mem' = Page /\ sz' \in [Proc -> Size]
       /\ cr3' \in [Proc -> 0 .. NPAGES] /\ kstack' \in [Proc -> 0 .. NPAGES]
       /\ \A r \in Proc \ {p} : \A d \in Tabs[r] : mem'[d] = mem[d]
  BY <1>1 DEF IInv, TypeOK
<1>15. \A k \in DOMAIN <<x>> : <<x>>[k].do = "kmap" => mem'[<<x>>[k].d] = NoDir
  BY <1>2, <1>4
<1> QED BY <1>1, <1>4, <1>6, <1>9, <1>12, <1>13, <1>14, <1>15, Assemble

\* A process that is at a frame for the child q.
LEMMA AtChild ==
  ASSUME IInv, NEW p \in Proc, plan[p] # <<>>, NEW t, t = Head(plan[p]),
         t.do \in Solo, NEW q \in Proc, t.q = q
  PROVE  /\ q # p /\ plan[q] = <<>> /\ pgdir[q] = 0 /\ cr3[q] = 0 /\ Tabs[q] = {}
         /\ state[q] = IF t.do = "reaped" THEN "reaped" ELSE "embryo"
         /\ t.do = "kstack" \/ t.do = "reaped" <=> kstack[q] = 0
         /\ OnlyOf(p, q)
<1>1. 1 \in DOMAIN plan[p] /\ plan[p][1] = t /\ plan[p][1].q = q
  BY InCall
<1>2. /\ q # p /\ plan[q] = <<>> /\ pgdir[q] = 0 /\ Tabs[q] = {}
      /\ state[q] = IF t.do = "reaped" THEN "reaped" ELSE "embryo"
      /\ t.do # "reaped" => (kstack[q] = 0 <=> t.do = "kstack")
      /\ OnlyOf(p, q)
  <2> DEFINE k == 1
  <2>1. k \in DOMAIN plan[p] /\ plan[p][k].q = q /\ plan[p][k].do = t.do
    BY <1>1
  <2> HIDE DEF k
  <2>2. /\ q # p /\ plan[q] = <<>> /\ pgdir[q] = 0 /\ Tabs[q] = {}
        /\ state[q] = IF plan[p][k].do = "reaped" THEN "reaped" ELSE "embryo"
        /\ plan[p][k].do # "reaped" =>
             (kstack[q] = 0 <=> plan[p][k].do = "kstack")
        /\ OnlyOf(p, q)
    BY <2>1, ChildOf
  <2> QED BY <2>1, <2>2
<1>3. cr3[q] = 0 /\ (t.do = "reaped" => kstack[q] = 0)
  BY <1>2 DEF IInv, ProcInv
<1> QED BY <1>2, <1>3

\* A call ends, and so does what it did for the child q.
LEMMA EndChild ==
  ASSUME IInv, NEW p \in Proc, plan[p] # <<>>, NEW t, t = Head(plan[p]),
         t.do \in Solo \cap NoTab, NEW q \in Proc, t.q = q,
         plan' = [plan EXCEPT ![p] = <<>>], state' = [state EXCEPT ![q] = "unused"],
         kstack' = [kstack EXCEPT ![q] = 0], UNCHANGED <<pgdir, cr3>>,
         sz' \in [Proc -> Size],
         freelist' \in Seq(Page), Distinct(freelist)', DOMAIN mem' = Page,
         CanOwn(FreeSet', mem', kstack', Tabs, Hands),
         \A r \in Proc : \A d \in Tabs[r] : mem'[d] = mem[d]
  PROVE  IInv'
<1>1. /\ q # p /\ plan[q] = <<>> /\ pgdir[q] = 0 /\ cr3[q] = 0
      /\ OnlyOf(p, q)
  BY AtChild
<1>2. /\ t.d = 0 /\ t.g = 0 /\ HandIn(plan[p]) = {} /\ TabIn(plan[p]) = {}
  BY AtSolo DEF Solo, NoTab
<1>3. ProcInv'
  <2>1. SonOf(<<>>, q, "unused", 0)
    BY DEF SonOf
  <2>2. Turns(q, "unused", 0, 0, 0)
    BY <1>1 DEF IInv, TypeOK, Turns
  <2> QED BY <1>1, <2>1, <2>2, ChildStep
<1>4. Fit(p, <<>>)
  BY Plans DEF Fit
<1>5. /\ [Tabs EXCEPT ![p] = TabIn(<<>>) \cup ({pgdir[p]} \ {0})] = Tabs
      /\ [Hands EXCEPT ![p] = HandIn(<<>>)] = Hands
  BY <1>2, Plans DEF Tabs, Hands
<1>6. CanOwn(FreeSet', mem', kstack',
             [Tabs EXCEPT ![p] = TabIn(<<>>) \cup ({pgdir[p]} \ {0})],
             [Hands EXCEPT ![p] = HandIn(<<>>)])
  BY <1>5
<1>7. /\ state' \in [Proc -> {"unused", "embryo", "run", "zombie", "reaped"}]
      /\ kstack' \in [Proc -> 0 .. NPAGES] /\ cr3' \in [Proc -> 0 .. NPAGES]
  BY Constants DEF IInv, TypeOK
<1>8. \A k \in DOMAIN <<>> : <<>>[k].do = "kmap" => mem'[<<>>[k].d] = NoDir
  OBVIOUS
<1> QED BY <1>3, <1>4, <1>6, <1>7, <1>8, Assemble

\* fork() has the child's stack, and goes on to its page table.
LEMMA TakeStack ==
  ASSUME IInv, NEW p \in Proc, plan[p] # <<>>, NEW t, t = Head(plan[p]),
         t.do = "kstack", NEW q \in Proc, t.q = q, NEW x \in Frames,
         x.do = "setupkvm", x.d = 0, x.g = 0, x.q = q, x.lo = t.lo,
         freelist # <<>>, freelist' = Tail(freelist),
         mem' = [mem EXCEPT ![Got] = Data],
         kstack' = [kstack EXCEPT ![q] = Got], plan' = [plan EXCEPT ![p] = <<x>>],
         UNCHANGED <<state, pgdir, sz, cr3>>
  PROVE  IInv'
<1>1. /\ SizeOK(t) /\ state[p] = "run" /\ t.d = 0 /\ t.g = 0
      /\ HandIn(plan[p]) = {} /\ TabIn(plan[p]) = {}
  <2>1. t.do \in Solo /\ t.do \in NoTab
    BY DEF Solo, NoTab
  <2>2. /\ SizeOK(t) /\ state[p] = "run" /\ t.d = 0 /\ t.g = 0
        /\ HandIn(plan[p]) = {t.g} \ {0} /\ TabIn(plan[p]) = {t.d} \ {0}
    BY <2>1, AtSolo
  <2> QED BY <2>2
<1>2. /\ q # p /\ plan[q] = <<>> /\ pgdir[q] = 0 /\ cr3[q] = 0
      /\ state[q] = "embryo" /\ kstack[q] = 0 /\ OnlyOf(p, q)
  BY AtChild DEF Solo
<1>3. /\ freelist' \in Seq(Page) /\ Distinct(freelist)'
      /\ Got \in FreeSet /\ FreeSet' = FreeSet \ {Got} /\ Got \in Page
      /\ \A r \in Proc : \A d \in Tabs[r] : d # Got /\ d \in Page
      /\ CanOwn(FreeSet, mem, kstack, Tabs, Hands)
  BY Fresh
<1>4. Got # 0 /\ Got \in 0 .. NPAGES
  BY <1>3, PagesAreNumbers, Constants
<1>5. SizeOK(x)
  BY <1>1 DEF SizeOK
<1>6. /\ Fit(p, <<x>>) /\ HandIn(<<x>>) = {x.g} \ {0}
      /\ TabIn(<<x>>) = {x.d} \ {0} /\ DOMAIN <<x>> = {1} /\ <<x>>[1] = x
  BY <1>5, SoloFits DEF Solo, Building, Forking
<1>7. ProcInv'
  <2>1. SonOf(<<x>>, q, "embryo", Got)
    BY <1>4, <1>6 DEF SonOf
  <2>2. Turns(q, "embryo", Got, 0, 0)
    BY <1>2 DEF IInv, TypeOK, Turns
  <2> QED BY <1>1, <1>2, <2>1, <2>2, ChildStep
<1>8. CanOwn(FreeSet \ {Got}, [mem EXCEPT ![Got] = Data],
             [kstack EXCEPT ![q] = Got], Tabs, Hands)
  BY <1>2, <1>3, AllocStack
<1>9. /\ [Tabs EXCEPT ![p] = TabIn(<<x>>) \cup ({pgdir[p]} \ {0})] = Tabs
      /\ [Hands EXCEPT ![p] = HandIn(<<x>>)] = Hands
  BY <1>1, <1>6 DEF Tabs, Hands
<1>10. CanOwn(FreeSet', mem', kstack',
              [Tabs EXCEPT ![p] = TabIn(<<x>>) \cup ({pgdir[p]} \ {0})],
              [Hands EXCEPT ![p] = HandIn(<<x>>)])
  BY <1>3, <1>8, <1>9
<1>11. /\ DOMAIN mem' = Page /\ sz' \in [Proc -> Size]
       /\ state' \in [Proc -> {"unused", "embryo", "run", "zombie", "reaped"}]
       /\ cr3' \in [Proc -> 0 .. NPAGES] /\ kstack' \in [Proc -> 0 .. NPAGES]
       /\ \A r \in Proc \ {p} : \A d \in Tabs[r] : mem'[d] = mem[d]
  BY <1>3, <1>4 DEF IInv, TypeOK
<1>12. \A k \in DOMAIN <<x>> : <<x>>[k].do = "kmap" => mem'[<<x>>[k].d] = NoDir
  BY <1>6
<1> QED BY <1>3, <1>6, <1>7, <1>10, <1>11, <1>12, Assemble

LEMMA KeepsForkKstack ==
  ASSUME IInv, NEW p \in Proc, ForkKstack(p) PROVE IInv'
<1> DEFINE t == Head(plan[p])  x == [t EXCEPT !.do = "setupkvm"]  q == t.q
<1>1. /\ plan[p] # <<>> /\ t.do = "kstack" /\ UNCHANGED <<pgdir, sz, cr3>>
      /\ \/ /\ freelist # <<>> /\ freelist' = Tail(freelist)
            /\ mem' = [mem EXCEPT ![Got] = Data]
            /\ kstack' = [kstack EXCEPT ![q] = Got]
            /\ plan' = [plan EXCEPT ![p] = <<x>>] /\ state' = state
         \/ /\ state' = [state EXCEPT ![q] = "unused"]
            /\ plan' = [plan EXCEPT ![p] = <<>>]
            /\ UNCHANGED <<freelist, mem, kstack>>
  BY DEF ForkKstack, At, Kalloc, Go
<1>2. t \in Frames /\ q \in Proc /\ t.d = 0 /\ t.g = 0
  BY <1>1, AtSolo DEF Solo, NoTab
<1>3. /\ x \in Frames /\ x.do = "setupkvm" /\ x.d = 0 /\ x.g = 0 /\ x.q = q
      /\ x.lo = t.lo
  BY <1>2 DEF Frames, Solo
<1> HIDE DEF x
<1>4. CASE /\ freelist # <<>> /\ freelist' = Tail(freelist)
           /\ mem' = [mem EXCEPT ![Got] = Data]
           /\ kstack' = [kstack EXCEPT ![q] = Got]
           /\ plan' = [plan EXCEPT ![p] = <<x>>] /\ state' = state
  <2>1. t.q = q
    OBVIOUS
  <2> HIDE DEF q
  <2> QED BY <1>1, <1>2, <1>3, <1>4, <2>1, TakeStack
<1>5. CASE /\ state' = [state EXCEPT ![q] = "unused"]
           /\ plan' = [plan EXCEPT ![p] = <<>>]
           /\ UNCHANGED <<freelist, mem, kstack>>
  <2>1. kstack[q] = 0
    BY <1>1, <1>2, AtChild DEF Solo
  <2>2. t.do \in Solo \cap NoTab
    BY <1>1 DEF Solo, NoTab
  <2>3. kstack' = [kstack EXCEPT ![q] = 0]
    BY <1>5, <2>1 DEF IInv, TypeOK
  <2>4. /\ freelist' \in Seq(Page) /\ Distinct(freelist)' /\ DOMAIN mem' = Page
        /\ sz' \in [Proc -> Size] /\ FreeSet' = FreeSet
        /\ \A r \in Proc : \A d \in Tabs[r] : mem'[d] = mem[d]
    BY <1>1, <1>5 DEF IInv, TypeOK, OwnInv, FreeSet
  <2>5. CanOwn(FreeSet', mem', kstack', Tabs, Hands)
    BY <1>5, <2>4 DEF IInv, OwnInv
  <2>6. t.q = q
    OBVIOUS
  <2> HIDE DEF q
  <2> QED BY <1>1, <1>2, <1>5, <2>2, <2>3, <2>4, <2>5, <2>6, EndChild
<1> QED BY <1>1, <1>4, <1>5

LEMMA KeepsReaped ==
  ASSUME IInv, NEW p \in Proc, Reaped(p) PROVE IInv'
<1> DEFINE t == Head(plan[p])  q == t.q
<1>1. /\ plan[p] # <<>> /\ t.do = "reaped"
      /\ state' = [state EXCEPT ![q] = "unused"] /\ sz' = [sz EXCEPT ![q] = 0]
      /\ plan' = [plan EXCEPT ![p] = <<>>]
      /\ UNCHANGED <<freelist, mem, kstack, pgdir, cr3>>
  BY DEF Reaped, At, Go
<1>2. q \in Proc /\ t.q = q
  BY <1>1, AtSolo DEF Solo
<1> HIDE DEF q
<1>3. kstack[q] = 0
  BY <1>1, <1>2, AtChild DEF Solo
<1>4. t.do \in Solo \cap NoTab
  BY <1>1 DEF Solo, NoTab
<1>5. kstack' = [kstack EXCEPT ![q] = 0]
  BY <1>1, <1>3 DEF IInv, TypeOK
<1>6. /\ freelist' \in Seq(Page) /\ Distinct(freelist)' /\ DOMAIN mem' = Page
      /\ FreeSet' = FreeSet
      /\ \A r \in Proc : \A d \in Tabs[r] : mem'[d] = mem[d]
  BY <1>1 DEF IInv, TypeOK, OwnInv, FreeSet
<1>7. sz' \in [Proc -> Size]
  <2>1. 0 \in Size
    BY Constants DEF Size
  <2> QED BY <1>1, <2>1 DEF IInv, TypeOK
<1>8. CanOwn(FreeSet', mem', kstack', Tabs, Hands)
  BY <1>1, <1>6 DEF IInv, OwnInv
<1> QED BY <1>1, <1>2, <1>4, <1>5, <1>6, <1>7, <1>8, EndChild

\* kfree() of the stack of q.
LEMMA GiveStack ==
  ASSUME IInv, NEW q \in Proc, kstack[q] # 0,
         freelist' = <<kstack[q]>> \o freelist,
         mem' = [mem EXCEPT ![kstack[q]] = Junk],
         kstack' = [kstack EXCEPT ![q] = 0]
  PROVE  /\ freelist' \in Seq(Page) /\ Distinct(freelist)' /\ DOMAIN mem' = Page
         /\ CanOwn(FreeSet', mem', kstack', Tabs, Hands)
         /\ \A r \in Proc : \A d \in Tabs[r] : mem'[d] = mem[d]
<1> DEFINE g == kstack[q]
<1>1. CanOwn(FreeSet, mem, kstack, Tabs, Hands)
  BY DEF IInv, OwnInv
<1>2. /\ g \in Page \ FreeSet
      /\ CanOwn(FreeSet \cup {g}, [mem EXCEPT ![g] = Junk],
                [kstack EXCEPT ![q] = 0], Tabs, Hands)
  BY <1>1, FreeStack
<1>3. freelist' = <<g>> \o freelist /\ mem' = [mem EXCEPT ![g] = Junk]
  OBVIOUS
<1>4. \A r \in Proc : \A d \in Tabs[r] : d \in Page /\ d # g
  BY Apart
<1> HIDE DEF g
<1>5. /\ freelist' \in Seq(Page) /\ Distinct(freelist)'
      /\ FreeSet' = FreeSet \cup {g}
  BY <1>2, <1>3, KfreeList DEF IInv, TypeOK, OwnInv
<1>6. CanOwn(FreeSet', mem', kstack', Tabs, Hands)
  BY <1>2, <1>3, <1>5
<1>7. DOMAIN mem' = Page /\ \A r \in Proc : \A d \in Tabs[r] : mem'[d] = mem[d]
  BY <1>3, <1>4 DEF IInv, TypeOK
<1> QED BY <1>5, <1>6, <1>7

LEMMA KeepsUndoCall ==
  ASSUME IInv, NEW p \in Proc, UndoCall(p) PROVE IInv'
<1> DEFINE t == Head(plan[p])  q == t.q
<1>1. /\ plan[p] # <<>> /\ t.do = "undo" /\ UNCHANGED <<pgdir, sz, cr3>>
      /\ plan' = [plan EXCEPT ![p] = <<>>]
      /\ q = 0 => UNCHANGED <<freelist, mem, state, kstack>>
      /\ q # 0 => /\ freelist' = <<kstack[q]>> \o freelist
                  /\ mem' = [mem EXCEPT ![kstack[q]] = Junk]
                  /\ kstack' = [kstack EXCEPT ![q] = 0]
                  /\ state' = [state EXCEPT ![q] = "unused"]
  BY DEF UndoCall, At, Go, KfreeIn
<1>2. /\ q \in Proc \cup {0} /\ t.q = q /\ t.do \in Solo /\ t.do \in Solo \cap NoTab
      /\ t.d = 0 /\ t.g = 0 /\ state[p] = "run"
      /\ HandIn(plan[p]) = {} /\ TabIn(plan[p]) = {} /\ pgdir[p] \in Page
  <2>1. t.do \in Solo /\ t.do \in NoTab
    BY <1>1 DEF Solo, NoTab
  <2>2. /\ state[p] = "run" /\ t.d = 0 /\ t.g = 0 /\ pgdir[p] \in Page
        /\ HandIn(plan[p]) = {t.g} \ {0} /\ TabIn(plan[p]) = {t.d} \ {0}
        /\ t.q \in Proc \cup {0}
    BY <1>1, <2>1, AtSolo
  <2> QED BY <2>1, <2>2
<1> HIDE DEF q
<1>3. CASE q = 0
  <2>1. /\ Fit(p, <<>>) /\ Plain(<<>>)
        /\ HandIn(<<>>) = HandIn(plan[p]) /\ TabIn(<<>>) = TabIn(plan[p])
    BY <1>2, Plans DEF Fit, Plain
  <2> QED BY <1>1, <1>2, <1>3, <2>1, PlainPlan
<1>4. CASE q # 0
  <2>1. q \in Proc
    BY <1>2, <1>4
  <2>2. kstack[q] # 0
    BY <1>1, <1>2, <2>1, AtChild
  <2>3. /\ freelist' \in Seq(Page) /\ Distinct(freelist)' /\ DOMAIN mem' = Page
        /\ CanOwn(FreeSet', mem', kstack', Tabs, Hands)
        /\ \A r \in Proc : \A d \in Tabs[r] : mem'[d] = mem[d]
    BY <1>1, <1>4, <2>1, <2>2, GiveStack
  <2>4. sz' \in [Proc -> Size]
    BY <1>1 DEF IInv, TypeOK
  <2> QED BY <1>1, <1>2, <1>4, <2>1, <2>3, <2>4, EndChild
<1> QED BY <1>3, <1>4

\* fork() is done: the child has the page table.
LEMMA KeepsForkDone ==
  ASSUME IInv, NEW p \in Proc, ForkDone(p) PROVE IInv'
<1> DEFINE t == Head(plan[p])  q == t.q  d == t.d  ks == kstack[q]
           s == <<>>
<1>1. /\ plan[p] # <<>> /\ t.do = "copy" /\ plan' = [plan EXCEPT ![p] = s]
      /\ pgdir' = [pgdir EXCEPT ![q] = d] /\ cr3' = [cr3 EXCEPT ![q] = d]
      /\ sz' = [sz EXCEPT ![q] = sz[p]] /\ state' = [state EXCEPT ![q] = "run"]
      /\ UNCHANGED <<freelist, mem, kstack>>
  BY DEF ForkDone, At, Go
<1>2. t.do \in Solo /\ t.do \in Building
  BY <1>1 DEF Solo, Building
<1>3. /\ d \in Page /\ d # pgdir[p] /\ d \in Tabs[p] /\ q \in Proc /\ t.q = q
      /\ pgdir[p] \in Page
      /\ Hands[p] = {t.g} \ {0} /\ Tabs[p] = ({d} \ {0}) \cup {pgdir[p]}
      /\ t.g = 0
  BY <1>1, <1>2, AtSolo
<1> HIDE DEF q, d
<1>4. /\ q # p /\ plan[q] = <<>> /\ Tabs[q] = {} /\ kstack[q] # 0 /\ OnlyOf(p, q)
  BY <1>1, <1>2, <1>3, AtChild
<1>5. d # 0 /\ d \in 0 .. NPAGES /\ pgdir[p] # 0
  BY <1>3, PagesAreNumbers, Constants
<1>6. ks # 0 /\ kstack' = [kstack EXCEPT ![q] = ks]
  BY <1>1, <1>4 DEF IInv, TypeOK
<1> HIDE DEF ks
<1>7. ProcInv'
  <2>1. SonOf(s, q, "run", ks)
    BY DEF SonOf
  <2>2. Turns(q, "run", ks, d, d)
    BY <1>1, <1>5, <1>6 DEF Turns
  <2>3. s # <<>> => state[p] = "run"
    OBVIOUS
  <2> QED BY <1>1, <1>3, <1>4, <2>1, <2>2, <2>3, ChildStep
<1>8. Fit(p, s)
  BY Plans DEF Fit
<1>9. CanOwn(FreeSet, mem, kstack, [Tabs EXCEPT ![p] = @ \ {d}, ![q] = @ \cup {d}],
             Hands)
  <2>1. CanOwn(FreeSet, mem, kstack, Tabs, Hands)
    BY DEF IInv, OwnInv
  <2> QED BY <1>3, <1>4, <2>1, MoveDir
<1>10. [Tabs EXCEPT ![p] = TabIn(s) \cup ({pgdir[p]} \ {0}), ![q] = {d} \ {0}] =
         [Tabs EXCEPT ![p] = @ \ {d}, ![q] = @ \cup {d}]
  <2>1. TabIn(s) \cup ({pgdir[p]} \ {0}) = Tabs[p] \ {d}
    BY <1>3, <1>5, Plans
  <2>2. {d} \ {0} = Tabs[q] \cup {d}
    BY <1>4, <1>5
  <2> QED BY <1>4, <2>1, <2>2 DEF Tabs
<1>11. [Hands EXCEPT ![p] = HandIn(s)] = Hands
  <2>1. HandIn(s) = Hands[p]
    BY <1>3, Plans
  <2> QED BY <2>1 DEF Hands
<1>12. FreeSet' = FreeSet /\ Distinct(freelist)' /\ freelist' \in Seq(Page)
  BY <1>1 DEF FreeSet, IInv, OwnInv, TypeOK
<1>13. OwnedNow(p, q, s, d)
  BY <1>1, <1>9, <1>10, <1>11, <1>12 DEF OwnedNow
<1>14. /\ DOMAIN mem' = Page /\ sz' \in [Proc -> Size]
       /\ cr3' \in [Proc -> 0 .. NPAGES] /\ kstack' \in [Proc -> 0 .. NPAGES]
       /\ state' \in [Proc -> {"unused", "embryo", "run", "zombie", "reaped"}]
       /\ pgdir' \in [Proc -> 0 .. NPAGES]
  BY <1>1, <1>5 DEF IInv, TypeOK
<1>15. \A k \in DOMAIN s : s[k].do # "kmap"
  OBVIOUS
<1> HIDE DEF s
<1>16. TypeOK'
  BY <1>1, <1>8, <1>12, <1>14 DEF IInv, TypeOK, Fit
<1> QED BY <1>1, <1>3, <1>4, <1>7, <1>8, <1>13, <1>15, <1>16, Another

\* The plan of wait(), once it has freed the stack of q.
LEMMA WaitFits ==
  ASSUME NEW p \in Proc, NEW q \in Proc, NEW d \in Page, d # pgdir[p],
         NEW b \in Frames, b.do = "reaped", b.d = 0, b.g = 0, b.q = q, NEW s, s = <<Freevm(d), b>>
  PROVE  /\ Fit(p, s) /\ HandIn(s) = {} /\ TabIn(s) = {d}
         /\ SonOf(s, q, "reaped", 0) /\ \A k \in DOMAIN s : s[k].do # "kmap"
<1> DEFINE a == Freevm(d)
<1>1. /\ d \in 0 .. NPAGES /\ d # 0 /\ q # 0
  BY PagesAreNumbers, Constants
<1>2. /\ a \in Frames /\ a.do = "freevm" /\ a.d = d /\ a.g = 0 /\ a.q = 0
  BY <1>1, NewFrames
<1>3. b \in Frames /\ b.do = "reaped" /\ b.d = 0 /\ b.g = 0 /\ b.q = q
  OBVIOUS
<1>4. s = <<a, b>>
  OBVIOUS
<1> HIDE DEF a
<1>5. /\ DOMAIN <<a, b>> = {1, 2} /\ <<a, b>>[1] = a /\ <<a, b>>[2] = b
      /\ Len(<<a, b>>) = 2
  OBVIOUS
<1>6. SizeOK(a) /\ SizeOK(b)
  BY <1>2, <1>3 DEF SizeOK
<1>7. FrameOK(p, <<a, b>>, 1)
  BY <1>1, <1>2, <1>3, <1>5 DEF FrameOK, Solo, Building, NoTab, Handing, Forking
<1>8. FrameOK(p, <<a, b>>, 2)
  BY <1>1, <1>2, <1>3, <1>5 DEF FrameOK, Solo, Building, NoTab, Handing, Forking
<1>9. Fit(p, <<a, b>>)
  BY <1>2, <1>3, <1>6, <1>7, <1>8, FitTwo
<1>10. HandIn(<<a, b>>) = {} /\ TabIn(<<a, b>>) = {d}
  <2>1. HandIn(<<a, b>>) = {a.g, b.g} \ {0} /\ TabIn(<<a, b>>) = {a.d, b.d} \ {0}
    BY Plans
  <2> QED BY <1>1, <1>2, <1>3, <2>1
<1>11. SonOf(<<a, b>>, q, "reaped", 0)
  BY <1>2, <1>3, <1>5, <1>1 DEF SonOf, Forking
<1>12. \A k \in DOMAIN <<a, b>> : <<a, b>>[k].do # "kmap"
  BY <1>2, <1>3, <1>5
<1> QED BY <1>4, <1>9, <1>10, <1>11, <1>12

LEMMA KeepsWait ==
  ASSUME IInv, NEW p \in Proc, NEW q \in Proc, Wait(p, q) PROVE IInv'
<1> DEFINE d == pgdir[q]
           b == [Todo EXCEPT !.do = "reaped", !.q = q]  s == <<Freevm(d), b>>
<1>1. /\ state[p] = "run" /\ plan[p] = <<>> /\ state[q] = "zombie"
      /\ state' = [state EXCEPT ![q] = "reaped"]
      /\ freelist' = <<kstack[q]>> \o freelist
      /\ mem' = [mem EXCEPT ![kstack[q]] = Junk]
      /\ kstack' = [kstack EXCEPT ![q] = 0] /\ plan' = [plan EXCEPT ![p] = s]
      /\ pgdir' = [pgdir EXCEPT ![q] = 0] /\ UNCHANGED <<sz, cr3>>
  BY DEF Wait, KfreeIn, Go
<1>2. /\ q # p /\ plan[q] = <<>> /\ kstack[q] # 0 /\ d # 0 /\ cr3[q] = 0
      /\ pgdir[p] # 0
  BY <1>1 DEF IInv, ProcInv
<1>3. OnlyOf(p, q)
  BY <1>1, NoChild DEF OnlyOf
<1>4. Tabs[q] = {d} /\ Tabs[p] = {pgdir[p]} /\ Hands[p] = {}
  BY <1>1, <1>2, Plans DEF Tabs, Hands
<1>5. d \in Page /\ d # pgdir[p] /\ d \in Tabs[q]
  <2>1. d \in Tabs[q] /\ pgdir[p] \in Tabs[p]
    BY <1>4
  <2> QED BY <2>1, <1>2, Apart
<1>6. s = <<Freevm(d), b>>
  OBVIOUS
<1>6a. b \in Frames /\ b.do = "reaped" /\ b.d = 0 /\ b.g = 0 /\ b.q = q
  <2>1. 0 \in Size /\ 0 \in 0 .. NPAGES /\ <<>> \in Seq(Nat \X Nat)
    BY Constants DEF Size
  <2> QED BY <2>1 DEF Todo, Frames, Solo
<1> HIDE DEF s, d, b
<1>7. /\ Fit(p, s) /\ HandIn(s) = {} /\ TabIn(s) = {d}
      /\ SonOf(s, q, "reaped", 0) /\ \A k \in DOMAIN s : s[k].do # "kmap"
  BY <1>5, <1>6, <1>6a, WaitFits
<1>8. ProcInv'
  <2>1. cr3' = [cr3 EXCEPT ![q] = 0]
    BY <1>1, <1>2 DEF IInv, TypeOK
  <2>2. Turns(q, "reaped", 0, 0, 0)
    BY <1>1, <2>1 DEF Turns
  <2> QED BY <1>1, <1>2, <1>3, <1>7, <2>2, ChildStep
<1>9. /\ freelist' \in Seq(Page) /\ Distinct(freelist)' /\ DOMAIN mem' = Page
      /\ CanOwn(FreeSet', mem', kstack', Tabs, Hands)
      /\ \A r \in Proc : \A e \in Tabs[r] : mem'[e] = mem[e]
  BY <1>1, <1>2, GiveStack
<1>10. CanOwn(FreeSet', mem', kstack',
              [Tabs EXCEPT ![q] = @ \ {d}, ![p] = @ \cup {d}], Hands)
  BY <1>2, <1>5, <1>9, MoveDir
<1>11. [Tabs EXCEPT ![p] = TabIn(s) \cup ({pgdir[p]} \ {0}), ![q] = {0} \ {0}] =
         [Tabs EXCEPT ![q] = @ \ {d}, ![p] = @ \cup {d}]
  <2>1. TabIn(s) \cup ({pgdir[p]} \ {0}) = Tabs[p] \cup {d}
    BY <1>2, <1>4, <1>7
  <2>2. {0} \ {0} = Tabs[q] \ {d}
    BY <1>4
  <2> QED BY <1>2, <2>1, <2>2 DEF Tabs
<1>12. [Hands EXCEPT ![p] = HandIn(s)] = Hands
  <2>1. HandIn(s) = Hands[p]
    BY <1>4, <1>7
  <2> QED BY <2>1 DEF Hands
<1>13. OwnedNow(p, q, s, 0)
  BY <1>1, <1>9, <1>10, <1>11, <1>12 DEF OwnedNow
<1>14. /\ sz' \in [Proc -> Size] /\ pgdir' \in [Proc -> 0 .. NPAGES]
       /\ cr3' \in [Proc -> 0 .. NPAGES] /\ kstack' \in [Proc -> 0 .. NPAGES]
       /\ state' \in [Proc -> {"unused", "embryo", "run", "zombie", "reaped"}]
  BY <1>1, Constants DEF IInv, TypeOK
<1>15. TypeOK'
  BY <1>1, <1>7, <1>9, <1>14 DEF IInv, TypeOK, Fit
<1> QED BY <1>1, <1>2, <1>7, <1>8, <1>13, <1>15, Another

\* clearpteu(): the page tables stay as they are, and every page where it is.
LEMMA Guarded ==
  ASSUME IInv, NEW p \in Proc, NEW d \in Tabs[p], NEW v \in 0 .. NUSER - 1,
         mem' = [mem EXCEPT ![mem[d][PDX(v)]][PTX(v)].user = FALSE]
  PROVE  /\ DOMAIN mem' = Page /\ CanOwn(FreeSet, mem', kstack, Tabs, Hands)
         /\ \A r \in Proc : \A e \in Tabs[r] : mem'[e] = mem[e]
<1> DEFINE k == PDX(v)  j == PTX(v)  g == mem[d][k]
<1>1. k \in 0 .. KPDX /\ j \in 0 .. NPTENTRIES - 1
  BY Entries
<1>2. mem' = [mem EXCEPT ![mem[d][k]][j].user = FALSE]
  OBVIOUS
<1> HIDE DEF k, j
<1>3. CanOwn(FreeSet, mem', kstack, Tabs, Hands)
  <2>1. CanOwn(FreeSet, mem, kstack, Tabs, Hands)
    BY DEF IInv, OwnInv
  <2>2. CanOwn(FreeSet, [mem EXCEPT ![mem[d][k]][j].user = FALSE], kstack, Tabs, Hands)
    BY <2>1, <1>1, ClearUser
  <2> QED BY <2>2, <1>2
<1>4. \A r \in Proc : \A e \in Tabs[r] : e \in Page /\ e # g
  BY <1>1, Apart
<1>5. mem' = [mem EXCEPT ![g] = [mem[g] EXCEPT ![j] = [mem[g][j] EXCEPT !.user = FALSE]]]
  BY <1>2
<1> HIDE DEF g
<1>6. DOMAIN mem' = Page /\ \A r \in Proc : \A e \in Tabs[r] : mem'[e] = mem[e]
  BY <1>4, <1>5 DEF IInv, TypeOK
<1> QED BY <1>3, <1>6

\* exec() has the new page table d, and is to free the old one.
LEMMA Switched ==
  ASSUME IInv, NEW p \in Proc, state[p] = "run", NEW d \in Page, NEW o \in Page,
         d # o, o = pgdir[p], Tabs[p] = {d, o}, Hands[p] = {},
         NEW n \in Size, pgdir' = [pgdir EXCEPT ![p] = d],
         cr3' = [cr3 EXCEPT ![p] = d], sz' = [sz EXCEPT ![p] = n],
         plan' = [plan EXCEPT ![p] = <<Freevm(o)>>],
         DOMAIN mem' = Page, CanOwn(FreeSet, mem', kstack, Tabs, Hands),
         \A r \in Proc : \A e \in Tabs[r] : mem'[e] = mem[e],
         UNCHANGED <<freelist, state, kstack>>
  PROVE  IInv'
<1> DEFINE x == Freevm(o)  s == <<x>>
<1>0. d # 0 /\ o # 0 /\ d \in 0 .. NPAGES /\ o \in 0 .. NPAGES
  BY PagesAreNumbers, Constants
<1>1. x \in Frames /\ x.do = "freevm" /\ x.d = o /\ x.g = 0 /\ x.q = 0
  BY <1>0, NewFrames
<1>2. plan' = [plan EXCEPT ![p] = s]
  OBVIOUS
<1> HIDE DEF x
<1>3. /\ s \in Seq(Frames) /\ DOMAIN s = {1} /\ s[1] = x /\ Len(s) = 1
      /\ HandIn(s) = {x.g} \ {0} /\ TabIn(s) = {x.d} \ {0}
  BY <1>1, Plans
<1> HIDE DEF s
<1>4. /\ plan'[p] = s /\ pgdir'[p] = d /\ cr3'[p] = d
      /\ \A r \in Proc \ {p} : /\ plan'[r] = plan[r] /\ pgdir'[r] = pgdir[r]
                               /\ cr3'[r] = cr3[r]
  BY <1>2 DEF IInv, TypeOK
<1>5. TypeOK'
  BY <1>0, <1>2, <1>3 DEF IInv, TypeOK
<1>6. PlanInv'
  <2>1. FrameOK(p, plan[p], 1)'
    <3>1. plan'[p][1] = x /\ Len(plan'[p]) = 1 /\ pgdir'[p] = d
      BY <1>3, <1>4
    <3> QED BY <3>1, <1>0, <1>1
            DEF FrameOK, Solo, Building, NoTab, Handing, Forking
  <2>2. PlanOK(p, plan[p])'
    BY <2>1, <1>3, <1>4 DEF PlanOK
  <2>3. ASSUME NEW r \in Proc, r # p PROVE PlanOK(r, plan[r])'
    <3>1. PlanOK(r, plan[r]) /\ plan'[r] = plan[r] /\ pgdir'[r] = pgdir[r]
      BY <2>3, <1>4 DEF IInv, PlanInv
    <3> QED BY <3>1 DEF PlanOK, FrameOK
  <2> QED BY <2>2, <2>3 DEF PlanInv
<1>7. SizeInv'
  <2>1. ASSUME NEW r \in Proc, NEW k \in DOMAIN plan'[r] PROVE SizeOK(plan'[r][k])
    <3>1. CASE r = p
      <4>1. plan'[r][k] = x
        BY <3>1, <2>1, <1>3, <1>4
      <4> QED BY <4>1, <1>1 DEF SizeOK
    <3>2. CASE r # p
      BY <3>2, <2>1, <1>4 DEF SizeInv, IInv
    <3> QED BY <3>1, <3>2
  <2> QED BY <2>1 DEF SizeInv
<1>8. ProcInv'
  <2>1. ASSUME NEW r \in Proc
        PROVE  /\ plan'[r] # <<>> => state'[r] = "run"
               /\ state'[r] \in {"unused", "reaped"} => kstack'[r] = 0
               /\ state'[r] \in {"run", "zombie"} <=> pgdir'[r] # 0
               /\ state'[r] \in {"run", "zombie"} => kstack'[r] # 0
               /\ cr3'[r] \in {0, pgdir'[r]} /\ (state'[r] = "zombie" => cr3'[r] = 0)
    BY <1>0, <1>4 DEF IInv, ProcInv
  <2>2. ASSUME NEW r \in Proc, NEW k \in DOMAIN plan'[r]
        PROVE  LET t == plan'[r][k] IN
               /\ t.q # 0 /\ t.do \in Forking => state'[t.q] = "embryo"
               /\ t.q # 0 /\ t.do \in Forking => (kstack'[t.q] = 0 <=> t.do = "kstack")
               /\ t.do = "reaped" => state'[t.q] = "reaped"
               /\ \A u \in Proc : \A j \in DOMAIN plan'[u] :
                    plan'[u][j].q # 0 /\ plan'[u][j].q = t.q => u = r
    <3>1. CASE r = p
      BY <3>1, <2>2, <1>1, <1>3, <1>4
    <3>2. CASE r # p
      BY <3>2, <2>2, <1>1, <1>3, <1>4 DEF IInv, ProcInv
    <3> QED BY <3>1, <3>2
  <2> QED BY <2>1, <2>2 DEF ProcInv
<1>9. Hands' = Hands
  <2>1. \A r \in Proc : HandIn(plan'[r]) = HandIn(plan[r])
    BY <1>1, <1>3, <1>4 DEF Hands
  <2> QED BY <2>1 DEF Hands
<1>10. Tabs' = Tabs
  <2>1. ASSUME NEW r \in Proc
        PROVE  TabIn(plan'[r]) \cup ({pgdir'[r]} \ {0}) = Tabs[r]
    <3>1. CASE r = p
      BY <3>1, <1>0, <1>1, <1>3, <1>4
    <3>2. CASE r # p
      BY <3>2, <1>4 DEF Tabs
    <3> QED BY <3>1, <3>2
  <2>2. /\ Tabs' = [r \in Proc |-> TabIn(plan'[r]) \cup ({pgdir'[r]} \ {0})]
        /\ Tabs = [r \in Proc |-> Tabs[r]]
    BY DEF Tabs
  <2> QED BY <2>1, <2>2
<1>11. OwnInv'
  <2>1. FreeSet' = FreeSet
    BY DEF FreeSet
  <2> QED BY <2>1, <1>9, <1>10 DEF IInv, OwnInv
<1>12. NewDir'
  <2>1. ASSUME NEW r \in Proc, NEW k \in DOMAIN plan[r], plan[r][k].do = "kmap"
        PROVE  mem'[plan[r][k].d] = NoDir
    BY <2>1, KmapTabs
  <2> QED BY <2>1, <1>1, <1>3, <1>4 DEF NewDir
<1> QED BY <1>5, <1>6, <1>7, <1>8, <1>11, <1>12 DEF IInv

LEMMA KeepsExecCommit ==
  ASSUME IInv, NEW p \in Proc, NEW n \in ArgSizes, ExecCommit(p, n) PROVE IInv'
<1> DEFINE t == Head(plan[p])  d == t.d  o == pgdir[p]
           v == (t.hi \div PGSIZE) - 2
<1>1. /\ plan[p] # <<>> /\ t.do = "commit"
      /\ mem' = [mem EXCEPT ![mem[d][PDX(v)]][PTX(v)].user = FALSE]
      /\ \/ /\ pgdir' = [pgdir EXCEPT ![p] = d] /\ sz' = [sz EXCEPT ![p] = t.hi]
            /\ cr3' = [cr3 EXCEPT ![p] = d]
            /\ plan' = [plan EXCEPT ![p] = <<Freevm(o)>>]
         \/ /\ plan' = [plan EXCEPT ![p] = <<Freevm(d)>>]
            /\ UNCHANGED <<pgdir, sz, cr3>>
      /\ UNCHANGED <<freelist, state, kstack>>
  BY DEF ExecCommit, At, Go, Switchuvm
<1>2. t.do \in Solo /\ t.do \in Building
  BY <1>1 DEF Solo, Building
<1>3. /\ t \in Frames /\ SizeOK(t) /\ state[p] = "run" /\ o \in Page
      /\ Hands[p] = {t.g} \ {0} /\ Tabs[p] = ({d} \ {0}) \cup {o}
      /\ d \in Page /\ d # o /\ d \in Tabs[p] /\ t.g = 0
  BY <1>1, <1>2, AtSolo
<1>4. Hands[p] = {} /\ Tabs[p] = {d, o} /\ t.hi \in Size
  BY <1>3, PagesAreNumbers DEF Frames
<1>5. v \in 0 .. NUSER - 1
  <2>1. PICK m \in 0 .. NUSER - 1 : t.hi = (m + 2) * PGSIZE
    BY <1>1, <1>3 DEF SizeOK
  <2>2. m + 2 \in Nat
    BY <2>1, Constants
  <2>3. ((m + 2) * PGSIZE) \div PGSIZE = m + 2
    BY <2>2, Rounding
  <2>4. v = m
    BY <2>1, <2>3
  <2> QED BY <2>4
<1> HIDE DEF d, o, v
<1>6. /\ DOMAIN mem' = Page /\ CanOwn(FreeSet, mem', kstack, Tabs, Hands)
      /\ \A r \in Proc : \A e \in Tabs[r] : mem'[e] = mem[e]
  BY <1>1, <1>3, <1>5, Guarded
<1>7. CASE /\ pgdir' = [pgdir EXCEPT ![p] = d] /\ sz' = [sz EXCEPT ![p] = t.hi]
           /\ cr3' = [cr3 EXCEPT ![p] = d]
           /\ plan' = [plan EXCEPT ![p] = <<Freevm(o)>>]
  <2>1. o = pgdir[p]
    BY DEF o
  <2> QED BY <1>1, <1>3, <1>4, <1>6, <1>7, <2>1, Switched
<1>8. CASE /\ plan' = [plan EXCEPT ![p] = <<Freevm(d)>>]
           /\ UNCHANGED <<pgdir, sz, cr3>>
  <2> DEFINE s == <<Freevm(d)>>
  <2>0. d # pgdir[p] /\ Tabs[p] = {d, pgdir[p]}
    BY <1>3, <1>4 DEF o
  <2>1. Fit(p, s) /\ HandIn(s) = {} /\ TabIn(s) = {d} /\ Plain(s)
    BY <1>3, <2>0, GiveUp
  <2>2. plan' = [plan EXCEPT ![p] = s]
    BY <1>8
  <2> HIDE DEF s
  <2>3. Sons(p, s) /\ \A k \in DOMAIN s : s[k].do # "kmap"
    BY <2>1, NoSons
  <2>4. [Hands EXCEPT ![p] = HandIn(s)] = Hands
    BY <2>1, <1>4 DEF Hands
  <2>5. /\ FreeSet' = FreeSet /\ freelist' \in Seq(Page) /\ Distinct(freelist)'
    BY <1>1 DEF FreeSet, IInv, TypeOK, OwnInv
  <2>6. CanOwn(FreeSet', mem', kstack, Tabs, [Hands EXCEPT ![p] = HandIn(s)])
    BY <1>6, <2>4, <2>5
  <2>7. TabIn(s) \cup {pgdir[p]} = Tabs[p]
    BY <2>0, <2>1
  <2> QED BY <1>1, <1>3, <1>6, <1>8, <2>1, <2>2, <2>3, <2>5, <2>6, <2>7, Moved
<1> QED BY <1>1, <1>7, <1>8

\* sbrk() and exit() change nothing that is in memory.
LEMMA Settled ==
  ASSUME IInv, NEW p \in Proc, plan' = [plan EXCEPT ![p] = <<>>],
         HandIn(plan[p]) = {}, TabIn(plan[p]) = {},
         UNCHANGED <<freelist, mem, kstack, pgdir>>, ProcInv',
         sz' \in [Proc -> Size], cr3' \in [Proc -> 0 .. NPAGES],
         state' \in [Proc -> {"unused", "embryo", "run", "zombie", "reaped"}]
  PROVE  IInv'
<1> DEFINE s == <<>>
<1>1. /\ Fit(p, s) /\ HandIn(s) = HandIn(plan[p]) /\ TabIn(s) = TabIn(plan[p])
  BY Plans DEF Fit
<1>2. \A k \in DOMAIN s : s[k].do = "kmap" => mem'[s[k].d] = NoDir
  OBVIOUS
<1>3. plan' = [plan EXCEPT ![p] = s]
  OBVIOUS
<1> HIDE DEF s
<1>4. /\ [Tabs EXCEPT ![p] = TabIn(s) \cup ({pgdir[p]} \ {0})] = Tabs
      /\ [Hands EXCEPT ![p] = HandIn(s)] = Hands
  BY <1>1 DEF Tabs, Hands
<1>5. /\ FreeSet' = FreeSet /\ freelist' \in Seq(Page) /\ Distinct(freelist)'
      /\ DOMAIN mem' = Page /\ kstack' \in [Proc -> 0 .. NPAGES]
      /\ \A r \in Proc \ {p} : \A d \in Tabs[r] : mem'[d] = mem[d]
  BY DEF FreeSet, IInv, TypeOK, OwnInv
<1>6. CanOwn(FreeSet', mem', kstack',
             [Tabs EXCEPT ![p] = TabIn(s) \cup ({pgdir[p]} \ {0})],
             [Hands EXCEPT ![p] = HandIn(s)])
  BY <1>4, <1>5 DEF IInv, OwnInv
<1> QED BY <1>1, <1>2, <1>3, <1>5, <1>6, Assemble

LEMMA KeepsSetSize ==
  ASSUME IInv, NEW p \in Proc, SetSize(p) PROVE IInv'
<1> DEFINE t == Head(plan[p])
<1>1. /\ plan[p] # <<>> /\ t.do = "grown" /\ plan' = [plan EXCEPT ![p] = <<>>]
      /\ \/ UNCHANGED <<sz, cr3>>
         \/ sz' = [sz EXCEPT ![p] = t.hi] /\ cr3' = [cr3 EXCEPT ![p] = pgdir[p]]
      /\ UNCHANGED <<freelist, mem, state, kstack, pgdir>>
  BY DEF SetSize, At, Go, Switchuvm
<1>2. t.do \in Solo /\ t.do \in NoTab
  BY <1>1 DEF Solo, NoTab
<1>3. /\ t \in Frames /\ state[p] = "run" /\ t.d = 0 /\ t.g = 0
      /\ HandIn(plan[p]) = {t.g} \ {0} /\ TabIn(plan[p]) = {t.d} \ {0}
  BY <1>1, <1>2, AtSolo
<1>4. /\ sz' \in [Proc -> Size] /\ cr3' \in [Proc -> 0 .. NPAGES]
      /\ state' \in [Proc -> {"unused", "embryo", "run", "zombie", "reaped"}]
  <2>1. t.hi \in Size /\ pgdir[p] \in 0 .. NPAGES
    BY <1>3 DEF Frames, IInv, TypeOK
  <2> QED BY <1>1, <2>1 DEF IInv, TypeOK
<1>5. /\ \A r \in Proc : cr3'[r] = cr3[r] \/ (r = p /\ cr3'[r] = pgdir[r])
      /\ plan'[p] = <<>> /\ \A r \in Proc \ {p} : plan'[r] = plan[r]
  BY <1>1 DEF IInv, TypeOK
<1>6. ProcInv'
  BY <1>1, <1>3, <1>5 DEF IInv, ProcInv
<1> QED BY <1>1, <1>3, <1>4, <1>6, Settled

LEMMA KeepsExit ==
  ASSUME IInv, NEW p \in Proc, Exit(p) PROVE IInv'
<1>1. /\ state[p] = "run" /\ plan[p] = <<>> /\ plan' = plan
      /\ state' = [state EXCEPT ![p] = "zombie"] /\ cr3' = [cr3 EXCEPT ![p] = 0]
      /\ UNCHANGED <<freelist, mem, kstack, pgdir, sz>>
  BY DEF Exit
<1>2. /\ HandIn(plan[p]) = {} /\ TabIn(plan[p]) = {}
      /\ plan' = [plan EXCEPT ![p] = <<>>]
  BY <1>1, Plans DEF IInv, TypeOK
<1>3. /\ sz' \in [Proc -> Size] /\ cr3' \in [Proc -> 0 .. NPAGES]
      /\ state' \in [Proc -> {"unused", "embryo", "run", "zombie", "reaped"}]
  BY <1>1, Constants DEF IInv, TypeOK
<1>4. \A r \in Proc : \A k \in DOMAIN plan[r] : plan[r][k].q # p
  BY <1>1, NoChild
<1>5. /\ state'[p] = "zombie" /\ cr3'[p] = 0
      /\ \A r \in Proc \ {p} : state'[r] = state[r] /\ cr3'[r] = cr3[r]
  BY <1>1 DEF IInv, TypeOK
<1>6. ProcInv'
  <2>1. ASSUME NEW r \in Proc
        PROVE  /\ plan'[r] # <<>> => state'[r] = "run"
               /\ state'[r] \in {"unused", "reaped"} => kstack'[r] = 0
               /\ state'[r] \in {"run", "zombie"} <=> pgdir'[r] # 0
               /\ state'[r] \in {"run", "zombie"} => kstack'[r] # 0
               /\ cr3'[r] \in {0, pgdir'[r]} /\ (state'[r] = "zombie" => cr3'[r] = 0)
    BY <1>1, <1>5 DEF IInv, ProcInv
  <2>2. ASSUME NEW r \in Proc, NEW k \in DOMAIN plan[r]
        PROVE  LET t == plan[r][k] IN
               /\ t.q # 0 /\ t.do \in Forking => state'[t.q] = "embryo"
               /\ t.q # 0 /\ t.do \in Forking => (kstack'[t.q] = 0 <=> t.do = "kstack")
               /\ t.do = "reaped" => state'[t.q] = "reaped"
               /\ \A u \in Proc : \A j \in DOMAIN plan'[u] :
                    plan'[u][j].q # 0 /\ plan'[u][j].q = t.q => u = r
    <3> DEFINE t == plan[r][k]
    <3>1. t \in Frames /\ (t.do = "reaped" => t.q # 0)
      <4>1. plan[r] \in Seq(Frames)
        BY DEF IInv, TypeOK
      <4> QED BY <4>1, <2>2 DEF IInv, PlanInv, PlanOK, FrameOK
    <3>2. t.q \in Proc \cup {0} /\ t.q # p
      BY <3>1, <1>4, <2>2 DEF Frames
    <3>3. t.q # 0 => state'[t.q] = state[t.q]
      BY <3>2, <1>5
    <3>4. /\ t.q # 0 /\ t.do \in Forking => state[t.q] = "embryo"
          /\ t.q # 0 /\ t.do \in Forking => (kstack[t.q] = 0 <=> t.do = "kstack")
          /\ t.do = "reaped" => state[t.q] = "reaped"
          /\ \A u \in Proc : \A j \in DOMAIN plan[u] :
               plan[u][j].q # 0 /\ plan[u][j].q = t.q => u = r
      BY <2>2 DEF IInv, ProcInv
    <3> QED BY <3>1, <3>3, <3>4, <1>1
  <2> QED BY <2>1, <2>2, <1>1 DEF ProcInv
<1> QED BY <1>1, <1>2, <1>3, <1>6, Settled

-----------------------------------------------------------------------------
(* The theorems                                                            *)

\* userinit() has one page table, with the kernel's table and one user page.
LEMMA InitPages == ASSUME Init PROVE OwnInv
<1> DEFINE N == NPAGES
           kind == [g \in Page |->
             CASE g = N -> "stack" [] g = N - 1 -> "dir"
               [] g = N - 2 \/ g = N - 4 -> "table" [] g = N - 3 -> "user"
               [] OTHER -> "free"]
           up == [g \in Page |->
             IF g = N \/ g = N - 1 THEN InitProc
             ELSE IF g = N - 2 \/ g = N - 4 THEN N - 1 ELSE N - 4]
           ix == [g \in Page |-> IF g = N - 2 THEN KPDX ELSE 0]
<1>1. /\ N \in Nat /\ N >= 5 /\ Page = 1 .. N /\ KPDX \in Nat /\ KPDX > 0
      /\ NPTENTRIES \in Nat /\ NPTENTRIES > 0 /\ InitProc \in Proc /\ 0 \notin Proc
      /\ N \in Page /\ N - 1 \in Page /\ N - 2 \in Page /\ N - 3 \in Page
      /\ N - 4 \in Page
  BY Constants, PagesAreNumbers
<1>2. /\ kind[N] = "stack" /\ kind[N - 1] = "dir" /\ kind[N - 2] = "table"
      /\ kind[N - 3] = "user" /\ kind[N - 4] = "table"
      /\ \A g \in 1 .. N - 5 : kind[g] = "free"
      /\ kind \in [Page -> Kinds]
  <2>1. \A g \in 1 .. N - 5 : g \in Page
    BY <1>1
  <2>2. \A g \in Page : kind[g] \in Kinds
    BY DEF Kinds
  <2> QED BY <1>1, <2>1, <2>2
<1>3. /\ up[N] = InitProc /\ up[N - 1] = InitProc /\ up[N - 2] = N - 1
      /\ up[N - 3] = N - 4 /\ up[N - 4] = N - 1
      /\ ix[N - 2] = KPDX /\ ix[N - 3] = 0 /\ ix[N - 4] = 0
      /\ DOMAIN up = Page /\ DOMAIN ix = Page
  BY <1>1
<1> HIDE DEF kind, up, ix
<1>4. \A g \in Page :
        g \in 1 .. N - 5 \/ g = N \/ g = N - 1 \/ g = N - 2 \/ g = N - 3 \/ g = N - 4
  BY <1>1
<1>5. FreeSet = 1 .. N - 5 /\ Distinct(freelist)
  <2>1. freelist = [k \in 1 .. N - 5 |-> N - 4 - k]
    BY DEF Init
  <2>2. \A g \in 1 .. N - 5 : N - 4 - g \in 1 .. N - 5 /\ freelist[N - 4 - g] = g
    BY <2>1, <1>1
  <2>3. \A k \in 1 .. N - 5 : freelist[k] = N - 4 - k /\ N - 4 - k \in 1 .. N - 5
    BY <2>1, <1>1
  <2>4. DOMAIN freelist = 1 .. N - 5
    BY <2>1
  <2>5. FreeSet = 1 .. N - 5
    BY <2>2, <2>3, <2>4 DEF FreeSet
  <2>6. Distinct(freelist)
    BY <2>3, <2>4, <1>1 DEF Distinct
  <2> QED BY <2>5, <2>6
<1>6. /\ \A p \in Proc : kstack[p] = IF p = InitProc THEN N ELSE 0
      /\ \A p \in Proc : Tabs[p] = IF p = InitProc THEN {N - 1} ELSE {}
      /\ \A p \in Proc : Hands[p] = {}
      /\ DOMAIN kstack = Proc /\ DOMAIN Tabs = Proc /\ DOMAIN Hands = Proc
  <2>1. \A p \in Proc : /\ plan[p] = <<>>
                        /\ pgdir[p] = IF p = InitProc THEN N - 1 ELSE 0
    BY DEF Init
  <2>2. N - 1 # 0
    BY <1>1
  <2> QED BY <2>1, <2>2, Plans DEF Init, Tabs, Hands
<1>7. Pointed(FreeSet, kstack, Tabs, Hands, kind, up)
  <2>1. FreeSet \subseteq Page /\ \A g \in FreeSet : kind[g] = "free"
    BY <1>1, <1>2, <1>5
  <2>2. \A p \in Proc : kstack[p] # 0 =>
          kstack[p] \in Page /\ kind[kstack[p]] = "stack" /\ up[kstack[p]] = p
    BY <1>1, <1>2, <1>3, <1>6
  <2>3. \A p \in Proc : \A d \in Tabs[p] : d \in Page /\ kind[d] = "dir" /\ up[d] = p
    BY <1>1, <1>2, <1>3, <1>6
  <2>4. \A g \in Page :
          /\ kind[g] = "free" => g \in FreeSet
          /\ kind[g] = "stack" => up[g] \in Proc /\ kstack[up[g]] = g
          /\ kind[g] = "dir" => up[g] \in Proc /\ g \in Tabs[up[g]]
          /\ kind[g] = "hand" => up[g] \in Proc /\ g \in Hands[up[g]]
    BY <1>1, <1>2, <1>3, <1>4, <1>5, <1>6
  <2> QED BY <2>1, <2>2, <2>3, <2>4, <1>6 DEF Pointed
<1>8. /\ mem[N - 1] = [NoDir EXCEPT ![KPDX] = N - 2, ![0] = N - 4]
      /\ mem[N - 2] = NoTable /\ DOMAIN mem = Page
      /\ mem[N - 4] = [NoTable EXCEPT ![0] = [pa |-> N - 3, user |-> TRUE]]
  <2> DEFINE a == [NoDir EXCEPT ![KPDX] = N - 2, ![0] = N - 4]
             b == [NoTable EXCEPT ![0] = [pa |-> N - 3, user |-> TRUE]]
  <2>1. mem = [g \in Page |-> CASE g = N - 1 -> a [] g = N - 2 -> NoTable
                                [] g = N - 4 -> b [] g \in {N, N - 3} -> Data
                                [] OTHER -> Junk]
    BY DEF Init
  <2> HIDE DEF a, b
  <2>2. mem[N - 1] = a
    BY <2>1, <1>1
  <2>3. mem[N - 2] = NoTable
    BY <2>1, <1>1
  <2>4. mem[N - 4] = b
    BY <2>1, <1>1
  <2> QED BY <2>1, <2>2, <2>3, <2>4 DEF a, b
<1>9. /\ mem[N - 1] \in Directory /\ mem[N - 1][KPDX] = N - 2 /\ mem[N - 1][0] = N - 4
      /\ \A k \in 0 .. KPDX : k # KPDX /\ k # 0 => mem[N - 1][k] = 0
  <2>1. 0 \in 0 .. KPDX /\ KPDX \in 0 .. KPDX /\ KPDX # 0
        /\ 0 \in 0 .. N /\ N - 2 \in 0 .. N /\ N - 4 \in 0 .. N
    BY <1>1
  <2> QED BY <1>8, <2>1 DEF NoDir, Directory
<1>10. /\ mem[N - 2] \in Table /\ mem[N - 4] \in Table
       /\ \A j \in 0 .. NPTENTRIES - 1 : mem[N - 2][j].pa = 0
       /\ mem[N - 4][0].pa = N - 3
       /\ \A j \in 0 .. NPTENTRIES - 1 : j # 0 => mem[N - 4][j].pa = 0
  <2>1. 0 \in 0 .. NPTENTRIES - 1 /\ 0 \in 0 .. N /\ N - 3 \in 0 .. N
    BY <1>1
  <2>2. NoPte \in Entry /\ NoPte.pa = 0 /\ [pa |-> N - 3, user |-> TRUE] \in Entry
    BY <2>1 DEF NoPte, Entry
  <2> QED BY <1>8, <2>1, <2>2 DEF NoTable, Table
<1>11. Mapped(mem, kind, up, ix)
  <2>1. 0 \in 0 .. KPDX /\ KPDX \in 0 .. KPDX /\ KPDX # 0 /\ 0 \in 0 .. NPTENTRIES - 1
        /\ N - 1 # N - 2 /\ N - 1 # N - 4 /\ N - 2 # N - 4 /\ N - 1 # 0 /\ N - 3 # 0
    BY <1>1
  <2>2. ASSUME NEW g \in Page, kind[g] = "table"
        PROVE  /\ up[g] \in Page /\ kind[up[g]] = "dir"
               /\ ix[g] \in 0 .. KPDX /\ mem[up[g]][ix[g]] = g
               /\ mem[g] \in Table
               /\ \A j \in 0 .. NPTENTRIES - 1 : mem[g][j].pa # 0 =>
                    /\ kind[mem[g][j].pa] = "user" /\ up[mem[g][j].pa] = g
                    /\ ix[mem[g][j].pa] = j
    <3>1. g = N - 2 \/ g = N - 4
      BY <2>2, <1>2, <1>4
    <3> QED BY <3>1, <2>1, <1>1, <1>2, <1>3, <1>9, <1>10
  <2>3. ASSUME NEW g \in Page, kind[g] = "user"
        PROVE  /\ up[g] \in Page /\ kind[up[g]] = "table" /\ ix[up[g]] # KPDX
               /\ ix[g] \in 0 .. NPTENTRIES - 1 /\ mem[up[g]][ix[g]].pa = g
    <3>1. g = N - 3
      BY <2>3, <1>2, <1>4
    <3> QED BY <3>1, <2>1, <1>1, <1>2, <1>3, <1>10
  <2>4. ASSUME NEW g \in Page, kind[g] = "dir"
        PROVE  /\ mem[g] \in Directory
               /\ \A k \in 0 .. KPDX : mem[g][k] # 0 =>
                    /\ kind[mem[g][k]] = "table" /\ up[mem[g][k]] = g
                    /\ ix[mem[g][k]] = k
    <3>1. g = N - 1
      BY <2>4, <1>2, <1>4
    <3> QED BY <3>1, <2>1, <1>1, <1>2, <1>3, <1>9
  <2> QED BY <2>2, <2>3, <2>4 DEF Mapped
<1>12. Owned(FreeSet, mem, kstack, Tabs, Hands, kind, up, ix)
  BY <1>2, <1>3, <1>6, <1>7, <1>8, <1>11 DEF Owned
<1> QED BY <1>5, <1>12 DEF OwnInv, CanOwn

LEMMA InitInv == ASSUME Init PROVE IInv
<1>1. /\ NPAGES \in Nat /\ NPAGES >= 5 /\ 0 \in 0 .. NPAGES
      /\ NPAGES \in 0 .. NPAGES /\ NPAGES - 1 \in 0 .. NPAGES
      /\ NPAGES # 0 /\ NPAGES - 1 # 0 /\ 0 \in Size /\ PGSIZE \in Size
  BY Constants DEF Size
<1>2. freelist \in Seq(Page)
  <2> DEFINE L == NPAGES - 5
  <2>1. L \in Nat /\ \A k \in 1 .. L : NPAGES - 4 - k \in Page
    BY <1>1 DEF Page
  <2>2. freelist = [k \in 1 .. L |-> NPAGES - 4 - k]
    BY DEF Init
  <2>3. freelist \in [1 .. L -> Page]
    BY <2>1, <2>2
  <2> HIDE DEF L
  <2> QED BY <2>1, <2>3
<1>3. plan \in [Proc -> Seq(Frames)] /\ \A p \in Proc : plan[p] = <<>>
  <2>1. plan = [p \in Proc |-> <<>>]
    BY DEF Init
  <2>2. <<>> \in Seq(Frames)
    OBVIOUS
  <2> QED BY <2>1, <2>2
<1>4. TypeOK
  <2>1. DOMAIN mem = Page
    BY DEF Init
  <2>2. state \in [Proc -> {"unused", "embryo", "run", "zombie", "reaped"}]
    BY DEF Init
  <2>3. /\ kstack \in [Proc -> 0 .. NPAGES] /\ pgdir \in [Proc -> 0 .. NPAGES]
        /\ cr3 \in [Proc -> 0 .. NPAGES] /\ sz \in [Proc -> Size]
    BY <1>1 DEF Init
  <2> QED BY <1>2, <1>3, <2>1, <2>2, <2>3 DEF TypeOK
<1>5. PlanInv /\ SizeInv /\ NewDir
  BY <1>3, Plans DEF PlanInv, SizeInv, NewDir
<1>6. ProcInv
  <2>1. \A p \in Proc : /\ state[p] = IF p = InitProc THEN "run" ELSE "unused"
                        /\ kstack[p] = IF p = InitProc THEN NPAGES ELSE 0
                        /\ pgdir[p] = IF p = InitProc THEN NPAGES - 1 ELSE 0
                        /\ cr3[p] = pgdir[p]
    BY DEF Init
  <2> QED BY <1>1, <1>3, <2>1 DEF ProcInv
<1> QED BY <1>4, <1>5, <1>6, InitPages DEF IInv

LEMMA NextInv == ASSUME IInv, [Next]_vars PROVE IInv'
<1>1. CASE UNCHANGED vars
  BY <1>1, Still DEF vars
<1>2. CASE Next
  <2>1. PICK p \in Proc :
          \/ KfreePage(p) \/ DeallocPage(p) \/ FreeTables(p)
          \/ SetupDir(p) \/ SetupKmap(p) \/ Map(p)
          \/ AllocPage(p) \/ AllocDone(p) \/ AllocFails(p)
          \/ \E q \in Proc : Fork(p, q) \/ Wait(p, q)
          \/ ForkKstack(p) \/ CopyPage(p) \/ CopyFails(p) \/ ForkDone(p)
          \/ UndoCall(p)
          \/ \E image \in Images : Exec(p, image)
          \/ ExecSegment(p) \/ Loaduvm(p) \/ ExecStack(p) \/ ExecBad(p)
          \/ \E n \in ArgSizes : ExecCommit(p, n)
          \/ \E a \in Addrs, n \in Lens : Argument(p, a, n)
          \/ \E n \in Amounts : Grow(p, n) \/ Shrink(p, n)
          \/ SetSize(p) \/ Exit(p) \/ Reaped(p)
    BY <1>2 DEF Next
  <2>2. CASE KfreePage(p) \/ DeallocPage(p) \/ FreeTables(p)
    BY <2>2, KeepsKfreePage, KeepsDeallocPage, KeepsFreeTables
  <2>3. CASE SetupDir(p) \/ SetupKmap(p) \/ Map(p)
    BY <2>3, KeepsSetupDir, KeepsSetupKmap, KeepsMap
  <2>4. CASE AllocPage(p) \/ AllocDone(p) \/ AllocFails(p)
    BY <2>4, KeepsAllocPage, KeepsAllocDone, KeepsAllocFails
  <2>5. CASE \E q \in Proc : Fork(p, q) \/ Wait(p, q)
    BY <2>5, KeepsFork, KeepsWait
  <2>6. CASE ForkKstack(p) \/ CopyPage(p) \/ CopyFails(p) \/ ForkDone(p)
    BY <2>6, KeepsForkKstack, KeepsCopyPage, KeepsCopyFails, KeepsForkDone
  <2>7. CASE UndoCall(p) \/ SetSize(p) \/ Exit(p) \/ Reaped(p)
    BY <2>7, KeepsUndoCall, KeepsSetSize, KeepsExit, KeepsReaped
  <2>8. CASE \E image \in Images : Exec(p, image)
    BY <2>8, KeepsExec
  <2>9. CASE ExecSegment(p) \/ Loaduvm(p) \/ ExecStack(p) \/ ExecBad(p)
    BY <2>9, KeepsExecSegment, KeepsLoaduvm, KeepsExecStack, KeepsExecBad
  <2>10. CASE \E n \in ArgSizes : ExecCommit(p, n)
    BY <2>10, KeepsExecCommit
  <2>11. CASE \E a \in Addrs, n \in Lens : Argument(p, a, n)
    BY <2>11, KeepsArgument
  <2>12. CASE \E n \in Amounts : Grow(p, n) \/ Shrink(p, n)
    BY <2>12, KeepsGrow
  <2> QED BY <2>1, <2>2, <2>3, <2>4, <2>5, <2>6, <2>7, <2>8, <2>9, <2>10, <2>11,
             <2>12
<1> QED BY <1>1, <1>2

\* Whichever kalloc() fails and however the calls of processes interleave, every
\* page of kalloc.c and vm.c has one owner, every plan is one that the calls
\* make, and a child belongs to one call.
THEOREM Invariance == Spec => []IInv
<1>1. Init => IInv
  BY InitInv
<1>2. IInv /\ [Next]_vars => IInv'
  BY NextInv
<1> QED BY <1>1, <1>2, PTL DEF Spec

\* The variables keep their types: what is free is a page, and the directories,
\* stacks and plans of processes are numbers of pages and lists of frames.
THEOREM TypeCorrect == Spec => []TypeOK
<1>1. IInv => TypeOK
  BY DEF IInv
<1> QED BY <1>1, Invariance, PTL

\* No CPU runs on a page table that is on the free list: exec() switches before
\* freevm(), and exit() leaves the table before wait() frees it.
THEOREM TableInUseHolds == Spec => []TableInUse
<1>1. ASSUME IInv PROVE TableInUse
  <2>1. ASSUME NEW p \in Proc, NEW k \in DOMAIN freelist, cr3[p] = freelist[k]
        PROVE  FALSE
    <3>1. freelist[k] \in Page /\ freelist[k] \in FreeSet
      BY <1>1 DEF IInv, TypeOK, FreeSet
    <3>2. cr3[p] # 0 /\ cr3[p] = pgdir[p]
      BY <1>1, <2>1, <3>1, PagesAreNumbers DEF IInv, ProcInv
    <3>3. pgdir[p] \in Tabs[p]
      BY <3>2 DEF Tabs
    <3>4. pgdir[p] \notin FreeSet
      BY <1>1, <3>3, Apart
    <3> QED BY <2>1, <3>1, <3>2, <3>4
  <2> QED BY <2>1 DEF TableInUse
<1> QED BY <1>1, Invariance, PTL

\* What points to the page g.
FromFree(x, g) == \E k \in DOMAIN freelist : x = <<"free", k, g>> /\ freelist[k] = g
FromStack(x, g) == \E p \in Proc : x = <<"kstack", p, g>> /\ kstack[p] = g
FromProc(x, g) == \E p \in Proc : x = <<"dir", p, g>> /\ g \in Tabs[p]
FromDir(x, g) ==
  \E p \in Proc : \E d \in Tabs[p], k \in 0 .. KPDX :
    x = <<"table", d, k, g>> /\ mem[d][k] = g
FromTable(x, g) ==
  \E p \in Proc : \E d \in Tabs[p], v \in 0 .. NUSER - 1 :
    x = <<"page", d, v, g>> /\ Pte(d, v).pa = g
FromHand(x, g) ==
  \E p \in Proc : \E k \in DOMAIN plan[p] :
    x = <<"hand", p, k, g>> /\ plan[p][k].g = g

LEMMA PointersTo ==
  ASSUME NEW g \in Page, NEW x
  PROVE  x \in Pointers /\ x[Len(x)] = g <=>
           \/ FromFree(x, g) \/ FromStack(x, g) \/ FromProc(x, g)
           \/ FromDir(x, g) \/ FromTable(x, g) \/ FromHand(x, g)
<1> DEFINE dirs == (UNION {Dirs(p) : p \in Proc}) \ {0}
           pairs == {y \in Proc \X dirs : y[2] \in Dirs(y[1])}
           A == {<<"free", k, freelist[k]>> : k \in DOMAIN freelist}
           B == {<<"kstack", p, kstack[p]>> : p \in Proc}
           C == {<<"dir", y[1], y[2]>> : y \in pairs}
           D == {<<"table", d, k, mem[d][k]>> : d \in dirs, k \in 0 .. KPDX}
           E == {<<"page", d, v, Pte(d, v).pa>> : d \in dirs, v \in 0 .. NUSER - 1}
           F(p) == {<<"hand", p, k, plan[p][k].g>> : k \in DOMAIN plan[p]}
           G == UNION {F(p) : p \in Proc}
<1>1. Pointers = A \cup B \cup C \cup D \cup E \cup G
  BY DEF Pointers
<1> DEFINE z == x[Len(x)]
<1>2. \A a, b, c : x = <<a, b, c>> => z = c
  <2>1. SUFFICES ASSUME NEW a, NEW b, NEW c, x = <<a, b, c>> PROVE x[Len(x)] = c
    OBVIOUS
  <2>2. Len(<<a, b, c>>) = 3 /\ <<a, b, c>>[3] = c
    OBVIOUS
  <2> QED BY <2>1, <2>2
<1>3. \A a, b, c, e : x = <<a, b, c, e>> => z = e
  <2>1. SUFFICES ASSUME NEW a, NEW b, NEW c, NEW e, x = <<a, b, c, e>>
                 PROVE  x[Len(x)] = e
    OBVIOUS
  <2>2. Len(<<a, b, c, e>>) = 4 /\ <<a, b, c, e>>[4] = e
    OBVIOUS
  <2> QED BY <2>1, <2>2
<1>4. \A p \in Proc : Tabs[p] = Dirs(p) \ {0}
  BY DEF Tabs, Dirs, TabIn
<1>5. \A d : d \in dirs <=> \E p \in Proc : d \in Tabs[p]
  BY <1>4
<1>6. \A p \in Proc : \A d : d \in Tabs[p] <=> <<p, d>> \in pairs
  BY <1>4
<1>7. \A y \in pairs : y[1] \in Proc /\ y[2] \in Tabs[y[1]] /\ y = <<y[1], y[2]>>
  BY <1>4
<1> HIDE DEF dirs, pairs, z
<1>8. x \in A /\ z = g <=> FromFree(x, g)
  BY <1>2, Zenon DEF FromFree
<1>9. x \in B /\ z = g <=> FromStack(x, g)
  BY <1>2, Zenon DEF FromStack
<1>10. x \in C /\ z = g <=> FromProc(x, g)
  <2>1. ASSUME x \in C, z = g PROVE FromProc(x, g)
    <3>1. PICK y \in pairs : x = <<"dir", y[1], y[2]>>
      BY <2>1, Zenon
    <3>2. y[2] = g
      BY <3>1, <2>1, <1>2, Zenon
    <3> QED BY <3>1, <3>2, <1>7, Zenon DEF FromProc
  <2>2. ASSUME FromProc(x, g) PROVE x \in C /\ z = g
    <3>1. PICK p \in Proc : x = <<"dir", p, g>> /\ g \in Tabs[p]
      BY <2>2 DEF FromProc
    <3> DEFINE y == <<p, g>>
    <3>2. y \in pairs /\ y[1] = p /\ y[2] = g
      BY <3>1, <1>6
    <3> HIDE DEF y
    <3>3. x = <<"dir", y[1], y[2]>>
      BY <3>1, <3>2
    <3> QED BY <3>1, <3>2, <3>3, <1>2, Zenon
  <2> QED BY <2>1, <2>2
<1>11. x \in D /\ z = g <=> FromDir(x, g)
  <2>1. ASSUME x \in D, z = g PROVE FromDir(x, g)
    <3>1. PICK d \in dirs, k \in 0 .. KPDX : x = <<"table", d, k, mem[d][k]>>
      BY <2>1
    <3>2. mem[d][k] = g
      BY <3>1, <2>1, <1>3, Zenon
    <3> QED BY <3>1, <3>2, <1>5, Zenon DEF FromDir
  <2>2. ASSUME FromDir(x, g) PROVE x \in D /\ z = g
    <3>1. PICK d \in dirs, k \in 0 .. KPDX : x = <<"table", d, k, g>> /\ mem[d][k] = g
      BY <2>2, <1>5, Zenon DEF FromDir
    <3>2. x = <<"table", d, k, mem[d][k]>>
      BY <3>1, Zenon
    <3>3. z = g
      BY <3>1, <1>3, Zenon
    <3> QED BY <3>2, <3>3
  <2> QED BY <2>1, <2>2
<1>12. x \in E /\ z = g <=> FromTable(x, g)
  <2>1. ASSUME x \in E, z = g PROVE FromTable(x, g)
    <3>1. PICK d \in dirs, v \in 0 .. NUSER - 1 : x = <<"page", d, v, Pte(d, v).pa>>
      BY <2>1
    <3>2. Pte(d, v).pa = g
      BY <3>1, <2>1, <1>3, Zenon
    <3> QED BY <3>1, <3>2, <1>5, Zenon DEF FromTable
  <2>2. ASSUME FromTable(x, g) PROVE x \in E /\ z = g
    <3>1. PICK d \in dirs, v \in 0 .. NUSER - 1 :
            x = <<"page", d, v, g>> /\ Pte(d, v).pa = g
      BY <2>2, <1>5, Zenon DEF FromTable
    <3>2. x = <<"page", d, v, Pte(d, v).pa>>
      BY <3>1, Zenon
    <3>3. z = g
      BY <3>1, <1>3, Zenon
    <3> QED BY <3>2, <3>3
  <2> QED BY <2>1, <2>2
<1>13. x \in G /\ z = g <=> FromHand(x, g)
  <2>1. ASSUME x \in G, z = g PROVE FromHand(x, g)
    <3>1. PICK p \in Proc : x \in F(p)
      BY <2>1, Zenon
    <3>2. PICK k \in DOMAIN plan[p] : x = <<"hand", p, k, plan[p][k].g>>
      BY <3>1, Zenon
    <3>3. plan[p][k].g = g
      BY <3>2, <2>1, <1>3, Zenon
    <3> QED BY <3>2, <3>3, Zenon DEF FromHand
  <2>2. ASSUME FromHand(x, g) PROVE x \in G /\ z = g
    <3>1. PICK p \in Proc : \E k \in DOMAIN plan[p] :
            x = <<"hand", p, k, g>> /\ plan[p][k].g = g
      BY <2>2, Zenon DEF FromHand
    <3>2. PICK k \in DOMAIN plan[p] : x = <<"hand", p, k, g>> /\ plan[p][k].g = g
      BY <3>1, Zenon
    <3>3. x = <<"hand", p, k, plan[p][k].g>>
      BY <3>2, Zenon
    <3>4. x \in F(p)
      BY <3>3, Zenon
    <3>5. z = g
      BY <3>2, <1>3, Zenon
    <3> HIDE DEF F
    <3> QED BY <3>4, <3>5
  <2> QED BY <2>1, <2>2
<1> HIDE DEF A, B, C, D, E, G
<1> QED BY <1>1, <1>8, <1>9, <1>10, <1>11, <1>12, <1>13 DEF z

\* The kind of a page tells what points to it, and its owner and place tell where.
LEMMA KindTells ==
  ASSUME IInv, NEW kind, NEW up, NEW ix,
         Owned(FreeSet, mem, kstack, Tabs, Hands, kind, up, ix), NEW g \in Page, NEW x
  PROVE  /\ FromFree(x, g) => kind[g] = "free"
         /\ FromStack(x, g) => kind[g] = "stack" /\ x = <<"kstack", up[g], g>>
         /\ FromProc(x, g) => kind[g] = "dir" /\ x = <<"dir", up[g], g>>
         /\ FromDir(x, g) => kind[g] = "table" /\ x = <<"table", up[g], ix[g], g>>
         /\ FromTable(x, g) =>
              /\ kind[g] = "user"
              /\ \E v \in 0 .. NUSER - 1 :
                   /\ PDX(v) = ix[up[g]] /\ PTX(v) = ix[g]
                   /\ x = <<"page", up[up[g]], v, g>>
         /\ FromHand(x, g) =>
              /\ kind[g] = "hand"
              /\ \E k \in DOMAIN plan[up[g]] :
                   plan[up[g]][k].g = g /\ x = <<"hand", up[g], k, g>>
<1>0. g # 0
  BY PagesAreNumbers
<1>1. Pointed(FreeSet, kstack, Tabs, Hands, kind, up) /\ Mapped(mem, kind, up, ix)
  BY DEF Owned
<1>2. FromFree(x, g) => kind[g] = "free"
  BY <1>1 DEF FromFree, FreeSet, Pointed
<1>3. ASSUME FromStack(x, g) PROVE kind[g] = "stack" /\ x = <<"kstack", up[g], g>>
  <2>1. PICK p \in Proc : x = <<"kstack", p, g>> /\ kstack[p] = g
    BY <1>3 DEF FromStack
  <2>2. kind[g] = "stack" /\ up[g] = p
    BY <2>1, <1>0, <1>1 DEF Pointed
  <2> QED BY <2>1, <2>2
<1>4. ASSUME FromProc(x, g) PROVE kind[g] = "dir" /\ x = <<"dir", up[g], g>>
  <2>1. PICK p \in Proc : x = <<"dir", p, g>> /\ g \in Tabs[p]
    BY <1>4 DEF FromProc
  <2>2. kind[g] = "dir" /\ up[g] = p
    BY <2>1, <1>1 DEF Pointed
  <2> QED BY <2>1, <2>2
<1>5. ASSUME NEW p \in Proc, NEW d \in Tabs[p], NEW k \in 0 .. KPDX, mem[d][k] # 0
      PROVE  /\ mem[d][k] \in Page /\ kind[mem[d][k]] = "table"
             /\ up[mem[d][k]] = d /\ ix[mem[d][k]] = k
  <2>1. d \in Page /\ kind[d] = "dir"
    BY <1>1 DEF Pointed
  <2> QED BY <2>1, <1>1, <1>5, Links
<1>6. ASSUME FromDir(x, g) PROVE kind[g] = "table" /\ x = <<"table", up[g], ix[g], g>>
  <2>1. PICK p \in Proc : \E d \in Tabs[p], k \in 0 .. KPDX :
          x = <<"table", d, k, g>> /\ mem[d][k] = g
    BY <1>6 DEF FromDir
  <2>2. PICK d \in Tabs[p], k \in 0 .. KPDX : x = <<"table", d, k, g>> /\ mem[d][k] = g
    BY <2>1
  <2>3. kind[g] = "table" /\ up[g] = d /\ ix[g] = k
    BY <2>2, <1>0, <1>5
  <2> QED BY <2>2, <2>3
<1>7. ASSUME FromTable(x, g)
      PROVE  /\ kind[g] = "user"
             /\ \E v \in 0 .. NUSER - 1 :
                  /\ PDX(v) = ix[up[g]] /\ PTX(v) = ix[g]
                  /\ x = <<"page", up[up[g]], v, g>>
  <2>1. PICK p \in Proc : \E d \in Tabs[p], v \in 0 .. NUSER - 1 :
          x = <<"page", d, v, g>> /\ Pte(d, v).pa = g
    BY <1>7 DEF FromTable
  <2>2. PICK d \in Tabs[p], v \in 0 .. NUSER - 1 :
          x = <<"page", d, v, g>> /\ Pte(d, v).pa = g
    BY <2>1
  <2> DEFINE k == PDX(v)  j == PTX(v)  h == mem[d][k]
  <2>3. k \in 0 .. KPDX /\ j \in 0 .. NPTENTRIES - 1 /\ h # 0 /\ mem[h][j].pa = g
    BY <2>2, <1>0, Entries
  <2> HIDE DEF k, j
  <2>4. h \in Page /\ kind[h] = "table" /\ up[h] = d /\ ix[h] = k
    BY <2>3, <1>5
  <2> HIDE DEF h
  <2>5. kind[g] = "user" /\ up[g] = h /\ ix[g] = j
    BY <2>3, <2>4, <1>0, <1>1, Links
  <2>6. PDX(v) = ix[up[g]] /\ PTX(v) = ix[g] /\ x = <<"page", up[up[g]], v, g>>
    BY <2>2, <2>4, <2>5 DEF k, j
  <2> QED BY <2>5, <2>6
<1>8. ASSUME FromHand(x, g)
      PROVE  /\ kind[g] = "hand"
             /\ \E k \in DOMAIN plan[up[g]] :
                  plan[up[g]][k].g = g /\ x = <<"hand", up[g], k, g>>
  <2>1. PICK p \in Proc : \E k \in DOMAIN plan[p] :
          x = <<"hand", p, k, g>> /\ plan[p][k].g = g
    BY <1>8 DEF FromHand
  <2>2. PICK k \in DOMAIN plan[p] : x = <<"hand", p, k, g>> /\ plan[p][k].g = g
    BY <2>1
  <2>3. g \in Hands[p]
    BY <2>2, <1>0 DEF Hands, HandIn
  <2>4. kind[g] = "hand" /\ up[g] = p
    BY <2>3, <1>1 DEF Pointed
  <2> QED BY <2>2, <2>4
<1> QED BY <1>2, <1>3, <1>4, <1>6, <1>7, <1>8

\* One thing points to a page, and no other.
LEMMA OnePointer ==
  ASSUME IInv, NEW g \in Page
  PROVE  \E y : \A x : x \in Pointers /\ x[Len(x)] = g <=> x = y
<1>0. g # 0
  BY PagesAreNumbers
<1>1. PICK kind, up, ix : Owned(FreeSet, mem, kstack, Tabs, Hands, kind, up, ix)
  BY DEF IInv, OwnInv, CanOwn
<1>2. /\ Pointed(FreeSet, kstack, Tabs, Hands, kind, up) /\ Mapped(mem, kind, up, ix)
      /\ kind[g] \in Kinds
  BY <1>1 DEF Owned
<1> DEFINE P(x) == x \in Pointers /\ x[Len(x)] = g
<1>3. ASSUME NEW x
      PROVE  P(x) <=> \/ FromFree(x, g) \/ FromStack(x, g) \/ FromProc(x, g)
                      \/ FromDir(x, g) \/ FromTable(x, g) \/ FromHand(x, g)
  BY PointersTo
<1> HIDE DEF P
<1>4. ASSUME NEW x
      PROVE  /\ FromFree(x, g) => kind[g] = "free"
             /\ FromStack(x, g) => kind[g] = "stack" /\ x = <<"kstack", up[g], g>>
             /\ FromProc(x, g) => kind[g] = "dir" /\ x = <<"dir", up[g], g>>
             /\ FromDir(x, g) => kind[g] = "table" /\ x = <<"table", up[g], ix[g], g>>
             /\ FromTable(x, g) =>
                  /\ kind[g] = "user"
                  /\ \E v \in 0 .. NUSER - 1 :
                       /\ PDX(v) = ix[up[g]] /\ PTX(v) = ix[g]
                       /\ x = <<"page", up[up[g]], v, g>>
             /\ FromHand(x, g) =>
                  /\ kind[g] = "hand"
                  /\ \E k \in DOMAIN plan[up[g]] :
                       plan[up[g]][k].g = g /\ x = <<"hand", up[g], k, g>>
  BY <1>1, KindTells
<1>5. CASE kind[g] = "free"
  <2>1. PICK k \in DOMAIN freelist : freelist[k] = g
    BY <1>2, <1>5 DEF Pointed, FreeSet
  <2> DEFINE y == <<"free", k, g>>
  <2>2. FromFree(y, g)
    BY <2>1 DEF FromFree
  <2>3. ASSUME NEW x, FromFree(x, g) PROVE x = y
    <3>1. PICK j \in DOMAIN freelist : x = <<"free", j, g>> /\ freelist[j] = g
      BY <2>3 DEF FromFree
    <3>2. j = k
      BY <2>1, <3>1 DEF IInv, OwnInv, Distinct
    <3> QED BY <3>1, <3>2
  <2> HIDE DEF y
  <2>4. \A x : P(x) <=> FromFree(x, g)
    BY <1>3, <1>4, <1>5
  <2> QED BY <2>2, <2>3, <2>4 DEF P
<1>6. CASE kind[g] = "stack"
  <2> DEFINE y == <<"kstack", up[g], g>>
  <2>1. FromStack(y, g)
    BY <1>2, <1>6 DEF Pointed, FromStack
  <2>2. \A x : P(x) <=> FromStack(x, g)
    BY <1>3, <1>4, <1>6
  <2>3. \A x : FromStack(x, g) => x = y
    BY <1>4
  <2> HIDE DEF y
  <2> QED BY <2>1, <2>2, <2>3 DEF P
<1>7. CASE kind[g] = "dir"
  <2> DEFINE y == <<"dir", up[g], g>>
  <2>1. FromProc(y, g)
    BY <1>2, <1>7 DEF Pointed, FromProc
  <2>2. \A x : P(x) <=> FromProc(x, g)
    BY <1>3, <1>4, <1>7
  <2>3. \A x : FromProc(x, g) => x = y
    BY <1>4
  <2> HIDE DEF y
  <2> QED BY <2>1, <2>2, <2>3 DEF P
<1>8. CASE kind[g] = "table"
  <2> DEFINE d == up[g]  y == <<"table", d, ix[g], g>>
  <2>1. /\ d \in Page /\ kind[d] = "dir" /\ ix[g] \in 0 .. KPDX /\ mem[d][ix[g]] = g
    BY <1>2, <1>8 DEF Mapped
  <2>2. up[d] \in Proc /\ d \in Tabs[up[d]]
    BY <2>1, <1>2 DEF Pointed
  <2>3. FromDir(y, g)
    BY <2>1, <2>2 DEF FromDir
  <2>4. \A x : P(x) <=> FromDir(x, g)
    BY <1>3, <1>4, <1>8
  <2>5. \A x : FromDir(x, g) => x = y
    BY <1>4
  <2> HIDE DEF y
  <2> QED BY <2>3, <2>4, <2>5 DEF P
<1>9. CASE kind[g] = "user"
  <2> DEFINE h == up[g]  d == up[h]
  <2>1. /\ h \in Page /\ kind[h] = "table" /\ ix[h] # KPDX
        /\ ix[g] \in 0 .. NPTENTRIES - 1 /\ mem[h][ix[g]].pa = g
    BY <1>2, <1>9 DEF Mapped
  <2>2. d \in Page /\ kind[d] = "dir" /\ ix[h] \in 0 .. KPDX /\ mem[d][ix[h]] = h
    BY <1>2, <2>1 DEF Mapped
  <2>3. up[d] \in Proc /\ d \in Tabs[up[d]]
    BY <2>2, <1>2 DEF Pointed
  <2>4. ix[h] \in 0 .. KPDX - 1
    BY <2>1, <2>2, Constants
  <2>5. PICK v \in 0 .. NUSER - 1 : PDX(v) = ix[h] /\ PTX(v) = ix[g]
    BY <2>1, <2>4, Places
  <2> DEFINE y == <<"page", d, v, g>>
  <2>6. Pte(d, v).pa = g
    BY <2>1, <2>2, <2>5, PagesAreNumbers DEF Pte, PteIn
  <2>7. FromTable(y, g)
    BY <2>3, <2>6 DEF FromTable
  <2>8. \A x : P(x) <=> FromTable(x, g)
    BY <1>3, <1>4, <1>9
  <2>9. ASSUME NEW x, FromTable(x, g) PROVE x = y
    <3>1. PICK w \in 0 .. NUSER - 1 :
            PDX(w) = ix[up[g]] /\ PTX(w) = ix[g] /\ x = <<"page", up[up[g]], w, g>>
      BY <1>4, <2>9
    <3>2. /\ w = PDX(w) * NPTENTRIES + PTX(w) /\ v = PDX(v) * NPTENTRIES + PTX(v)
      BY Places
    <3>3. w = v
      BY <3>1, <3>2, <2>5
    <3> QED BY <3>1, <3>3
  <2> HIDE DEF y
  <2> QED BY <2>7, <2>8, <2>9 DEF P
<1>10. CASE kind[g] = "hand"
  <2> DEFINE p == up[g]
  <2>1. p \in Proc /\ g \in Hands[p]
    BY <1>2, <1>10 DEF Pointed
  <2>2. PICK k \in DOMAIN plan[p] : plan[p][k].g = g
    BY <2>1 DEF Hands, HandIn
  <2> DEFINE y == <<"hand", p, k, g>>
  <2>3. FromHand(y, g)
    BY <2>1, <2>2 DEF FromHand
  <2>4. \A x : P(x) <=> FromHand(x, g)
    BY <1>3, <1>4, <1>10
  <2>5. ASSUME NEW x, FromHand(x, g) PROVE x = y
    <3>1. PICK j \in DOMAIN plan[p] : plan[p][j].g = g /\ x = <<"hand", p, j, g>>
      BY <1>4, <2>5
    <3>2. PlanOK(p, plan[p])
      BY <2>1 DEF IInv, PlanInv
    <3>3. j = k
      BY <3>1, <3>2, <2>2, <1>0 DEF PlanOK
    <3> QED BY <3>1, <3>3
  <2> HIDE DEF y
  <2> QED BY <2>3, <2>4, <2>5 DEF P
<1> QED BY <1>2, <1>5, <1>6, <1>7, <1>8, <1>9, <1>10 DEF Kinds

\* Every page is in one place, whichever kalloc() fails and whatever other calls
\* do at the same time: kfree() never gets a page twice, and none is lost.
THEOREM PagesOwnedOnceHolds == Spec => []PagesOwnedOnce
<1>1. ASSUME IInv PROVE PagesOwnedOnce
  <2>1. ASSUME NEW g \in Page
        PROVE  Cardinality({x \in Pointers : x[Len(x)] = g}) = 1
    <3>1. PICK y : \A x : x \in Pointers /\ x[Len(x)] = g <=> x = y
      BY <1>1, OnePointer
    <3>2. {x \in Pointers : x[Len(x)] = g} = {y}
      BY <3>1, Zenon
    <3> QED BY <3>2, FS_Singleton
  <2> QED BY <2>1 DEF PagesOwnedOnce
<1> QED BY <1>1, Invariance, PTL
=============================================================================
