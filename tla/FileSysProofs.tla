--------------------------- MODULE FileSysProofs ----------------------------
(* Proofs about FileSys: any finite set of processes, any number of inodes *)
(* and of cache entries, any calls with any paths, and crashes.            *)
(*                                                                         *)
(* The count of an entry is compared with the pointers of one process at a *)
(* time: a step changes those of one process, so it has to add to the      *)
(* count what it adds to the pointers of that process.                     *)
(* That a cached inode agrees with the disk is a second invariant on top:  *)
(* by the counts, no two processes free one inode or free one being made.  *)
EXTENDS FileSys, SequenceTheorems, FiniteSetTheorems, NaturalsInduction, WellFoundedInduction, TLAPS

-----------------------------------------------------------------------------
(* The inductive invariant                                                 *)

\* Frames that point to one cache entry, those that point to two, and others.
IpOps == {"iput", "iput2", "drop", "unlockput", "namex", "exists", "create2",
          "linkbad", "link2", "unlink2", "unlink3"}
DpOps == {"create2", "unlink2"}
NoPtr == {"walk", "open", "opened", "create", "made", "link1", "unlink1",
          "chdir", "end"}

\* The steps of iput(); the frames that take over what the last function
\* returned; and those that have one of these behind them.
Puts == {"iput", "iput2", "drop"}
Takers == {"open", "opened", "create", "made", "link1", "link2", "unlink1",
           "chdir"}
Givers == {"walk", "namex", "exists", "create", "create2", "open"}

SlotOrNone == Slot \cup {None}

IsSeq(t) == \E S : t \in Seq(S)

\* A frame of a process whose current directory is c.
FrameOK(x, c) ==
  /\ x.op \in IpOps \cup NoPtr
  /\ IF x.op \in IpOps THEN x.ip \in Slot ELSE x.ip = None
  /\ IF x.op \in DpOps THEN x.dp \in Slot ELSE x.dp = None
  /\ x.op \notin Puts \cup {"end"} => c # None

\* What a function returns is taken by the frame behind it.
Taken(t) == t # <<>> /\ t[1].op \in Takers

Good(t, c) ==
  /\ IsSeq(t)
  /\ \A k \in 1 .. Len(t) :
       /\ FrameOK(t[k], c)
       /\ t[k].op \in Givers => k < Len(t) /\ t[k + 1].op \in Takers

\* A slot that was returned is kept through the steps of iput() until it is
\* taken.
Kept(t) ==
  \E k \in 1 .. Len(t) :
    t[k].op \in Takers /\ \A j \in 1 .. k - 1 : t[j].op \in Puts

\* An entry of the inode cache, and a cache where no inode has two of them.
IsEntry(e) ==
  /\ e = [inum |-> e.inum, ref |-> e.ref, valid |-> e.valid,
          type |-> e.type, nlink |-> e.nlink]
  /\ e.inum \in Inum /\ e.ref \in Nat

OneEntry(tab) ==
  \A s, t \in Slot :
    tab[s].ref > 0 /\ tab[t].ref > 0 /\ tab[s].inum = tab[t].inum => s = t

CacheOK(tab) ==
  /\ DOMAIN tab = Slot /\ tab = [s \in Slot |-> tab[s]]
  /\ \A s \in Slot : IsEntry(tab[s])
  /\ OneEntry(tab)

TypeInv ==
  /\ cwd \in [Proc -> SlotOrNone]
  /\ fd \in [Proc -> SlotOrNone]
  /\ ret \in [Proc -> SlotOrNone]
  /\ todo = [p \in Proc |-> todo[p]]

FrameInv ==
  \A p \in Proc : Good(todo[p], cwd[p]) /\ (ret[p] # None => Kept(todo[p]))

IInv == TypeInv /\ FrameInv /\ CacheOK(inode) /\ RefsCounted

-----------------------------------------------------------------------------
(* Lists of frames                                                         *)

LEMMA Nones == /\ None \notin Slot /\ None \notin Proc /\ NINODE \in Nat
               /\ NINODES \in Nat /\ NINODES >= 2
               /\ 1 \in Slot /\ ROOTINO \in Inum
  BY FsAssumption DEF Slot, Inum, ROOTINO

\* A frame before a list.
LEMMA OneMore ==
  ASSUME NEW t, IsSeq(t), NEW x
  PROVE  /\ IsSeq(Cons(x, t)) /\ Cons(x, t) # <<>>
         /\ Len(t) \in Nat /\ DOMAIN t = 1 .. Len(t)
         /\ Len(Cons(x, t)) = Len(t) + 1
         /\ DOMAIN Cons(x, t) = 1 .. Len(t) + 1
         /\ Cons(x, t)[1] = x
         /\ \A k \in 1 .. Len(t) : Cons(x, t)[k + 1] = t[k]
<1>1. PICK S : t \in Seq(S)
  BY DEF IsSeq
<1> DEFINE W == S \cup {x}  u == <<x>> \o t
<1>2. t \in Seq(W) /\ <<x>> \in Seq(W) /\ Len(<<x>>) = 1 /\ <<x>>[1] = x
  BY <1>1
<1> HIDE DEF W
<1>3. u \in Seq(W) /\ Len(u) = Len(t) + 1 /\ u[1] = x
      /\ \A k \in 1 .. Len(t) : u[k + 1] = t[k]
  BY <1>2
<1>4. Len(t) \in Nat /\ DOMAIN t = 1 .. Len(t) /\ DOMAIN u = 1 .. Len(u)
  BY <1>2, <1>3
<1>5. Cons(x, t) = u
  BY DEF Cons
<1> HIDE DEF u
<1>6. Len(u) # 0
  BY <1>3, <1>4
<1>7. u # <<>>
  BY <1>6
<1> QED BY <1>7, <1>3, <1>4, <1>5, <1>6 DEF IsSeq

\* A list is its first frame and the others.
LEMMA Uncons ==
  ASSUME NEW t, IsSeq(t), t # <<>>
  PROVE  /\ IsSeq(Tail(t)) /\ t = Cons(Head(t), Tail(t))
         /\ Head(t) = t[1] /\ Len(t) \in Nat \ {0}
<1>1. PICK S : t \in Seq(S)
  BY DEF IsSeq
<1> QED BY <1>1 DEF IsSeq, Cons

LEMMA Pair ==
  ASSUME NEW x, NEW y
  PROVE  <<x, y>> = <<x>> \o <<y>>
<1>1. <<x, y>> = Append(<<x>>, y)
  OBVIOUS
<1>2. <<x>> \o <<y>> = Append(<<x>>, y)
  OBVIOUS
<1> QED BY <1>1, <1>2

\* Several frames before a list are put there one by one.
LEMMA PushNone ==
  ASSUME NEW t, IsSeq(t)
  PROVE  <<>> \o t = t
<1>1. PICK S : t \in Seq(S)
  BY DEF IsSeq
<1> QED BY <1>1

LEMMA PushTwo ==
  ASSUME NEW t, IsSeq(t), NEW x, NEW y
  PROVE  <<x, y>> \o t = Cons(x, Cons(y, t))
<1>1. PICK S : t \in Seq(S)
  BY DEF IsSeq
<1> DEFINE W == S \cup {x, y}
<1>2. t \in Seq(W) /\ <<x>> \in Seq(W) /\ <<y>> \in Seq(W)
  BY <1>1
<1> HIDE DEF W
<1>3. (<<x>> \o <<y>>) \o t = <<x>> \o (<<y>> \o t)
  BY <1>2, ConcatAssociative
<1> QED BY <1>3, Pair, Zenon DEF Cons

LEMMA PushThree ==
  ASSUME NEW t, IsSeq(t), NEW x, NEW y, NEW z
  PROVE  <<x, y, z>> \o t = Cons(x, Cons(y, Cons(z, t)))
<1>1. PICK S : t \in Seq(S)
  BY DEF IsSeq
<1> DEFINE W == S \cup {x, y, z}
<1>2. t \in Seq(W) /\ <<x>> \in Seq(W) /\ <<y, z>> \in Seq(W)
  BY <1>1
<1>3. <<x, y, z>> = <<x>> \o <<y, z>>
  OBVIOUS
<1> HIDE DEF W
<1>4. (<<x>> \o <<y, z>>) \o t = <<x>> \o (<<y, z>> \o t)
  BY <1>2, ConcatAssociative
<1>5. <<y, z>> \o t = Cons(y, Cons(z, t))
  BY PushTwo
<1> QED BY <1>3, <1>4, <1>5, Zenon DEF Cons

LEMMA Empty == IsSeq(<<>>) /\ Len(<<>>) = 0
<1>1. <<>> \in Seq({}) /\ Len(<<>>) = 0
  OBVIOUS
<1> QED BY <1>1 DEF IsSeq

\* What a frame in front must be.
LEMMA GoodCons ==
  ASSUME NEW t, IsSeq(t), NEW x, NEW c
  PROVE  Good(Cons(x, t), c) <=>
           /\ Good(t, c) /\ FrameOK(x, c) /\ (x.op \in Givers => Taken(t))
<1> DEFINE u == Cons(x, t)
<1>1. /\ IsSeq(u) /\ Len(t) \in Nat /\ Len(u) = Len(t) + 1 /\ u[1] = x
      /\ \A k \in 1 .. Len(t) : u[k + 1] = t[k]
      /\ t # <<>> <=> Len(t) # 0
  <2>1. t # <<>> <=> Len(t) # 0
    BY Uncons, Empty
  <2> QED BY <2>1, OneMore
<1> HIDE DEF u
<1>2. ASSUME Good(u, c)
      PROVE  Good(t, c) /\ FrameOK(x, c) /\ (x.op \in Givers => Taken(t))
  <2>1. ASSUME NEW k \in 1 .. Len(t)
        PROVE  /\ FrameOK(t[k], c)
               /\ t[k].op \in Givers => k < Len(t) /\ t[k + 1].op \in Takers
    <3>1. /\ k + 1 \in 1 .. Len(u) /\ u[k + 1] = t[k]
          /\ k < Len(t) => u[(k + 1) + 1] = t[k + 1]
      BY <2>1, <1>1
    <3> QED BY <3>1, <1>2, <1>1 DEF Good
  <2>2. FrameOK(x, c) /\ (x.op \in Givers => Len(t) > 0 /\ t[1].op \in Takers)
    <3>1. 1 \in 1 .. Len(u) /\ (1 < Len(u) => u[1 + 1] = t[1])
      BY <1>1
    <3> QED BY <3>1, <1>2, <1>1 DEF Good
  <2> QED BY <2>1, <2>2, <1>1 DEF Good, Taken
<1>3. ASSUME Good(t, c), FrameOK(x, c), x.op \in Givers => Taken(t)
      PROVE  Good(u, c)
  <2>1. ASSUME NEW k \in 1 .. Len(u)
        PROVE  /\ FrameOK(u[k], c)
               /\ u[k].op \in Givers => k < Len(u) /\ u[k + 1].op \in Takers
    <3>1. CASE k = 1
      BY <3>1, <1>1, <1>3 DEF Taken
    <3>2. CASE k # 1
      <4>1. /\ k - 1 \in 1 .. Len(t) /\ u[k] = t[k - 1]
            /\ k - 1 < Len(t) => u[k + 1] = t[k]
        BY <3>2, <2>1, <1>1
      <4>2. /\ FrameOK(t[k - 1], c)
            /\ t[k - 1].op \in Givers => k - 1 < Len(t) /\ t[(k - 1) + 1].op \in Takers
        BY <4>1, <1>3 DEF Good
      <4> QED BY <4>1, <4>2, <1>1
    <3> QED BY <3>1, <3>2
  <2> QED BY <2>1, <1>1 DEF Good
<1> QED BY <1>2, <1>3 DEF u

\* A slot that was returned is kept by a frame in front that takes it, or by a
\* step of iput() before frames that keep it.
LEMMA KeptCons ==
  ASSUME NEW t, IsSeq(t), NEW x
  PROVE  Kept(Cons(x, t)) <=> x.op \in Takers \/ (x.op \in Puts /\ Kept(t))
<1> DEFINE u == Cons(x, t)
<1>1. /\ Len(t) \in Nat /\ Len(u) = Len(t) + 1 /\ u[1] = x
      /\ \A k \in 1 .. Len(t) : u[k + 1] = t[k]
  BY OneMore
<1> HIDE DEF u
<1>2. ASSUME Kept(u), x.op \notin Takers PROVE x.op \in Puts /\ Kept(t)
  <2>1. PICK k \in 1 .. Len(u) :
          u[k].op \in Takers /\ \A j \in 1 .. k - 1 : u[j].op \in Puts
    BY <1>2 DEF Kept
  <2>2. k # 1 /\ k - 1 \in 1 .. Len(t) /\ u[k] = t[k - 1]
    BY <2>1, <1>1, <1>2
  <2>3. x.op \in Puts
    BY <2>1, <2>2, <1>1
  <2>4. \A j \in 1 .. (k - 1) - 1 : t[j].op \in Puts
    BY <2>1, <2>2, <1>1
  <2> QED BY <2>1, <2>2, <2>3, <2>4 DEF Kept
<1>3. ASSUME x.op \in Takers PROVE Kept(u)
  BY <1>1, <1>3 DEF Kept
<1>4. ASSUME x.op \in Puts, Kept(t) PROVE Kept(u)
  <2>1. PICK k \in 1 .. Len(t) :
          t[k].op \in Takers /\ \A j \in 1 .. k - 1 : t[j].op \in Puts
    BY <1>4 DEF Kept
  <2>2. k + 1 \in 1 .. Len(u) /\ u[k + 1] = t[k]
    BY <1>1
  <2>3. ASSUME NEW j \in 1 .. (k + 1) - 1 PROVE u[j].op \in Puts
    <3>1. CASE j = 1
      BY <3>1, <1>1, <1>4
    <3>2. CASE j # 1
      <4>1. j - 1 \in 1 .. k - 1 /\ j - 1 \in 1 .. Len(t) /\ u[j] = t[j - 1]
        BY <3>2, <2>3, <1>1
      <4> QED BY <4>1, <2>1
    <3> QED BY <3>1, <3>2
  <2> QED BY <2>1, <2>2, <2>3 DEF Kept
<1> QED BY <1>2, <1>3, <1>4 DEF u

LEMMA TakenCons ==
  ASSUME NEW t, IsSeq(t), NEW x
  PROVE  Taken(Cons(x, t)) <=> x.op \in Takers
  BY OneMore DEF Taken

LEMMA TakenIsKept ==
  ASSUME NEW t, IsSeq(t), Taken(t)
  PROVE  Kept(t)
<1>1. IsSeq(Tail(t)) /\ t = Cons(Head(t), Tail(t)) /\ Head(t) = t[1]
  BY Uncons DEF Taken
<1>2. Head(t).op \in Takers
  BY <1>1 DEF Taken
<1>3. Kept(Cons(Head(t), Tail(t)))
  BY <1>1, <1>2, KeptCons
<1> QED BY <1>1, <1>3

LEMMA NotKept == ~Kept(<<>>)
  BY Empty DEF Kept

-----------------------------------------------------------------------------
(* Counting pointers                                                       *)

On(x, s) == IF x = s THEN 1 ELSE 0

\* The pointers to s in a list of frames.
Ptrs(t, s) ==
  {y \in (1 .. Len(t)) \X {"ip", "dp"} :
     \/ y[2] = "ip" /\ t[y[1]].ip = s
     \/ y[2] = "dp" /\ t[y[1]].dp = s}

Count(t, s) == Cardinality(Ptrs(t, s))

LEMMA PtrsFinite ==
  ASSUME NEW t, IsSeq(t), NEW s
  PROVE  IsFiniteSet(Ptrs(t, s)) /\ Count(t, s) \in Nat
<1>1. Len(t) \in Nat
  BY OneMore
<1>2. IsFiniteSet(1 .. Len(t))
  BY <1>1, FS_Interval
<1>3. IsFiniteSet({"ip", "dp"})
  <2>1. IsFiniteSet({"ip"} \cup {"dp"})
    BY FS_Singleton, FS_AddElement
  <2>2. {"ip"} \cup {"dp"} = {"ip", "dp"}
    OBVIOUS
  <2> QED BY <2>1, <2>2
<1>4. IsFiniteSet((1 .. Len(t)) \X {"ip", "dp"})
  BY <1>2, <1>3, FS_Product
<1>5. IsFiniteSet(Ptrs(t, s))
  BY <1>4, FS_Subset DEF Ptrs
<1> QED BY <1>5, FS_CardinalityType DEF Count

LEMMA CountEmpty == \A s : Count(<<>>, s) = 0
<1>1. \A s : Ptrs(<<>>, s) = {}
  BY Empty DEF Ptrs
<1> QED BY <1>1, FS_EmptySet DEF Count

\* A frame in front adds the pointers that it has.
LEMMA CountCons ==
  ASSUME NEW t, IsSeq(t), NEW x, NEW s
  PROVE  Count(Cons(x, t), s) = On(x.ip, s) + On(x.dp, s) + Count(t, s)
<1> DEFINE u == Cons(x, t)
           a == <<1, "ip">>
           b == <<1, "dp">>
           R == (Ptrs(u, s) \ {a}) \ {b}
           f == [y \in Ptrs(t, s) |-> <<y[1] + 1, y[2]>>]
<1>1. /\ IsSeq(u) /\ Len(t) \in Nat /\ Len(u) = Len(t) + 1 /\ u[1] = x
      /\ \A k \in 1 .. Len(t) : u[k + 1] = t[k]
  BY OneMore
<1> HIDE DEF u
<1>2. /\ a \in Ptrs(u, s) <=> x.ip = s
      /\ b \in Ptrs(u, s) <=> x.dp = s
      /\ a # b
  BY <1>1 DEF Ptrs
<1>3. ASSUME NEW y \in Ptrs(t, s) PROVE f[y] \in R
  <2>1. y[1] \in 1 .. Len(t) /\ y[2] \in {"ip", "dp"}
    BY <1>3 DEF Ptrs
  <2>2. y[1] + 1 \in 1 .. Len(u) /\ y[1] + 1 # 1 /\ u[y[1] + 1] = t[y[1]]
    BY <2>1, <1>1
  <2>3. <<y[1] + 1, y[2]>> \in Ptrs(u, s)
    BY <2>1, <2>2, <1>3 DEF Ptrs
  <2>4. <<y[1] + 1, y[2]>> # a /\ <<y[1] + 1, y[2]>> # b
    BY <2>2
  <2> QED BY <2>3, <2>4
<1>4. ASSUME NEW y \in Ptrs(t, s), NEW z \in Ptrs(t, s), f[y] = f[z]
      PROVE  y = z
  <2>1. /\ y[1] \in 1 .. Len(t) /\ z[1] \in 1 .. Len(t)
        /\ y = <<y[1], y[2]>> /\ z = <<z[1], z[2]>>
    BY DEF Ptrs
  <2>2. <<y[1] + 1, y[2]>> = <<z[1] + 1, z[2]>>
    BY <1>4
  <2>3. y[1] + 1 = z[1] + 1 /\ y[2] = z[2]
    BY <2>2
  <2>4. y[1] = z[1]
    BY <2>1, <2>3, <1>1
  <2> QED BY <2>1, <2>3, <2>4
<1>5. ASSUME NEW z \in R PROVE \E y \in Ptrs(t, s) : f[y] = z
  <2>1. /\ z[1] \in 1 .. Len(u) /\ z[2] \in {"ip", "dp"} /\ z = <<z[1], z[2]>>
        /\ z # a /\ z # b
    BY <1>5 DEF Ptrs
  <2>2. z[1] # 1
    BY <2>1
  <2>3. /\ z[1] - 1 \in 1 .. Len(t) /\ u[z[1]] = t[z[1] - 1]
        /\ (z[1] - 1) + 1 = z[1]
    BY <2>1, <2>2, <1>1
  <2> DEFINE y == <<z[1] - 1, z[2]>>
  <2>4. y \in Ptrs(t, s)
    BY <2>1, <2>3, <1>5 DEF Ptrs
  <2>5. f[y] = z
    BY <2>1, <2>3, <2>4
  <2> QED BY <2>4, <2>5
<1>6. IsFiniteSet(Ptrs(t, s)) /\ IsFiniteSet(Ptrs(u, s))
      /\ Cardinality(Ptrs(t, s)) \in Nat /\ Cardinality(Ptrs(u, s)) \in Nat
  BY <1>1, PtrsFinite DEF Count
<1>7. Cardinality(R) = Cardinality(Ptrs(t, s))
  <2>1. f \in Bijection(Ptrs(t, s), R)
    <3>1. f \in [Ptrs(t, s) -> R]
      BY <1>3
    <3> HIDE DEF f, R
    <3> QED BY <3>1, <1>4, <1>5 DEF Bijection, Injection, Surjection, IsInjective
  <2> HIDE DEF f, R
  <2>2. ExistsBijection(Ptrs(t, s), R)
    BY <2>1 DEF ExistsBijection
  <2> QED BY <2>2, <1>6, FS_Bijection
<1>8. Cardinality(Ptrs(u, s) \ {a})
        = IF a \in Ptrs(u, s) THEN Cardinality(Ptrs(u, s)) - 1
          ELSE Cardinality(Ptrs(u, s))
  BY <1>6, FS_RemoveElement
<1>9. IsFiniteSet(Ptrs(u, s) \ {a})
  BY <1>6, FS_RemoveElement
<1>10. Cardinality(R)
         = IF b \in Ptrs(u, s) \ {a} THEN Cardinality(Ptrs(u, s) \ {a}) - 1
           ELSE Cardinality(Ptrs(u, s) \ {a})
  BY <1>9, FS_RemoveElement
<1>11. b \in Ptrs(u, s) \ {a} <=> b \in Ptrs(u, s)
  BY <1>2
<1> HIDE DEF a, b, R
<1> QED BY <1>2, <1>6, <1>7, <1>8, <1>10, <1>11 DEF Count, On, u

\* The pointers of a process, with its directory c, its file f, the slot r that
\* was returned and its frames t.
Mine(p, c, f, r, t, s) ==
  {x \in {p} \X {"cwd", "fd", "ret"} :
     \/ x[2] = "cwd" /\ c = s
     \/ x[2] = "fd" /\ f = s
     \/ x[2] = "ret" /\ r = s}
  \cup {x \in {p} \X (DOMAIN t) \X {"ip", "dp"} :
          \/ x[3] = "ip" /\ t[x[2]].ip = s
          \/ x[3] = "dp" /\ t[x[2]].dp = s}

Local(c, f, r, t, s) == On(c, s) + On(f, s) + On(r, s) + Count(t, s)

LEMMA AddOne ==
  ASSUME NEW S, IsFiniteSet(S), NEW x, x \notin S, NEW n \in Nat,
         Cardinality(S) = n, NEW c, NEW s,
         NEW A, c = s => A = S \cup {x}, c # s => A = S
  PROVE  IsFiniteSet(A) /\ Cardinality(A) = On(c, s) + n
<1>1. IsFiniteSet(S \cup {x}) /\ Cardinality(S \cup {x}) = n + 1
  BY FS_AddElement
<1>2. CASE c = s
  BY <1>1, <1>2 DEF On
<1>3. CASE c # s
  BY <1>3 DEF On
<1> QED BY <1>2, <1>3

LEMMA MineCount ==
  ASSUME NEW p, NEW c, NEW f, NEW r, NEW t, NEW s, IsSeq(t)
  PROVE  /\ IsFiniteSet(Mine(p, c, f, r, t, s))
         /\ Cardinality(Mine(p, c, f, r, t, s)) = Local(c, f, r, t, s)
<1> DEFINE F == {x \in {p} \X (DOMAIN t) \X {"ip", "dp"} :
                   \/ x[3] = "ip" /\ t[x[2]].ip = s
                   \/ x[3] = "dp" /\ t[x[2]].dp = s}
           g == [y \in Ptrs(t, s) |-> <<p, y[1], y[2]>>]
           A == IF c = s THEN F \cup {<<p, "cwd">>} ELSE F
           B == IF f = s THEN A \cup {<<p, "fd">>} ELSE A
           C == IF r = s THEN B \cup {<<p, "ret">>} ELSE B
<1>1. DOMAIN t = 1 .. Len(t)
  BY OneMore
<1>2. IsFiniteSet(Ptrs(t, s)) /\ Count(t, s) \in Nat
  BY PtrsFinite
<1>3. \A y \in Ptrs(t, s) : g[y] \in F
  BY <1>1 DEF Ptrs
<1>4. \A y, z \in Ptrs(t, s) : g[y] = g[z] => y = z
  BY DEF Ptrs
<1>5. \A z \in F : \E y \in Ptrs(t, s) : g[y] = z
  <2>1. ASSUME NEW z \in F PROVE \E y \in Ptrs(t, s) : g[y] = z
    <3>1. <<z[2], z[3]>> \in Ptrs(t, s) /\ z = <<p, z[2], z[3]>>
      BY <2>1, <1>1 DEF Ptrs
    <3>2. g[<<z[2], z[3]>>] = z
      BY <3>1
    <3> QED BY <3>1, <3>2
  <2> QED BY <2>1
<1>6. IsFiniteSet(F) /\ Cardinality(F) = Count(t, s)
  <2>1. g \in [Ptrs(t, s) -> F]
    BY <1>3
  <2> HIDE DEF g, F
  <2>2. g \in Bijection(Ptrs(t, s), F)
    BY <2>1, <1>4, <1>5 DEF Bijection, Injection, Surjection, IsInjective
  <2>3. ExistsBijection(Ptrs(t, s), F)
    BY <2>2 DEF ExistsBijection
  <2> QED BY <2>3, <1>2, FS_Bijection DEF Count
<1>7. /\ <<p, "cwd">> \notin F /\ <<p, "fd">> \notin F /\ <<p, "ret">> \notin F
      /\ <<p, "cwd">> # <<p, "fd">> /\ <<p, "cwd">> # <<p, "ret">>
      /\ <<p, "fd">> # <<p, "ret">>
  OBVIOUS
<1>8. C = Mine(p, c, f, r, t, s)
  BY DEF Mine
<1> HIDE DEF F, C
<1>9. (r = s => C = B \cup {<<p, "ret">>}) /\ (r # s => C = B)
  BY Zenon DEF C
<1> HIDE DEF B
<1>10. (f = s => B = A \cup {<<p, "fd">>}) /\ (f # s => B = A)
  BY Zenon DEF B
<1> HIDE DEF A
<1>11. (c = s => A = F \cup {<<p, "cwd">>}) /\ (c # s => A = F)
  BY Zenon DEF A
<1>12. IsFiniteSet(A) /\ Cardinality(A) = On(c, s) + Count(t, s)
  BY <1>6, <1>7, <1>2, <1>11, AddOne
<1>13. <<p, "fd">> \notin A /\ <<p, "ret">> \notin A
  BY <1>7, <1>11
<1>14. IsFiniteSet(B) /\ Cardinality(B) = On(f, s) + (On(c, s) + Count(t, s))
  <2>1. On(c, s) + Count(t, s) \in Nat
    BY <1>2 DEF On
  <2> QED BY <2>1, <1>12, <1>13, <1>10, AddOne
<1>15. <<p, "ret">> \notin B
  BY <1>7, <1>13, <1>10
<1>16. /\ IsFiniteSet(C)
       /\ Cardinality(C) = On(r, s) + (On(f, s) + (On(c, s) + Count(t, s)))
  <2>1. On(f, s) + (On(c, s) + Count(t, s)) \in Nat
    BY <1>2 DEF On
  <2> QED BY <2>1, <1>14, <1>15, <1>9, AddOne
<1>17. On(r, s) + (On(f, s) + (On(c, s) + Count(t, s))) = Local(c, f, r, t, s)
  BY <1>2 DEF Local, On
<1> QED BY <1>8, <1>16, <1>17

\* All pointers, by the processes that have them.
AllPtrs(cw, f, r, td, s) ==
  UNION {Mine(p, cw[p], f[p], r[p], td[p], s) : p \in Proc}

Others(p, cw, f, r, td, s) ==
  UNION {Mine(q, cw[q], f[q], r[q], td[q], s) : q \in Proc \ {p}}

LEMMA PointersAre ==
  ASSUME NEW s PROVE Pointers(s) = AllPtrs(cwd, fd, ret, todo, s)
  BY DEF Pointers, AllPtrs, Mine

LEMMA OthersFinite ==
  ASSUME NEW cw, NEW f, NEW r, NEW td, \A q \in Proc : IsSeq(td[q]),
         NEW p \in Proc, NEW s
  PROVE  IsFiniteSet(Others(p, cw, f, r, td, s))
<1> DEFINE M(q) == Mine(q, cw[q], f[q], r[q], td[q], s)
           Q == Proc \ {p}
           h == [q \in Q |-> M(q)]
           T == {M(q) : q \in Q}
<1>1. IsFiniteSet(T) /\ \A X \in T : IsFiniteSet(X)
  <2>1. IsFiniteSet(Q)
    BY FS_RemoveElement, FsAssumption
  <2>2. h \in Surjection(Q, T)
    BY DEF Surjection
  <2>3. \A q \in Proc : IsFiniteSet(M(q))
    BY MineCount
  <2> HIDE DEF h, M
  <2> QED BY <2>1, <2>2, <2>3, FS_Surjection
<1>2. IsFiniteSet(UNION T)
  BY <1>1, FS_UNION
<1> QED BY <1>2 DEF Others

LEMMA PtrCount ==
  ASSUME NEW cw, NEW f, NEW r, NEW td, \A q \in Proc : IsSeq(td[q]),
         NEW p \in Proc, NEW s
  PROVE  /\ Cardinality(Others(p, cw, f, r, td, s)) \in Nat
         /\ Cardinality(AllPtrs(cw, f, r, td, s))
              = Cardinality(Others(p, cw, f, r, td, s))
                + Local(cw[p], f[p], r[p], td[p], s)
<1> DEFINE M(q) == Mine(q, cw[q], f[q], r[q], td[q], s)
           O == UNION {M(q) : q \in Proc \ {p}}
<1>1. O = Others(p, cw, f, r, td, s)
  BY DEF Others
<1>2. IsFiniteSet(O) /\ O = Others(p, cw, f, r, td, s)
  <2>1. IsFiniteSet(Others(p, cw, f, r, td, s))
    BY OthersFinite
  <2> HIDE DEF O
  <2> QED BY <1>1, <2>1
<1>3. \A q \in Proc : \A x \in M(q) : x[1] = q
  BY DEF Mine
<1>4. O \cap M(p) = {}
  BY <1>3
<1>5. AllPtrs(cw, f, r, td, s) = O \cup M(p)
  BY DEF AllPtrs
<1>6. IsFiniteSet(M(p)) /\ Cardinality(M(p)) = Local(cw[p], f[p], r[p], td[p], s)
  BY MineCount
<1> HIDE DEF O, M
<1>7. Cardinality(O \cup M(p)) = Cardinality(O) + Cardinality(M(p))
  <2>1. Cardinality(O \cup M(p))
          = Cardinality(O) + Cardinality(M(p)) - Cardinality(O \cap M(p))
    BY <1>2, <1>6, FS_Union
  <2>2. Cardinality(O) \in Nat /\ Cardinality(M(p)) \in Nat
    BY <1>2, <1>6, FS_CardinalityType
  <2>3. Cardinality(O \cap M(p)) = 0
    BY <1>4, FS_EmptySet
  <2> QED BY <2>1, <2>2, <2>3
<1>8. Cardinality(O) \in Nat
  BY <1>2, FS_CardinalityType
<1> QED BY <1>2, <1>5, <1>6, <1>7, <1>8

-----------------------------------------------------------------------------
(* One process does a step                                                 *)

\* A process has no more pointers to an entry than the entry has references.
LEMMA RefsLocal ==
  ASSUME IInv, NEW p \in Proc, NEW s \in Slot
  PROVE  /\ inode[s].ref \in Nat
         /\ Local(cwd[p], fd[p], ret[p], todo[p], s) \in Nat
         /\ inode[s].ref >= Local(cwd[p], fd[p], ret[p], todo[p], s)
         /\ cwd[p] = s \/ fd[p] = s \/ ret[p] = s => inode[s].ref > 0
<1>1. \A q \in Proc : IsSeq(todo[q])
  BY DEF IInv, FrameInv, Good
<1>2. Count(todo[p], s) \in Nat
  BY <1>1, PtrsFinite
<1>3. inode[s].ref = Cardinality(Pointers(s)) /\ inode[s].ref \in Nat
  BY DEF IInv, RefsCounted, CacheOK, IsEntry
<1>4. /\ Cardinality(Others(p, cwd, fd, ret, todo, s)) \in Nat
      /\ Cardinality(AllPtrs(cwd, fd, ret, todo, s))
           = Cardinality(Others(p, cwd, fd, ret, todo, s))
             + Local(cwd[p], fd[p], ret[p], todo[p], s)
  BY <1>1, PtrCount
<1>5. Cardinality(Pointers(s)) = Cardinality(AllPtrs(cwd, fd, ret, todo, s))
  BY PointersAre
<1>6. /\ Local(cwd[p], fd[p], ret[p], todo[p], s) \in Nat
      /\ cwd[p] = s \/ fd[p] = s \/ ret[p] = s =>
           Local(cwd[p], fd[p], ret[p], todo[p], s) > 0
  BY <1>2 DEF Local, On
<1> QED BY <1>3, <1>4, <1>5, <1>6

\* The cache n has the references of process p as it would be with c, f, r, t.
Moved(p, c, f, r, t, n) ==
  \A s \in Slot :
    n[s].ref = inode[s].ref + Local(c, f, r, t, s)
               - Local(cwd[p], fd[p], ret[p], todo[p], s)

LEMMA Step ==
  ASSUME IInv, NEW p \in Proc,
         NEW c \in SlotOrNone, NEW f \in SlotOrNone, NEW r \in SlotOrNone,
         NEW t, Good(t, c), r # None => Kept(t),
         cwd' = [cwd EXCEPT ![p] = c], fd' = [fd EXCEPT ![p] = f],
         ret' = [ret EXCEPT ![p] = r], todo' = [todo EXCEPT ![p] = t],
         CacheOK(inode)', Moved(p, c, f, r, t, inode')
  PROVE  IInv'
<1>1. /\ cwd'[p] = c /\ fd'[p] = f /\ ret'[p] = r /\ todo'[p] = t
      /\ \A q \in Proc \ {p} : /\ cwd'[q] = cwd[q] /\ fd'[q] = fd[q]
                               /\ ret'[q] = ret[q] /\ todo'[q] = todo[q]
  BY DEF IInv, TypeInv
<1>2. TypeInv'
  BY DEF IInv, TypeInv
<1>3. FrameInv'
  <2>1. ASSUME NEW q \in Proc
        PROVE  Good(todo'[q], cwd'[q]) /\ (ret'[q] # None => Kept(todo'[q]))
    <3>1. CASE q = p
      BY <3>1, <1>1
    <3>2. CASE q # p
      BY <3>2, <1>1 DEF IInv, FrameInv
    <3> QED BY <3>1, <3>2
  <2> QED BY <2>1 DEF FrameInv
<1>4. RefsCounted'
  <2>1. ASSUME NEW s \in Slot
        PROVE  inode'[s].ref = Cardinality(AllPtrs(cwd', fd', ret', todo', s))
    <3>1. /\ \A q \in Proc : IsSeq(todo[q])
          /\ \A q \in Proc : IsSeq(todo'[q])
      BY <1>3 DEF IInv, FrameInv, Good
    <3>2. Others(p, cwd', fd', ret', todo', s) = Others(p, cwd, fd, ret, todo, s)
      BY <1>1 DEF Others
    <3>3. inode[s].ref = Cardinality(AllPtrs(cwd, fd, ret, todo, s))
      BY PointersAre DEF IInv, RefsCounted
    <3>4. /\ Cardinality(Others(p, cwd, fd, ret, todo, s)) \in Nat
          /\ Cardinality(AllPtrs(cwd, fd, ret, todo, s))
               = Cardinality(Others(p, cwd, fd, ret, todo, s))
                 + Local(cwd[p], fd[p], ret[p], todo[p], s)
      BY <3>1, PtrCount
    <3>5. Cardinality(AllPtrs(cwd', fd', ret', todo', s))
            = Cardinality(Others(p, cwd', fd', ret', todo', s))
              + Local(cwd'[p], fd'[p], ret'[p], todo'[p], s)
      <4> DEFINE cw == cwd'
                 fl == fd'
                 rt == ret'
                 td == todo'
      <4>1. \A q \in Proc : IsSeq(td[q])
        BY <3>1
      <4> HIDE DEF cw, fl, rt, td
      <4>2. Cardinality(AllPtrs(cw, fl, rt, td, s))
              = Cardinality(Others(p, cw, fl, rt, td, s))
                + Local(cw[p], fl[p], rt[p], td[p], s)
        BY <4>1, PtrCount
      <4> QED BY <4>2 DEF cw, fl, rt, td
    <3>6. Local(cwd[p], fd[p], ret[p], todo[p], s) \in Nat
      BY RefsLocal
    <3>7. Local(c, f, r, t, s) \in Nat
      <4>1. Count(t, s) \in Nat
        BY PtrsFinite DEF Good
      <4> QED BY <4>1 DEF Local, On
    <3> QED BY <3>2, <3>3, <3>4, <3>5, <3>6, <3>7, <1>1 DEF Moved
  <2>2. \A s \in Slot : Pointers(s)' = AllPtrs(cwd', fd', ret', todo', s)
    BY DEF Pointers, AllPtrs, Mine
  <2> QED BY <2>1, <2>2 DEF RefsCounted
<1> QED BY <1>2, <1>3, <1>4 DEF IInv

\* The frame that a process is at, and those behind it.
LEMMA Split ==
  ASSUME IInv, NEW p \in Proc, todo[p] # <<>>
  PROVE  LET h == Head(todo[p])
             T == Tail(todo[p]) IN
         /\ IsSeq(T) /\ Good(T, cwd[p]) /\ FrameOK(h, cwd[p])
         /\ h.op \in Givers => Taken(T) /\ Kept(T)
         /\ \A s : /\ Count(T, s) \in Nat
                   /\ Count(todo[p], s) = On(h.ip, s) + On(h.dp, s) + Count(T, s)
         /\ ret[p] # None => h.op \in Takers \/ (h.op \in Puts /\ Kept(T))
         /\ cwd[p] \in SlotOrNone /\ fd[p] \in SlotOrNone /\ ret[p] \in SlotOrNone
<1> DEFINE h == Head(todo[p])
           T == Tail(todo[p])
<1>1. /\ Good(todo[p], cwd[p]) /\ IsSeq(todo[p])
      /\ ret[p] # None => Kept(todo[p])
      /\ cwd[p] \in SlotOrNone /\ fd[p] \in SlotOrNone /\ ret[p] \in SlotOrNone
  BY DEF IInv, FrameInv, Good, TypeInv
<1>2. IsSeq(T) /\ todo[p] = Cons(h, T)
  BY <1>1, Uncons
<1> HIDE DEF h, T
<1>3. Good(T, cwd[p]) /\ FrameOK(h, cwd[p]) /\ (h.op \in Givers => Taken(T))
  BY <1>1, <1>2, GoodCons
<1>4. Taken(T) => Kept(T)
  BY <1>2, TakenIsKept
<1>5. ret[p] # None => h.op \in Takers \/ (h.op \in Puts /\ Kept(T))
  BY <1>1, <1>2, KeptCons
<1>6. \A s : /\ Count(T, s) \in Nat
             /\ Count(todo[p], s) = On(h.ip, s) + On(h.dp, s) + Count(T, s)
  BY <1>2, CountCons, PtrsFinite
<1> QED BY <1>1, <1>2, <1>3, <1>4, <1>5, <1>6 DEF h, T

\* One, two or three frames in front of a good list.
LEMMA Push1 ==
  ASSUME NEW c, NEW T, Good(T, c), NEW x, FrameOK(x, c),
         x.op \in Givers => Taken(T)
  PROVE  /\ Good(<<x>> \o T, c) /\ (Taken(<<x>> \o T) <=> x.op \in Takers)
         /\ Kept(<<x>> \o T) <=> x.op \in Takers \/ (x.op \in Puts /\ Kept(T))
         /\ \A s : Count(<<x>> \o T, s) = On(x.ip, s) + On(x.dp, s) + Count(T, s)
<1>1. IsSeq(T)
  BY DEF Good
<1>2. Cons(x, T) = <<x>> \o T
  BY DEF Cons
<1>3. /\ Good(Cons(x, T), c) /\ (Taken(Cons(x, T)) <=> x.op \in Takers)
      /\ Kept(Cons(x, T)) <=> x.op \in Takers \/ (x.op \in Puts /\ Kept(T))
      /\ \A s : Count(Cons(x, T), s) = On(x.ip, s) + On(x.dp, s) + Count(T, s)
  BY <1>1, GoodCons, TakenCons, KeptCons, CountCons
<1> QED BY <1>2, <1>3, Zenon

LEMMA Push2 ==
  ASSUME NEW c, NEW T, Good(T, c), NEW x, FrameOK(x, c), NEW y, FrameOK(y, c),
         y.op \in Givers => Taken(T), x.op \in Givers => y.op \in Takers
  PROVE  /\ Good(<<x, y>> \o T, c)
         /\ Kept(<<x, y>> \o T) <=>
              \/ x.op \in Takers
              \/ x.op \in Puts /\ (y.op \in Takers \/ (y.op \in Puts /\ Kept(T)))
         /\ \A s : Count(<<x, y>> \o T, s)
                     = On(x.ip, s) + On(x.dp, s)
                       + (On(y.ip, s) + On(y.dp, s) + Count(T, s))
<1> DEFINE U == <<y>> \o T
<1>1. /\ Good(U, c) /\ (Taken(U) <=> y.op \in Takers)
      /\ Kept(U) <=> y.op \in Takers \/ (y.op \in Puts /\ Kept(T))
      /\ \A s : Count(U, s) = On(y.ip, s) + On(y.dp, s) + Count(T, s)
  BY Push1
<1>2. <<x, y>> \o T = <<x>> \o U
  <2>1. IsSeq(T)
    BY DEF Good
  <2>2. <<x, y>> \o T = Cons(x, Cons(y, T))
    BY <2>1, PushTwo
  <2> QED BY <2>2, Zenon DEF Cons
<1> HIDE DEF U
<1>3. /\ Good(<<x>> \o U, c)
      /\ Kept(<<x>> \o U) <=> x.op \in Takers \/ (x.op \in Puts /\ Kept(U))
      /\ \A s : Count(<<x>> \o U, s) = On(x.ip, s) + On(x.dp, s) + Count(U, s)
  BY <1>1, Push1
<1>4. \A s : Count(<<x, y>> \o T, s)
               = On(x.ip, s) + On(x.dp, s)
                 + (On(y.ip, s) + On(y.dp, s) + Count(T, s))
  BY <1>1, <1>2, <1>3, Zenon
<1> QED BY <1>1, <1>2, <1>3, <1>4, Zenon

LEMMA Push3 ==
  ASSUME NEW c, NEW T, Good(T, c), NEW x, FrameOK(x, c), NEW y, FrameOK(y, c),
         NEW z, FrameOK(z, c), z.op \in Givers => Taken(T),
         y.op \in Givers => z.op \in Takers, x.op \in Givers => y.op \in Takers
  PROVE  /\ Good(<<x, y, z>> \o T, c)
         /\ \A s : Count(<<x, y, z>> \o T, s)
                     = On(x.ip, s) + On(x.dp, s)
                       + (On(y.ip, s) + On(y.dp, s)
                          + (On(z.ip, s) + On(z.dp, s) + Count(T, s)))
<1> DEFINE U == <<z>> \o T
<1>1. /\ Good(U, c) /\ (Taken(U) <=> z.op \in Takers)
      /\ \A s : Count(U, s) = On(z.ip, s) + On(z.dp, s) + Count(T, s)
  BY Push1
<1>2. <<x, y, z>> \o T = <<x, y>> \o U
  <2>1. IsSeq(T) /\ IsSeq(U)
    BY <1>1 DEF Good
  <2>2. <<x, y, z>> \o T = Cons(x, Cons(y, Cons(z, T)))
    BY <2>1, PushThree
  <2>3. <<x, y>> \o U = Cons(x, Cons(y, U))
    BY <2>1, PushTwo
  <2> QED BY <2>2, <2>3, Zenon DEF Cons
<1> HIDE DEF U
<1>3. /\ Good(<<x, y>> \o U, c)
      /\ \A s : Count(<<x, y>> \o U, s)
                  = On(x.ip, s) + On(x.dp, s)
                    + (On(y.ip, s) + On(y.dp, s) + Count(U, s))
  BY <1>1, Push2
<1> QED BY <1>1, <1>2, <1>3, Zenon

LEMMA Push0 ==
  ASSUME NEW c, NEW T, Good(T, c)
  PROVE  <<>> \o T = T
  BY PushNone DEF Good

-----------------------------------------------------------------------------
(* The inode cache                                                         *)

LEMMA LeastOf ==
  ASSUME NEW S \in SUBSET Nat, S # {}
  PROVE  \E x \in S : \A y \in S : x <= y
<1>1. \E x \in S : \A y \in S : ~ (<<y, x>> \in OpToRel(<, Nat))
  BY NatLessThanWellFounded, WFMin
<1>2. \A x, y \in S : y < x => <<y, x>> \in OpToRel(<, Nat)
  BY DEF OpToRel
<1>3. \E x \in S : \A y \in S : ~ (y < x)
  BY <1>1, <1>2, Zenon
<1> QED BY <1>3

\* Entries after a change of one field.
LEMMA EntryExcept ==
  ASSUME NEW e, IsEntry(e), NEW v
  PROVE  /\ IsEntry([e EXCEPT !.valid = v]) /\ IsEntry([e EXCEPT !.type = v])
         /\ IsEntry([e EXCEPT !.nlink = v])
         /\ v \in Nat => IsEntry([e EXCEPT !.ref = v])
         /\ v \in Inum => IsEntry([e EXCEPT !.inum = v])
  BY DEF IsEntry

LEMMA EntryNotCached == IsEntry(NotCached) /\ NotCached.ref = 0
  BY Nones DEF NotCached, IsEntry

\* A cache with the references of this one.
SameRefs(tab) ==
  /\ CacheOK(tab)
  /\ \A s \in Slot : tab[s].ref = inode[s].ref /\ tab[s].inum = inode[s].inum

LEMMA SameRefsIs ==
  ASSUME CacheOK(inode), NEW tab, SameRefs(tab), NEW s \in Slot, NEW e,
         IsEntry(e), e.ref = inode[s].ref, e.inum = inode[s].inum
  PROVE  SameRefs([tab EXCEPT ![s] = e])
<1> DEFINE n == [tab EXCEPT ![s] = e]
<1>1. /\ DOMAIN n = Slot /\ n = [x \in Slot |-> n[x]]
      /\ n[s] = e /\ \A x \in Slot \ {s} : n[x] = tab[x]
  BY DEF SameRefs, CacheOK
<1> HIDE DEF n
<1>2. \A x \in Slot : /\ IsEntry(n[x]) /\ n[x].ref = inode[x].ref
                      /\ n[x].inum = inode[x].inum
  BY <1>1 DEF SameRefs, CacheOK
<1>3. OneEntry(n)
  BY <1>2 DEF OneEntry, CacheOK
<1>4. SameRefs(n)
  BY <1>1, <1>2, <1>3 DEF SameRefs, CacheOK
<1> QED BY <1>4 DEF n

LEMMA SameInode ==
  ASSUME CacheOK(inode) PROVE SameRefs(inode)
  BY DEF SameRefs

\* ilock() and changes of the link count or the type leave the references.
LEMMA SameIlocked ==
  ASSUME CacheOK(inode), NEW s \in Slot
  PROVE  SameRefs(Ilocked(s))
<1>1. /\ IsEntry(Loaded(s)) /\ Loaded(s).ref = inode[s].ref
      /\ Loaded(s).inum = inode[s].inum
  <2>1. IsEntry(inode[s])
    BY DEF CacheOK
  <2> QED BY <2>1 DEF Loaded, IsEntry
<1>2. SameRefs([inode EXCEPT ![s] = Loaded(s)])
  BY <1>1, SameInode, SameRefsIs
<1> QED BY <1>2 DEF Ilocked

LEMMA SameNlink ==
  ASSUME CacheOK(inode), NEW tab, SameRefs(tab), NEW s \in Slot, NEW k
  PROVE  SameRefs(Nlink(tab, s, k)) /\ SameRefs([tab EXCEPT ![s].nlink = k])
<1>1. /\ IsEntry(tab[s]) /\ tab[s].ref = inode[s].ref
      /\ tab[s].inum = inode[s].inum
  BY DEF SameRefs, CacheOK
<1> DEFINE e == [tab[s] EXCEPT !.nlink = @ + k]
           g == [tab[s] EXCEPT !.nlink = k]
<1>2. /\ IsEntry(e) /\ e.ref = inode[s].ref /\ e.inum = inode[s].inum
      /\ IsEntry(g) /\ g.ref = inode[s].ref /\ g.inum = inode[s].inum
  BY <1>1 DEF IsEntry
<1>3. /\ Nlink(tab, s, k) = [tab EXCEPT ![s] = e]
      /\ [tab EXCEPT ![s].nlink = k] = [tab EXCEPT ![s] = g]
  BY DEF Nlink
<1> HIDE DEF e, g
<1>4. SameRefs([tab EXCEPT ![s] = e]) /\ SameRefs([tab EXCEPT ![s] = g])
  BY <1>2, SameRefsIs
<1> QED BY <1>3, <1>4

LEMMA SameFreed ==
  ASSUME CacheOK(inode), NEW s \in Slot
  PROVE  SameRefs(Freed(s))
<1> DEFINE e == [inode[s] EXCEPT !.type = "free", !.valid = FALSE]
<1>1. IsEntry(inode[s]) /\ DOMAIN inode = Slot
  BY DEF CacheOK
<1>2. e.ref = inode[s].ref /\ e.inum = inode[s].inum
  BY <1>1 DEF IsEntry
<1>3. IsEntry([inode[s] EXCEPT !.type = "free"])
  BY <1>1, EntryExcept
<1>4. IsEntry(e)
  <2>1. IsEntry([[inode[s] EXCEPT !.type = "free"] EXCEPT !.valid = FALSE])
    BY <1>3, EntryExcept
  <2> QED BY <2>1
<1>5. Freed(s) = [inode EXCEPT ![s] = e]
  BY <1>1 DEF Freed
<1> HIDE DEF e
<1>6. SameRefs([inode EXCEPT ![s] = e])
  BY <1>2, <1>4, SameInode, SameRefsIs
<1> QED BY <1>5, <1>6

\* iget() finds the entry of an inode or a free one, where it does not panic.
LEMMA IgetIs ==
  ASSUME CacheOK(inode), NEW i \in Inum, ~NoEntry(i)
  PROVE  /\ Iget(i) \in Slot
         /\ Cached(i) # {} => Iget(i) \in Cached(i)
         /\ Cached(i) = {} => inode[Iget(i)].ref = 0
<1>1. CASE Cached(i) # {}
  BY <1>1 DEF Iget, Cached
<1>2. CASE Cached(i) = {}
  <2> DEFINE Z == {s \in Slot : inode[s].ref = 0}
  <2>1. Z # {}
    BY <1>2 DEF NoEntry, CacheOK, IsEntry
  <2>2. PICK s \in Z : \A t \in Z : s <= t
    <3>1. Z \in SUBSET Nat
      BY DEF Slot
    <3> HIDE DEF Z
    <3> QED BY <3>1, <2>1, LeastOf
  <2>3. \A t \in 1 .. s - 1 : inode[t].ref > 0
    BY <2>2, Nones DEF Slot, CacheOK, IsEntry
  <2>4. \E x \in Slot : inode[x].ref = 0 /\ \A t \in 1 .. x - 1 : inode[t].ref > 0
    BY <2>2, <2>3
  <2> QED BY <2>4, <1>2 DEF Iget
<1> QED BY <1>1, <1>2

\* iget() adds one reference.
LEMMA Got ==
  ASSUME CacheOK(inode), NEW tab, SameRefs(tab), NEW i \in Inum, ~NoEntry(i)
  PROVE  /\ Iget(i) \in Slot
         /\ CacheOK(Referenced(tab, i))
         /\ \A s \in Slot :
              Referenced(tab, i)[s].ref = inode[s].ref + On(Iget(i), s)
<1> DEFINE g == Iget(i)
           n == Referenced(tab, i)
<1>1. /\ g \in Slot /\ (Cached(i) # {} => g \in Cached(i))
      /\ Cached(i) = {} => inode[g].ref = 0
  BY IgetIs
<1>2. /\ DOMAIN tab = Slot /\ tab = [s \in Slot |-> tab[s]]
      /\ \A s \in Slot : /\ IsEntry(tab[s]) /\ tab[s].ref = inode[s].ref
                         /\ tab[s].inum = inode[s].inum
      /\ OneEntry(tab)
  BY DEF SameRefs, CacheOK
<1>3. CASE Cached(i) # {}
  <2> DEFINE e == [tab[g] EXCEPT !.ref = @ + 1]
  <2>1. n = [tab EXCEPT ![g] = e]
    BY <1>3 DEF Referenced
  <2>2. /\ IsEntry(e) /\ e.ref = inode[g].ref + 1 /\ e.inum = inode[g].inum
        /\ inode[g].ref > 0 /\ inode[g].inum = i
    BY <1>1, <1>2, <1>3 DEF IsEntry, Cached
  <2> HIDE DEF e, n, g
  <2>3. /\ DOMAIN n = Slot /\ n = [s \in Slot |-> n[s]]
        /\ n[g] = e /\ \A s \in Slot \ {g} : n[s] = tab[s]
    BY <2>1, <1>1, <1>2
  <2>4. /\ \A s \in Slot : IsEntry(n[s]) /\ n[s].ref = inode[s].ref + On(g, s)
        /\ \A s \in Slot : n[s].inum = inode[s].inum
        /\ \A s \in Slot : n[s].ref > 0 <=> inode[s].ref > 0
    <3>1. \A s \in Slot : inode[s].ref \in Nat
      BY DEF CacheOK, IsEntry
    <3> QED BY <3>1, <2>2, <2>3, <1>2 DEF On
  <2>5. OneEntry(n)
    BY <2>4 DEF OneEntry, CacheOK
  <2> QED BY <2>3, <2>4, <2>5, <1>1 DEF n, g, CacheOK
<1>4. CASE Cached(i) = {}
  <2> DEFINE e == [NotCached EXCEPT !.inum = i, !.ref = 1]
  <2>1. n = [tab EXCEPT ![g] = e]
    BY <1>4 DEF Referenced
  <2>2. IsEntry(e) /\ e.ref = 1 /\ e.inum = i
    <3>1. e.ref = 1 /\ e.inum = i
      BY DEF NotCached
    <3>2. IsEntry([NotCached EXCEPT !.inum = i])
      BY EntryNotCached, EntryExcept
    <3>3. IsEntry([[NotCached EXCEPT !.inum = i] EXCEPT !.ref = 1])
      BY <3>2, EntryExcept
    <3> QED BY <3>1, <3>3
  <2> HIDE DEF e, n, g
  <2>3. /\ DOMAIN n = Slot /\ n = [s \in Slot |-> n[s]]
        /\ n[g] = e /\ \A s \in Slot \ {g} : n[s] = tab[s]
    BY <2>1, <1>1, <1>2
  <2>4. \A s \in Slot : IsEntry(n[s]) /\ n[s].ref = inode[s].ref + On(g, s)
    <3>1. \A s \in Slot : inode[s].ref \in Nat
      BY DEF CacheOK, IsEntry
    <3> QED BY <3>1, <2>2, <2>3, <1>1, <1>2, <1>4 DEF On
  <2>5. \A s \in Slot \ {g} : n[s].ref > 0 => n[s].inum # i
    BY <2>3, <1>2, <1>4 DEF Cached
  <2>6. OneEntry(n)
    <3>1. ASSUME NEW s \in Slot, NEW t \in Slot, n[s].ref > 0, n[t].ref > 0,
                 n[s].inum = n[t].inum
          PROVE  s = t
      <4>1. CASE s = g \/ t = g
        BY <4>1, <3>1, <2>2, <2>3, <2>5
      <4>2. CASE s # g /\ t # g
        BY <4>2, <3>1, <2>3, <1>2 DEF OneEntry
      <4> QED BY <4>1, <4>2
    <3> QED BY <3>1 DEF OneEntry
  <2> QED BY <2>3, <2>4, <2>6, <1>1 DEF n, g, CacheOK
<1> QED BY <1>3, <1>4

\* idup()
LEMMA Duped ==
  ASSUME CacheOK(inode), NEW c \in Slot, inode[c].ref > 0, NEW n,
         n = [inode EXCEPT ![c].ref = @ + 1]
  PROVE  CacheOK(n) /\ \A s \in Slot : n[s].ref = inode[s].ref + On(c, s)
<1> DEFINE e == [inode[c] EXCEPT !.ref = @ + 1]
<1>1. /\ DOMAIN inode = Slot /\ inode = [s \in Slot |-> inode[s]]
      /\ \A s \in Slot : IsEntry(inode[s]) /\ inode[s].ref \in Nat
  BY DEF CacheOK, IsEntry
<1>2. n = [inode EXCEPT ![c] = e]
  OBVIOUS
<1>3. IsEntry(e) /\ e.ref = inode[c].ref + 1 /\ e.inum = inode[c].inum
  BY <1>1 DEF IsEntry
<1> HIDE DEF e
<1>4. /\ DOMAIN n = Slot /\ n = [s \in Slot |-> n[s]]
      /\ n[c] = e /\ \A s \in Slot \ {c} : n[s] = inode[s]
  BY <1>1, <1>2
<1>5. \A s \in Slot : /\ IsEntry(n[s]) /\ n[s].ref = inode[s].ref + On(c, s)
                      /\ n[s].inum = inode[s].inum
                      /\ n[s].ref > 0 => inode[s].ref > 0
  BY <1>1, <1>3, <1>4 DEF On
<1>6. OneEntry(n)
  BY <1>5 DEF OneEntry, CacheOK
<1> QED BY <1>4, <1>5, <1>6 DEF CacheOK

\* The last line of iput()
LEMMA DropOne ==
  ASSUME CacheOK(inode), NEW c \in Slot, inode[c].ref > 0, NEW n,
         n = [inode EXCEPT ![c] = Dropped(@)]
  PROVE  CacheOK(n) /\ \A s \in Slot : n[s].ref = inode[s].ref - On(c, s)
<1> DEFINE e == Dropped(inode[c])
<1>1. /\ DOMAIN inode = Slot /\ inode = [s \in Slot |-> inode[s]]
      /\ \A s \in Slot : IsEntry(inode[s]) /\ inode[s].ref \in Nat
  BY DEF CacheOK, IsEntry
<1>2. n = [inode EXCEPT ![c] = e]
  BY <1>1
<1>3. /\ IsEntry(e) /\ e.ref = inode[c].ref - 1
      /\ e.ref > 0 => e.inum = inode[c].inum
  <2>1. CASE inode[c].ref = 1
    <3>1. e = NotCached
      BY <2>1 DEF Dropped
    <3> QED BY <3>1, <2>1, EntryNotCached
  <2>2. CASE inode[c].ref # 1
    <3>1. e = [inode[c] EXCEPT !.ref = @ - 1]
      BY <2>2 DEF Dropped
    <3>2. IsEntry(inode[c]) /\ inode[c].ref - 1 \in Nat
      BY <1>1
    <3> QED BY <3>1, <3>2 DEF IsEntry
  <2> QED BY <2>1, <2>2
<1> HIDE DEF e
<1>4. /\ DOMAIN n = Slot /\ n = [s \in Slot |-> n[s]]
      /\ n[c] = e /\ \A s \in Slot \ {c} : n[s] = inode[s]
  BY <1>1, <1>2
<1>5. ASSUME NEW s \in Slot
      PROVE  /\ IsEntry(n[s]) /\ n[s].ref = inode[s].ref - On(c, s)
             /\ n[s].ref > 0 => n[s].inum = inode[s].inum /\ inode[s].ref > 0
  <2>1. CASE s = c
    BY <2>1, <1>3, <1>4 DEF On
  <2>2. CASE s # c
    BY <2>2, <1>1, <1>4 DEF On
  <2> QED BY <2>1, <2>2
<1>6. OneEntry(n)
  BY <1>5 DEF OneEntry, CacheOK
<1> QED BY <1>4, <1>5, <1>6 DEF CacheOK

-----------------------------------------------------------------------------
(* Steps of a call that leave the current directory and the open file      *)

\* A variable of a process that stays as it is.
LEMMA Stays ==
  ASSUME IInv, NEW p \in Proc
  PROVE  /\ ret = [ret EXCEPT ![p] = ret[p]] /\ cwd = [cwd EXCEPT ![p] = cwd[p]]
         /\ fd = [fd EXCEPT ![p] = fd[p]] /\ todo = [todo EXCEPT ![p] = todo[p]]
         /\ cwd[p] \in SlotOrNone /\ fd[p] \in SlotOrNone /\ ret[p] \in SlotOrNone
         /\ CacheOK(inode)
  BY DEF IInv, TypeInv

\* The cache n has the references of process p when its first frame is replaced
\* by those that make the list t, or by x, y and z, and r is returned.
Goes(p, r, t, n) ==
  \A s \in Slot :
    n[s].ref = inode[s].ref + (On(r, s) - On(ret[p], s))
               + (Count(t, s) - Count(Tail(todo[p]), s))
               - On(Head(todo[p]).ip, s) - On(Head(todo[p]).dp, s)

Goes0(p, r, n) ==
  \A s \in Slot :
    n[s].ref = inode[s].ref + (On(r, s) - On(ret[p], s))
               - On(Head(todo[p]).ip, s) - On(Head(todo[p]).dp, s)

Goes1(p, x, r, n) ==
  \A s \in Slot :
    n[s].ref = inode[s].ref + (On(r, s) - On(ret[p], s))
               + (On(x.ip, s) + On(x.dp, s))
               - On(Head(todo[p]).ip, s) - On(Head(todo[p]).dp, s)

Goes2(p, x, y, r, n) ==
  \A s \in Slot :
    n[s].ref = inode[s].ref + (On(r, s) - On(ret[p], s))
               + (On(x.ip, s) + On(x.dp, s) + (On(y.ip, s) + On(y.dp, s)))
               - On(Head(todo[p]).ip, s) - On(Head(todo[p]).dp, s)

Goes3(p, x, y, z, n) ==
  \A s \in Slot :
    n[s].ref = inode[s].ref + (On(None, s) - On(ret[p], s))
               + (On(x.ip, s) + On(x.dp, s) + (On(y.ip, s) + On(y.dp, s))
                  + (On(z.ip, s) + On(z.dp, s)))
               - On(Head(todo[p]).ip, s) - On(Head(todo[p]).dp, s)

LEMMA Act ==
  ASSUME IInv, NEW p \in Proc, todo[p] # <<>>,
         NEW r \in SlotOrNone, NEW t, Good(t, cwd[p]), r # None => Kept(t),
         UNCHANGED <<cwd, fd>>, ret' = [ret EXCEPT ![p] = r],
         todo' = [todo EXCEPT ![p] = t], CacheOK(inode)',
         Goes(p, r, t, inode')
  PROVE  IInv'
<1> DEFINE h == Head(todo[p])
           T == Tail(todo[p])
<1>1. \A s : /\ Count(T, s) \in Nat
             /\ Count(todo[p], s) = On(h.ip, s) + On(h.dp, s) + Count(T, s)
  BY Split
<1>2. \A s : Count(t, s) \in Nat
  BY PtrsFinite DEF Good
<1>3. \A s \in Slot : inode[s].ref \in Nat
  BY DEF IInv, CacheOK, IsEntry
<1>4. /\ cwd' = [cwd EXCEPT ![p] = cwd[p]] /\ fd' = [fd EXCEPT ![p] = fd[p]]
      /\ cwd[p] \in SlotOrNone /\ fd[p] \in SlotOrNone
  BY Stays
<1>5. ASSUME NEW s \in Slot
      PROVE  inode'[s].ref = inode[s].ref + Local(cwd[p], fd[p], r, t, s)
                             - Local(cwd[p], fd[p], ret[p], todo[p], s)
  <2>1. inode'[s].ref = inode[s].ref + (On(r, s) - On(ret[p], s))
                        + (Count(t, s) - Count(T, s))
                        - On(h.ip, s) - On(h.dp, s)
    BY DEF Goes
  <2>2. /\ On(r, s) \in Nat /\ On(ret[p], s) \in Nat /\ On(h.ip, s) \in Nat
        /\ On(h.dp, s) \in Nat /\ On(cwd[p], s) \in Nat /\ On(fd[p], s) \in Nat
    BY DEF On
  <2>3. /\ Count(T, s) \in Nat /\ Count(t, s) \in Nat /\ inode[s].ref \in Nat
        /\ Count(todo[p], s) = On(h.ip, s) + On(h.dp, s) + Count(T, s)
    BY <1>1, <1>2, <1>3
  <2> DEFINE n == inode[s].ref
             c == On(cwd[p], s)
             f == On(fd[p], s)
             v == On(r, s)
             w == On(ret[p], s)
             a == On(h.ip, s)
             b == On(h.dp, s)
             k == Count(t, s)
             m == Count(T, s)
  <2>4. /\ Local(cwd[p], fd[p], r, t, s) = c + f + v + k
        /\ Local(cwd[p], fd[p], ret[p], todo[p], s) = c + f + w + (a + b + m)
    BY <2>3, Zenon DEF Local
  <2>5. /\ n \in Int /\ c \in Int /\ f \in Int /\ v \in Int /\ w \in Int
        /\ a \in Int /\ b \in Int /\ k \in Int /\ m \in Int
    BY <2>2, <2>3
  <2>6. n + (v - w) + (k - m) - a - b
          = n + (c + f + v + k) - (c + f + w + (a + b + m))
    <3> HIDE DEF n, c, f, v, w, a, b, k, m
    <3> QED BY <2>5
  <2> QED BY <2>1, <2>4, <2>6, Zenon
<1>6. Moved(p, cwd[p], fd[p], r, t, inode')
  BY <1>5 DEF Moved
<1> QED BY <1>4, <1>6, Step

\* The frame returns.
LEMMA Act0 ==
  ASSUME IInv, NEW p \in Proc, todo[p] # <<>>,
         NEW r \in SlotOrNone, r # None => Kept(Tail(todo[p])),
         UNCHANGED <<cwd, fd>>, ret' = [ret EXCEPT ![p] = r],
         Do(p, <<>>), CacheOK(inode)',
         Goes0(p, r, inode')
  PROVE  IInv'
<1> DEFINE T == Tail(todo[p])
<1>1. Good(T, cwd[p]) /\ \A s : Count(T, s) \in Nat
  BY Split
<1>2. todo' = [todo EXCEPT ![p] = T]
  <2>1. <<>> \o T = T
    BY <1>1, Push0
  <2>2. todo' = [todo EXCEPT ![p] = <<>> \o T]
    BY DEF Do
  <2> QED BY <2>1, <2>2, Zenon
<1>3. Goes(p, r, T, inode')
  <2>1. \A s \in Slot : inode[s].ref \in Nat
    BY DEF IInv, CacheOK, IsEntry
  <2> HIDE DEF T
  <2> QED BY <2>1, <1>1 DEF On, Goes, Goes0, T
<1> QED BY <1>1, <1>2, <1>3, Act

\* The frame is replaced by one.
LEMMA Act1 ==
  ASSUME IInv, NEW p \in Proc, todo[p] # <<>>,
         NEW x, FrameOK(x, cwd[p]), x.op \in Givers => Taken(Tail(todo[p])),
         NEW r \in SlotOrNone,
         r # None => x.op \in Takers \/ (x.op \in Puts /\ Kept(Tail(todo[p]))),
         UNCHANGED <<cwd, fd>>, ret' = [ret EXCEPT ![p] = r],
         Do(p, <<x>>), CacheOK(inode)',
         Goes1(p, x, r, inode')
  PROVE  IInv'
<1> DEFINE T == Tail(todo[p])
           t == <<x>> \o T
<1>1. Good(T, cwd[p]) /\ \A s : Count(T, s) \in Nat
  BY Split
<1>2. todo' = [todo EXCEPT ![p] = t]
  BY DEF Do
<1>3. /\ Good(t, cwd[p])
      /\ Kept(t) <=> x.op \in Takers \/ (x.op \in Puts /\ Kept(T))
      /\ \A s : Count(t, s) = On(x.ip, s) + On(x.dp, s) + Count(T, s)
  BY <1>1, Push1
<1> HIDE DEF t
<1>4. Goes(p, r, t, inode')
  <2>1. \A s \in Slot : inode[s].ref \in Nat
    BY DEF IInv, CacheOK, IsEntry
  <2>2. \A s, y : On(y, s) \in Nat
    BY DEF On
  <2> HIDE DEF T
  <2>3. \A s : Count(t, s) - Count(T, s) = On(x.ip, s) + On(x.dp, s)
    BY <1>1, <1>3, <2>2
  <2> QED BY <2>3 DEF Goes, Goes1, T
<1> QED BY <1>2, <1>3, <1>4, Act

\* The frame is replaced by two.
LEMMA Act2 ==
  ASSUME IInv, NEW p \in Proc, todo[p] # <<>>,
         NEW x, FrameOK(x, cwd[p]), NEW y, FrameOK(y, cwd[p]),
         y.op \in Givers => Taken(Tail(todo[p])), x.op \in Givers => y.op \in Takers,
         NEW r \in SlotOrNone,
         r # None =>
           x.op \in Puts /\ (y.op \in Takers \/ (y.op \in Puts /\ Kept(Tail(todo[p])))),
         UNCHANGED <<cwd, fd>>, ret' = [ret EXCEPT ![p] = r],
         Do(p, <<x, y>>), CacheOK(inode)',
         Goes2(p, x, y, r, inode')
  PROVE  IInv'
<1> DEFINE T == Tail(todo[p])
           t == <<x, y>> \o T
<1>1. Good(T, cwd[p]) /\ \A s : Count(T, s) \in Nat
  BY Split
<1>2. todo' = [todo EXCEPT ![p] = t]
  BY DEF Do
<1>3. /\ Good(t, cwd[p])
      /\ Kept(t) <=>
           \/ x.op \in Takers
           \/ x.op \in Puts /\ (y.op \in Takers \/ (y.op \in Puts /\ Kept(T)))
      /\ \A s : Count(t, s) = On(x.ip, s) + On(x.dp, s)
                              + (On(y.ip, s) + On(y.dp, s) + Count(T, s))
  BY <1>1, Push2
<1> HIDE DEF t
<1>4. Goes(p, r, t, inode')
  <2>1. \A s, z : On(z, s) \in Nat
    BY DEF On
  <2> HIDE DEF T
  <2>2. \A s : Count(t, s) - Count(T, s)
                 = On(x.ip, s) + On(x.dp, s) + (On(y.ip, s) + On(y.dp, s))
    BY <1>1, <1>3, <2>1
  <2> QED BY <2>2 DEF Goes, Goes2, T
<1> QED BY <1>2, <1>3, <1>4, Act

\* The frame is replaced by three, and nothing is returned.
LEMMA Act3 ==
  ASSUME IInv, NEW p \in Proc, todo[p] # <<>>,
         NEW x, FrameOK(x, cwd[p]), NEW y, FrameOK(y, cwd[p]),
         NEW z, FrameOK(z, cwd[p]), z.op \in Givers => Taken(Tail(todo[p])),
         y.op \in Givers => z.op \in Takers, x.op \in Givers => y.op \in Takers,
         UNCHANGED <<cwd, fd>>, ret' = [ret EXCEPT ![p] = None],
         Do(p, <<x, y, z>>), CacheOK(inode)',
         Goes3(p, x, y, z, inode')
  PROVE  IInv'
<1> DEFINE T == Tail(todo[p])
           t == <<x, y, z>> \o T
<1>1. Good(T, cwd[p]) /\ \A s : Count(T, s) \in Nat
  BY Split
<1>2. todo' = [todo EXCEPT ![p] = t]
  BY DEF Do
<1>3. /\ Good(t, cwd[p])
      /\ \A s : Count(t, s) = On(x.ip, s) + On(x.dp, s)
                              + (On(y.ip, s) + On(y.dp, s)
                                 + (On(z.ip, s) + On(z.dp, s) + Count(T, s)))
  BY <1>1, Push3
<1> HIDE DEF t
<1>4. Goes(p, None, t, inode')
  <2>1. \A s, w : On(w, s) \in Nat
    BY DEF On
  <2> HIDE DEF T
  <2>2. \A s : Count(t, s) - Count(T, s)
                 = On(x.ip, s) + On(x.dp, s) + (On(y.ip, s) + On(y.dp, s))
                   + (On(z.ip, s) + On(z.dp, s))
    BY <1>1, <1>3, <2>1
  <2> QED BY <2>2 DEF Goes, Goes3, T
<1>5. None \in SlotOrNone
  BY DEF SlotOrNone
<1> QED BY <1>2, <1>3, <1>4, <1>5, Act

-----------------------------------------------------------------------------
(* iput() and path names                                                   *)

LEMMA NoOn == /\ \A s \in Slot : On(None, s) = 0
              /\ \A x, s : On(x, s) \in Nat
              /\ None \in SlotOrNone /\ \A s \in Slot : s \in SlotOrNone
  BY Nones DEF On, SlotOrNone

\* The fields of a frame.
LEMMA FrameIs ==
  /\ \A op, ip, dp, arg : /\ Frame(op, ip, dp, arg).op = op
                          /\ Frame(op, ip, dp, arg).ip = ip
                          /\ Frame(op, ip, dp, arg).dp = dp
  /\ \A s : /\ Iput(s).op = "iput" /\ Iput(s).ip = s /\ Iput(s).dp = None
            /\ Unlockput(s).op = "unlockput" /\ Unlockput(s).ip = s
            /\ Unlockput(s).dp = None
            /\ LinkBad(s).op = "linkbad" /\ LinkBad(s).ip = s
            /\ LinkBad(s).dp = None
  /\ \A path, parent : /\ Walk(path, parent).op = "walk"
                       /\ Walk(path, parent).ip = None
                       /\ Walk(path, parent).dp = None
  /\ End.op = "end" /\ End.ip = None /\ End.dp = None
  BY DEF Frame, Iput, Unlockput, LinkBad, Walk, End

LEMMA FrameOKs ==
  ASSUME NEW c
  PROVE  /\ \A s \in Slot : FrameOK(Iput(s), c)
         /\ c # None => \A s \in Slot :
              FrameOK(Unlockput(s), c) /\ FrameOK(LinkBad(s), c)
         /\ c # None => \A path, parent : FrameOK(Walk(path, parent), c)
         /\ \A s \in Slot : /\ Iput(s).op \notin Givers
                            /\ Unlockput(s).op \notin Givers
                            /\ LinkBad(s).op \notin Givers
  BY FrameIs DEF FrameOK, IpOps, DpOps, NoPtr, Puts, Givers

\* The state of a process at a frame, by its function.
LEMMA AtFrame ==
  ASSUME IInv, NEW p \in Proc, NEW op, At(p, op)
  PROVE  LET h == Head(todo[p])
             T == Tail(todo[p]) IN
         /\ todo[p] # <<>> /\ h.op = op
         /\ IF op \in IpOps THEN h.ip \in Slot ELSE h.ip = None
         /\ IF op \in DpOps THEN h.dp \in Slot ELSE h.dp = None
         /\ op \notin Puts \cup {"end"} => cwd[p] \in Slot
         /\ op \in Givers => Taken(T) /\ Kept(T)
         /\ op \notin Takers /\ op \notin Puts => ret[p] = None
         /\ op \in Puts /\ ret[p] # None => Kept(T)
         /\ ret[p] # None => ret[p] \in Slot
         /\ CacheOK(inode) /\ PanicOf(p) = ""
<1>1. todo[p] # <<>> /\ Head(todo[p]).op = op /\ PanicOf(p) = ""
  BY DEF At
<1>2. CacheOK(inode)
  BY DEF IInv
<1> DEFINE h == Head(todo[p])
           T == Tail(todo[p])
<1>3. /\ FrameOK(h, cwd[p])
      /\ h.op \in Givers => Taken(T) /\ Kept(T)
      /\ ret[p] # None => h.op \in Takers \/ (h.op \in Puts /\ Kept(T))
      /\ cwd[p] \in SlotOrNone /\ ret[p] \in SlotOrNone
  BY <1>1, Split
<1>4. /\ ret[p] # None => ret[p] \in Slot
      /\ cwd[p] # None => cwd[p] \in Slot
  BY <1>3 DEF SlotOrNone
<1>5. Takers \cap Puts = {}
  BY DEF Takers, Puts
<1> HIDE DEF h, T
<1>6. /\ IF op \in IpOps THEN h.ip \in Slot ELSE h.ip = None
      /\ IF op \in DpOps THEN h.dp \in Slot ELSE h.dp = None
      /\ op \notin Puts \cup {"end"} => cwd[p] \in Slot
  BY <1>1, <1>3, <1>4 DEF FrameOK, h
<1>7. /\ op \in Givers => Taken(T) /\ Kept(T)
      /\ op \notin Takers /\ op \notin Puts => ret[p] = None
      /\ op \in Puts /\ ret[p] # None => Kept(T)
  BY <1>1, <1>3, <1>5 DEF h
<1> QED BY <1>1, <1>2, <1>4, <1>6, <1>7 DEF h, T

LEMMA AtPut ==
  ASSUME IInv, NEW p \in Proc, NEW op \in Puts, At(p, op)
  PROVE  /\ todo[p] # <<>> /\ CacheOK(inode)
         /\ Head(todo[p]).ip \in Slot /\ Head(todo[p]).dp = None
         /\ ret[p] # None => Kept(Tail(todo[p]))
<1>1. op \in IpOps /\ op \notin DpOps
  BY DEF Puts, IpOps, DpOps
<1> QED BY <1>1, AtFrame

LEMMA AtIp ==
  ASSUME IInv, NEW p \in Proc,
         NEW op \in {"unlockput", "namex", "exists", "linkbad", "unlink3"},
         At(p, op)
  PROVE  /\ todo[p] # <<>> /\ CacheOK(inode)
         /\ Head(todo[p]).ip \in Slot /\ Head(todo[p]).dp = None
         /\ ret[p] = None /\ cwd[p] \in Slot
         /\ op \in {"namex", "exists"} => Taken(Tail(todo[p])) /\ Kept(Tail(todo[p]))
<1>1. /\ op \in IpOps /\ op \notin DpOps /\ op \notin Takers /\ op \notin Puts
      /\ op \notin Puts \cup {"end"}
  BY DEF Puts, IpOps, DpOps, Takers
<1>2. op \in {"namex", "exists"} => op \in Givers
  BY DEF Givers
<1> QED BY <1>1, <1>2, AtFrame

LEMMA AtTwo ==
  ASSUME IInv, NEW p \in Proc, NEW op \in {"create2", "unlink2"}, At(p, op)
  PROVE  /\ todo[p] # <<>> /\ CacheOK(inode)
         /\ Head(todo[p]).ip \in Slot /\ Head(todo[p]).dp \in Slot
         /\ ret[p] = None /\ cwd[p] \in Slot
         /\ op = "create2" => Taken(Tail(todo[p])) /\ Kept(Tail(todo[p]))
<1>1. /\ op \in IpOps /\ op \in DpOps /\ op \notin Takers /\ op \notin Puts
      /\ op \notin Puts \cup {"end"}
  BY DEF Puts, IpOps, DpOps, Takers
<1>2. op = "create2" => op \in Givers
  BY DEF Givers
<1> QED BY <1>1, <1>2, AtFrame

LEMMA AtTaker ==
  ASSUME IInv, NEW p \in Proc,
         NEW op \in {"open", "opened", "create", "made", "link1", "unlink1", "chdir"},
         At(p, op)
  PROVE  /\ todo[p] # <<>> /\ CacheOK(inode)
         /\ Head(todo[p]).ip = None /\ Head(todo[p]).dp = None
         /\ ret[p] # None => ret[p] \in Slot
         /\ cwd[p] \in Slot
         /\ op \in {"open", "create"} => Taken(Tail(todo[p])) /\ Kept(Tail(todo[p]))
<1>1. /\ op \notin IpOps /\ op \notin DpOps /\ op \notin Puts \cup {"end"}
  BY DEF Puts, IpOps, DpOps
<1>2. op \in {"open", "create"} => op \in Givers
  BY DEF Givers
<1> QED BY <1>1, <1>2, AtFrame

LEMMA AtLink2 ==
  ASSUME IInv, NEW p \in Proc, At(p, "link2")
  PROVE  /\ todo[p] # <<>> /\ CacheOK(inode)
         /\ Head(todo[p]).ip \in Slot /\ Head(todo[p]).dp = None
         /\ ret[p] # None => ret[p] \in Slot
         /\ cwd[p] \in Slot
<1>1. /\ "link2" \in IpOps /\ "link2" \notin DpOps
      /\ "link2" \notin Puts \cup {"end"}
  BY DEF Puts, IpOps, DpOps
<1> QED BY <1>1, AtFrame

LEMMA AtWalk ==
  ASSUME IInv, NEW p \in Proc, At(p, "walk")
  PROVE  /\ todo[p] # <<>> /\ CacheOK(inode)
         /\ Head(todo[p]).ip = None /\ Head(todo[p]).dp = None
         /\ ret[p] = None /\ cwd[p] \in Slot
         /\ Taken(Tail(todo[p])) /\ Kept(Tail(todo[p]))
<1>1. /\ "walk" \notin IpOps /\ "walk" \notin DpOps /\ "walk" \notin Takers
      /\ "walk" \notin Puts /\ "walk" \notin Puts \cup {"end"} /\ "walk" \in Givers
  BY DEF Puts, IpOps, DpOps, Takers, Givers
<1> QED BY <1>1, AtFrame

LEMMA AtEnd ==
  ASSUME IInv, NEW p \in Proc, At(p, "end")
  PROVE  /\ todo[p] # <<>> /\ CacheOK(inode)
         /\ Head(todo[p]).ip = None /\ Head(todo[p]).dp = None
         /\ ret[p] = None
<1>1. /\ "end" \notin IpOps /\ "end" \notin DpOps /\ "end" \notin Takers
      /\ "end" \notin Puts
  BY DEF Puts, IpOps, DpOps, Takers
<1> QED BY <1>1, AtFrame

\* A cache with one reference more, to g, or with the same ones (g = None).
Grown(n, g) ==
  CacheOK(n) /\ \A s \in Slot : n[s].ref = inode[s].ref + On(g, s)

LEMMA GrownSame ==
  ASSUME CacheOK(inode), NEW n, SameRefs(n)
  PROVE  Grown(n, None)
<1>1. \A s \in Slot : inode[s].ref \in Nat
  BY DEF CacheOK, IsEntry
<1> QED BY <1>1, NoOn DEF Grown, SameRefs

LEMMA GrownGot ==
  ASSUME CacheOK(inode), NEW tab, SameRefs(tab), NEW i \in Inum, ~NoEntry(i)
  PROVE  Iget(i) \in Slot /\ Grown(Referenced(tab, i), Iget(i))
  BY Got DEF Grown

LEMMA GrownDup ==
  ASSUME CacheOK(inode), NEW c \in Slot, inode[c].ref > 0, NEW n,
         n = [inode EXCEPT ![c].ref = @ + 1]
  PROVE  Grown(n, c)
  BY Duped DEF Grown

LEMMA GrownOK ==
  ASSUME NEW g, Grown(inode', g)
  PROVE  CacheOK(inode)'
  BY DEF Grown, CacheOK, IsEntry, OneEntry

\* The pointers of p after a step, r and those of its new frames, are the ones
\* it had and the one that iget() gave it.
Pays(p, r, g, a, b, c, d, e, f) ==
  \A s \in Slot :
    On(r, s) + On(a, s) + On(b, s) + On(c, s) + On(d, s) + On(e, s) + On(f, s)
      = On(g, s) + On(ret[p], s) + On(Head(todo[p]).ip, s) + On(Head(todo[p]).dp, s)

LEMMA Does0 ==
  ASSUME IInv, NEW p \in Proc, todo[p] # <<>>,
         NEW r \in SlotOrNone, r # None => Kept(Tail(todo[p])),
         UNCHANGED <<cwd, fd>>, ret' = [ret EXCEPT ![p] = r],
         Do(p, <<>>), NEW g, Grown(inode', g),
         Pays(p, r, g, None, None, None, None, None, None)
  PROVE  IInv'
<1>1. CacheOK(inode)'
  BY GrownOK
<1>2. \A s \in Slot : inode[s].ref \in Nat
  BY DEF IInv, CacheOK, IsEntry
<1>3. Goes0(p, r, inode')
  <2>1. ASSUME NEW s \in Slot
        PROVE  inode'[s].ref = inode[s].ref + (On(r, s) - On(ret[p], s))
                 - On(Head(todo[p]).ip, s) - On(Head(todo[p]).dp, s)
    <3>1. inode'[s].ref = inode[s].ref + On(g, s)
      BY DEF Grown
    <3>2. On(r, s) = On(g, s) + On(ret[p], s) + On(Head(todo[p]).ip, s)
                     + On(Head(todo[p]).dp, s)
      BY NoOn DEF Pays
    <3> DEFINE n0 == inode[s].ref
               n1 == inode'[s].ref
               gg == On(g, s)
               rr == On(r, s)
               qq == On(ret[p], s)
               hi == On(Head(todo[p]).ip, s)
               hd == On(Head(todo[p]).dp, s)
    <3>3. n0 \in Nat /\ gg \in Nat /\ rr \in Nat /\ qq \in Nat 
          /\ hi \in Nat /\ hd \in Nat
      BY <1>2, NoOn
    <3> HIDE DEF n0, n1, gg, rr, qq, hi, hd
    <3>4. n1 = n0 + gg /\ rr = gg + qq + hi + hd
      BY <3>1, <3>2 DEF n0, n1, gg, rr, qq, hi, hd
    <3>5. n1 = n0 + (rr - qq) - hi - hd
      BY <3>3, <3>4
    <3> QED BY <3>5 DEF n0, n1, gg, rr, qq, hi, hd
  <2> QED BY <2>1 DEF Goes0
<1> QED BY <1>1, <1>3, Act0

LEMMA Does1 ==
  ASSUME IInv, NEW p \in Proc, todo[p] # <<>>,
         NEW x, FrameOK(x, cwd[p]), x.op \in Givers => Taken(Tail(todo[p])),
         NEW r \in SlotOrNone,
         r # None => x.op \in Takers \/ (x.op \in Puts /\ Kept(Tail(todo[p]))),
         UNCHANGED <<cwd, fd>>, ret' = [ret EXCEPT ![p] = r],
         Do(p, <<x>>), NEW g, Grown(inode', g),
         Pays(p, r, g, x.ip, x.dp, None, None, None, None)
  PROVE  IInv'
<1>1. CacheOK(inode)'
  BY GrownOK
<1>2. \A s \in Slot : inode[s].ref \in Nat
  BY DEF IInv, CacheOK, IsEntry
<1>3. Goes1(p, x, r, inode')
  <2>1. ASSUME NEW s \in Slot
        PROVE  inode'[s].ref = inode[s].ref + (On(r, s) - On(ret[p], s))
                 + (On(x.ip, s) + On(x.dp, s))
                 - On(Head(todo[p]).ip, s) - On(Head(todo[p]).dp, s)
    <3>1. inode'[s].ref = inode[s].ref + On(g, s)
      BY DEF Grown
    <3>2. On(r, s) + On(x.ip, s) + On(x.dp, s)
            = On(g, s) + On(ret[p], s) + On(Head(todo[p]).ip, s)
              + On(Head(todo[p]).dp, s)
      BY NoOn DEF Pays
    <3> DEFINE n0 == inode[s].ref
               n1 == inode'[s].ref
               gg == On(g, s)
               rr == On(r, s)
               qq == On(ret[p], s)
               hi == On(Head(todo[p]).ip, s)
               hd == On(Head(todo[p]).dp, s)
               xi == On(x.ip, s)
               xd == On(x.dp, s)
    <3>3. n0 \in Nat /\ gg \in Nat /\ rr \in Nat /\ qq \in Nat 
          /\ hi \in Nat /\ hd \in Nat /\ xi \in Nat /\ xd \in Nat
      BY <1>2, NoOn
    <3> HIDE DEF n0, n1, gg, rr, qq, hi, hd, xi, xd
    <3>4. n1 = n0 + gg /\ rr + xi + xd = gg + qq + hi + hd
      BY <3>1, <3>2 DEF n0, n1, gg, rr, qq, hi, hd, xi, xd
    <3>5. n1 = n0 + (rr - qq) + (xi + xd) - hi - hd
      BY <3>3, <3>4
    <3> QED BY <3>5 DEF n0, n1, gg, rr, qq, hi, hd, xi, xd
  <2> QED BY <2>1 DEF Goes1
<1> QED BY <1>1, <1>3, Act1

LEMMA Does2 ==
  ASSUME IInv, NEW p \in Proc, todo[p] # <<>>,
         NEW x, FrameOK(x, cwd[p]), NEW y, FrameOK(y, cwd[p]),
         y.op \in Givers => Taken(Tail(todo[p])), x.op \in Givers => y.op \in Takers,
         NEW r \in SlotOrNone,
         r # None =>
           x.op \in Puts /\ (y.op \in Takers \/ (y.op \in Puts /\ Kept(Tail(todo[p])))),
         UNCHANGED <<cwd, fd>>, ret' = [ret EXCEPT ![p] = r],
         Do(p, <<x, y>>), NEW g, Grown(inode', g),
         Pays(p, r, g, x.ip, x.dp, y.ip, y.dp, None, None)
  PROVE  IInv'
<1>1. CacheOK(inode)'
  BY GrownOK
<1>2. \A s \in Slot : inode[s].ref \in Nat
  BY DEF IInv, CacheOK, IsEntry
<1>3. Goes2(p, x, y, r, inode')
  <2>1. ASSUME NEW s \in Slot
        PROVE  inode'[s].ref = inode[s].ref + (On(r, s) - On(ret[p], s))
                 + (On(x.ip, s) + On(x.dp, s) + (On(y.ip, s) + On(y.dp, s)))
                 - On(Head(todo[p]).ip, s) - On(Head(todo[p]).dp, s)
    <3>1. inode'[s].ref = inode[s].ref + On(g, s)
      BY DEF Grown
    <3>2. On(r, s) + On(x.ip, s) + On(x.dp, s) + On(y.ip, s) + On(y.dp, s)
            = On(g, s) + On(ret[p], s) + On(Head(todo[p]).ip, s)
              + On(Head(todo[p]).dp, s)
      BY NoOn DEF Pays
    <3> DEFINE n0 == inode[s].ref
               n1 == inode'[s].ref
               gg == On(g, s)
               rr == On(r, s)
               qq == On(ret[p], s)
               hi == On(Head(todo[p]).ip, s)
               hd == On(Head(todo[p]).dp, s)
               xi == On(x.ip, s)
               xd == On(x.dp, s)
               yi == On(y.ip, s)
               yd == On(y.dp, s)
    <3>3. n0 \in Nat /\ gg \in Nat /\ rr \in Nat /\ qq \in Nat 
          /\ hi \in Nat /\ hd \in Nat /\ xi \in Nat /\ xd \in Nat /\ yi \in Nat 
          /\ yd \in Nat
      BY <1>2, NoOn
    <3> HIDE DEF n0, n1, gg, rr, qq, hi, hd, xi, xd, yi, yd
    <3>4. n1 = n0 + gg /\ rr + xi + xd + yi + yd = gg + qq + hi + hd
      BY <3>1, <3>2 DEF n0, n1, gg, rr, qq, hi, hd, xi, xd, yi, yd
    <3>5. n1 = n0 + (rr - qq) + (xi + xd + (yi + yd)) - hi - hd
      BY <3>3, <3>4
    <3> QED BY <3>5 DEF n0, n1, gg, rr, qq, hi, hd, xi, xd, yi, yd
  <2> QED BY <2>1 DEF Goes2
<1> QED BY <1>1, <1>3, Act2

LEMMA Does3 ==
  ASSUME IInv, NEW p \in Proc, todo[p] # <<>>,
         NEW x, FrameOK(x, cwd[p]), NEW y, FrameOK(y, cwd[p]),
         NEW z, FrameOK(z, cwd[p]), z.op \in Givers => Taken(Tail(todo[p])),
         y.op \in Givers => z.op \in Takers, x.op \in Givers => y.op \in Takers,
         UNCHANGED <<cwd, fd>>, ret' = [ret EXCEPT ![p] = None],
         Do(p, <<x, y, z>>), NEW g, Grown(inode', g),
         Pays(p, None, g, x.ip, x.dp, y.ip, y.dp, z.ip, z.dp)
  PROVE  IInv'
<1>1. CacheOK(inode)'
  BY GrownOK
<1>2. \A s \in Slot : inode[s].ref \in Nat
  BY DEF IInv, CacheOK, IsEntry
<1>3. Goes3(p, x, y, z, inode')
  <2>1. ASSUME NEW s \in Slot
        PROVE  inode'[s].ref = inode[s].ref + (On(None, s) - On(ret[p], s))
                 + (On(x.ip, s) + On(x.dp, s) + (On(y.ip, s) + On(y.dp, s))
                    + (On(z.ip, s) + On(z.dp, s)))
                 - On(Head(todo[p]).ip, s) - On(Head(todo[p]).dp, s)
    <3>1. inode'[s].ref = inode[s].ref + On(g, s)
      BY DEF Grown
    <3>2. On(None, s) + On(x.ip, s) + On(x.dp, s) + On(y.ip, s) + On(y.dp, s)
            + On(z.ip, s) + On(z.dp, s)
            = On(g, s) + On(ret[p], s) + On(Head(todo[p]).ip, s)
              + On(Head(todo[p]).dp, s)
      BY DEF Pays
    <3> DEFINE n0 == inode[s].ref
               n1 == inode'[s].ref
               gg == On(g, s)
               rr == On(None, s)
               qq == On(ret[p], s)
               hi == On(Head(todo[p]).ip, s)
               hd == On(Head(todo[p]).dp, s)
               xi == On(x.ip, s)
               xd == On(x.dp, s)
               yi == On(y.ip, s)
               yd == On(y.dp, s)
               zi == On(z.ip, s)
               zd == On(z.dp, s)
    <3>3. n0 \in Nat /\ gg \in Nat /\ rr \in Nat /\ qq \in Nat 
          /\ hi \in Nat /\ hd \in Nat /\ xi \in Nat /\ xd \in Nat /\ yi \in Nat 
          /\ yd \in Nat /\ zi \in Nat /\ zd \in Nat
      BY <1>2, NoOn
    <3> HIDE DEF n0, n1, gg, rr, qq, hi, hd, xi, xd, yi, yd, zi, zd
    <3>4. n1 = n0 + gg /\ rr + xi + xd + yi + yd + zi + zd = gg + qq + hi + hd
      BY <3>1, <3>2 DEF n0, n1, gg, rr, qq, hi, hd, xi, xd, yi, yd, zi, zd
    <3>5. n1 = n0 + (rr - qq) + (xi + xd + (yi + yd) + (zi + zd)) - hi - hd
      BY <3>3, <3>4
    <3> QED BY <3>5 DEF n0, n1, gg, rr, qq, hi, hd, xi, xd, yi, yd, zi, zd
  <2> QED BY <2>1 DEF Goes3
<1> QED BY <1>1, <1>3, Act3

\* Frames that the calls put in front of others.
LEMMA IpFrame ==
  ASSUME NEW c, c # None, NEW s \in Slot, NEW arg,
         NEW op \in {"iput2", "drop", "namex", "exists", "link2", "unlink3"}
  PROVE  FrameOK(Frame(op, s, None, arg), c)
<1>1. op \in IpOps /\ op \notin DpOps
  BY DEF IpOps, DpOps
<1> QED BY <1>1, FrameIs DEF FrameOK

LEMMA DropFrame ==
  ASSUME NEW c, NEW s \in Slot, NEW arg, NEW op \in {"iput2", "drop"}
  PROVE  FrameOK(Frame(op, s, None, arg), c)
<1>1. op \in IpOps /\ op \notin DpOps /\ op \in Puts
  BY DEF IpOps, DpOps, Puts
<1> QED BY <1>1, FrameIs DEF FrameOK

LEMMA TwoFrame ==
  ASSUME NEW c, c # None, NEW s \in Slot, NEW d \in Slot, NEW arg,
         NEW op \in {"create2", "unlink2"}
  PROVE  FrameOK(Frame(op, s, d, arg), c)
<1>1. op \in IpOps /\ op \in DpOps
  BY DEF IpOps, DpOps
<1> QED BY <1>1, FrameIs DEF FrameOK

\* Which functions are which.
LEMMA Kinds ==
  /\ "iput" \in Puts /\ "iput2" \in Puts /\ "drop" \in Puts
  /\ "iput" \notin Givers /\ "iput2" \notin Givers /\ "drop" \notin Givers
  /\ "unlockput" \notin Givers /\ "linkbad" \notin Givers
  /\ "unlink2" \notin Givers /\ "unlink3" \notin Givers /\ "link2" \notin Givers
  /\ "link2" \in Takers
  BY DEF Puts, Givers, Takers

LEMMA SlotNotNone == \A s \in Slot : s # None
  BY Nones

LEMMA KeepsIputLook ==
  ASSUME IInv, NEW p \in Proc, IputLook(p)
  PROVE  IInv'
<1> DEFINE s == Head(todo[p]).ip
<1>1. At(p, "iput") /\ UNCHANGED <<inode, cwd, fd, ret>>
  BY DEF IputLook
<1>2. /\ todo[p] # <<>> /\ CacheOK(inode) /\ s \in Slot
      /\ Head(todo[p]).dp = None /\ (ret[p] # None => Kept(Tail(todo[p])))
  BY <1>1, AtPut, Kinds
<1>3. ret' = [ret EXCEPT ![p] = ret[p]] /\ ret[p] \in SlotOrNone
  BY <1>1, Stays
<1>4. Grown(inode', None)
  BY <1>1, <1>2, SameInode, GrownSame
<1>5. ASSUME NEW op \in {"iput2", "drop"}, NEW arg,
             Do(p, <<Frame(op, s, None, arg)>>)
      PROVE  IInv'
  <2> DEFINE x == Frame(op, s, None, arg)
  <2>1. /\ FrameOK(x, cwd[p]) /\ x.op = op /\ x.ip = s /\ x.dp = None
        /\ x.op \notin Givers /\ x.op \in Puts
    BY <1>2, DropFrame, FrameIs, Kinds
  <2> HIDE DEF x
  <2>2. Pays(p, ret[p], None, x.ip, x.dp, None, None, None, None)
    BY <2>1, <1>2, NoOn DEF Pays
  <2>3. Do(p, <<x>>)
    BY <1>5 DEF x
  <2> QED BY <2>1, <2>2, <2>3, <1>1, <1>2, <1>3, <1>4, Does1
<1>6. CASE inode[s].valid /\ inode[s].nlink = 0
  <2>1. Do(p, <<Frame("iput2", s, None, inode[s].ref)>>)
    BY <1>6 DEF IputLook
  <2> QED BY <2>1, <1>5
<1>7. CASE ~(inode[s].valid /\ inode[s].nlink = 0)
  <2>1. Do(p, <<Frame("drop", s, None, <<>>)>>)
    BY <1>7 DEF IputLook
  <2> QED BY <2>1, <1>5
<1> QED BY <1>6, <1>7

LEMMA KeepsIputFree ==
  ASSUME IInv, NEW p \in Proc, IputFree(p)
  PROVE  IInv'
<1> DEFINE s == Head(todo[p]).ip
           x == Frame("drop", s, None, <<>>)
<1>1. At(p, "iput2") /\ UNCHANGED <<cwd, fd, ret>> /\ Do(p, <<x>>)
  BY DEF IputFree
<1>2. /\ todo[p] # <<>> /\ CacheOK(inode) /\ s \in Slot
      /\ Head(todo[p]).dp = None /\ (ret[p] # None => Kept(Tail(todo[p])))
  BY <1>1, AtPut, Kinds
<1>3. ret' = [ret EXCEPT ![p] = ret[p]] /\ ret[p] \in SlotOrNone
  BY <1>1, Stays
<1>4. Grown(inode', None)
  <2>1. inode' = inode \/ inode' = Freed(s)
    BY DEF IputFree
  <2> QED BY <2>1, <1>2, SameInode, SameFreed, GrownSame
<1>5. /\ FrameOK(x, cwd[p]) /\ x.ip = s /\ x.dp = None
      /\ x.op \notin Givers /\ x.op \in Puts
  BY <1>2, DropFrame, FrameIs, Kinds
<1> HIDE DEF x
<1>6. Pays(p, ret[p], None, x.ip, x.dp, None, None, None, None)
  BY <1>5, <1>2, NoOn DEF Pays
<1> QED BY <1>1, <1>2, <1>3, <1>4, <1>5, <1>6, Does1

LEMMA KeepsIputDrop ==
  ASSUME IInv, NEW p \in Proc, IputDrop(p)
  PROVE  IInv'
<1> DEFINE h == Head(todo[p])
<1>1. /\ todo[p] # <<>> /\ h.ip \in Slot /\ h.dp = None /\ CacheOK(inode)
      /\ ret[p] # None => Kept(Tail(todo[p]))
  BY AtPut, Kinds DEF IputDrop
<1>2. Do(p, <<>>) /\ inode' = [inode EXCEPT ![h.ip] = Dropped(@)]
  BY DEF IputDrop
<1>3. /\ ret' = [ret EXCEPT ![p] = ret[p]] /\ UNCHANGED <<cwd, fd>>
      /\ ret[p] \in SlotOrNone
  BY Stays DEF IputDrop
<1>4. inode[h.ip].ref > 0
  <2>1. /\ Count(Tail(todo[p]), h.ip) \in Nat
        /\ Count(todo[p], h.ip) = On(h.ip, h.ip) + On(h.dp, h.ip)
                                  + Count(Tail(todo[p]), h.ip)
    BY <1>1, Split
  <2>2. Count(todo[p], h.ip) \in Nat /\ Count(todo[p], h.ip) > 0
    BY <2>1, <1>1, NoOn DEF On
  <2>3. /\ inode[h.ip].ref \in Nat
        /\ inode[h.ip].ref >= Local(cwd[p], fd[p], ret[p], todo[p], h.ip)
    BY <1>1, RefsLocal
  <2>4. Local(cwd[p], fd[p], ret[p], todo[p], h.ip) >= Count(todo[p], h.ip)
        /\ Local(cwd[p], fd[p], ret[p], todo[p], h.ip) \in Nat
    BY <2>2 DEF Local, On
  <2> QED BY <2>2, <2>3, <2>4
<1>5. /\ CacheOK(inode')
      /\ \A s \in Slot : inode'[s].ref = inode[s].ref - On(h.ip, s)
  BY <1>1, <1>2, <1>4, DropOne
<1>6. CacheOK(inode)'
  BY <1>5 DEF CacheOK, IsEntry, OneEntry
<1>7. Goes0(p, ret[p], inode')
  <2>1. \A s \in Slot : inode[s].ref \in Nat
    BY <1>1 DEF CacheOK, IsEntry
  <2> QED BY <2>1, <1>1, <1>5, NoOn DEF Goes0
<1> QED BY <1>1, <1>2, <1>3, <1>6, <1>7, Act0

\* A frame with one pointer gives it to iput(), and nothing is returned.
LEMMA PutIt ==
  ASSUME IInv, NEW p \in Proc, todo[p] # <<>>, NEW s \in Slot, Do(p, <<Iput(s)>>),
         UNCHANGED <<cwd, fd>>, ret' = [ret EXCEPT ![p] = None],
         Grown(inode', None),
         Pays(p, None, None, s, None, None, None, None, None)
  PROVE  IInv'
<1> DEFINE x == Iput(s)
<1>1. /\ FrameOK(x, cwd[p]) /\ x.ip = s /\ x.dp = None /\ x.op \notin Givers
      /\ Do(p, <<x>>) /\ None \in SlotOrNone
  BY FrameOKs, FrameIs, NoOn
<1> HIDE DEF x
<1>2. Pays(p, None, None, x.ip, x.dp, None, None, None, None)
  BY <1>1
<1> QED BY <1>1, <1>2, Does1

\* It is returned, and the frame is done.
LEMMA GiveIt ==
  ASSUME IInv, NEW p \in Proc, todo[p] # <<>>, NEW s \in Slot, Do(p, <<>>),
         Kept(Tail(todo[p])),
         UNCHANGED <<cwd, fd>>, ret' = [ret EXCEPT ![p] = s],
         Grown(inode', None),
         Pays(p, s, None, None, None, None, None, None, None)
  PROVE  IInv'
<1>1. s \in SlotOrNone
  BY NoOn
<1> QED BY <1>1, Does0

\* A process without a pointer in its first frame, or with one there and none
\* returned, has it once.
LEMMA PaysFrame ==
  ASSUME NEW p, Head(todo[p]).dp = None, ret[p] = None
  PROVE  /\ Pays(p, None, None, Head(todo[p]).ip, None, None, None, None, None)
         /\ Pays(p, Head(todo[p]).ip, None, None, None, None, None, None, None)
  BY NoOn DEF Pays

LEMMA PaysRet ==
  ASSUME NEW p, Head(todo[p]).ip = None, Head(todo[p]).dp = None
  PROVE  /\ Pays(p, None, None, ret[p], None, None, None, None, None)
         /\ Pays(p, ret[p], None, None, None, None, None, None, None)
  BY NoOn DEF Pays

LEMMA KeepsIunlockput ==
  ASSUME IInv, NEW p \in Proc, Iunlockput(p)
  PROVE  IInv'
<1> DEFINE s == Head(todo[p]).ip
<1>1. /\ At(p, "unlockput") /\ UNCHANGED <<inode, cwd, fd, ret>>
      /\ Do(p, <<Iput(s)>>)
  BY DEF Iunlockput
<1>2. /\ todo[p] # <<>> /\ CacheOK(inode) /\ s \in Slot
      /\ Head(todo[p]).dp = None /\ ret[p] = None
  BY <1>1, AtIp
<1>3. ret' = [ret EXCEPT ![p] = None]
  BY <1>1, <1>2, Stays
<1>4. Grown(inode', None)
  BY <1>1, <1>2, SameInode, GrownSame
<1> QED BY <1>1, <1>2, <1>3, <1>4, PaysFrame, PutIt

\* A step that takes the lock of the inode that was returned.
LEMMA LockedRet ==
  ASSUME NEW p,
         NEW op \in {"open", "create", "link1", "link2", "unlink1", "chdir"},
         Locked(p, op)
  PROVE  /\ At(p, op) /\ ret[p] # None
         /\ Wants(p) = ret[p] /\ Head(todo[p]).op = op
<1>1. At(p, op) /\ Wants(p) # None /\ todo[p] # <<>> /\ Head(todo[p]).op = op
  BY DEF Locked, At
<1>2. Wants(p) = ret[p]
  BY <1>1 DEF Wants
<1> QED BY <1>1, <1>2

\* A step that did not panic finds entries for the inodes it needs.
LEMMA Gets ==
  ASSUME NEW p, NEW op, At(p, op)
  PROVE  \A i \in Igets(p, Wants(p)) : ~NoEntry(i)
  BY DEF At, PanicOf

LEMMA DirInodes == \A s, name : Dirlookup(s, name) \subseteq Inum
  BY DEF Dirlookup

\* The path goes on in a frame of namex() for g, the entry iget() found.
LEMMA GoOn ==
  ASSUME IInv, NEW p \in Proc, At(p, "walk"), NEW g \in Slot, NEW arg,
         Do(p, <<Frame("namex", g, None, arg)>>),
         UNCHANGED <<cwd, fd, ret>>, Grown(inode', g)
  PROVE  IInv'
<1> DEFINE x == Frame("namex", g, None, arg)
<1>1. /\ todo[p] # <<>> /\ Head(todo[p]).ip = None /\ Head(todo[p]).dp = None
      /\ ret[p] = None /\ cwd[p] # None /\ Taken(Tail(todo[p]))
  BY AtWalk, SlotNotNone
<1>2. FrameOK(x, cwd[p]) /\ x.ip = g /\ x.dp = None
  BY <1>1, IpFrame, FrameIs
<1>3. Do(p, <<x>>)
  OBVIOUS
<1> HIDE DEF x
<1>4. Pays(p, None, g, x.ip, x.dp, None, None, None, None)
  BY <1>1, <1>2, NoOn DEF Pays
<1>5. ret' = [ret EXCEPT ![p] = None] /\ None \in SlotOrNone
  BY <1>1, Stays, NoOn
<1> QED BY <1>1, <1>2, <1>3, <1>4, <1>5, Does1

LEMMA KeepsNamexStart ==
  ASSUME IInv, NEW p \in Proc, NamexStart(p)
  PROVE  IInv'
<1>1. At(p, "walk") /\ UNCHANGED <<cwd, fd, ret>>
  BY DEF NamexStart
<1>2. CacheOK(inode) /\ cwd[p] \in Slot
  BY <1>1, AtWalk
<1> DEFINE path == Head(todo[p]).arg[1]
           parent == Head(todo[p]).arg[2]
<1>3. CASE Absolute(path)
  <2>1. /\ inode' = Referenced(inode, ROOTINO)
        /\ Do(p, <<Frame("namex", Iget(ROOTINO), None, <<Tail(path), parent>>)>>)
    BY <1>3 DEF NamexStart
  <2>2. ROOTINO \in Inum
    BY Nones DEF ROOTINO, Inum
  <2>3. ~NoEntry(ROOTINO)
    <3>1. ROOTINO \in Igets(p, Wants(p))
      BY <1>1, <1>3, <2>2 DEF Igets, At
    <3> QED BY <3>1, <1>1, Gets
  <2>4. Iget(ROOTINO) \in Slot /\ Grown(inode', Iget(ROOTINO))
    BY <2>1, <2>2, <2>3, <1>2, SameInode, GrownGot
  <2> QED BY <2>1, <2>4, <1>1, GoOn
<1>4. CASE ~Absolute(path)
  <2>1. /\ inode' = [inode EXCEPT ![cwd[p]].ref = @ + 1]
        /\ Do(p, <<Frame("namex", cwd[p], None, <<path, parent>>)>>)
    BY <1>4 DEF NamexStart
  <2>2. inode[cwd[p]].ref > 0
    BY <1>2, RefsLocal
  <2>3. Grown(inode', cwd[p])
    BY <2>1, <2>2, <1>2, GrownDup
  <2> QED BY <2>1, <2>3, <1>1, <1>2, GoOn
<1> QED BY <1>3, <1>4

LEMMA KeepsNamexDone ==
  ASSUME IInv, NEW p \in Proc, NamexDone(p)
  PROVE  IInv'
<1> DEFINE s == Head(todo[p]).ip
<1>1. At(p, "namex") /\ UNCHANGED <<inode, cwd, fd>>
  BY DEF NamexDone
<1>2. /\ todo[p] # <<>> /\ CacheOK(inode) /\ s \in Slot
      /\ Head(todo[p]).dp = None /\ ret[p] = None /\ Kept(Tail(todo[p]))
  BY <1>1, AtIp
<1>3. Grown(inode', None)
  BY <1>1, <1>2, SameInode, GrownSame
<1>4. \/ ret' = [ret EXCEPT ![p] = None] /\ Do(p, <<Iput(s)>>)
      \/ ret' = [ret EXCEPT ![p] = s] /\ Do(p, <<>>)
  BY DEF NamexDone, Returns
<1> QED BY <1>1, <1>2, <1>3, <1>4, PaysFrame, PutIt, GiveIt

LEMMA KeepsNamexStep ==
  ASSUME IInv, NEW p \in Proc, NamexStep(p)
  PROVE  IInv'
<1> DEFINE s == Head(todo[p]).ip
<1>1. At(p, "namex") /\ UNCHANGED <<cwd, fd>>
  BY DEF NamexStep, Locked
<1>2. /\ todo[p] # <<>> /\ CacheOK(inode) /\ s \in Slot /\ cwd[p] # None
      /\ Head(todo[p]).dp = None /\ ret[p] = None
      /\ Kept(Tail(todo[p])) /\ Taken(Tail(todo[p]))
  BY <1>1, AtIp, SlotNotNone
<1>3. SameRefs(Ilocked(s))
  BY <1>2, SameIlocked
<1>4. CASE inode' = Ilocked(s) /\ Returns(p, s) /\ Do(p, <<>>)
  <2>1. Grown(inode', None) /\ ret' = [ret EXCEPT ![p] = s]
    BY <1>2, <1>3, <1>4, GrownSame DEF Returns
  <2> QED BY <2>1, <1>1, <1>2, <1>4, PaysFrame, GiveIt
<1>5. CASE inode' = Ilocked(s) /\ Returns(p, None) /\ Do(p, <<Iput(s)>>)
  <2>1. Grown(inode', None) /\ ret' = [ret EXCEPT ![p] = None]
    BY <1>2, <1>3, <1>5, GrownSame DEF Returns
  <2> QED BY <2>1, <1>1, <1>2, <1>5, PaysFrame, PutIt
<1>6. ASSUME NEW i \in Inum, ~NoEntry(i), NEW arg, inode' = Referenced(Ilocked(s), i),
             Do(p, <<Iput(s), Frame("namex", Iget(i), None, arg)>>), ret' = ret
      PROVE  IInv'
  <2> DEFINE g == Iget(i)
             x == Iput(s)
             y == Frame("namex", g, None, arg)
  <2>1. g \in Slot /\ Grown(inode', g)
    BY <1>2, <1>3, <1>6, GrownGot
  <2> HIDE DEF g
  <2>2. /\ FrameOK(x, cwd[p]) /\ x.ip = s /\ x.dp = None /\ x.op \notin Givers
        /\ FrameOK(y, cwd[p]) /\ y.ip = g /\ y.dp = None
    <3>1. FrameOK(x, cwd[p]) /\ x.ip = s /\ x.dp = None /\ x.op \notin Givers
      BY <1>2, FrameOKs, FrameIs
    <3>2. FrameOK(y, cwd[p]) /\ y.ip = g /\ y.dp = None
      BY <2>1, <1>2, FrameIs, IpFrame
    <3> QED BY <3>1, <3>2
  <2>3. Do(p, <<x, y>>)
    BY <1>6 DEF g
  <2> HIDE DEF x, y
  <2>4. Pays(p, None, g, x.ip, x.dp, y.ip, y.dp, None, None)
    BY <2>2, <1>2, NoOn DEF Pays
  <2>5. ret' = [ret EXCEPT ![p] = None] /\ None \in SlotOrNone
    BY <1>2, <1>6, Stays, NoOn
  <2> QED BY <2>1, <2>2, <2>3, <2>4, <2>5, <1>1, <1>2, Does2
<1>7. CASE \E i \in Dirlookup(s, Skipelem(Head(todo[p]).arg[1]).name) :
             /\ inode' = Referenced(Ilocked(s), i)
             /\ Do(p, <<Iput(s), Frame("namex", Iget(i), None,
                          <<Skipelem(Head(todo[p]).arg[1]).rest,
                            Head(todo[p]).arg[2]>>)>>)
             /\ ret' = ret /\ Loaded(s).type = "dir"
             /\ ~(Head(todo[p]).arg[2] /\ Skipelem(Head(todo[p]).arg[1]).rest = <<>>)
  <2>1. PICK i \in Dirlookup(s, Skipelem(Head(todo[p]).arg[1]).name) :
             /\ inode' = Referenced(Ilocked(s), i)
             /\ Do(p, <<Iput(s), Frame("namex", Iget(i), None,
                          <<Skipelem(Head(todo[p]).arg[1]).rest,
                            Head(todo[p]).arg[2]>>)>>)
             /\ ret' = ret /\ Loaded(s).type = "dir"
             /\ ~(Head(todo[p]).arg[2] /\ Skipelem(Head(todo[p]).arg[1]).rest = <<>>)
    BY <1>7
  <2>2. /\ Skipelem(Head(todo[p]).arg[1]).name = Head(Head(todo[p]).arg[1])
        /\ Skipelem(Head(todo[p]).arg[1]).rest = Tail(Head(todo[p]).arg[1])
    BY DEF Skipelem
  <2>3. Wants(p) = s /\ s # None /\ Head(todo[p]).op = "namex"
    <3>1. Wants(p) # None /\ Head(todo[p]).op = "namex"
      BY DEF NamexStep, Locked, At
    <3>2. Wants(p) = IF Head(todo[p]).arg[1] = <<>> THEN None ELSE s
      BY <3>1, <1>2 DEF Wants
    <3> QED BY <3>1, <3>2, <1>2, SlotNotNone
  <2>4. i \in Igets(p, Wants(p)) /\ i \in Inum
    BY <2>1, <2>2, <2>3, DirInodes DEF Igets
  <2>5. ~NoEntry(i)
    BY <2>4, <1>1, Gets
  <2> QED BY <2>1, <2>4, <2>5, <1>6
<1>8. \/ inode' = Ilocked(s) /\ Returns(p, s) /\ Do(p, <<>>)
      \/ inode' = Ilocked(s) /\ Returns(p, None) /\ Do(p, <<Iput(s)>>)
      \/ \E i \in Dirlookup(s, Skipelem(Head(todo[p]).arg[1]).name) :
           /\ inode' = Referenced(Ilocked(s), i)
           /\ Do(p, <<Iput(s), Frame("namex", Iget(i), None,
                        <<Skipelem(Head(todo[p]).arg[1]).rest,
                          Head(todo[p]).arg[2]>>)>>)
           /\ ret' = ret /\ Loaded(s).type = "dir"
           /\ ~(Head(todo[p]).arg[2] /\ Skipelem(Head(todo[p]).arg[1]).rest = <<>>)
  BY Zenon DEF NamexStep
<1> QED BY <1>4, <1>5, <1>7, <1>8

LEMMA KeepsOpen ==
  ASSUME IInv, NEW p \in Proc, Open(p)
  PROVE  IInv'
<1> DEFINE s == ret[p]
<1>1. At(p, "open") /\ s # None /\ UNCHANGED <<cwd, fd>>
  BY LockedRet DEF Open
<1>2. /\ todo[p] # <<>> /\ CacheOK(inode) /\ s \in Slot
      /\ Head(todo[p]).ip = None /\ Head(todo[p]).dp = None
      /\ Kept(Tail(todo[p]))
  BY <1>1, AtTaker
<1>3. Grown(inode', None)
  BY <1>2, SameIlocked, GrownSame DEF Open
<1>4. \/ ret' = [ret EXCEPT ![p] = None] /\ Do(p, <<Iput(s)>>)
      \/ ret' = [ret EXCEPT ![p] = s] /\ Do(p, <<>>)
  BY Stays DEF Open, Returns
<1> QED BY <1>1, <1>2, <1>3, <1>4, PaysRet, PutIt, GiveIt

LEMMA KeepsCreateFound ==
  ASSUME IInv, NEW p \in Proc, CreateFound(p)
  PROVE  IInv'
<1> DEFINE s == ret[p]
<1>1. At(p, "create") /\ s # None /\ UNCHANGED <<cwd, fd>>
  BY LockedRet DEF CreateFound
<1>2. /\ todo[p] # <<>> /\ CacheOK(inode) /\ s \in Slot /\ cwd[p] # None
      /\ Head(todo[p]).ip = None /\ Head(todo[p]).dp = None
      /\ Taken(Tail(todo[p]))
  BY <1>1, AtTaker, SlotNotNone
<1>3. PICK i \in Dirlookup(s, Head(todo[p]).arg[2]) :
        /\ inode' = Referenced(Ilocked(s), i)
        /\ Do(p, <<Iput(s), Frame("exists", Iget(i), None, Head(todo[p]).arg[1])>>)
  BY DEF CreateFound
<1> DEFINE g == Iget(i)
           x == Iput(s)
           y == Frame("exists", g, None, Head(todo[p]).arg[1])
<1>4. g \in Slot /\ Grown(inode', g)
  <2>1. Wants(p) = s /\ Head(todo[p]).op = "create"
    BY LockedRet DEF CreateFound
  <2>2. i \in Igets(p, Wants(p)) /\ i \in Inum
    BY <2>1, <1>1, <1>3, DirInodes DEF Igets
  <2>3. ~NoEntry(i)
    BY <2>2, <1>1, Gets
  <2> QED BY <2>2, <2>3, <1>2, <1>3, SameIlocked, GrownGot
<1> HIDE DEF g
<1>5. /\ FrameOK(x, cwd[p]) /\ x.ip = s /\ x.dp = None /\ x.op \notin Givers
      /\ FrameOK(y, cwd[p]) /\ y.ip = g /\ y.dp = None
  <2>1. FrameOK(x, cwd[p]) /\ x.ip = s /\ x.dp = None /\ x.op \notin Givers
    BY <1>2, FrameOKs, FrameIs
  <2>2. FrameOK(y, cwd[p]) /\ y.ip = g /\ y.dp = None
    BY <1>4, <1>2, FrameIs, IpFrame
  <2> QED BY <2>1, <2>2
<1>6. Do(p, <<x, y>>)
  BY <1>3 DEF g
<1> HIDE DEF x, y
<1>7. Pays(p, None, g, x.ip, x.dp, y.ip, y.dp, None, None)
  BY <1>5, <1>2, NoOn DEF Pays
<1>8. ret' = [ret EXCEPT ![p] = None] /\ None \in SlotOrNone
  BY NoOn DEF CreateFound, Returns
<1> QED BY <1>1, <1>2, <1>4, <1>5, <1>6, <1>7, <1>8, Does2

LEMMA KeepsExists ==
  ASSUME IInv, NEW p \in Proc, Exists(p)
  PROVE  IInv'
<1> DEFINE s == Head(todo[p]).ip
<1>1. At(p, "exists") /\ UNCHANGED <<cwd, fd>>
  BY DEF Exists, Locked
<1>2. /\ todo[p] # <<>> /\ CacheOK(inode) /\ s \in Slot
      /\ Head(todo[p]).dp = None /\ ret[p] = None /\ Kept(Tail(todo[p]))
  BY <1>1, AtIp
<1>3. Grown(inode', None)
  BY <1>2, SameIlocked, GrownSame DEF Exists
<1>4. \/ ret' = ret /\ Do(p, <<Iput(s)>>)
      \/ ret' = [ret EXCEPT ![p] = s] /\ Do(p, <<>>)
  BY DEF Exists, Returns
<1>5. ret = [ret EXCEPT ![p] = None]
  BY <1>2, Stays
<1> QED BY <1>1, <1>2, <1>3, <1>4, <1>5, PaysFrame, PutIt, GiveIt

LEMMA IallocIs ==
  ASSUME FreeInodes # {} PROVE Ialloc \in Inum
<1>1. FreeInodes \in SUBSET Nat /\ FreeInodes \subseteq Inum
  BY DEF FreeInodes, Inum
<1>2. \E x \in FreeInodes : \A y \in FreeInodes : x <= y
  BY <1>1, LeastOf
<1> QED BY <1>1, <1>2 DEF Ialloc

\* The frames of create() and sys_unlink() that hold two inodes.
LEMMA TakeTwo ==
  ASSUME IInv, NEW p \in Proc, todo[p] # <<>>, cwd[p] # None,
         Head(todo[p]).ip = None, Head(todo[p]).dp = None, ret[p] \in Slot,
         NEW op \in {"create2", "unlink2"}, op \in Givers => Taken(Tail(todo[p])),
         NEW g \in Slot, NEW arg, Do(p, <<Frame(op, g, ret[p], arg)>>),
         UNCHANGED <<cwd, fd>>, ret' = [ret EXCEPT ![p] = None], Grown(inode', g)
  PROVE  IInv'
<1> DEFINE x == Frame(op, g, ret[p], arg)
<1>1. FrameOK(x, cwd[p]) /\ x.op = op /\ x.ip = g /\ x.dp = ret[p]
  BY TwoFrame, FrameIs
<1>2. Do(p, <<x>>) /\ None \in SlotOrNone
  BY NoOn
<1> HIDE DEF x
<1>3. Pays(p, None, g, x.ip, x.dp, None, None, None, None)
  BY <1>1, NoOn DEF Pays
<1> QED BY <1>1, <1>2, <1>3, Does1

LEMMA KeepsCreateAlloc ==
  ASSUME IInv, NEW p \in Proc, CreateAlloc(p)
  PROVE  IInv'
<1> DEFINE s == ret[p]
<1>1. At(p, "create") /\ s # None /\ UNCHANGED <<cwd, fd>>
  BY LockedRet DEF CreateAlloc
<1>2. /\ todo[p] # <<>> /\ CacheOK(inode) /\ s \in Slot /\ cwd[p] # None
      /\ Head(todo[p]).ip = None /\ Head(todo[p]).dp = None
      /\ Taken(Tail(todo[p]))
  BY <1>1, AtTaker, SlotNotNone
<1>3. FreeInodes # {}
  <2>1. PanicOf(p) = "" /\ Head(todo[p]).op = "create"
    BY <1>1 DEF At
  <2>2. Wants(p) = s
    BY LockedRet DEF CreateAlloc
  <2>3. Dirlookup(s, Head(todo[p]).arg[2]) = {}
    BY DEF CreateAlloc
  <2> QED BY <2>1, <2>2, <2>3, <1>1 DEF PanicOf
<1>4. Iget(Ialloc) \in Slot /\ Grown(inode', Iget(Ialloc))
  <2>1. inode' = Referenced(Ilocked(s), Ialloc)
    BY DEF CreateAlloc
  <2>2. Wants(p) = s /\ Head(todo[p]).op = "create"
    BY LockedRet DEF CreateAlloc
  <2>3. Dirlookup(s, Head(todo[p]).arg[2]) = {}
    BY DEF CreateAlloc
  <2>4. Ialloc \in Igets(p, Wants(p))
    BY <2>2, <2>3, <1>1, <1>3, IallocIs DEF Igets
  <2>5. ~NoEntry(Ialloc)
    BY <2>4, <1>1, Gets
  <2> QED BY <2>1, <2>5, <1>2, <1>3, IallocIs, SameIlocked, GrownGot
<1>5. /\ Do(p, <<Frame("create2", Iget(Ialloc), s, Head(todo[p]).arg)>>)
      /\ ret' = [ret EXCEPT ![p] = None]
  BY DEF CreateAlloc, Returns
<1> QED BY <1>1, <1>2, <1>4, <1>5, TakeTwo

LEMMA KeepsCreateLink ==
  ASSUME IInv, NEW p \in Proc, CreateLink(p)
  PROVE  IInv'
<1> DEFINE s == Head(todo[p]).ip
           d == Head(todo[p]).dp
           x == Iput(d)
<1>1. At(p, "create2") /\ UNCHANGED <<cwd, fd>>
  BY DEF CreateLink, Locked
<1>2. /\ todo[p] # <<>> /\ CacheOK(inode) /\ s \in Slot /\ d \in Slot
      /\ ret[p] = None /\ Kept(Tail(todo[p]))
  BY <1>1, AtTwo
<1>3. Grown(inode', None)
  <2>1. inode' = Nlink([Ilocked(s) EXCEPT ![s].nlink = 1], d,
                       Dotdot(Head(todo[p]).arg[1]))
    BY DEF CreateLink
  <2>2. SameRefs([Ilocked(s) EXCEPT ![s].nlink = 1])
    BY <1>2, SameIlocked, SameNlink
  <2>3. SameRefs(inode')
    BY <2>1, <2>2, <1>2, SameNlink
  <2> QED BY <2>3, <1>2, GrownSame
<1>4. Do(p, <<x>>) /\ ret' = [ret EXCEPT ![p] = s]
  BY DEF CreateLink, Returns
<1>5. /\ FrameOK(x, cwd[p]) /\ x.ip = d /\ x.dp = None /\ x.op \notin Givers
      /\ x.op \in Puts /\ s \in SlotOrNone
  <2>1. FrameOK(x, cwd[p]) /\ x.ip = d /\ x.dp = None /\ x.op \notin Givers
    BY <1>2, FrameOKs, FrameIs
  <2>2. x.op \in Puts /\ s \in SlotOrNone
    BY <1>2, FrameIs, Kinds, NoOn
  <2> QED BY <2>1, <2>2
<1> HIDE DEF x
<1>6. Pays(p, s, None, x.ip, x.dp, None, None, None, None)
  BY <1>5, <1>2, NoOn DEF Pays
<1> QED BY <1>1, <1>2, <1>3, <1>4, <1>5, <1>6, Does1

LEMMA KeepsMade ==
  ASSUME IInv, NEW p \in Proc, Made(p)
  PROVE  IInv'
<1> DEFINE s == ret[p]
           x == Unlockput(s)
<1>1. /\ At(p, "made") /\ s # None /\ UNCHANGED <<inode, cwd, fd>>
      /\ Do(p, <<x>>) /\ ret' = [ret EXCEPT ![p] = None]
  BY DEF Made, Returns
<1>2. /\ todo[p] # <<>> /\ CacheOK(inode) /\ s \in Slot /\ cwd[p] # None
      /\ Head(todo[p]).ip = None /\ Head(todo[p]).dp = None
  BY <1>1, AtTaker, SlotNotNone
<1>3. Grown(inode', None)
  BY <1>1, <1>2, SameInode, GrownSame
<1>4. /\ FrameOK(x, cwd[p]) /\ x.ip = s /\ x.dp = None /\ x.op \notin Givers
      /\ None \in SlotOrNone
  BY <1>2, FrameOKs, FrameIs, NoOn
<1> HIDE DEF x
<1>5. Pays(p, None, None, x.ip, x.dp, None, None, None, None)
  BY <1>4, <1>2, NoOn DEF Pays
<1> QED BY <1>1, <1>2, <1>3, <1>4, <1>5, Does1

LEMMA KeepsLinkCount ==
  ASSUME IInv, NEW p \in Proc, LinkCount(p)
  PROVE  IInv'
<1> DEFINE s == ret[p]
           new == Head(todo[p]).arg
<1>1. /\ At(p, "link1") /\ s # None /\ UNCHANGED <<cwd, fd>>
      /\ ret' = [ret EXCEPT ![p] = None]
  BY LockedRet DEF LinkCount, Returns
<1>2. /\ todo[p] # <<>> /\ CacheOK(inode) /\ s \in Slot /\ cwd[p] # None
      /\ Head(todo[p]).ip = None /\ Head(todo[p]).dp = None
  BY <1>1, AtTaker, SlotNotNone
<1>3. SameRefs(Ilocked(s)) /\ SameRefs(Nlink(Ilocked(s), s, 1))
  BY <1>2, SameIlocked, SameNlink
<1>4. Grown(inode', None)
  <2>1. inode' = Ilocked(s) \/ inode' = Nlink(Ilocked(s), s, 1)
    BY DEF LinkCount
  <2> QED BY <2>1, <1>2, <1>3, GrownSame
<1>5. CASE Do(p, <<Iput(s)>>)
  BY <1>1, <1>2, <1>4, <1>5, PaysRet, PutIt
<1>6. CASE Do(p, <<Walk(new, TRUE), Frame("link2", s, None, Last(new))>>)
  <2> DEFINE x == Walk(new, TRUE)
             y == Frame("link2", s, None, Last(new))
  <2>1. FrameOK(x, cwd[p]) /\ x.ip = None /\ x.dp = None
    <3>1. x = Frame("walk", None, None, <<new, TRUE>>)
      BY DEF Walk
    <3> HIDE DEF x
    <3>2. PICK a : x = Frame("walk", None, None, a)
      BY <3>1, Zenon
    <3>3. x.op = "walk" /\ x.ip = None /\ x.dp = None
      BY <3>2, FrameIs
    <3>4. x.op \in NoPtr /\ x.op \notin IpOps /\ x.op \notin DpOps
      BY <3>3 DEF NoPtr, IpOps, DpOps
    <3> QED BY <3>3, <3>4, <1>2 DEF FrameOK
  <2>2. /\ FrameOK(y, cwd[p]) /\ y.ip = s /\ y.dp = None
        /\ y.op \notin Givers /\ y.op \in Takers
    BY <1>2, FrameIs, IpFrame, Kinds
  <2>3. Do(p, <<x, y>>) /\ None \in SlotOrNone
    BY <1>6, NoOn
  <2> HIDE DEF x, y
  <2>4. Pays(p, None, None, x.ip, x.dp, y.ip, y.dp, None, None)
    <3>1. Pays(p, None, None, None, None, s, None, None, None)
      <4>1. ASSUME NEW t \in Slot
            PROVE  /\ On(None, t) = 0 /\ On(s, t) \in Nat
                   /\ On(Head(todo[p]).ip, t) = 0 /\ On(Head(todo[p]).dp, t) = 0
        BY <1>2, NoOn
      <4> QED BY <4>1 DEF Pays
    <3> QED BY <3>1, <2>1, <2>2
  <2> QED BY <2>1, <2>2, <2>3, <2>4, <1>1, <1>2, <1>4, Does2
<1>7. \/ Do(p, <<Iput(s)>>)
      \/ Do(p, <<Walk(new, TRUE), Frame("link2", s, None, Last(new))>>)
  BY Zenon DEF LinkCount
<1> QED BY <1>5, <1>6, <1>7

LEMMA KeepsDirlink ==
  ASSUME IInv, NEW p \in Proc, Dirlink(p)
  PROVE  IInv'
<1> DEFINE s == Head(todo[p]).ip
           d == ret[p]
<1>1. /\ At(p, "link2") /\ d # None /\ UNCHANGED <<cwd, fd>>
      /\ ret' = [ret EXCEPT ![p] = None]
  BY LockedRet DEF Dirlink, Returns
<1>2. /\ todo[p] # <<>> /\ CacheOK(inode) /\ s \in Slot /\ d \in Slot
      /\ Head(todo[p]).dp = None /\ cwd[p] # None
  BY <1>1, AtLink2, SlotNotNone
<1>3. SameRefs(Ilocked(d))
  BY <1>2, SameIlocked
<1>4. CASE inode' = Ilocked(d) /\ Do(p, <<Iput(d), Iput(s)>>)
  <2> DEFINE x == Iput(d)
             y == Iput(s)
  <2>1. /\ FrameOK(x, cwd[p]) /\ x.ip = d /\ x.dp = None /\ x.op \notin Givers
    BY <1>2, FrameOKs, FrameIs
  <2>2. /\ FrameOK(y, cwd[p]) /\ y.ip = s /\ y.dp = None /\ y.op \notin Givers
    BY <1>2, FrameOKs, FrameIs
  <2>3. Do(p, <<x, y>>) /\ None \in SlotOrNone /\ Grown(inode', None)
    BY <1>2, <1>3, <1>4, NoOn, GrownSame
  <2> HIDE DEF x, y
  <2>4. Pays(p, None, None, x.ip, x.dp, y.ip, y.dp, None, None)
    BY <2>1, <2>2, <1>2, NoOn DEF Pays
  <2> QED BY <2>1, <2>2, <2>3, <2>4, <1>1, <1>2, Does2
<1>5. ASSUME NEW i \in Inum, ~NoEntry(i), inode' = Referenced(Ilocked(d), i),
             Do(p, <<Iput(Iget(i)), Unlockput(d), LinkBad(s)>>)
      PROVE  IInv'
  <2> DEFINE g == Iget(i)
             x == Iput(g)
             y == Unlockput(d)
             z == LinkBad(s)
  <2>1. g \in Slot /\ Grown(inode', g)
    BY <1>2, <1>3, <1>5, GrownGot
  <2>2. Do(p, <<x, y, z>>)
    BY <1>5
  <2> HIDE DEF g
  <2>3. /\ FrameOK(x, cwd[p]) /\ x.ip = g /\ x.dp = None /\ x.op \notin Givers
    BY <2>1, FrameOKs, FrameIs
  <2>4. /\ FrameOK(y, cwd[p]) /\ y.ip = d /\ y.dp = None /\ y.op \notin Givers
    BY <1>2, FrameOKs, FrameIs
  <2>5. /\ FrameOK(z, cwd[p]) /\ z.ip = s /\ z.dp = None /\ z.op \notin Givers
    BY <1>2, FrameOKs, FrameIs
  <2> HIDE DEF x, y, z
  <2>6. Pays(p, None, g, x.ip, x.dp, y.ip, y.dp, z.ip, z.dp)
    BY <2>3, <2>4, <2>5, <1>2, NoOn DEF Pays
  <2> QED BY <2>1, <2>2, <2>3, <2>4, <2>5, <2>6, <1>1, <1>2, Does3
<1>6. \/ inode' = Ilocked(d) /\ Do(p, <<Iput(d), Iput(s)>>)
      \/ \E i \in Dirlookup(d, Head(todo[p]).arg) :
           /\ inode' = Referenced(Ilocked(d), i)
           /\ Do(p, <<Iput(Iget(i)), Unlockput(d), LinkBad(s)>>)
  BY Zenon DEF Dirlink
<1>7. ASSUME NEW i \in Dirlookup(d, Head(todo[p]).arg)
      PROVE  i \in Inum /\ ~NoEntry(i)
  <2>1. Wants(p) = d /\ Head(todo[p]).op = "link2"
    BY LockedRet DEF Dirlink
  <2>2. i \in Igets(p, Wants(p)) /\ i \in Inum
    BY <2>1, <1>1, <1>7, DirInodes DEF Igets
  <2> QED BY <2>2, <1>1, Gets
<1> QED BY <1>4, <1>5, <1>6, <1>7

LEMMA KeepsLinkUndo ==
  ASSUME IInv, NEW p \in Proc, LinkUndo(p)
  PROVE  IInv'
<1> DEFINE s == Head(todo[p]).ip
<1>1. /\ At(p, "linkbad") /\ UNCHANGED <<cwd, fd, ret>> /\ Do(p, <<Iput(s)>>)
      /\ inode' = Nlink(Ilocked(s), s, Undo)
  BY DEF LinkUndo, Locked
<1>2. /\ todo[p] # <<>> /\ CacheOK(inode) /\ s \in Slot
      /\ Head(todo[p]).dp = None /\ ret[p] = None
  BY <1>1, AtIp
<1>3. ret' = [ret EXCEPT ![p] = None]
  BY <1>1, <1>2, Stays
<1>4. Grown(inode', None)
  <2>1. SameRefs(inode')
    BY <1>1, <1>2, SameIlocked, SameNlink
  <2> QED BY <2>1, <1>2, GrownSame
<1> QED BY <1>1, <1>2, <1>3, <1>4, PaysFrame, PutIt

LEMMA KeepsUnlinkFind ==
  ASSUME IInv, NEW p \in Proc, UnlinkFind(p)
  PROVE  IInv'
<1> DEFINE d == ret[p]
           name == Head(todo[p]).arg
<1>1. /\ At(p, "unlink1") /\ d # None /\ UNCHANGED <<cwd, fd>>
      /\ ret' = [ret EXCEPT ![p] = None]
  BY LockedRet DEF UnlinkFind, Returns
<1>2. /\ todo[p] # <<>> /\ CacheOK(inode) /\ d \in Slot /\ cwd[p] # None
      /\ Head(todo[p]).ip = None /\ Head(todo[p]).dp = None
  BY <1>1, AtTaker, SlotNotNone
<1>3. SameRefs(Ilocked(d))
  BY <1>2, SameIlocked
<1>4. CASE inode' = Ilocked(d) /\ Do(p, <<Iput(d)>>)
  <2>1. Grown(inode', None)
    BY <1>2, <1>3, <1>4, GrownSame
  <2> QED BY <2>1, <1>1, <1>2, <1>4, PaysRet, PutIt
<1>5. ASSUME NEW i \in Inum, ~NoEntry(i), inode' = Referenced(Ilocked(d), i),
             Do(p, <<Frame("unlink2", Iget(i), d, name)>>)
      PROVE  IInv'
  <2>1. Iget(i) \in Slot /\ Grown(inode', Iget(i))
    BY <1>2, <1>3, <1>5, GrownGot
  <2> QED BY <2>1, <1>1, <1>2, <1>5, Kinds, TakeTwo
<1> DEFINE found == IF name \in {".", ".."} THEN {} ELSE Dirlookup(d, name)
<1>6. \/ inode' = Ilocked(d) /\ Do(p, <<Iput(d)>>)
      \/ \E i \in found :
           /\ inode' = Referenced(Ilocked(d), i)
           /\ Do(p, <<Frame("unlink2", Iget(i), d, name)>>)
  BY Zenon DEF UnlinkFind
<1>7. ASSUME NEW i \in found
      PROVE  i \in Inum /\ ~NoEntry(i)
  <2>1. Wants(p) = d /\ Head(todo[p]).op = "unlink1"
    BY LockedRet DEF UnlinkFind
  <2>2. i \in Dirlookup(d, name) /\ name \notin {".", ".."}
    BY <1>7
  <2>3. i \in Igets(p, Wants(p)) /\ i \in Inum
    BY <2>1, <2>2, <1>1, DirInodes DEF Igets
  <2> QED BY <2>3, <1>1, Gets
<1> HIDE DEF found
<1> QED BY <1>4, <1>5, <1>6, <1>7

LEMMA KeepsUnlinkErase ==
  ASSUME IInv, NEW p \in Proc, UnlinkErase(p)
  PROVE  IInv'
<1> DEFINE s == Head(todo[p]).ip
           d == Head(todo[p]).dp
<1>1. At(p, "unlink2") /\ UNCHANGED <<cwd, fd, ret>>
  BY DEF UnlinkErase, Locked
<1>2. /\ todo[p] # <<>> /\ CacheOK(inode) /\ s \in Slot /\ d \in Slot
      /\ ret[p] = None /\ cwd[p] # None
  BY <1>1, AtTwo, SlotNotNone
<1>3. ret' = [ret EXCEPT ![p] = None] /\ None \in SlotOrNone
  BY <1>1, <1>2, Stays, NoOn
<1>4. Grown(inode', None)
  <2>1. \/ inode' = Ilocked(s)
        \/ inode' = Nlink(Ilocked(s), d, -Dotdot(Loaded(s).type))
    BY DEF UnlinkErase
  <2>2. SameRefs(inode')
    BY <2>1, <1>2, SameIlocked, SameNlink
  <2> QED BY <2>2, <1>2, GrownSame
<1>5. CASE Do(p, <<Iput(s), Unlockput(d)>>)
  <2> DEFINE x == Iput(s)
             y == Unlockput(d)
  <2>1. /\ FrameOK(x, cwd[p]) /\ x.ip = s /\ x.dp = None /\ x.op \notin Givers
    BY <1>2, FrameOKs, FrameIs
  <2>2. /\ FrameOK(y, cwd[p]) /\ y.ip = d /\ y.dp = None /\ y.op \notin Givers
    BY <1>2, FrameOKs, FrameIs
  <2>3. Do(p, <<x, y>>)
    BY <1>5
  <2> HIDE DEF x, y
  <2>4. Pays(p, None, None, x.ip, x.dp, y.ip, y.dp, None, None)
    BY <2>1, <2>2, <1>2, NoOn DEF Pays
  <2> QED BY <2>1, <2>2, <2>3, <2>4, <1>1, <1>2, <1>3, <1>4, Does2
<1>6. CASE Do(p, <<Iput(d), Frame("unlink3", s, None, <<>>)>>)
  <2> DEFINE x == Iput(d)
             y == Frame("unlink3", s, None, <<>>)
  <2>1. /\ FrameOK(x, cwd[p]) /\ x.ip = d /\ x.dp = None /\ x.op \notin Givers
    BY <1>2, FrameOKs, FrameIs
  <2>2. /\ FrameOK(y, cwd[p]) /\ y.ip = s /\ y.dp = None /\ y.op \notin Givers
    BY <1>2, IpFrame, FrameIs, Kinds
  <2>3. Do(p, <<x, y>>)
    BY <1>6
  <2> HIDE DEF x, y
  <2>4. Pays(p, None, None, x.ip, x.dp, y.ip, y.dp, None, None)
    <3>1. Pays(p, None, None, d, None, s, None, None, None)
      BY <1>2, NoOn DEF Pays
    <3> QED BY <3>1, <2>1, <2>2
  <2> QED BY <2>1, <2>2, <2>3, <2>4, <1>1, <1>2, <1>3, <1>4, Does2
<1>7. \/ Do(p, <<Iput(s), Unlockput(d)>>)
      \/ Do(p, <<Iput(d), Frame("unlink3", s, None, <<>>)>>)
  BY Zenon DEF UnlinkErase
<1> QED BY <1>5, <1>6, <1>7

LEMMA KeepsUnlinkCount ==
  ASSUME IInv, NEW p \in Proc, UnlinkCount(p)
  PROVE  IInv'
<1> DEFINE s == Head(todo[p]).ip
<1>1. /\ At(p, "unlink3") /\ UNCHANGED <<cwd, fd, ret>> /\ Do(p, <<Iput(s)>>)
      /\ inode' = Nlink(inode, s, -1)
  BY DEF UnlinkCount
<1>2. /\ todo[p] # <<>> /\ CacheOK(inode) /\ s \in Slot
      /\ Head(todo[p]).dp = None /\ ret[p] = None
  BY <1>1, AtIp
<1>3. ret' = [ret EXCEPT ![p] = None]
  BY <1>1, <1>2, Stays
<1>4. Grown(inode', None)
  <2>1. SameRefs(inode')
    BY <1>1, <1>2, SameInode, SameNlink
  <2> QED BY <2>1, <1>2, GrownSame
<1> QED BY <1>1, <1>2, <1>3, <1>4, PaysFrame, PutIt

-----------------------------------------------------------------------------
(* Steps that change the current directory or the open file                *)

\* The pointers of p are to be c, f, r and those of t: the ones it has and g.
Adds(p, c, f, r, t, g) ==
  \A s \in Slot :
    On(c, s) + On(f, s) + On(r, s) + Count(t, s)
      = On(g, s) + (On(cwd[p], s) + On(fd[p], s) + On(ret[p], s) + Count(todo[p], s))

LEMMA Steps ==
  ASSUME IInv, NEW p \in Proc,
         NEW c \in SlotOrNone, NEW f \in SlotOrNone, NEW r \in SlotOrNone,
         NEW t, Good(t, c), r # None => Kept(t),
         cwd' = [cwd EXCEPT ![p] = c], fd' = [fd EXCEPT ![p] = f],
         ret' = [ret EXCEPT ![p] = r], todo' = [todo EXCEPT ![p] = t],
         NEW g, Grown(inode', g), Adds(p, c, f, r, t, g)
  PROVE  IInv'
<1>1. CacheOK(inode)'
  BY GrownOK
<1>2. ASSUME NEW s \in Slot
      PROVE  inode'[s].ref = inode[s].ref + Local(c, f, r, t, s)
                             - Local(cwd[p], fd[p], ret[p], todo[p], s)
  <2> DEFINE n0 == inode[s].ref
             n1 == inode'[s].ref
             new == Local(c, f, r, t, s)
             old == Local(cwd[p], fd[p], ret[p], todo[p], s)
             gg == On(g, s)
  <2>1. n1 = n0 + gg /\ gg \in Nat
    BY NoOn DEF Grown
  <2>2. new = gg + old
    BY DEF Adds, Local
  <2>3. n0 \in Nat /\ old \in Nat
    BY RefsLocal
  <2> HIDE DEF n0, n1, new, old, gg
  <2>4. n1 = n0 + new - old
    BY <2>1, <2>2, <2>3
  <2> QED BY <2>4 DEF n0, n1, new, old
<1>3. Moved(p, c, f, r, t, inode')
  BY <1>2 DEF Moved
<1> QED BY <1>1, <1>3, Step

\* Frames of a process with a directory, when it has another.
LEMMA GoodCwd ==
  ASSUME NEW t, NEW c, Good(t, c), NEW d, d # None
  PROVE  Good(t, d)
<1>1. \A x : FrameOK(x, c) => FrameOK(x, d)
  BY DEF FrameOK
<1> QED BY <1>1 DEF Good

LEMMA GoodEmpty == \A c : Good(<<>>, c)
  BY Empty DEF Good

\* A process between calls.
LEMMA Idle ==
  ASSUME IInv, NEW p \in Proc, todo[p] = <<>>
  PROVE  /\ ret[p] = None /\ \A s : Count(todo[p], s) = 0
         /\ CacheOK(inode)
         /\ cwd[p] # None => cwd[p] \in Slot
         /\ fd[p] # None => fd[p] \in Slot
<1>1. ret[p] # None => Kept(<<>>)
  BY DEF IInv, FrameInv
<1>2. \A s : Count(todo[p], s) = 0
  BY CountEmpty
<1> QED BY <1>1, <1>2, NotKept, Stays DEF SlotOrNone

\* The frames of close() and exit().
LEMMA PutEnd ==
  ASSUME NEW s \in Slot, NEW c
  PROVE  /\ Good(<<Iput(s), End>>, c)
         /\ \A u \in Slot : Count(<<Iput(s), End>>, u) = On(s, u)
<1> DEFINE x == Iput(s)
           y == End
<1>1. /\ FrameOK(x, c) /\ x.ip = s /\ x.dp = None /\ x.op \notin Givers
  BY FrameOKs, FrameIs
<1>2. y.op = "end" /\ y.ip = None /\ y.dp = None
  BY FrameIs
<1>3. FrameOK(y, c) /\ y.op \notin Givers
  BY <1>2 DEF FrameOK, NoPtr, IpOps, DpOps, Puts, Givers
<1> HIDE DEF x, y
<1> DEFINE e == <<>>
<1>4. <<x, y>> \o e = <<x, y>>
  <2>1. <<x, y>> \in Seq({x, y})
    OBVIOUS
  <2> QED BY <2>1, ConcatEmptySeq
<1>5. Good(e, c) /\ \A u : Count(e, u) = 0
  BY GoodEmpty, CountEmpty
<1> HIDE DEF e
<1>6. /\ Good(<<x, y>>, c)
      /\ \A u : Count(<<x, y>>, u)
                  = On(x.ip, u) + On(x.dp, u) + (On(y.ip, u) + On(y.dp, u) + Count(e, u))
  <2>1. /\ Good(<<x, y>> \o e, c)
        /\ \A u : Count(<<x, y>> \o e, u)
                    = On(x.ip, u) + On(x.dp, u) + (On(y.ip, u) + On(y.dp, u) + Count(e, u))
    BY <1>1, <1>3, <1>5, Push2
  <2> QED BY <2>1, <1>4, Zenon
<1>7. ASSUME NEW u \in Slot PROVE Count(<<x, y>>, u) = On(s, u)
  <2>1. /\ On(x.dp, u) = 0 /\ On(y.ip, u) = 0 /\ On(y.dp, u) = 0
        /\ Count(e, u) = 0 /\ On(s, u) \in Nat /\ x.ip = s
    BY <1>1, <1>2, <1>5, NoOn
  <2> QED BY <2>1, <1>6
<1> QED BY <1>6, <1>7 DEF x, y

LEMMA KeepsClose ==
  ASSUME IInv, NEW p \in Proc, Close(p)
  PROVE  IInv'
<1> DEFINE t == <<Iput(fd[p]), End>>
<1>1. /\ todo[p] = <<>> /\ fd[p] # None /\ todo' = [todo EXCEPT ![p] = t]
      /\ fd' = [fd EXCEPT ![p] = None] /\ UNCHANGED <<inode, cwd, ret>>
  BY DEF Close
<1>2. /\ ret[p] = None /\ CacheOK(inode) /\ fd[p] \in Slot
      /\ \A s : Count(todo[p], s) = 0
  BY <1>1, Idle
<1>3. /\ ret' = [ret EXCEPT ![p] = None] /\ cwd' = [cwd EXCEPT ![p] = cwd[p]]
      /\ cwd[p] \in SlotOrNone /\ None \in SlotOrNone
  BY <1>1, <1>2, Stays, NoOn
<1>4. Good(t, cwd[p]) /\ \A s \in Slot : Count(t, s) = On(fd[p], s)
  BY <1>2, PutEnd
<1>5. Grown(inode', None)
  BY <1>1, <1>2, SameInode, GrownSame
<1> HIDE DEF t
<1>6. Adds(p, cwd[p], None, None, t, None)
  <2>1. ASSUME NEW s \in Slot
        PROVE  /\ Count(t, s) = On(fd[p], s) /\ Count(todo[p], s) = 0
               /\ On(None, s) = 0 /\ On(ret[p], s) = 0
               /\ On(cwd[p], s) \in Nat /\ On(fd[p], s) \in Nat
    BY <1>2, <1>4, NoOn
  <2> QED BY <2>1 DEF Adds
<1> QED BY <1>1, <1>3, <1>4, <1>5, <1>6, Steps

LEMMA KeepsExit ==
  ASSUME IInv, NEW p \in Proc, Exit(p)
  PROVE  IInv'
<1> DEFINE t == <<Iput(cwd[p]), End>>
<1>1. /\ todo[p] = <<>> /\ cwd[p] # None /\ todo' = [todo EXCEPT ![p] = t]
      /\ cwd' = [cwd EXCEPT ![p] = None] /\ UNCHANGED <<inode, fd, ret>>
  BY DEF Exit
<1>2. /\ ret[p] = None /\ CacheOK(inode) /\ cwd[p] \in Slot
      /\ \A s : Count(todo[p], s) = 0
  BY <1>1, Idle
<1>3. /\ ret' = [ret EXCEPT ![p] = None] /\ fd' = [fd EXCEPT ![p] = fd[p]]
      /\ fd[p] \in SlotOrNone /\ None \in SlotOrNone
  BY <1>1, <1>2, Stays, NoOn
<1>4. Good(t, None) /\ \A s \in Slot : Count(t, s) = On(cwd[p], s)
  BY <1>2, PutEnd
<1>5. Grown(inode', None)
  BY <1>1, <1>2, SameInode, GrownSame
<1> HIDE DEF t
<1>6. Adds(p, None, fd[p], None, t, None)
  <2>1. ASSUME NEW s \in Slot
        PROVE  /\ Count(t, s) = On(cwd[p], s) /\ Count(todo[p], s) = 0
               /\ On(None, s) = 0 /\ On(ret[p], s) = 0
               /\ On(cwd[p], s) \in Nat /\ On(fd[p], s) \in Nat
    BY <1>2, <1>4, NoOn
  <2> QED BY <2>1 DEF Adds
<1> QED BY <1>1, <1>3, <1>4, <1>5, <1>6, Steps

LEMMA KeepsFork ==
  ASSUME IInv, NEW p \in Proc, NEW q \in Proc, Fork(p, q)
  PROVE  IInv'
<1>1. /\ todo[p] = <<>> /\ cwd[p] # None /\ todo[q] = <<>> /\ cwd[q] = None
      /\ inode' = [inode EXCEPT ![cwd[p]].ref = @ + 1]
      /\ cwd' = [cwd EXCEPT ![q] = cwd[p]] /\ UNCHANGED <<fd, todo, ret>>
  BY DEF Fork
<1>2. /\ CacheOK(inode) /\ cwd[p] \in Slot /\ ret[q] = None
      /\ \A s : Count(todo[q], s) = 0
  BY <1>1, Idle
<1>3. /\ ret' = [ret EXCEPT ![q] = None] /\ fd' = [fd EXCEPT ![q] = fd[q]]
      /\ todo' = [todo EXCEPT ![q] = todo[q]]
      /\ fd[q] \in SlotOrNone /\ None \in SlotOrNone /\ cwd[p] \in SlotOrNone
  BY <1>1, <1>2, Stays, NoOn
<1>4. Good(todo[q], cwd[p])
  BY <1>1, GoodEmpty
<1>5. inode[cwd[p]].ref > 0
  BY <1>2, RefsLocal
<1>6. Grown(inode', cwd[p])
  BY <1>1, <1>2, <1>5, GrownDup
<1>7. Adds(q, cwd[p], fd[q], None, todo[q], cwd[p])
  <2>1. ASSUME NEW s \in Slot
        PROVE  /\ Count(todo[q], s) = 0
               /\ On(None, s) = 0 /\ On(ret[q], s) = 0 /\ On(cwd[q], s) = 0
               /\ On(cwd[p], s) \in Nat /\ On(fd[q], s) \in Nat
    BY <1>1, <1>2, NoOn
  <2> QED BY <2>1 DEF Adds
<1> QED BY <1>1, <1>3, <1>4, <1>6, <1>7, Steps

LEMMA KeepsOpened ==
  ASSUME IInv, NEW p \in Proc, Opened(p)
  PROVE  IInv'
<1> DEFINE s == ret[p]
           T == Tail(todo[p])
<1>1. /\ At(p, "opened") /\ s # None /\ UNCHANGED <<inode, cwd>>
      /\ ret' = [ret EXCEPT ![p] = None]
  BY DEF Opened, Returns
<1>2. /\ todo[p] # <<>> /\ CacheOK(inode) /\ s \in Slot
      /\ Head(todo[p]).ip = None /\ Head(todo[p]).dp = None
  BY <1>1, AtTaker
<1>3. Grown(inode', None)
  BY <1>1, <1>2, SameInode, GrownSame
<1>4. CASE fd[p] = None /\ fd' = [fd EXCEPT ![p] = s] /\ Do(p, <<>>)
  <2>1. /\ Good(T, cwd[p])
        /\ \A u : /\ Count(T, u) \in Nat
                  /\ Count(todo[p], u) = On(Head(todo[p]).ip, u)
                                         + On(Head(todo[p]).dp, u) + Count(T, u)
    BY <1>2, Split
  <2>2. todo' = [todo EXCEPT ![p] = T]
    <3>1. <<>> \o T = T
      BY <2>1, Push0
    <3>2. todo' = [todo EXCEPT ![p] = <<>> \o T]
      BY <1>4 DEF Do
    <3> QED BY <3>1, <3>2, Zenon
  <2>3. /\ cwd' = [cwd EXCEPT ![p] = cwd[p]] /\ cwd[p] \in SlotOrNone
        /\ None \in SlotOrNone /\ s \in SlotOrNone
    BY <1>1, <1>2, Stays, NoOn
  <2> HIDE DEF T
  <2>4. Adds(p, cwd[p], s, None, T, None)
    <3>1. ASSUME NEW u \in Slot
          PROVE  /\ Count(todo[p], u) = Count(T, u) /\ On(None, u) = 0
                 /\ On(fd[p], u) = 0 /\ On(cwd[p], u) \in Nat
                 /\ On(s, u) \in Nat /\ Count(T, u) \in Nat
      <4>1. On(Head(todo[p]).ip, u) = 0 /\ On(Head(todo[p]).dp, u) = 0
        BY <1>2, NoOn
      <4>2. Count(T, u) \in Nat /\ Count(todo[p], u) = Count(T, u)
        BY <4>1, <2>1
      <4>3. On(fd[p], u) = 0
        BY <1>4, NoOn
      <4> QED BY <4>2, <4>3, NoOn
    <3> QED BY <3>1 DEF Adds
  <2> QED BY <2>1, <2>2, <2>3, <2>4, <1>1, <1>3, <1>4, Steps
<1>5. CASE fd' = fd /\ Do(p, NoFile(s))
  <2>1. Do(p, <<Iput(s)>>)
    BY <1>5 DEF NoFile
  <2> QED BY <2>1, <1>1, <1>2, <1>3, <1>5, PaysRet, PutIt
<1> QED BY <1>4, <1>5 DEF Opened

LEMMA KeepsChdir ==
  ASSUME IInv, NEW p \in Proc, Chdir(p)
  PROVE  IInv'
<1> DEFINE s == ret[p]
           T == Tail(todo[p])
<1>1. /\ At(p, "chdir") /\ s # None /\ inode' = Ilocked(s) /\ fd' = fd
      /\ ret' = [ret EXCEPT ![p] = None]
  BY LockedRet DEF Chdir, Returns
<1>2. /\ todo[p] # <<>> /\ CacheOK(inode) /\ s \in Slot /\ cwd[p] \in Slot
      /\ Head(todo[p]).ip = None /\ Head(todo[p]).dp = None
  BY <1>1, AtTaker
<1>3. Grown(inode', None)
  BY <1>1, <1>2, SameIlocked, GrownSame
<1>4. CASE Do(p, <<Iput(s)>>) /\ cwd' = cwd
  BY <1>1, <1>2, <1>3, <1>4, PaysRet, PutIt
<1>5. CASE Do(p, <<Iput(cwd[p])>>) /\ cwd' = [cwd EXCEPT ![p] = s]
  <2> DEFINE x == Iput(cwd[p])
             t == <<x>> \o T
  <2>1. /\ Good(T, cwd[p])
        /\ \A u : /\ Count(T, u) \in Nat
                  /\ Count(todo[p], u) = On(Head(todo[p]).ip, u)
                                         + On(Head(todo[p]).dp, u) + Count(T, u)
    BY <1>2, Split
  <2>2. /\ FrameOK(x, cwd[p]) /\ x.ip = cwd[p] /\ x.dp = None /\ x.op \notin Givers
    BY <1>2, FrameOKs, FrameIs
  <2>3. todo' = [todo EXCEPT ![p] = t]
    BY <1>5 DEF Do
  <2>4. /\ fd' = [fd EXCEPT ![p] = fd[p]] /\ fd[p] \in SlotOrNone
        /\ None \in SlotOrNone /\ s \in SlotOrNone
    BY <1>1, <1>2, Stays, NoOn
  <2> HIDE DEF x, T
  <2>5. /\ Good(t, cwd[p])
        /\ \A u : Count(t, u) = On(x.ip, u) + On(x.dp, u) + Count(T, u)
    BY <2>1, <2>2, Push1
  <2> HIDE DEF t
  <2>6. Good(t, s)
    BY <2>5, <1>1, GoodCwd
  <2>7. Adds(p, s, fd[p], None, t, None)
    <3>1. ASSUME NEW u \in Slot
          PROVE  /\ Count(todo[p], u) = Count(T, u) /\ On(None, u) = 0
                 /\ Count(t, u) = On(cwd[p], u) + Count(T, u)
                 /\ On(fd[p], u) \in Nat /\ On(cwd[p], u) \in Nat
                 /\ On(s, u) \in Nat /\ Count(T, u) \in Nat
      <4>1. /\ On(Head(todo[p]).ip, u) = 0 /\ On(Head(todo[p]).dp, u) = 0
            /\ On(x.dp, u) = 0 /\ x.ip = cwd[p]
        BY <1>2, <2>2, NoOn
      <4> QED BY <4>1, <2>1, <2>5, NoOn
    <3> QED BY <3>1 DEF Adds
  <2> QED BY <2>3, <2>4, <2>6, <2>7, <1>1, <1>3, <1>5, Steps
<1> QED BY <1>4, <1>5 DEF Chdir

-----------------------------------------------------------------------------
(* Calls begin and end                                                     *)

LEMMA PaysNone ==
  ASSUME NEW p, Head(todo[p]).ip = None, Head(todo[p]).dp = None, ret[p] = None
  PROVE  Pays(p, None, None, None, None, None, None, None, None)
<1>1. ASSUME NEW s \in Slot
      PROVE  On(None, s) + On(None, s) + On(None, s) + On(None, s) + On(None, s)
               + On(None, s) + On(None, s)
             = On(None, s) + On(ret[p], s) + On(Head(todo[p]).ip, s)
               + On(Head(todo[p]).dp, s)
  <2> DEFINE n == On(None, s)
  <2>1. /\ n = 0 /\ On(ret[p], s) = n /\ On(Head(todo[p]).ip, s) = n
        /\ On(Head(todo[p]).dp, s) = n
    BY NoOn
  <2> HIDE DEF n
  <2>2. n + n + n + n + n + n + n = n + n + n + n
    BY <2>1
  <2> QED BY <2>1, <2>2 DEF n
<1> QED BY <1>1 DEF Pays

LEMMA KeepsEndOp ==
  ASSUME IInv, NEW p \in Proc, EndOp(p)
  PROVE  IInv'
<1>1. /\ At(p, "end") /\ UNCHANGED <<inode, cwd, fd>> /\ Do(p, <<>>)
      /\ ret' = [ret EXCEPT ![p] = None]
  BY DEF EndOp, Returns
<1>2. /\ todo[p] # <<>> /\ CacheOK(inode) /\ ret[p] = None
      /\ Head(todo[p]).ip = None /\ Head(todo[p]).dp = None
  BY <1>1, AtEnd
<1>3. Grown(inode', None)
  BY <1>1, <1>2, SameInode, GrownSame
<1>4. Pays(p, None, None, None, None, None, None, None, None) /\ None \in SlotOrNone
  BY <1>2, NoOn, PaysNone
<1> QED BY <1>1, <1>2, <1>3, <1>4, Does0

LEMMA KeepsFailed ==
  ASSUME IInv, NEW p \in Proc, Failed(p)
  PROVE  IInv'
<1>1. PICK op \in {"open", "opened", "create", "made", "link1", "link2",
                   "unlink1", "chdir"} :
        /\ At(p, op) /\ ret[p] = None /\ UNCHANGED <<inode, cwd, fd, ret>>
        /\ Do(p, IF op = "link2" THEN <<LinkBad(Head(todo[p]).ip)>> ELSE <<>>)
  BY DEF Failed
<1>2. /\ ret' = [ret EXCEPT ![p] = None] /\ None \in SlotOrNone
  BY <1>1, Stays, NoOn
<1>3. CacheOK(inode)
  BY DEF IInv
<1>4. Grown(inode', None)
  BY <1>1, <1>3, SameInode, GrownSame
<1>5. CASE op = "link2"
  <2> DEFINE s == Head(todo[p]).ip
             x == LinkBad(s)
  <2>1. /\ todo[p] # <<>> /\ s \in Slot /\ Head(todo[p]).dp = None /\ cwd[p] # None
    BY <1>1, <1>5, AtLink2, SlotNotNone
  <2>2. Do(p, <<x>>)
    BY <1>1, <1>5
  <2>3. /\ FrameOK(x, cwd[p]) /\ x.ip = s /\ x.dp = None /\ x.op \notin Givers
    BY <2>1, FrameOKs, FrameIs
  <2> HIDE DEF x
  <2>4. Pays(p, None, None, x.ip, x.dp, None, None, None, None)
    <3>1. Pays(p, None, None, s, None, None, None, None, None)
      BY <2>1, <1>1, PaysFrame
    <3> QED BY <3>1, <2>3
  <2> QED BY <2>1, <2>2, <2>3, <2>4, <1>1, <1>2, <1>4, Does1
<1>6. CASE op # "link2"
  <2>1. /\ todo[p] # <<>> /\ Head(todo[p]).ip = None /\ Head(todo[p]).dp = None
    BY <1>1, <1>6, AtTaker
  <2>2. Do(p, <<>>)
    BY <1>1, <1>6
  <2>3. Pays(p, None, None, None, None, None, None, None, None)
    BY <2>1, <1>1, PaysNone
  <2> QED BY <2>1, <2>2, <2>3, <1>1, <1>2, <1>4, Does0
<1> QED BY <1>5, <1>6

LEMMA KeepsStill ==
  ASSUME IInv, UNCHANGED memory
  PROVE  IInv'
<1>1. UNCHANGED <<inode, cwd, fd, todo, ret>>
  BY DEF memory
<1>2. TypeInv'
  BY <1>1 DEF IInv, TypeInv
<1>3. FrameInv'
  BY <1>1 DEF IInv, FrameInv
<1>4. CacheOK(inode)'
  BY <1>1 DEF IInv
<1>5. RefsCounted'
  <2>1. \A s \in Slot : Pointers(s)' = Pointers(s)
    BY <1>1 DEF Pointers
  <2> QED BY <1>1, <2>1 DEF IInv, RefsCounted
<1> QED BY <1>2, <1>3, <1>4, <1>5 DEF IInv

\* A frame of a call that points to nothing yet.
Opens(x, op) == x.op = op /\ x.ip = None /\ x.dp = None

LEMMA OpensOK ==
  ASSUME NEW c, c # None, NEW x, NEW op \in NoPtr, Opens(x, op)
  PROVE  FrameOK(x, c) /\ \A s \in Slot : On(x.ip, s) = 0 /\ On(x.dp, s) = 0
<1>1. op \notin IpOps /\ op \notin DpOps
  BY DEF NoPtr, IpOps, DpOps
<1> QED BY <1>1, NoOn DEF Opens, FrameOK

LEMMA OneFrame ==
  ASSUME NEW c, c # None, NEW x, Opens(x, "end")
  PROVE  Good(<<x>>, c) /\ \A s \in Slot : Count(<<x>>, s) = 0
<1> DEFINE e == <<>>
<1>1. Good(e, c) /\ \A s : Count(e, s) = 0
  BY GoodEmpty, CountEmpty
<1>2. <<x>> \o e = <<x>>
  <2>1. <<x>> \in Seq({x})
    OBVIOUS
  <2> QED BY <2>1, ConcatEmptySeq
<1>3. FrameOK(x, c) /\ \A s \in Slot : On(x.ip, s) = 0 /\ On(x.dp, s) = 0
  BY OpensOK DEF NoPtr
<1>4. x.op \notin Givers
  BY DEF Opens, Givers
<1> HIDE DEF e
<1>5. Good(<<x>> \o e, c)
  BY <1>1, <1>3, <1>4, Push1
<1>6. ASSUME NEW s \in Slot PROVE Count(<<x>> \o e, s) = 0
  <2>1. Count(<<x>> \o e, s) = On(x.ip, s) + On(x.dp, s) + Count(e, s)
    BY <1>1, <1>3, <1>4, Push1
  <2> QED BY <2>1, <1>1, <1>3
<1> QED BY <1>2, <1>5, <1>6, Zenon

\* The frames of a call: a path, what takes its result, and end_op() or one
\* more that takes a result.
LEMMA ThreeFrames ==
  ASSUME NEW c, c # None, NEW w, Opens(w, "walk"),
         NEW a, NEW opa \in {"link1", "unlink1", "chdir"}, Opens(a, opa),
         NEW z, Opens(z, "end")
  PROVE  Good(<<w, a, z>>, c) /\ \A s \in Slot : Count(<<w, a, z>>, s) = 0
<1>1. Good(<<z>>, c) /\ \A s \in Slot : Count(<<z>>, s) = 0
  BY OneFrame
<1>2. <<w, a, z>> = <<w, a>> \o <<z>>
  OBVIOUS
<1>3. /\ FrameOK(w, c) /\ \A s \in Slot : On(w.ip, s) = 0 /\ On(w.dp, s) = 0
  BY OpensOK DEF NoPtr
<1>4. /\ FrameOK(a, c) /\ \A s \in Slot : On(a.ip, s) = 0 /\ On(a.dp, s) = 0
  BY OpensOK DEF NoPtr
<1>5. a.op \notin Givers /\ a.op \in Takers
  BY DEF Opens, Givers, Takers
<1>6. Good(<<w, a>> \o <<z>>, c)
  BY <1>1, <1>3, <1>4, <1>5, Push2
<1>7. ASSUME NEW s \in Slot PROVE Count(<<w, a>> \o <<z>>, s) = 0
  <2>1. Count(<<w, a>> \o <<z>>, s)
          = On(w.ip, s) + On(w.dp, s) + (On(a.ip, s) + On(a.dp, s) + Count(<<z>>, s))
    BY <1>1, <1>3, <1>4, <1>5, Push2
  <2> QED BY <2>1, <1>1, <1>3, <1>4
<1> QED BY <1>2, <1>6, <1>7, Zenon

LEMMA FourFrames ==
  ASSUME NEW c, c # None, NEW w, Opens(w, "walk"),
         NEW a, NEW opa \in {"open", "create"}, Opens(a, opa),
         NEW b, NEW opb \in {"opened", "made"}, Opens(b, opb),
         NEW z, Opens(z, "end")
  PROVE  Good(<<w, a, b, z>>, c) /\ \A s \in Slot : Count(<<w, a, b, z>>, s) = 0
<1>1. Good(<<z>>, c) /\ \A s \in Slot : Count(<<z>>, s) = 0
  BY OneFrame
<1>2. <<w, a, b, z>> = <<w, a, b>> \o <<z>>
  OBVIOUS
<1>3. /\ FrameOK(w, c) /\ \A s \in Slot : On(w.ip, s) = 0 /\ On(w.dp, s) = 0
  BY OpensOK DEF NoPtr
<1>4. /\ FrameOK(a, c) /\ \A s \in Slot : On(a.ip, s) = 0 /\ On(a.dp, s) = 0
  BY OpensOK DEF NoPtr
<1>5. /\ FrameOK(b, c) /\ \A s \in Slot : On(b.ip, s) = 0 /\ On(b.dp, s) = 0
  BY OpensOK DEF NoPtr
<1>6. a.op \in Takers /\ b.op \in Takers /\ b.op \notin Givers
  BY DEF Opens, Givers, Takers
<1>7. Good(<<w, a, b>> \o <<z>>, c)
  BY <1>1, <1>3, <1>4, <1>5, <1>6, Push3
<1>8. ASSUME NEW s \in Slot PROVE Count(<<w, a, b>> \o <<z>>, s) = 0
  <2>1. Count(<<w, a, b>> \o <<z>>, s)
          = On(w.ip, s) + On(w.dp, s)
            + (On(a.ip, s) + On(a.dp, s) + (On(b.ip, s) + On(b.dp, s) + Count(<<z>>, s)))
    BY <1>1, <1>3, <1>4, <1>5, <1>6, Push3
  <2> QED BY <2>1, <1>1, <1>3, <1>4, <1>5
<1> QED BY <1>2, <1>7, <1>8, Zenon

\* begin_op() of any call: the list of frames points to nothing.
LEMMA Begins ==
  ASSUME IInv, NEW p \in Proc, todo[p] = <<>>, cwd[p] # None,
         NEW t, todo' = [todo EXCEPT ![p] = t],
         Good(t, cwd[p]), \A s \in Slot : Count(t, s) = 0,
         UNCHANGED <<inode, cwd, fd, ret>>
  PROVE  IInv'
<1>1. /\ ret[p] = None /\ CacheOK(inode) /\ \A s : Count(todo[p], s) = 0
  BY Idle
<1>2. /\ ret' = [ret EXCEPT ![p] = None] /\ cwd' = [cwd EXCEPT ![p] = cwd[p]]
      /\ fd' = [fd EXCEPT ![p] = fd[p]]
      /\ cwd[p] \in SlotOrNone /\ fd[p] \in SlotOrNone /\ None \in SlotOrNone
  BY <1>1, Stays, NoOn
<1>3. Grown(inode', None)
  BY <1>1, SameInode, GrownSame
<1>4. Adds(p, cwd[p], fd[p], None, t, None)
  <2>1. ASSUME NEW s \in Slot
        PROVE  /\ Count(t, s) = 0 /\ Count(todo[p], s) = 0 /\ On(None, s) = 0
               /\ On(ret[p], s) = 0 /\ On(cwd[p], s) \in Nat /\ On(fd[p], s) \in Nat
    BY <1>1, NoOn
  <2> QED BY <2>1 DEF Adds
<1> QED BY <1>2, <1>3, <1>4, Steps

LEMMA OpensFrame ==
  /\ \A op, arg : Opens(Frame(op, None, None, arg), op)
  /\ \A path : Opens(Walk(path, TRUE), "walk") /\ Opens(Walk(path, FALSE), "walk")
  /\ Opens(End, "end")
  BY DEF Opens, Frame, Walk, End

LEMMA KeepsCall ==
  ASSUME IInv, NEW p \in Proc, NEW c \in Calls, Call(p, c)
  PROVE  IInv'
<1>1. /\ todo[p] = <<>> /\ cwd[p] # None /\ UNCHANGED <<inode, cwd, fd, ret>>
  BY DEF Call
<1>2. ASSUME NEW w, Opens(w, "walk"),
             NEW a, NEW opa \in {"open", "create"}, Opens(a, opa),
             NEW b, NEW opb \in {"opened", "made"}, Opens(b, opb),
             todo' = [todo EXCEPT ![p] = <<w, a, b, End>>]
      PROVE  IInv'
  <2> DEFINE t == <<w, a, b, End>>
  <2>1. Good(t, cwd[p]) /\ \A s \in Slot : Count(t, s) = 0
    BY <1>1, <1>2, OpensFrame, FourFrames
  <2>2. todo' = [todo EXCEPT ![p] = t]
    BY <1>2
  <2> HIDE DEF t
  <2> QED BY <2>1, <2>2, <1>1, Begins
<1>3. ASSUME NEW w, Opens(w, "walk"),
             NEW a, NEW opa \in {"link1", "unlink1", "chdir"}, Opens(a, opa),
             todo' = [todo EXCEPT ![p] = <<w, a, End>>]
      PROVE  IInv'
  <2> DEFINE t == <<w, a, End>>
  <2>1. Good(t, cwd[p]) /\ \A s \in Slot : Count(t, s) = 0
    BY <1>1, <1>3, OpensFrame, ThreeFrames
  <2>2. todo' = [todo EXCEPT ![p] = t]
    BY <1>3
  <2> HIDE DEF t
  <2> QED BY <2>1, <2>2, <1>1, Begins
<1>4. CASE c.call = "open"
  <2>1. todo' = [todo EXCEPT ![p] =
          <<Walk(c.path, FALSE), Frame("open", None, None, c.mode),
            Frame("opened", None, None, <<>>), End>>]
    BY <1>4 DEF Call
  <2> DEFINE w == Walk(c.path, FALSE)
             a == Frame("open", None, None, c.mode)
             b == Frame("opened", None, None, <<>>)
  <2>2. Opens(w, "walk") /\ Opens(a, "open") /\ Opens(b, "opened")
    BY OpensFrame
  <2> HIDE DEF w, a, b
  <2>3. todo' = [todo EXCEPT ![p] = <<w, a, b, End>>]
    BY <2>1 DEF w, a, b
  <2> QED BY <2>2, <2>3, <1>2
<1>5. CASE c.call = "creat"
  <2>1. todo' = [todo EXCEPT ![p] =
          <<Walk(c.path, TRUE),
            Frame("create", None, None, <<"file", Last(c.path)>>),
            Frame("opened", None, None, <<>>), End>>]
    BY <1>5 DEF Call
  <2> DEFINE w == Walk(c.path, TRUE)
             a == Frame("create", None, None, <<"file", Last(c.path)>>)
             b == Frame("opened", None, None, <<>>)
  <2>2. Opens(w, "walk") /\ Opens(a, "create") /\ Opens(b, "opened")
    BY OpensFrame
  <2> HIDE DEF w, a, b
  <2>3. todo' = [todo EXCEPT ![p] = <<w, a, b, End>>]
    BY <2>1 DEF w, a, b
  <2> QED BY <2>2, <2>3, <1>2
<1>6. CASE c.call \in {"mkdir", "mknod"}
  <2>1. todo' = [todo EXCEPT ![p] =
          <<Walk(c.path, TRUE),
            Frame("create", None, None,
                  <<IF c.call = "mkdir" THEN "dir" ELSE "dev", Last(c.path)>>),
            Frame("made", None, None, <<>>), End>>]
    BY <1>6 DEF Call
  <2> DEFINE w == Walk(c.path, TRUE)
             a == Frame("create", None, None,
                        <<IF c.call = "mkdir" THEN "dir" ELSE "dev", Last(c.path)>>)
             b == Frame("made", None, None, <<>>)
  <2>2. Opens(w, "walk") /\ Opens(a, "create") /\ Opens(b, "made")
    BY OpensFrame
  <2> HIDE DEF w, a, b
  <2>3. todo' = [todo EXCEPT ![p] = <<w, a, b, End>>]
    BY <2>1 DEF w, a, b
  <2> QED BY <2>2, <2>3, <1>2
<1>7. CASE c.call = "link"
  <2>1. todo' = [todo EXCEPT ![p] =
          <<Walk(c.path, FALSE), Frame("link1", None, None, c.new), End>>]
    BY <1>7 DEF Call
  <2> DEFINE w == Walk(c.path, FALSE)
             a == Frame("link1", None, None, c.new)
  <2>2. Opens(w, "walk") /\ Opens(a, "link1")
    BY OpensFrame
  <2> HIDE DEF w, a
  <2>3. todo' = [todo EXCEPT ![p] = <<w, a, End>>]
    BY <2>1 DEF w, a
  <2> QED BY <2>2, <2>3, <1>3
<1>8. CASE c.call = "unlink"
  <2>1. todo' = [todo EXCEPT ![p] =
          <<Walk(c.path, TRUE), Frame("unlink1", None, None, Last(c.path)), End>>]
    BY <1>8 DEF Call
  <2> DEFINE w == Walk(c.path, TRUE)
             a == Frame("unlink1", None, None, Last(c.path))
  <2>2. Opens(w, "walk") /\ Opens(a, "unlink1")
    BY OpensFrame
  <2> HIDE DEF w, a
  <2>3. todo' = [todo EXCEPT ![p] = <<w, a, End>>]
    BY <2>1 DEF w, a
  <2> QED BY <2>2, <2>3, <1>3
<1>9. CASE c.call = "chdir"
  <2>1. todo' = [todo EXCEPT ![p] =
          <<Walk(c.path, FALSE), Frame("chdir", None, None, <<>>), End>>]
    BY <1>9 DEF Call
  <2> DEFINE w == Walk(c.path, FALSE)
             a == Frame("chdir", None, None, <<>>)
  <2>2. Opens(w, "walk") /\ Opens(a, "chdir")
    BY OpensFrame
  <2> HIDE DEF w, a
  <2>3. todo' = [todo EXCEPT ![p] = <<w, a, End>>]
    BY <2>1 DEF w, a
  <2> QED BY <2>2, <2>3, <1>3
<1> QED BY <1>4, <1>5, <1>6, <1>7, <1>8, <1>9, FsAssumption

-----------------------------------------------------------------------------
(* A machine that was started                                              *)

LEMMA BootCache == CacheOK(Boot.inode)
<1> DEFINE n == [s \in Slot |-> IF s = 1 THEN [NotCached EXCEPT !.ref = 1]
                                         ELSE NotCached]
<1>1. Boot.inode = n
  BY DEF Boot
<1>2. IsEntry([NotCached EXCEPT !.ref = 1])
  BY EntryNotCached, EntryExcept
<1>3. \A s \in Slot : IsEntry(n[s]) /\ (n[s].ref > 0 => s = 1)
  BY <1>2, EntryNotCached
<1>4. DOMAIN n = Slot /\ n = [s \in Slot |-> n[s]]
  OBVIOUS
<1> HIDE DEF n
<1>5. OneEntry(n)
  BY <1>3 DEF OneEntry
<1> QED BY <1>1, <1>3, <1>4, <1>5 DEF CacheOK

LEMMA BootCount ==
  ASSUME NEW s \in Slot
  PROVE  Boot.inode[s].ref
           = Cardinality(AllPtrs(Boot.cwd, Boot.none, Boot.none, Boot.todo, s))
<1> DEFINE cw == Boot.cwd
           no == Boot.none
           td == Boot.todo
<1>1. /\ cw = [p \in Proc |-> IF p = InitProc THEN 1 ELSE None]
      /\ no = [p \in Proc |-> None] /\ td = [p \in Proc |-> <<>>]
  BY DEF Boot
<1>2. InitProc \in Proc
  BY FsAssumption
<1> HIDE DEF cw, no, td
<1>3. /\ Cardinality(Others(InitProc, cw, no, no, td, s)) \in Nat
      /\ Cardinality(AllPtrs(cw, no, no, td, s))
           = Cardinality(Others(InitProc, cw, no, no, td, s))
             + Local(cw[InitProc], no[InitProc], no[InitProc], td[InitProc], s)
  <2>1. \A q \in Proc : IsSeq(td[q])
    BY <1>1, Empty
  <2> QED BY <2>1, <1>2, PtrCount
<1>4. Cardinality(Others(InitProc, cw, no, no, td, s)) = 0
  <2>1. ASSUME NEW q \in Proc \ {InitProc}
        PROVE  Mine(q, cw[q], no[q], no[q], td[q], s) = {}
    <3>1. cw[q] # s /\ no[q] # s /\ td[q] = <<>>
      BY <1>1, SlotNotNone
    <3>2. DOMAIN td[q] = {}
      BY <3>1
    <3> QED BY <3>1, <3>2 DEF Mine
  <2>2. Others(InitProc, cw, no, no, td, s) = {}
    BY <2>1 DEF Others
  <2> QED BY <2>2, FS_EmptySet
<1>5. Local(cw[InitProc], no[InitProc], no[InitProc], td[InitProc], s) = On(1, s)
  <2>1. /\ cw[InitProc] = 1 /\ no[InitProc] = None /\ td[InitProc] = <<>>
    BY <1>1, <1>2
  <2>2. On(None, s) = 0 /\ On(1, s) \in Nat /\ Count(<<>>, s) = 0
    BY NoOn, CountEmpty
  <2> QED BY <2>1, <2>2 DEF Local
<1>6. Boot.inode[s].ref = On(1, s)
  <2>1. Boot.inode[s] = IF s = 1 THEN [NotCached EXCEPT !.ref = 1] ELSE NotCached
    BY DEF Boot
  <2>2. [NotCached EXCEPT !.ref = 1].ref = 1 /\ NotCached.ref = 0
    BY DEF NotCached
  <2> QED BY <2>1, <2>2 DEF On
<1>7. On(1, s) \in Nat
  BY NoOn
<1> QED BY <1>3, <1>4, <1>5, <1>6, <1>7 DEF cw, no, td

LEMMA BootFrames ==
  /\ Boot.cwd \in [Proc -> SlotOrNone] /\ Boot.none \in [Proc -> SlotOrNone]
  /\ Boot.todo = [p \in Proc |-> Boot.todo[p]]
  /\ \A p \in Proc : Good(Boot.todo[p], Boot.cwd[p]) /\ Boot.none[p] = None
<1>1. /\ Boot.cwd = [p \in Proc |-> IF p = InitProc THEN 1 ELSE None]
      /\ Boot.none = [p \in Proc |-> None] /\ Boot.todo = [p \in Proc |-> <<>>]
  BY DEF Boot
<1>2. 1 \in SlotOrNone /\ None \in SlotOrNone
  BY Nones DEF SlotOrNone
<1> QED BY <1>1, <1>2, GoodEmpty

LEMMA InitInv == Init => IInv
<1> SUFFICES ASSUME Init PROVE IInv
  OBVIOUS
<1>1. /\ inode = Boot.inode /\ cwd = Boot.cwd /\ fd = Boot.none
      /\ ret = Boot.none /\ todo = Boot.todo
  BY DEF Init
<1>2. TypeInv /\ FrameInv
  BY <1>1, BootFrames DEF TypeInv, FrameInv
<1>3. CacheOK(inode)
  BY <1>1, BootCache
<1>4. RefsCounted
  <2>1. ASSUME NEW s \in Slot PROVE inode[s].ref = Cardinality(Pointers(s))
    BY <1>1, BootCount, PointersAre
  <2> QED BY <2>1 DEF RefsCounted
<1> QED BY <1>2, <1>3, <1>4 DEF IInv

LEMMA KeepsCrash ==
  ASSUME Crash PROVE IInv'
<1>1. /\ inode' = Boot.inode /\ cwd' = Boot.cwd /\ fd' = Boot.none
      /\ ret' = Boot.none /\ todo' = Boot.todo
  BY DEF Crash
<1>2. TypeInv' /\ FrameInv'
  BY <1>1, BootFrames DEF TypeInv, FrameInv
<1>3. CacheOK(inode)'
  BY <1>1, BootCache
<1>4. RefsCounted'
  <2>1. \A s \in Slot : Pointers(s)' = AllPtrs(cwd', fd', ret', todo', s)
    BY DEF Pointers, AllPtrs, Mine
  <2>2. ASSUME NEW s \in Slot PROVE inode'[s].ref = Cardinality(Pointers(s)')
    BY <2>1, <1>1, BootCount
  <2> QED BY <2>2 DEF RefsCounted
<1> QED BY <1>2, <1>3, <1>4 DEF IInv

-----------------------------------------------------------------------------
(* Every step keeps the invariant                                          *)

LEMMA NextInv ==
  ASSUME IInv, [Next]_vars
  PROVE  IInv'
<1>1. ASSUME NEW p \in Proc, Inside(p) PROVE IInv'
  <2>1. ASSUME Panics(p) PROVE IInv'
    BY <2>1, KeepsStill DEF Panics
  <2> QED BY <1>1, <2>1, KeepsNamexStart, KeepsNamexDone, KeepsNamexStep,
             KeepsIputLook, KeepsIputFree, KeepsIputDrop, KeepsIunlockput,
             KeepsOpen, KeepsOpened, KeepsCreateFound, KeepsExists,
             KeepsCreateAlloc, KeepsCreateLink, KeepsMade, KeepsLinkCount,
             KeepsDirlink, KeepsLinkUndo, KeepsUnlinkFind, KeepsUnlinkErase,
             KeepsUnlinkCount, KeepsChdir, KeepsEndOp, KeepsFailed
             DEF Inside
<1>2. ASSUME UNCHANGED vars PROVE IInv'
  BY <1>2, KeepsStill DEF vars, memory
<1> QED BY <1>1, <1>2, KeepsCall, KeepsClose, KeepsExit, KeepsFork, KeepsCrash
        DEF Next, Work

-----------------------------------------------------------------------------
(* The cache and the disk                                                  *)

\* A disk is a table of inodes.
IsDinode(d) == d = [type |-> d.type, nlink |-> d.nlink, ents |-> d.ents]

DiskOK(dsk) == dsk = [i \in Inum |-> dsk[i]] /\ \A i \in Inum : IsDinode(dsk[i])

\* An entry that is in use and valid is of an allocated inode, and is its copy.
Current(tab, dsk) ==
  \A s \in Slot :
    tab[s].ref > 0 /\ tab[s].valid =>
      /\ tab[s].type = dsk[tab[s].inum].type
      /\ tab[s].nlink = dsk[tab[s].inum].nlink
      /\ tab[s].type # "free"

\* A frame that takes no part in freeing or making an inode.
Plain(x) ==
  x.op \notin {"iput2", "create2"} /\ (x.op = "create" => x.arg[1] # "free")

Calm(t) == \A k \in 1 .. Len(t) : Plain(t[k])

\* iput() has read ref == 1 and will free the inode; create() has allocated one.
Frees(t, s) == t # <<>> /\ t[1].op = "iput2" /\ t[1].arg = 1 /\ t[1].ip = s
Makes(t, s) == t # <<>> /\ t[1].op = "create2" /\ t[1].ip = s

BehindInv ==
  \A p \in Proc :
    todo[p] # <<>> =>
      /\ Calm(Tail(todo[p]))
      /\ \/ Plain(todo[p][1])
         \/ todo[p][1].op = "iput2"
         \/ todo[p][1].op = "create2" /\ todo[p][1].arg[1] # "free"

\* The inode that is about to be freed is valid, and nobody else is about to
\* free or to make it.
FreesInv ==
  \A p \in Proc, s \in Slot :
    Frees(todo[p], s) =>
      /\ inode[s].valid
      /\ \A q \in Proc \ {p} : ~Frees(todo[q], s) /\ ~Makes(todo[q], s)

\* The inode that is being made has on the disk the type it was allocated with.
MakesInv ==
  \A p \in Proc, s \in Slot :
    Makes(todo[p], s) => dinode[inode[s].inum].type = todo[p][1].arg[1]

CurInv ==
  /\ DiskOK(dinode) /\ DiskOK(committed) /\ Current(inode, dinode)
  /\ BehindInv /\ FreesInv /\ MakesInv

\* A cache and a disk in which no entry lost its inode, its mark of being valid
\* or its inode's type.
Gentle(tab, dsk) ==
  /\ \A s \in Slot :
       inode[s].ref > 0 /\ tab[s].ref > 0 =>
         tab[s].inum = inode[s].inum /\ (inode[s].valid => tab[s].valid)
  /\ \A i \in Inum : dsk[i].type = dinode[i].type

Sound(tab, dsk) == DiskOK(dsk) /\ Current(tab, dsk) /\ Gentle(tab, dsk)

LEMMA SoundNow ==
  ASSUME CurInv PROVE Sound(inode, dinode)
  BY DEF CurInv, Sound, Gentle

\* ilock()
LEMMA SoundIlocked ==
  ASSUME CurInv, CacheOK(inode), NEW s \in Slot, Loaded(s).type # "free"
  PROVE  Sound(Ilocked(s), dinode) /\ Ilocked(s)[s].valid
         /\ Ilocked(s)[s] = Loaded(s)
<1> DEFINE e == Loaded(s)
           n == Ilocked(s)
<1>1. IsEntry(inode[s]) /\ DOMAIN inode = Slot
  BY DEF CacheOK
<1>2. /\ e.ref = inode[s].ref /\ e.inum = inode[s].inum /\ e.valid
      /\ e.ref > 0 => /\ e.type = dinode[e.inum].type
                      /\ e.nlink = dinode[e.inum].nlink
  BY <1>1 DEF Loaded, IsEntry, CurInv, Current
<1>3. n[s] = e /\ \A x \in Slot \ {s} : n[x] = inode[x]
  BY <1>1 DEF Ilocked
<1> HIDE DEF e, n
<1>4. e.type # "free"
  BY DEF e
<1>5. Current(n, dinode)
  BY <1>2, <1>3, <1>4 DEF CurInv, Current
<1>6. Gentle(n, dinode)
  BY <1>2, <1>3 DEF Gentle
<1> QED BY <1>2, <1>3, <1>5, <1>6 DEF Sound, CurInv, n, e

\* iget()
LEMMA SoundGot ==
  ASSUME CacheOK(inode), NEW tab, SameRefs(tab), NEW dsk, Sound(tab, dsk),
         NEW i \in Inum, ~NoEntry(i)
  PROVE  Sound(Referenced(tab, i), dsk)
<1> DEFINE g == Iget(i)
           n == Referenced(tab, i)
<1>1. /\ g \in Slot /\ (Cached(i) # {} => g \in Cached(i))
      /\ Cached(i) = {} => inode[g].ref = 0
  BY IgetIs
<1>2. /\ DOMAIN tab = Slot
      /\ \A s \in Slot : /\ IsEntry(tab[s]) /\ tab[s].ref = inode[s].ref
                         /\ tab[s].inum = inode[s].inum
  BY DEF SameRefs, CacheOK
<1>3. CASE Cached(i) # {}
  <2> DEFINE e == [tab[g] EXCEPT !.ref = @ + 1]
  <2>1. n = [tab EXCEPT ![g] = e]
    BY <1>3 DEF Referenced
  <2>2. /\ e.inum = tab[g].inum /\ e.valid = tab[g].valid /\ e.type = tab[g].type
        /\ e.nlink = tab[g].nlink /\ tab[g].ref > 0
    BY <1>1, <1>2, <1>3 DEF IsEntry, Cached
  <2> HIDE DEF e, n, g
  <2>3. n[g] = e /\ \A s \in Slot \ {g} : n[s] = tab[s]
    BY <2>1, <1>1, <1>2
  <2>4. Current(n, dsk)
    BY <2>2, <2>3 DEF Current, Sound
  <2>5. Gentle(n, dsk)
    BY <2>2, <2>3, <1>2 DEF Gentle, Sound
  <2> QED BY <2>4, <2>5 DEF Sound, n
<1>4. CASE Cached(i) = {}
  <2> DEFINE e == [NotCached EXCEPT !.inum = i, !.ref = 1]
  <2>1. n = [tab EXCEPT ![g] = e]
    BY <1>4 DEF Referenced
  <2>2. e.valid = FALSE
    BY DEF NotCached
  <2> HIDE DEF e, n, g
  <2>3. n[g] = e /\ \A s \in Slot \ {g} : n[s] = tab[s]
    BY <2>1, <1>1, <1>2
  <2>4. Current(n, dsk)
    BY <2>2, <2>3 DEF Current, Sound
  <2>5. Gentle(n, dsk)
    BY <2>3, <1>1, <1>2, <1>4 DEF Gentle, Sound
  <2> QED BY <2>4, <2>5 DEF Sound, n
<1> QED BY <1>3, <1>4

\* idup()
LEMMA SoundDup ==
  ASSUME CacheOK(inode), CurInv, NEW c \in Slot, inode[c].ref > 0, NEW n,
         n = [inode EXCEPT ![c].ref = @ + 1]
  PROVE  Sound(n, dinode)
<1> DEFINE e == [inode[c] EXCEPT !.ref = @ + 1]
<1>1. IsEntry(inode[c]) /\ DOMAIN inode = Slot
  BY DEF CacheOK
<1>2. /\ e.inum = inode[c].inum /\ e.valid = inode[c].valid
      /\ e.type = inode[c].type /\ e.nlink = inode[c].nlink
  BY <1>1 DEF IsEntry
<1>3. n = [inode EXCEPT ![c] = e]
  OBVIOUS
<1> HIDE DEF e
<1>4. n[c] = e /\ \A s \in Slot \ {c} : n[s] = inode[s]
  BY <1>1, <1>3
<1>5. Current(n, dinode)
  BY <1>2, <1>4 DEF Current, CurInv
<1>6. Gentle(n, dinode)
  BY <1>2, <1>4 DEF Gentle
<1> QED BY <1>5, <1>6 DEF Sound, CurInv

\* The last line of iput()
LEMMA SoundDrop ==
  ASSUME CacheOK(inode), CurInv, NEW c \in Slot, inode[c].ref > 0, NEW n,
         n = [inode EXCEPT ![c] = Dropped(@)]
  PROVE  Sound(n, dinode)
<1> DEFINE e == Dropped(inode[c])
<1>1. IsEntry(inode[c]) /\ DOMAIN inode = Slot
  BY DEF CacheOK
<1>2. \/ e.ref = 0
      \/ /\ e.inum = inode[c].inum /\ e.valid = inode[c].valid
         /\ e.type = inode[c].type /\ e.nlink = inode[c].nlink
  BY <1>1, EntryNotCached DEF IsEntry, Dropped
<1>3. n[c] = e /\ \A s \in Slot \ {c} : n[s] = inode[s]
  BY <1>1
<1> HIDE DEF e
<1>4. Current(n, dinode)
  BY <1>2, <1>3 DEF Current, CurInv
<1>5. Gentle(n, dinode)
  BY <1>2, <1>3 DEF Gentle
<1> QED BY <1>4, <1>5 DEF Sound, CurInv

\* iupdate() of an inode whose type is as it was, in use as entry s.
LEMMA SoundWrite ==
  ASSUME CacheOK(inode), NEW tab, SameRefs(tab), NEW dsk, Sound(tab, dsk),
         NEW s \in Slot, tab[s].ref > 0, NEW n, NEW d, IsDinode(d),
         d.type = dsk[tab[s].inum].type, d.nlink = n
  PROVE  Sound([tab EXCEPT ![s].nlink = n], [dsk EXCEPT ![tab[s].inum] = d])
<1> DEFINE e == [tab[s] EXCEPT !.nlink = n]
           i == tab[s].inum
           t == [tab EXCEPT ![s].nlink = n]
           k == [dsk EXCEPT ![i] = d]
<1>1. /\ DOMAIN tab = Slot /\ OneEntry(tab)
      /\ \A x \in Slot : IsEntry(tab[x]) /\ tab[x].inum \in Inum
  BY DEF SameRefs, CacheOK, IsEntry
<1>2. /\ e.ref = tab[s].ref /\ e.inum = i /\ e.valid = tab[s].valid
      /\ e.type = tab[s].type /\ e.nlink = n
  BY <1>1 DEF IsEntry
<1>3. t = [tab EXCEPT ![s] = e]
  OBVIOUS
<1>4. i \in Inum /\ DOMAIN dsk = Inum
  BY <1>1 DEF Sound, DiskOK
<1>5. DiskOK(k)
  BY <1>4 DEF Sound, DiskOK
<1> HIDE DEF e, t, i
<1>6. t[s] = e /\ \A x \in Slot \ {s} : t[x] = tab[x]
  BY <1>1, <1>3
<1>7. k[i] = d /\ \A j \in Inum \ {i} : k[j] = dsk[j]
  BY <1>4
<1> HIDE DEF k
<1>8. \A x \in Slot \ {s} : tab[x].ref > 0 => tab[x].inum # i
  BY <1>1 DEF OneEntry, i
<1>9. Current(t, k)
  <2>1. ASSUME NEW x \in Slot, t[x].ref > 0, t[x].valid
        PROVE  /\ t[x].type = k[t[x].inum].type
               /\ t[x].nlink = k[t[x].inum].nlink /\ t[x].type # "free"
    <3>1. CASE x = s
      BY <3>1, <2>1, <1>2, <1>6, <1>7 DEF Current, Sound, i
    <3>2. CASE x # s
      BY <3>2, <2>1, <1>1, <1>6, <1>7, <1>8 DEF Current, Sound
    <3> QED BY <3>1, <3>2
  <2> QED BY <2>1 DEF Current
<1>10. Gentle(t, k)
  <2>1. \A j \in Inum : k[j].type = dinode[j].type
    BY <1>4, <1>7 DEF Gentle, Sound, i
  <2>2. \A x \in Slot : t[x].ref = tab[x].ref /\ t[x].inum = tab[x].inum
                        /\ t[x].valid = tab[x].valid
    BY <1>2, <1>6 DEF i
  <2> QED BY <2>1, <2>2 DEF Gentle, Sound
<1> QED BY <1>5, <1>9, <1>10 DEF Sound, t, k, i

-----------------------------------------------------------------------------
(* Frames and pointers                                                     *)

LEMMA CalmCons ==
  ASSUME NEW t, IsSeq(t), NEW x, Plain(x), Calm(t)
  PROVE  Calm(Cons(x, t))
<1> DEFINE u == Cons(x, t)
<1>1. /\ Len(t) \in Nat /\ Len(u) = Len(t) + 1 /\ u[1] = x
      /\ \A k \in 1 .. Len(t) : u[k + 1] = t[k]
  BY OneMore
<1> HIDE DEF u
<1>2. ASSUME NEW k \in 1 .. Len(u) PROVE Plain(u[k])
  <2>1. CASE k = 1
    BY <2>1, <1>1
  <2>2. CASE k # 1
    <3>1. k - 1 \in 1 .. Len(t) /\ (k - 1) + 1 = k
      BY <2>2, <1>1
    <3>2. u[k] = t[k - 1]
      BY <3>1, <1>1
    <3> QED BY <3>1, <3>2 DEF Calm
  <2> QED BY <2>1, <2>2
<1> QED BY <1>2 DEF Calm, u

LEMMA CalmHead ==
  ASSUME NEW t, IsSeq(t), t # <<>>, Calm(t)
  PROVE  Plain(t[1]) /\ Calm(Tail(t))
<1> DEFINE T == Tail(t)
<1>1. IsSeq(T) /\ t = Cons(Head(t), T) /\ Head(t) = t[1] /\ Len(t) \in Nat \ {0}
  BY Uncons
<1>2. Plain(t[1])
  BY <1>1 DEF Calm
<1> HIDE DEF T
<1>3. /\ Len(T) \in Nat /\ Len(t) = Len(T) + 1
      /\ \A k \in 1 .. Len(T) : t[k + 1] = T[k]
  BY <1>1, OneMore
<1>4. \A k \in 1 .. Len(T) : k + 1 \in 1 .. Len(t)
  BY <1>3
<1>5. Calm(T)
  BY <1>3, <1>4 DEF Calm
<1> QED BY <1>2, <1>5 DEF T

LEMMA CalmPush ==
  ASSUME NEW T, IsSeq(T), Calm(T)
  PROVE  /\ Calm(<<>> \o T) /\ IsSeq(<<>> \o T)
         /\ \A x : Plain(x) => Calm(<<x>> \o T) /\ IsSeq(<<x>> \o T)
         /\ \A x, y : Plain(x) /\ Plain(y) =>
                        Calm(<<x, y>> \o T) /\ IsSeq(<<x, y>> \o T)
         /\ \A x, y, z : Plain(x) /\ Plain(y) /\ Plain(z) =>
                           Calm(<<x, y, z>> \o T) /\ IsSeq(<<x, y, z>> \o T)
<1>1. ASSUME NEW x, Plain(x)
      PROVE  Calm(Cons(x, T)) /\ IsSeq(Cons(x, T))
  BY <1>1, CalmCons, OneMore
<1>2. ASSUME NEW x, NEW y, Plain(x), Plain(y)
      PROVE  Calm(Cons(x, Cons(y, T))) /\ IsSeq(Cons(x, Cons(y, T)))
  <2>1. Calm(Cons(y, T)) /\ IsSeq(Cons(y, T))
    BY <1>1, <1>2
  <2> QED BY <2>1, <1>2, CalmCons, OneMore
<1>3. ASSUME NEW x, NEW y, NEW z, Plain(x), Plain(y), Plain(z)
      PROVE  /\ Calm(Cons(x, Cons(y, Cons(z, T))))
             /\ IsSeq(Cons(x, Cons(y, Cons(z, T))))
  <2>1. Calm(Cons(y, Cons(z, T))) /\ IsSeq(Cons(y, Cons(z, T)))
    BY <1>2, <1>3
  <2> QED BY <2>1, <1>3, CalmCons, OneMore
<1>4. Calm(<<>> \o T) /\ IsSeq(<<>> \o T)
  BY PushNone
<1>5. ASSUME NEW x, Plain(x) PROVE Calm(<<x>> \o T) /\ IsSeq(<<x>> \o T)
  BY <1>1, <1>5 DEF Cons
<1>6. ASSUME NEW x, NEW y, Plain(x), Plain(y)
      PROVE  Calm(<<x, y>> \o T) /\ IsSeq(<<x, y>> \o T)
  <2>1. <<x, y>> \o T = Cons(x, Cons(y, T))
    BY PushTwo
  <2> QED BY <2>1, <1>2, <1>6
<1>7. ASSUME NEW x, NEW y, NEW z, Plain(x), Plain(y), Plain(z)
      PROVE  Calm(<<x, y, z>> \o T) /\ IsSeq(<<x, y, z>> \o T)
  <2>1. <<x, y, z>> \o T = Cons(x, Cons(y, Cons(z, T)))
    BY PushThree
  <2> QED BY <2>1, <1>3, <1>7
<1> QED BY <1>4, <1>5, <1>6, <1>7

LEMMA PlainIs ==
  /\ \A s : Plain(Iput(s)) /\ Plain(Unlockput(s)) /\ Plain(LinkBad(s))
  /\ \A path, parent : Plain(Walk(path, parent))
  /\ Plain(End)
  /\ \A op \in {"drop", "namex", "exists", "link1", "link2", "unlink1", "unlink2",
                "unlink3", "open", "opened", "made", "chdir"} :
       \A ip, dp, arg : Plain(Frame(op, ip, dp, arg))
  /\ \A ip, dp, arg : arg[1] # "free" => Plain(Frame("create", ip, dp, arg))
  BY DEF Plain, Frame, Iput, Unlockput, LinkBad, Walk, End

\* An entry that the first frame of a process points to is in use; one that
\* those of two processes point to has two references.
LEMMA HeadCounts ==
  ASSUME NEW cw, NEW f, NEW r, NEW td, \A x \in Proc : IsSeq(td[x]),
         NEW q \in Proc, NEW s, s # None, td[q] # <<>>, td[q][1].ip = s
  PROVE  /\ Cardinality(AllPtrs(cw, f, r, td, s)) \in Nat \ {0}
         /\ \A p \in Proc \ {q} :
              td[p] # <<>> /\ td[p][1].ip = s =>
                Cardinality(AllPtrs(cw, f, r, td, s)) >= 2
<1>1. ASSUME NEW p \in Proc, td[p] # <<>>, td[p][1].ip = s
      PROVE  /\ Local(cw[p], f[p], r[p], td[p], s) \in Nat \ {0}
             /\ <<p, 1, "ip">> \in Mine(p, cw[p], f[p], r[p], td[p], s)
  <2> DEFINE t == td[p]
  <2>1. IsSeq(t) /\ t # <<>> /\ t[1].ip = s
    BY <1>1
  <2> HIDE DEF t
  <2>2. /\ IsSeq(Tail(t)) /\ t = Cons(t[1], Tail(t)) /\ Len(t) \in Nat \ {0}
        /\ DOMAIN t = 1 .. Len(t)
    BY <2>1, Uncons, OneMore
  <2>3. Count(t, s) = On(t[1].ip, s) + On(t[1].dp, s) + Count(Tail(t), s)
    BY <2>2, CountCons
  <2>4. Count(Tail(t), s) \in Nat
    BY <2>2, PtrsFinite
  <2>5. Count(t, s) \in Nat \ {0}
    BY <2>1, <2>3, <2>4 DEF On
  <2>6. 1 \in DOMAIN t
    BY <2>2
  <2>7. Local(cw[p], f[p], r[p], t, s) \in Nat \ {0}
    BY <2>5 DEF Local, On
  <2>8. <<p, 1, "ip">> \in Mine(p, cw[p], f[p], r[p], t, s)
    BY <2>1, <2>6 DEF Mine
  <2> QED BY <2>7, <2>8 DEF t
<1>2. ASSUME NEW p \in Proc
      PROVE  /\ IsFiniteSet(Others(p, cw, f, r, td, s))
             /\ Cardinality(Others(p, cw, f, r, td, s)) \in Nat
             /\ Cardinality(AllPtrs(cw, f, r, td, s))
                  = Cardinality(Others(p, cw, f, r, td, s))
                    + Local(cw[p], f[p], r[p], td[p], s)
  <2>1. IsFiniteSet(Others(p, cw, f, r, td, s))
    BY OthersFinite
  <2>2. /\ Cardinality(Others(p, cw, f, r, td, s)) \in Nat
        /\ Cardinality(AllPtrs(cw, f, r, td, s))
             = Cardinality(Others(p, cw, f, r, td, s))
               + Local(cw[p], f[p], r[p], td[p], s)
    <3>1. \A x \in Proc : IsSeq(td[x])
      OBVIOUS
    <3> QED BY ONLY <3>1, p \in Proc, PtrCount
  <2> QED BY <2>1, <2>2
<1>3. Cardinality(AllPtrs(cw, f, r, td, s)) \in Nat \ {0}
  <2>1. Local(cw[q], f[q], r[q], td[q], s) \in Nat \ {0}
    BY <1>1
  <2> QED BY <2>1, <1>2
<1>4. ASSUME NEW p \in Proc \ {q}, td[p] # <<>>, td[p][1].ip = s
      PROVE  Cardinality(AllPtrs(cw, f, r, td, s)) >= 2
  <2> DEFINE O == Others(p, cw, f, r, td, s)
  <2>1. Local(cw[p], f[p], r[p], td[p], s) \in Nat \ {0}
    BY <1>1, <1>4
  <2>2. <<q, 1, "ip">> \in O
    <3>1. <<q, 1, "ip">> \in Mine(q, cw[q], f[q], r[q], td[q], s)
      BY <1>1
    <3> QED BY <3>1, <1>4, Zenon DEF Others
  <2>3. /\ IsFiniteSet(O) /\ Cardinality(O) \in Nat
        /\ Cardinality(AllPtrs(cw, f, r, td, s))
             = Cardinality(O) + Local(cw[p], f[p], r[p], td[p], s)
    BY <1>2
  <2> HIDE DEF O
  <2>4. Cardinality(O) # 0
    BY <2>2, <2>3, FS_EmptySet
  <2> QED BY <2>1, <2>3, <2>4
<1> QED BY <1>3, <1>4

LEMMA HeadRefs ==
  ASSUME IInv, NEW q \in Proc, NEW s \in Slot, todo[q] # <<>>, todo[q][1].ip = s
  PROVE  /\ inode[s].ref > 0 /\ inode[s].ref \in Nat
         /\ \A p \in Proc \ {q} :
              todo[p] # <<>> /\ todo[p][1].ip = s => inode[s].ref >= 2
<1>1. s # None /\ \A x \in Proc : IsSeq(todo[x])
  BY SlotNotNone DEF IInv, FrameInv, Good
<1>2. inode[s].ref = Cardinality(AllPtrs(cwd, fd, ret, todo, s))
  BY PointersAre DEF IInv, RefsCounted
<1>3. /\ Cardinality(AllPtrs(cwd, fd, ret, todo, s)) \in Nat \ {0}
      /\ \A p \in Proc \ {q} :
           todo[p] # <<>> /\ todo[p][1].ip = s =>
             Cardinality(AllPtrs(cwd, fd, ret, todo, s)) >= 2
  BY <1>1, HeadCounts
<1> QED BY <1>2, <1>3

LEMMA HeadRefsNext ==
  ASSUME IInv', NEW q \in Proc, NEW s \in Slot, todo'[q] # <<>>,
         todo'[q][1].ip = s
  PROVE  inode'[s].ref > 0
<1> DEFINE cw == cwd'
           fl == fd'
           rt == ret'
           td == todo'
<1>1. s # None /\ \A x \in Proc : IsSeq(td[x])
  BY SlotNotNone DEF IInv, FrameInv, Good
<1>2. inode'[s].ref = Cardinality(Pointers(s)')
  BY DEF IInv, RefsCounted
<1>3. Pointers(s)' = AllPtrs(cw, fl, rt, td, s)
  BY DEF Pointers, AllPtrs, Mine
<1>4. td[q] # <<>> /\ td[q][1].ip = s
  OBVIOUS
<1> HIDE DEF cw, fl, rt, td
<1>5. Cardinality(AllPtrs(cw, fl, rt, td, s)) \in Nat \ {0}
  BY <1>1, <1>4, HeadCounts
<1> QED BY <1>2, <1>3, <1>5

-----------------------------------------------------------------------------
(* Steps that neither free nor make an inode                               *)

LEMMA CalmTail ==
  ASSUME IInv, CurInv, NEW p \in Proc, todo[p] # <<>>
  PROVE  IsSeq(Tail(todo[p])) /\ Calm(Tail(todo[p]))
<1>1. IsSeq(Tail(todo[p]))
  BY Split
<1>2. Calm(Tail(todo[p]))
  BY DEF CurInv, BehindInv
<1> QED BY <1>1, <1>2

\* A step of p that leaves it with the frames t, by what the other processes
\* rely on and what p relies on from now on.
LEMMA Core ==
  ASSUME IInv, CurInv, NEW p \in Proc, NEW t, todo' = [todo EXCEPT ![p] = t],
         DiskOK(dinode'), Current(inode', dinode'),
         committed' \in {committed, dinode},
         t # <<>> =>
           /\ Calm(Tail(t))
           /\ \/ Plain(t[1])
              \/ t[1].op = "iput2"
              \/ t[1].op = "create2" /\ t[1].arg[1] # "free",
         \A q \in Proc \ {p}, s \in Slot :
           /\ Frees(todo[q], s) =>
                inode'[s].valid /\ ~Frees(t, s) /\ ~Makes(t, s)
           /\ Makes(todo[q], s) =>
                /\ dinode'[inode'[s].inum].type = todo[q][1].arg[1]
                /\ ~Frees(t, s),
         \A s \in Slot :
           /\ Frees(t, s) => inode'[s].valid
           /\ Makes(t, s) => dinode'[inode'[s].inum].type = t[1].arg[1]
  PROVE  CurInv'
<1>1. todo'[p] = t /\ \A q \in Proc \ {p} : todo'[q] = todo[q]
  BY DEF IInv, TypeInv
<1>2. DiskOK(dinode)' /\ DiskOK(committed)' /\ Current(inode, dinode)'
  <2>1. DiskOK(dinode') /\ DiskOK(committed') /\ Current(inode', dinode')
    BY DEF CurInv
  <2> QED BY <2>1 DEF DiskOK, Current, IsDinode
<1>3. BehindInv'
  <2>1. ASSUME NEW q \in Proc, todo'[q] # <<>>
        PROVE  /\ Calm(Tail(todo'[q]))
               /\ \/ Plain(todo'[q][1])
                  \/ todo'[q][1].op = "iput2"
                  \/ todo'[q][1].op = "create2" /\ todo'[q][1].arg[1] # "free"
    <3>1. CASE q = p
      BY <3>1, <2>1, <1>1
    <3>2. CASE q # p
      BY <3>2, <2>1, <1>1 DEF CurInv, BehindInv
    <3> QED BY <3>1, <3>2
  <2> QED BY <2>1 DEF BehindInv
<1>4. FreesInv'
  <2>1. ASSUME NEW q \in Proc, NEW s \in Slot, Frees(todo'[q], s)
        PROVE  /\ inode'[s].valid
               /\ \A x \in Proc \ {q} : ~Frees(todo'[x], s) /\ ~Makes(todo'[x], s)
    <3>1. CASE q = p
      BY <3>1, <2>1, <1>1
    <3>2. CASE q # p
      <4>1. Frees(todo[q], s)
        BY <3>2, <2>1, <1>1
      <4>2. \A x \in Proc \ {q} : ~Frees(todo[x], s) /\ ~Makes(todo[x], s)
        BY <4>1 DEF CurInv, FreesInv
      <4> QED BY <4>1, <4>2, <3>2, <1>1
    <3> QED BY <3>1, <3>2
  <2> QED BY <2>1 DEF FreesInv, Frees, Makes
<1>5. MakesInv'
  <2>1. ASSUME NEW q \in Proc, NEW s \in Slot, Makes(todo'[q], s)
        PROVE  dinode'[inode'[s].inum].type = todo'[q][1].arg[1]
    <3>1. CASE q = p
      BY <3>1, <2>1, <1>1
    <3>2. CASE q # p
      BY <3>2, <2>1, <1>1
    <3> QED BY <3>1, <3>2
  <2> QED BY <2>1 DEF MakesInv, Makes
<1> QED BY <1>2, <1>3, <1>4, <1>5 DEF CurInv

LEMMA Quiet ==
  ASSUME IInv, IInv', CurInv, NEW p \in Proc, NEW t, IsSeq(t), Calm(t),
         todo' = [todo EXCEPT ![p] = t], Sound(inode', dinode'),
         committed' \in {committed, dinode}
  PROVE  CurInv'
<1>1. \A q \in Proc \ {p} : todo'[q] = todo[q]
  BY DEF IInv, TypeInv
<1>2. t # <<>> => Plain(t[1]) /\ Calm(Tail(t))
  BY CalmHead
<1>3. \A s : ~Frees(t, s) /\ ~Makes(t, s)
  BY <1>2 DEF Plain, Frees, Makes
<1>4. ASSUME NEW q \in Proc \ {p}, NEW s \in Slot, todo[q] # <<>>,
             todo[q][1].ip = s
      PROVE  /\ inode[s].valid => inode'[s].valid
             /\ dinode'[inode'[s].inum].type = dinode[inode[s].inum].type
  <2>1. inode[s].ref > 0 /\ inode'[s].ref > 0
    BY <1>1, <1>4, HeadRefs, HeadRefsNext
  <2>2. inode[s].inum \in Inum
    BY DEF IInv, CacheOK, IsEntry
  <2> QED BY <2>1, <2>2 DEF Sound, Gentle
<1>5. ASSUME NEW q \in Proc \ {p}, NEW s \in Slot
      PROVE  /\ Frees(todo[q], s) => inode'[s].valid
             /\ Makes(todo[q], s) =>
                  dinode'[inode'[s].inum].type = todo[q][1].arg[1]
  <2>1. Frees(todo[q], s) \/ Makes(todo[q], s) =>
          todo[q] # <<>> /\ todo[q][1].ip = s
    BY DEF Frees, Makes
  <2>2. /\ Frees(todo[q], s) => inode[s].valid
        /\ Makes(todo[q], s) => dinode[inode[s].inum].type = todo[q][1].arg[1]
    BY DEF CurInv, FreesInv, MakesInv
  <2> QED BY <2>1, <2>2, <1>4
<1>6. DiskOK(dinode') /\ Current(inode', dinode')
  BY DEF Sound
<1>7. t # <<>> =>
        /\ Calm(Tail(t))
        /\ \/ Plain(t[1])
           \/ t[1].op = "iput2"
           \/ t[1].op = "create2" /\ t[1].arg[1] # "free"
  BY <1>2
<1>8. \A q \in Proc \ {p}, s \in Slot :
        /\ Frees(todo[q], s) =>
             inode'[s].valid /\ ~Frees(t, s) /\ ~Makes(t, s)
        /\ Makes(todo[q], s) =>
             /\ dinode'[inode'[s].inum].type = todo[q][1].arg[1]
             /\ ~Frees(t, s)
  BY <1>3, <1>5
<1>9. \A s \in Slot :
        /\ Frees(t, s) => inode'[s].valid
        /\ Makes(t, s) => dinode'[inode'[s].inum].type = t[1].arg[1]
  BY <1>3
<1> QED BY <1>6, <1>7, <1>8, <1>9, Core

\* The same, by the frames that replace the first one.
LEMMA Quiets ==
  ASSUME IInv, IInv', CurInv, NEW p \in Proc, todo[p] # <<>>,
         Sound(inode', dinode'), committed' \in {committed, dinode},
         \/ Do(p, <<>>)
         \/ \E x : Plain(x) /\ Do(p, <<x>>)
         \/ \E x, y : Plain(x) /\ Plain(y) /\ Do(p, <<x, y>>)
         \/ \E x, y, z : Plain(x) /\ Plain(y) /\ Plain(z) /\ Do(p, <<x, y, z>>)
  PROVE  CurInv'
<1>1. IsSeq(Tail(todo[p])) /\ Calm(Tail(todo[p]))
  BY CalmTail
<1>2. \A F : Do(p, F) => todo' = [todo EXCEPT ![p] = F \o Tail(todo[p])]
  BY DEF Do
<1>3. \E t : IsSeq(t) /\ Calm(t) /\ todo' = [todo EXCEPT ![p] = t]
  <2> DEFINE T == Tail(todo[p])
             Ends(t) == todo' = [todo EXCEPT ![p] = t]
  <2>1. /\ Calm(<<>> \o T) /\ IsSeq(<<>> \o T)
        /\ \A x : Plain(x) => Calm(<<x>> \o T) /\ IsSeq(<<x>> \o T)
        /\ \A x, y : Plain(x) /\ Plain(y) =>
                       Calm(<<x, y>> \o T) /\ IsSeq(<<x, y>> \o T)
        /\ \A x, y, z : Plain(x) /\ Plain(y) /\ Plain(z) =>
                          Calm(<<x, y, z>> \o T) /\ IsSeq(<<x, y, z>> \o T)
    BY <1>1, CalmPush
  <2>2. \A F : Do(p, F) => Ends(F \o T)
    BY <1>2
  <2> HIDE DEF T, Ends
  <2>3. \E t : IsSeq(t) /\ Calm(t) /\ Ends(t)
    BY <2>1, <2>2, Zenon
  <2> QED BY <2>3 DEF Ends
<1> QED BY <1>3, Quiet

\* A step that leaves the cache and the disk.
LEMMA Idles ==
  ASSUME CurInv, UNCHANGED <<inode, dinode>>
  PROVE  Sound(inode', dinode')
  BY SoundNow

\* A step that took a lock found an allocated inode.
LEMMA LockedType ==
  ASSUME NEW p, NEW op, op # "iput", Locked(p, op)
  PROVE  Loaded(Wants(p)).type # "free"
  BY DEF Locked, At, PanicOf

LEMMA CurIputDrop ==
  ASSUME IInv, IInv', CurInv, NEW p \in Proc, IputDrop(p)
  PROVE  CurInv'
<1> DEFINE s == Head(todo[p]).ip
<1>1. /\ At(p, "drop") /\ Do(p, <<>>) /\ UNCHANGED <<dinode, committed>>
      /\ inode' = [inode EXCEPT ![s] = Dropped(@)]
  BY DEF IputDrop
<1>2. todo[p] # <<>> /\ CacheOK(inode) /\ s \in Slot
  BY <1>1, AtPut, Kinds
<1>3. inode[s].ref > 0
  <2>1. s = todo[p][1].ip
    OBVIOUS
  <2> QED BY <2>1, <1>2, HeadRefs
<1>4. Sound(inode', dinode')
  BY <1>1, <1>2, <1>3, SoundDrop
<1> QED BY <1>1, <1>2, <1>4, Quiets

LEMMA CurIunlockput ==
  ASSUME IInv, IInv', CurInv, NEW p \in Proc, Iunlockput(p)
  PROVE  CurInv'
<1>1. /\ todo[p] # <<>> /\ Do(p, <<Iput(Head(todo[p]).ip)>>)
      /\ UNCHANGED <<dinode, committed, inode>>
  BY DEF Iunlockput, At
<1> QED BY <1>1, Idles, PlainIs, Quiets

LEMMA CurNamexStart ==
  ASSUME IInv, IInv', CurInv, NEW p \in Proc, NamexStart(p)
  PROVE  CurInv'
<1>1. At(p, "walk") /\ UNCHANGED <<dinode, committed>>
  BY DEF NamexStart
<1>2. todo[p] # <<>> /\ CacheOK(inode) /\ cwd[p] \in Slot
  BY <1>1, AtWalk
<1> DEFINE path == Head(todo[p]).arg[1]
           parent == Head(todo[p]).arg[2]
<1>3. \E x : Plain(x) /\ Do(p, <<x>>)
  <2>1. \E ip, arg : Do(p, <<Frame("namex", ip, None, arg)>>)
    BY Zenon DEF NamexStart
  <2> QED BY <2>1, PlainIs
<1>4. CASE Absolute(path)
  <2>1. inode' = Referenced(inode, ROOTINO)
    BY <1>4 DEF NamexStart
  <2>2. ROOTINO \in Inum
    BY Nones DEF ROOTINO, Inum
  <2>3. ~NoEntry(ROOTINO)
    <3>1. ROOTINO \in Igets(p, Wants(p))
      BY <1>1, <1>4, <2>2 DEF Igets, At
    <3> QED BY <3>1, <1>1, Gets
  <2>4. Sound(inode', dinode')
    BY <2>1, <2>2, <2>3, <1>1, <1>2, SameInode, SoundNow, SoundGot
  <2> QED BY <2>4, <1>1, <1>2, <1>3, Quiets
<1>5. CASE ~Absolute(path)
  <2>1. inode' = [inode EXCEPT ![cwd[p]].ref = @ + 1]
    BY <1>5 DEF NamexStart
  <2>2. inode[cwd[p]].ref > 0
    BY <1>2, RefsLocal
  <2>3. Sound(inode', dinode')
    BY <2>1, <2>2, <1>1, <1>2, SoundDup
  <2> QED BY <2>3, <1>1, <1>2, <1>3, Quiets
<1> QED BY <1>4, <1>5

LEMMA CurNamexDone ==
  ASSUME IInv, IInv', CurInv, NEW p \in Proc, NamexDone(p)
  PROVE  CurInv'
<1>1. /\ todo[p] # <<>> /\ UNCHANGED <<dinode, committed, inode>>
      /\ Do(p, <<Iput(Head(todo[p]).ip)>>) \/ Do(p, <<>>)
  BY DEF NamexDone, At
<1> QED BY <1>1, Idles, PlainIs, Quiets

\* What ilock() leaves, for a step that took the lock of s.
LEMMA SoundLocked ==
  ASSUME IInv, CurInv, NEW p \in Proc, NEW op, op # "iput", Locked(p, op),
         NEW s \in Slot, Wants(p) = s
  PROVE  /\ CacheOK(inode) /\ todo[p] # <<>>
         /\ SameRefs(Ilocked(s)) /\ Sound(Ilocked(s), dinode)
         /\ Ilocked(s)[s].valid /\ Ilocked(s)[s] = Loaded(s)
         /\ Loaded(s).type # "free"
<1>1. CacheOK(inode) /\ todo[p] # <<>>
  BY DEF IInv, Locked, At
<1>2. Loaded(s).type # "free"
  BY LockedType
<1> QED BY <1>1, <1>2, SameIlocked, SoundIlocked

LEMMA CurNamexStep ==
  ASSUME IInv, IInv', CurInv, NEW p \in Proc, NamexStep(p)
  PROVE  CurInv'
<1> DEFINE s == Head(todo[p]).ip
<1>1. Locked(p, "namex") /\ At(p, "namex") /\ UNCHANGED <<dinode, committed>>
  BY DEF NamexStep, Locked
<1>2. /\ todo[p] # <<>> /\ CacheOK(inode) /\ s \in Slot
  BY <1>1, AtIp
<1>3. Wants(p) = s /\ s # None /\ Head(todo[p]).op = "namex"
  <2>1. Wants(p) # None /\ Head(todo[p]).op = "namex"
    BY <1>1 DEF Locked, At
  <2>2. Wants(p) = IF Head(todo[p]).arg[1] = <<>> THEN None ELSE s
    BY <2>1, <1>2 DEF Wants
  <2> QED BY <2>1, <2>2, <1>2, SlotNotNone
<1>4. SameRefs(Ilocked(s)) /\ Sound(Ilocked(s), dinode)
  BY <1>1, <1>2, <1>3, SoundLocked
<1>5. \/ inode' = Ilocked(s) /\ Do(p, <<>>)
      \/ inode' = Ilocked(s) /\ Do(p, <<Iput(s)>>)
      \/ \E i \in Dirlookup(s, Skipelem(Head(todo[p]).arg[1]).name) :
           /\ inode' = Referenced(Ilocked(s), i)
           /\ \E arg : Do(p, <<Iput(s), Frame("namex", Iget(i), None, arg)>>)
           /\ Loaded(s).type = "dir"
           /\ ~(Head(todo[p]).arg[2] /\ Skipelem(Head(todo[p]).arg[1]).rest = <<>>)
  BY Zenon DEF NamexStep
<1>6. CASE inode' = Ilocked(s) /\ (Do(p, <<>>) \/ Do(p, <<Iput(s)>>))
  <2>1. Sound(inode', dinode')
    BY <1>1, <1>4, <1>6
  <2> QED BY <2>1, <1>1, <1>2, <1>6, PlainIs, Quiets
<1>7. ASSUME NEW i \in Dirlookup(s, Skipelem(Head(todo[p]).arg[1]).name),
             inode' = Referenced(Ilocked(s), i),
             NEW arg, Do(p, <<Iput(s), Frame("namex", Iget(i), None, arg)>>),
             Loaded(s).type = "dir",
             ~(Head(todo[p]).arg[2] /\ Skipelem(Head(todo[p]).arg[1]).rest = <<>>)
      PROVE  CurInv'
  <2>1. /\ Skipelem(Head(todo[p]).arg[1]).name = Head(Head(todo[p]).arg[1])
        /\ Skipelem(Head(todo[p]).arg[1]).rest = Tail(Head(todo[p]).arg[1])
    BY DEF Skipelem
  <2>2. i \in Igets(p, Wants(p)) /\ i \in Inum
    BY <2>1, <1>3, <1>7, DirInodes DEF Igets
  <2>3. ~NoEntry(i)
    BY <2>2, <1>1, Gets
  <2>4. Sound(inode', dinode')
    BY <2>2, <2>3, <1>1, <1>2, <1>4, <1>7, SoundGot
  <2>5. \E x, y : Plain(x) /\ Plain(y) /\ Do(p, <<x, y>>)
    BY <1>7, PlainIs
  <2> QED BY <2>4, <2>5, <1>1, <1>2, Quiets
<1> QED BY <1>5, <1>6, <1>7

\* A step that takes the lock of the inode that was returned.
LEMMA TakesRet ==
  ASSUME IInv, CurInv, NEW p \in Proc,
         NEW op \in {"open", "create", "link1", "link2", "unlink1", "chdir"},
         Locked(p, op)
  PROVE  /\ At(p, op) /\ Wants(p) = ret[p] /\ ret[p] # None /\ ret[p] \in Slot
         /\ inode[ret[p]].ref > 0 /\ Head(todo[p]).op = op
         /\ CacheOK(inode) /\ todo[p] # <<>>
         /\ SameRefs(Ilocked(ret[p])) /\ Sound(Ilocked(ret[p]), dinode)
         /\ Loaded(ret[p]).type # "free"
<1>1. /\ At(p, op) /\ Wants(p) = ret[p] /\ ret[p] # None
      /\ Head(todo[p]).op = op
  BY LockedRet
<1>2. ret[p] \in Slot
  BY <1>1, Stays DEF SlotOrNone
<1>3. inode[ret[p]].ref > 0
  BY <1>2, RefsLocal
<1>4. op # "iput"
  OBVIOUS
<1>5. /\ CacheOK(inode) /\ todo[p] # <<>>
      /\ SameRefs(Ilocked(ret[p])) /\ Sound(Ilocked(ret[p]), dinode)
      /\ Loaded(ret[p]).type # "free"
  BY <1>1, <1>2, <1>4, SoundLocked
<1> QED BY <1>1, <1>2, <1>3, <1>5

LEMMA CurOpen ==
  ASSUME IInv, IInv', CurInv, NEW p \in Proc, Open(p)
  PROVE  CurInv'
<1> DEFINE s == ret[p]
<1>1. /\ Locked(p, "open") /\ inode' = Ilocked(s) /\ UNCHANGED <<dinode, committed>>
      /\ Do(p, <<Iput(s)>>) \/ Do(p, <<>>)
  BY DEF Open
<1>2. todo[p] # <<>> /\ Sound(inode', dinode')
  BY <1>1, TakesRet
<1> QED BY <1>1, <1>2, PlainIs, Quiets

LEMMA CurChdir ==
  ASSUME IInv, IInv', CurInv, NEW p \in Proc, Chdir(p)
  PROVE  CurInv'
<1> DEFINE s == ret[p]
<1>1. /\ Locked(p, "chdir") /\ inode' = Ilocked(s)
      /\ UNCHANGED <<dinode, committed>>
      /\ Do(p, <<Iput(s)>>) \/ Do(p, <<Iput(cwd[p])>>)
  BY DEF Chdir
<1>2. todo[p] # <<>> /\ Sound(inode', dinode')
  BY <1>1, TakesRet
<1> QED BY <1>1, <1>2, PlainIs, Quiets

LEMMA CurOpened ==
  ASSUME IInv, IInv', CurInv, NEW p \in Proc, Opened(p)
  PROVE  CurInv'
<1>1. /\ todo[p] # <<>> /\ UNCHANGED <<dinode, committed, inode>>
      /\ Do(p, <<>>) \/ Do(p, <<Iput(ret[p])>>)
  BY DEF Opened, At, NoFile
<1> QED BY <1>1, Idles, PlainIs, Quiets

LEMMA CurCreateFound ==
  ASSUME IInv, IInv', CurInv, NEW p \in Proc, CreateFound(p)
  PROVE  CurInv'
<1> DEFINE s == ret[p]
<1>1. Locked(p, "create") /\ UNCHANGED <<dinode, committed>>
  BY DEF CreateFound
<1>2. /\ At(p, "create") /\ Wants(p) = s /\ s # None /\ Head(todo[p]).op = "create"
      /\ CacheOK(inode) /\ todo[p] # <<>>
      /\ SameRefs(Ilocked(s)) /\ Sound(Ilocked(s), dinode)
  BY <1>1, TakesRet
<1>3. PICK i \in Dirlookup(s, Head(todo[p]).arg[2]) :
        /\ inode' = Referenced(Ilocked(s), i)
        /\ Do(p, <<Iput(s), Frame("exists", Iget(i), None, Head(todo[p]).arg[1])>>)
  BY DEF CreateFound
<1>4. i \in Igets(p, Wants(p)) /\ i \in Inum
  BY <1>2, <1>3, DirInodes DEF Igets
<1>5. ~NoEntry(i)
  BY <1>2, <1>4, Gets
<1>6. Sound(inode', dinode')
  BY <1>1, <1>2, <1>3, <1>4, <1>5, SoundGot
<1>7. \E x, y : Plain(x) /\ Plain(y) /\ Do(p, <<x, y>>)
  BY <1>3, PlainIs
<1> QED BY <1>1, <1>2, <1>6, <1>7, Quiets

LEMMA CurExists ==
  ASSUME IInv, IInv', CurInv, NEW p \in Proc, Exists(p)
  PROVE  CurInv'
<1> DEFINE s == Head(todo[p]).ip
<1>1. /\ Locked(p, "exists") /\ At(p, "exists") /\ inode' = Ilocked(s)
      /\ UNCHANGED <<dinode, committed>>
      /\ Do(p, <<Iput(s)>>) \/ Do(p, <<>>)
  BY DEF Exists, Locked
<1>2. s \in Slot
  BY <1>1, AtIp
<1>3. Wants(p) = s
  BY <1>1 DEF Wants, At
<1>4. todo[p] # <<>> /\ Sound(inode', dinode')
  BY <1>1, <1>2, <1>3, SoundLocked
<1> QED BY <1>1, <1>4, PlainIs, Quiets

LEMMA CurMade ==
  ASSUME IInv, IInv', CurInv, NEW p \in Proc, Made(p)
  PROVE  CurInv'
<1>1. /\ todo[p] # <<>> /\ UNCHANGED <<dinode, committed, inode>>
      /\ Do(p, <<Unlockput(ret[p])>>)
  BY DEF Made, At
<1> QED BY <1>1, Idles, PlainIs, Quiets

LEMMA CurEndOp ==
  ASSUME IInv, IInv', CurInv, NEW p \in Proc, EndOp(p)
  PROVE  CurInv'
<1>1. /\ todo[p] # <<>> /\ UNCHANGED <<dinode, inode>> /\ Do(p, <<>>)
      /\ committed' \in {committed, dinode}
  BY DEF EndOp, At, Commit
<1> QED BY <1>1, Idles, Quiets

LEMMA CurFailed ==
  ASSUME IInv, IInv', CurInv, NEW p \in Proc, Failed(p)
  PROVE  CurInv'
<1>1. /\ todo[p] # <<>> /\ UNCHANGED <<dinode, committed, inode>>
      /\ Do(p, <<LinkBad(Head(todo[p]).ip)>>) \/ Do(p, <<>>)
  BY DEF Failed, At
<1> QED BY <1>1, Idles, PlainIs, Quiets

-----------------------------------------------------------------------------
(* Steps that write an inode                                               *)

\* iupdate() of a link count.
LEMMA SoundNlink ==
  ASSUME CacheOK(inode), NEW tab, SameRefs(tab), NEW dsk, Sound(tab, dsk),
         NEW s \in Slot, inode[s].ref > 0, NEW k
  PROVE  Sound(Nlink(tab, s, k), DiskNlink(dsk, tab, s, k))
<1> DEFINE n == tab[s].nlink + k
           i == tab[s].inum
           d == [dsk[i] EXCEPT !.nlink = n]
<1>1. tab[s].ref > 0 /\ i \in Inum
  BY DEF SameRefs, CacheOK, IsEntry
<1>2. IsDinode(dsk[i])
  BY <1>1 DEF Sound, DiskOK
<1>3. IsDinode(d) /\ d.type = dsk[i].type /\ d.nlink = n
  BY <1>2 DEF IsDinode
<1>4. Nlink(tab, s, k) = [tab EXCEPT ![s].nlink = n]
  BY DEF Nlink
<1>5. DiskNlink(dsk, tab, s, k) = [dsk EXCEPT ![i] = d]
  BY DEF DiskNlink
<1> HIDE DEF n, d
<1>6. Sound([tab EXCEPT ![s].nlink = n], [dsk EXCEPT ![i] = d])
  BY <1>1, <1>3, SoundWrite
<1> QED BY <1>4, <1>5, <1>6

\* A change of a directory's entries.
LEMMA SoundEnts ==
  ASSUME NEW tab, CacheOK(tab), NEW dsk, Sound(tab, dsk), NEW i \in Inum, NEW E
  PROVE  Sound(tab, [dsk EXCEPT ![i].ents = E])
<1> DEFINE d == [dsk[i] EXCEPT !.ents = E]
           k == [dsk EXCEPT ![i].ents = E]
<1>1. IsDinode(dsk[i]) /\ DOMAIN dsk = Inum
  BY DEF Sound, DiskOK
<1>2. IsDinode(d) /\ d.type = dsk[i].type /\ d.nlink = dsk[i].nlink
  BY <1>1 DEF IsDinode
<1>3. k = [dsk EXCEPT ![i] = d]
  OBVIOUS
<1> HIDE DEF d, k
<1>4. k[i] = d /\ \A j \in Inum \ {i} : k[j] = dsk[j]
  BY <1>1, <1>3
<1>5. DiskOK(k)
  BY <1>1, <1>2, <1>3 DEF Sound, DiskOK
<1>6. \A j \in Inum : k[j].type = dsk[j].type /\ k[j].nlink = dsk[j].nlink
  BY <1>2, <1>4
<1>7. \A s \in Slot : tab[s].inum \in Inum
  BY DEF CacheOK, IsEntry
<1>8. Current(tab, k) /\ Gentle(tab, k)
  BY <1>6, <1>7 DEF Sound, Current, Gentle
<1> QED BY <1>5, <1>8 DEF Sound, k

LEMMA CurLinkCount ==
  ASSUME IInv, IInv', CurInv, NEW p \in Proc, LinkCount(p)
  PROVE  CurInv'
<1> DEFINE s == ret[p]
           new == Head(todo[p]).arg
<1>1. Locked(p, "link1") /\ UNCHANGED committed
  BY DEF LinkCount
<1>2. /\ s \in Slot /\ inode[s].ref > 0 /\ CacheOK(inode) /\ todo[p] # <<>>
      /\ SameRefs(Ilocked(s)) /\ Sound(Ilocked(s), dinode)
  BY <1>1, TakesRet
<1>3. \/ /\ inode' = Ilocked(s) /\ dinode' = dinode
         /\ Do(p, <<Iput(s)>>)
      \/ /\ inode' = Nlink(Ilocked(s), s, 1)
         /\ dinode' = DiskNlink(dinode, Ilocked(s), s, 1)
         /\ Do(p, <<Walk(new, TRUE), Frame("link2", s, None, Last(new))>>)
  BY Zenon DEF LinkCount
<1>4. Sound(inode', dinode')
  BY <1>2, <1>3, SoundNlink
<1>5. \/ \E x : Plain(x) /\ Do(p, <<x>>)
      \/ \E x, y : Plain(x) /\ Plain(y) /\ Do(p, <<x, y>>)
  BY <1>3, PlainIs
<1> QED BY <1>1, <1>2, <1>4, <1>5, Quiets

LEMMA CurDirlink ==
  ASSUME IInv, IInv', CurInv, NEW p \in Proc, Dirlink(p)
  PROVE  CurInv'
<1> DEFINE s == Head(todo[p]).ip
           d == ret[p]
<1>1. Locked(p, "link2") /\ UNCHANGED committed
  BY DEF Dirlink
<1>2. /\ At(p, "link2") /\ Wants(p) = d /\ d # None /\ Head(todo[p]).op = "link2"
      /\ d \in Slot /\ CacheOK(inode) /\ todo[p] # <<>>
      /\ SameRefs(Ilocked(d)) /\ Sound(Ilocked(d), dinode)
  BY <1>1, TakesRet
<1>3. CASE /\ inode' = Ilocked(d)
           /\ \E E : dinode' = [dinode EXCEPT ![inode[d].inum].ents = E]
           /\ Do(p, <<Iput(d), Iput(s)>>)
  <2>1. inode[d].inum \in Inum /\ CacheOK(Ilocked(d))
    BY <1>2 DEF CacheOK, IsEntry, SameRefs
  <2>2. Sound(inode', dinode')
    <3>1. PICK E : dinode' = [dinode EXCEPT ![inode[d].inum].ents = E]
      BY <1>3
    <3>2. Sound(Ilocked(d), [dinode EXCEPT ![inode[d].inum].ents = E])
      BY <2>1, <1>2, SoundEnts
    <3> QED BY <3>1, <3>2, <1>3
  <2>3. \E x, y : Plain(x) /\ Plain(y) /\ Do(p, <<x, y>>)
    BY <1>3, PlainIs
  <2> QED BY <2>2, <2>3, <1>1, <1>2, Quiets
<1>4. ASSUME NEW i \in Dirlookup(d, Head(todo[p]).arg),
             inode' = Referenced(Ilocked(d), i), dinode' = dinode,
             Do(p, <<Iput(Iget(i)), Unlockput(d), LinkBad(s)>>)
      PROVE  CurInv'
  <2>1. i \in Igets(p, Wants(p)) /\ i \in Inum
    BY <1>2, <1>4, DirInodes DEF Igets
  <2>2. ~NoEntry(i)
    BY <2>1, <1>2, Gets
  <2>3. Sound(inode', dinode')
    BY <2>1, <2>2, <1>2, <1>4, SoundGot
  <2>4. \E x, y, z : Plain(x) /\ Plain(y) /\ Plain(z) /\ Do(p, <<x, y, z>>)
    BY <1>4, PlainIs
  <2> QED BY <2>3, <2>4, <1>1, <1>2, Quiets
<1>5. \/ /\ inode' = Ilocked(d)
         /\ \E E : dinode' = [dinode EXCEPT ![inode[d].inum].ents = E]
         /\ Do(p, <<Iput(d), Iput(s)>>)
      \/ \E i \in Dirlookup(d, Head(todo[p]).arg) :
           /\ inode' = Referenced(Ilocked(d), i) /\ dinode' = dinode
           /\ Do(p, <<Iput(Iget(i)), Unlockput(d), LinkBad(s)>>)
  BY Zenon DEF Dirlink
<1> QED BY <1>3, <1>4, <1>5

LEMMA CurLinkUndo ==
  ASSUME IInv, IInv', CurInv, NEW p \in Proc, LinkUndo(p)
  PROVE  CurInv'
<1> DEFINE s == Head(todo[p]).ip
<1>1. /\ Locked(p, "linkbad") /\ At(p, "linkbad") /\ UNCHANGED committed
      /\ Do(p, <<Iput(s)>>) /\ inode' = Nlink(Ilocked(s), s, Undo)
      /\ dinode' = DiskNlink(dinode, Ilocked(s), s, Undo)
  BY DEF LinkUndo, Locked
<1>2. s \in Slot /\ todo[p] # <<>>
  BY <1>1, AtIp
<1>3. Wants(p) = s /\ todo[p][1].ip = s
  <2>1. Wants(p) = s
    BY <1>1 DEF Wants, At
  <2>2. todo[p][1].ip = s
    OBVIOUS
  <2> QED BY <2>1, <2>2
<1>4. CacheOK(inode) /\ SameRefs(Ilocked(s)) /\ Sound(Ilocked(s), dinode)
  BY <1>1, <1>2, <1>3, SoundLocked
<1>5. inode[s].ref > 0
  BY <1>2, <1>3, HeadRefs
<1>6. Sound(inode', dinode')
  BY <1>1, <1>2, <1>4, <1>5, SoundNlink
<1> QED BY <1>1, <1>2, <1>6, PlainIs, Quiets

LEMMA CurUnlinkFind ==
  ASSUME IInv, IInv', CurInv, NEW p \in Proc, UnlinkFind(p)
  PROVE  CurInv'
<1> DEFINE d == ret[p]
           name == Head(todo[p]).arg
<1>1. Locked(p, "unlink1") /\ UNCHANGED <<dinode, committed>>
  BY DEF UnlinkFind
<1>2. /\ At(p, "unlink1") /\ Wants(p) = d /\ d # None
      /\ Head(todo[p]).op = "unlink1"
      /\ d \in Slot /\ CacheOK(inode) /\ todo[p] # <<>>
      /\ SameRefs(Ilocked(d)) /\ Sound(Ilocked(d), dinode)
  BY <1>1, TakesRet
<1>3. CASE inode' = Ilocked(d) /\ Do(p, <<Iput(d)>>)
  BY <1>1, <1>2, <1>3, PlainIs, Quiets
<1>4. ASSUME NEW i \in Dirlookup(d, name), name \notin {".", ".."},
             inode' = Referenced(Ilocked(d), i),
             Do(p, <<Frame("unlink2", Iget(i), d, name)>>)
      PROVE  CurInv'
  <2>1. i \in Igets(p, Wants(p)) /\ i \in Inum
    BY <1>2, <1>4, DirInodes DEF Igets
  <2>2. ~NoEntry(i)
    BY <2>1, <1>2, Gets
  <2>3. Sound(inode', dinode')
    BY <2>1, <2>2, <1>1, <1>2, <1>4, SoundGot
  <2>4. \E x : Plain(x) /\ Do(p, <<x>>)
    BY <1>4, PlainIs
  <2> QED BY <2>3, <2>4, <1>1, <1>2, Quiets
<1>5. \/ inode' = Ilocked(d) /\ Do(p, <<Iput(d)>>)
      \/ \E i \in Dirlookup(d, name) :
           /\ name \notin {".", ".."} /\ inode' = Referenced(Ilocked(d), i)
           /\ Do(p, <<Frame("unlink2", Iget(i), d, name)>>)
  BY DEF UnlinkFind
<1> QED BY <1>3, <1>4, <1>5

LEMMA CurUnlinkCount ==
  ASSUME IInv, IInv', CurInv, NEW p \in Proc, UnlinkCount(p)
  PROVE  CurInv'
<1> DEFINE s == Head(todo[p]).ip
<1>1. /\ At(p, "unlink3") /\ UNCHANGED committed /\ Do(p, <<Iput(s)>>)
      /\ inode' = Nlink(inode, s, -1) /\ dinode' = DiskNlink(dinode, inode, s, -1)
  BY DEF UnlinkCount
<1>2. s \in Slot /\ todo[p] # <<>> /\ CacheOK(inode)
  BY <1>1, AtIp
<1>3. inode[s].ref > 0
  <2>1. todo[p][1].ip = s
    OBVIOUS
  <2> QED BY <2>1, <1>2, HeadRefs
<1>4. Sound(inode', dinode')
  BY <1>1, <1>2, <1>3, SameInode, SoundNow, SoundNlink
<1> QED BY <1>1, <1>2, <1>4, PlainIs, Quiets

\* The directory in a frame of create() or sys_unlink() is in use.
LEMMA DpRefs ==
  ASSUME IInv, NEW p \in Proc, todo[p] # <<>>, NEW d \in Slot,
         Head(todo[p]).dp = d
  PROVE  inode[d].ref > 0
<1> DEFINE h == Head(todo[p])
           T == Tail(todo[p])
<1>1. /\ Count(T, d) \in Nat
      /\ Count(todo[p], d) = On(h.ip, d) + On(h.dp, d) + Count(T, d)
  BY Split
<1>2. On(h.dp, d) = 1 /\ On(h.ip, d) \in Nat
  BY DEF On
<1>3. Count(todo[p], d) \in Nat /\ Count(todo[p], d) > 0
  BY <1>1, <1>2
<1>4. Local(cwd[p], fd[p], ret[p], todo[p], d) > 0
  BY <1>3 DEF Local, On
<1>5. /\ inode[d].ref \in Nat
      /\ Local(cwd[p], fd[p], ret[p], todo[p], d) \in Nat
      /\ inode[d].ref >= Local(cwd[p], fd[p], ret[p], todo[p], d)
  BY RefsLocal
<1> QED BY <1>4, <1>5

\* A directory gets other entries and another link count.
LEMMA SoundDir ==
  ASSUME CacheOK(inode), NEW tab, SameRefs(tab), NEW dsk, Sound(tab, dsk),
         NEW s \in Slot, inode[s].ref > 0, NEW k, NEW E, NEW i, i = inode[s].inum
  PROVE  /\ Sound(Nlink(tab, s, k),
                  [dsk EXCEPT ![i] = [dsk[i] EXCEPT !.ents = E,
                                        !.nlink = Nlink(tab, s, k)[s].nlink]])
         /\ DOMAIN dsk = Inum /\ i \in Inum
<1> DEFINE n == tab[s].nlink + k
           d == [dsk[i] EXCEPT !.ents = E, !.nlink = n]
<1>1. tab[s].ref > 0 /\ tab[s].inum = i /\ i \in Inum
  BY DEF SameRefs, CacheOK, IsEntry
<1>2. IsDinode(dsk[i]) /\ DOMAIN dsk = Inum
  BY <1>1 DEF Sound, DiskOK
<1>3. IsDinode(d) /\ d.type = dsk[i].type /\ d.nlink = n
  <2> DEFINE e == [dsk[i] EXCEPT !.ents = E]
  <2>1. IsDinode(e) /\ e.type = dsk[i].type
    BY <1>2 DEF IsDinode
  <2>2. d = [e EXCEPT !.nlink = n]
    OBVIOUS
  <2> HIDE DEF e, d
  <2> QED BY <2>1, <2>2 DEF IsDinode
<1>4. Nlink(tab, s, k) = [tab EXCEPT ![s].nlink = n]
  BY DEF Nlink
<1>5. Nlink(tab, s, k)[s].nlink = n
  <2>1. IsEntry(tab[s]) /\ DOMAIN tab = Slot
    BY DEF SameRefs, CacheOK
  <2> QED BY <2>1 DEF Nlink, IsEntry
<1> HIDE DEF n
<1>6. Sound([tab EXCEPT ![s].nlink = n], [dsk EXCEPT ![i] = d])
  <2> HIDE DEF d
  <2>1. Sound([tab EXCEPT ![s].nlink = n], [dsk EXCEPT ![tab[s].inum] = d])
    BY <1>1, <1>3, SoundWrite
  <2> QED BY <2>1, <1>1
<1> QED BY <1>1, <1>2, <1>4, <1>5, <1>6

LEMMA CurUnlinkErase ==
  ASSUME IInv, IInv', CurInv, NEW p \in Proc, UnlinkErase(p)
  PROVE  CurInv'
<1> DEFINE s == Head(todo[p]).ip
           dp == Head(todo[p]).dp
           d == inode[dp].inum
           k == -Dotdot(Loaded(s).type)
<1>1. Locked(p, "unlink2") /\ At(p, "unlink2") /\ UNCHANGED committed
  BY DEF UnlinkErase, Locked
<1>2. s \in Slot /\ dp \in Slot /\ todo[p] # <<>> /\ CacheOK(inode)
  BY <1>1, AtTwo
<1>3. Wants(p) = s
  BY <1>1 DEF Wants, At
<1>4. SameRefs(Ilocked(s)) /\ Sound(Ilocked(s), dinode)
  BY <1>1, <1>2, <1>3, SoundLocked
<1>5. CASE /\ inode' = Ilocked(s) /\ UNCHANGED dinode
           /\ Do(p, <<Iput(s), Unlockput(dp)>>)
  <2>1. \E x, y : Plain(x) /\ Plain(y) /\ Do(p, <<x, y>>)
    BY <1>5, PlainIs
  <2>2. Sound(inode', dinode')
    BY <1>4, <1>5
  <2> QED BY <2>1, <2>2, <1>1, <1>2, Quiets
<1>6. ASSUME NEW E, inode' = Nlink(Ilocked(s), dp, k),
             dinode' = [dinode EXCEPT ![d] = [@ EXCEPT !.ents = E,
                                                !.nlink = inode'[dp].nlink]],
             Do(p, <<Iput(dp), Frame("unlink3", s, None, <<>>)>>)
      PROVE  CurInv'
  <2>1. \E x, y : Plain(x) /\ Plain(y) /\ Do(p, <<x, y>>)
    BY <1>6, PlainIs
  <2>2. inode[dp].ref > 0
    BY <1>2, DpRefs
  <2>3. /\ Sound(Nlink(Ilocked(s), dp, k),
                 [dinode EXCEPT ![d] = [dinode[d] EXCEPT !.ents = E,
                    !.nlink = Nlink(Ilocked(s), dp, k)[dp].nlink]])
        /\ DOMAIN dinode = Inum /\ d \in Inum
    <3> HIDE DEF k
    <3> QED BY <2>2, <1>2, <1>4, SoundDir
  <2>4. dinode' = [dinode EXCEPT ![d] = [dinode[d] EXCEPT !.ents = E,
                                           !.nlink = inode'[dp].nlink]]
    BY <1>6
  <2>5. Sound(inode', dinode')
    BY <2>3, <2>4, <1>6
  <2> QED BY <2>1, <2>5, <1>1, <1>2, Quiets
<1>7. \/ /\ inode' = Ilocked(s) /\ UNCHANGED dinode
         /\ Do(p, <<Iput(s), Unlockput(dp)>>)
      \/ /\ inode' = Nlink(Ilocked(s), dp, k)
         /\ \E E : dinode' = [dinode EXCEPT ![d] = [@ EXCEPT !.ents = E,
                                                      !.nlink = inode'[dp].nlink]]
         /\ Do(p, <<Iput(dp), Frame("unlink3", s, None, <<>>)>>)
  BY Zenon DEF UnlinkErase
<1> QED BY <1>5, <1>6, <1>7

LEMMA CurCreateLink ==
  ASSUME IInv, IInv', CurInv, NEW p \in Proc, CreateLink(p)
  PROVE  CurInv'
<1> DEFINE s == Head(todo[p]).ip
           dp == Head(todo[p]).dp
           i == inode[s].inum
           d == inode[dp].inum
           type == Head(todo[p]).arg[1]
           k == Dotdot(type)
           tab == [Ilocked(s) EXCEPT ![s].nlink = 1]
<1>1. /\ Locked(p, "create2") /\ At(p, "create2") /\ UNCHANGED committed
      /\ Do(p, <<Iput(dp)>>) /\ inode' = Nlink(tab, dp, k)
  BY DEF CreateLink, Locked
<1>2. s \in Slot /\ dp \in Slot /\ todo[p] # <<>> /\ CacheOK(inode)
  BY <1>1, AtTwo
<1>3. Wants(p) = s
  BY <1>1 DEF Wants, At
<1>4. SameRefs(Ilocked(s)) /\ Sound(Ilocked(s), dinode)
  BY <1>1, <1>2, <1>3, SoundLocked
<1>5. inode[dp].ref > 0 /\ inode[s].ref > 0
  <2>1. todo[p][1].ip = s
    OBVIOUS
  <2> QED BY <2>1, <1>2, DpRefs, HeadRefs
<1>6. dinode[i].type = type
  <2>1. Makes(todo[p], s)
    <3>1. Head(todo[p]).op = "create2"
      BY <1>1 DEF At
    <3>2. Head(todo[p]) = todo[p][1]
      OBVIOUS
    <3> QED BY <3>1, <3>2, <1>2 DEF Makes
  <2>2. dinode[i].type = todo[p][1].arg[1]
    BY <2>1, <1>2 DEF CurInv, MakesInv
  <2> QED BY <2>2
<1>7. PICK dots, E :
        dinode' = [[dinode EXCEPT
                     ![i] = [type |-> type, nlink |-> 1, ents |-> dots]] EXCEPT
                    ![d] = [@ EXCEPT !.ents = E, !.nlink = inode'[dp].nlink]]
  BY Zenon DEF CreateLink
<1> DEFINE new == [type |-> type, nlink |-> 1, ents |-> dots]
           dsk == [dinode EXCEPT ![i] = new]
<1>8. SameRefs(tab)
  BY <1>2, <1>4, SameNlink
<1>9. Sound(tab, dsk)
  <2>1. Ilocked(s)[s].ref > 0 /\ Ilocked(s)[s].inum = i
    BY <1>2, <1>4, <1>5 DEF SameRefs
  <2>2. IsDinode(new) /\ new.type = type /\ new.nlink = 1
    BY DEF IsDinode
  <2> HIDE DEF new
  <2>3. Sound([Ilocked(s) EXCEPT ![s].nlink = 1],
              [dinode EXCEPT ![Ilocked(s)[s].inum] = new])
    BY <2>1, <2>2, <1>2, <1>4, <1>6, SoundWrite
  <2> QED BY <2>1, <2>3
<1>10. dinode' = [dsk EXCEPT ![d] = [dsk[d] EXCEPT !.ents = E,
                                       !.nlink = inode'[dp].nlink]]
  BY <1>7
<1> HIDE DEF tab, dsk, k
<1>11. Sound(Nlink(tab, dp, k),
             [dsk EXCEPT ![d] = [dsk[d] EXCEPT !.ents = E,
                                   !.nlink = Nlink(tab, dp, k)[dp].nlink]])
  BY <1>2, <1>5, <1>8, <1>9, SoundDir
<1>12. Sound(inode', dinode')
  BY <1>1, <1>10, <1>11
<1> QED BY <1>1, <1>2, <1>12, PlainIs, Quiets

-----------------------------------------------------------------------------
(* Freeing and making an inode                                             *)

LEMMA InFront ==
  ASSUME NEW T, IsSeq(T), NEW x
  PROVE  /\ <<x>> \o T # <<>> /\ (<<x>> \o T)[1] = x
         /\ Tail(<<x>> \o T) = T
<1> DEFINE u == <<x>> \o T
<1>1. PICK S : T \in Seq(S)
  BY DEF IsSeq
<1> DEFINE W == S \cup {x}
<1>2. T \in Seq(W) /\ <<x>> \in Seq(W) /\ Len(<<x>>) = 1 /\ <<x>>[1] = x
  BY <1>1
<1> HIDE DEF W
<1>3. u \in Seq(W)
  BY <1>2
<1>4. Cons(x, T) = u
  BY DEF Cons
<1> HIDE DEF u
<1>5. /\ u # <<>> /\ u[1] = x /\ Len(T) \in Nat /\ Len(u) = Len(T) + 1
      /\ \A k \in 1 .. Len(T) : u[k + 1] = T[k]
  BY <1>4, OneMore
<1>6. /\ Tail(u) \in Seq(W) /\ Len(Tail(u)) = Len(u) - 1
      /\ \A k \in 1 .. Len(Tail(u)) : Tail(u)[k] = u[k + 1]
  BY <1>3, <1>5, HeadTailProperties
<1>7. Tail(u) = T
  <2>1. Len(Tail(u)) = Len(T)
    BY <1>5, <1>6
  <2>2. \A k \in 1 .. Len(Tail(u)) : Tail(u)[k] = T[k]
    BY <2>1, <1>5, <1>6
  <2> QED BY <2>1, <2>2, <1>2, <1>6, SeqEqual
<1> QED BY <1>5, <1>7 DEF u

\* iput() that finds no links: if it has read ref == 1, nobody else is there.
LEMMA CurIputLook ==
  ASSUME IInv, IInv', CurInv, NEW p \in Proc, IputLook(p)
  PROVE  CurInv'
<1> DEFINE s == Head(todo[p]).ip
           T == Tail(todo[p])
           x == Frame("iput2", s, None, inode[s].ref)
           t == <<x>> \o T
<1>1. At(p, "iput") /\ UNCHANGED <<dinode, committed, inode>>
  BY DEF IputLook
<1>2. todo[p] # <<>> /\ s \in Slot /\ IsSeq(T) /\ Calm(T)
  BY <1>1, AtPut, Kinds, CalmTail
<1>3. Sound(inode', dinode')
  BY <1>1, Idles
<1>4. CASE Do(p, <<Frame("drop", s, None, <<>>)>>)
  <2>1. \E y : Plain(y) /\ Do(p, <<y>>)
    BY <1>4, PlainIs
  <2> QED BY <2>1, <1>1, <1>2, <1>3, Quiets
<1>5. CASE inode[s].valid /\ Do(p, <<x>>)
  <2>1. todo' = [todo EXCEPT ![p] = t]
    BY <1>5 DEF Do
  <2>2. t # <<>> /\ t[1] = x /\ Tail(t) = T
    BY <1>2, InFront
  <2>3. x.op = "iput2" /\ x.ip = s /\ x.arg = inode[s].ref
    BY DEF Frame
  <2> HIDE DEF x, t
  <2>4. \A y : ~Makes(t, y) /\ (Frees(t, y) => y = s /\ inode[s].ref = 1)
    BY <2>2, <2>3 DEF Makes, Frees
  <2>5. ASSUME NEW q \in Proc \ {p}, NEW y \in Slot,
               Frees(todo[q], y) \/ Makes(todo[q], y)
        PROVE  ~Frees(t, y)
    <3>1. todo[q] # <<>> /\ todo[q][1].ip = y
      BY <2>5 DEF Frees, Makes
    <3>2. todo[p][1].ip = s
      OBVIOUS
    <3>3. y = s => inode[s].ref >= 2
      BY <3>1, <3>2, <1>2, HeadRefs
    <3>4. y = s => inode[s].ref # 1
      <4>1. inode[s].ref \in Nat
        BY <1>2 DEF IInv, CacheOK, IsEntry
      <4> QED BY <3>3, <4>1
    <3> QED BY <3>4, <2>4
  <2>6. t # <<>> =>
          /\ Calm(Tail(t))
          /\ \/ Plain(t[1])
             \/ t[1].op = "iput2"
             \/ t[1].op = "create2" /\ t[1].arg[1] # "free"
    BY <2>2, <2>3, <1>2
  <2>7. \A q \in Proc \ {p}, y \in Slot :
          /\ Frees(todo[q], y) =>
               inode'[y].valid /\ ~Frees(t, y) /\ ~Makes(t, y)
          /\ Makes(todo[q], y) =>
               /\ dinode'[inode'[y].inum].type = todo[q][1].arg[1]
               /\ ~Frees(t, y)
    BY <2>4, <2>5, <1>1 DEF CurInv, FreesInv, MakesInv
  <2>8. \A y \in Slot :
          /\ Frees(t, y) => inode'[y].valid
          /\ Makes(t, y) => dinode'[inode'[y].inum].type = t[1].arg[1]
    BY <2>4, <1>1, <1>5
  <2>9. DiskOK(dinode') /\ Current(inode', dinode')
    BY <1>3 DEF Sound
  <2> QED BY <2>1, <2>6, <2>7, <2>8, <2>9, <1>1, Core
<1>6. \/ Do(p, <<Frame("drop", s, None, <<>>)>>)
      \/ inode[s].valid /\ Do(p, <<x>>)
  BY DEF IputLook
<1> QED BY <1>4, <1>5, <1>6

\* The disk's copy and the entry are freed together, and no other process is
\* at work on them.
LEMMA CurIputFree ==
  ASSUME IInv, IInv', CurInv, NEW p \in Proc, IputFree(p)
  PROVE  CurInv'
<1> DEFINE s == Head(todo[p]).ip
           T == Tail(todo[p])
           x == Frame("drop", s, None, <<>>)
           t == <<x>> \o T
           i == inode[s].inum
<1>1. At(p, "iput2") /\ UNCHANGED committed /\ Do(p, <<x>>)
  BY DEF IputFree
<1>2. todo[p] # <<>> /\ s \in Slot /\ IsSeq(T) /\ Calm(T) /\ CacheOK(inode)
  BY <1>1, AtPut, Kinds, CalmTail
<1>3. Plain(x)
  BY PlainIs
<1>4. CASE UNCHANGED <<dinode, inode>>
  BY <1>1, <1>2, <1>3, <1>4, Idles, Quiets
<1>5. CASE /\ Head(todo[p]).arg = 1 /\ inode' = Freed(s)
           /\ dinode' = [dinode EXCEPT ![i] = Free]
  <2>1. todo' = [todo EXCEPT ![p] = t]
    BY <1>1 DEF Do
  <2>2. t # <<>> /\ t[1] = x /\ Tail(t) = T
    BY <1>2, InFront
  <2> HIDE DEF x, t
  <2>3. \A y : ~Makes(t, y) /\ ~Frees(t, y)
    BY <2>2, <1>3 DEF Makes, Frees, Plain
  <2>4. Head(todo[p]) = todo[p][1]
    OBVIOUS
  <2>5. Frees(todo[p], s)
    <3>1. Head(todo[p]).op = "iput2"
      BY <1>1 DEF At
    <3> QED BY <3>1, <2>4, <1>2, <1>5 DEF Frees
  <2>6. \A q \in Proc \ {p} : ~Frees(todo[q], s) /\ ~Makes(todo[q], s)
    BY <2>5, <1>2 DEF CurInv, FreesInv
  <2>7. inode[s].ref > 0
    BY <2>4, <1>2, HeadRefs
  <2>8. /\ \A y \in Slot \ {s} : inode'[y] = inode[y]
        /\ inode'[s].valid = FALSE
    <3>1. IsEntry(inode[s]) /\ DOMAIN inode = Slot
      BY <1>2 DEF CacheOK
    <3> DEFINE e == [inode[s] EXCEPT !.type = "free", !.valid = FALSE]
    <3>2. inode' = [inode EXCEPT ![s] = e]
      BY <3>1, <1>5 DEF Freed
    <3>3. e.valid = FALSE
      BY <3>1 DEF IsEntry
    <3> HIDE DEF e
    <3> QED BY <3>1, <3>2, <3>3, <1>2
  <2>9. i \in Inum /\ DOMAIN dinode = Inum
    BY <1>2 DEF CacheOK, IsEntry, CurInv, DiskOK
  <2>10. DiskOK(dinode')
    <3>1. IsDinode(Free)
      BY DEF IsDinode, Free
    <3> QED BY <3>1, <2>9, <1>5 DEF CurInv, DiskOK
  <2>11. \A j \in Inum \ {i} : dinode'[j] = dinode[j]
    BY <2>9, <1>5
  <2>12. \A y \in Slot \ {s} : inode[y].ref > 0 => inode[y].inum \in Inum \ {i}
    BY <2>7, <1>2 DEF CacheOK, OneEntry, IsEntry
  <2>13. Current(inode', dinode')
    <3>1. ASSUME NEW y \in Slot, inode'[y].ref > 0, inode'[y].valid
          PROVE  /\ inode'[y].type = dinode'[inode'[y].inum].type
                 /\ inode'[y].nlink = dinode'[inode'[y].inum].nlink
                 /\ inode'[y].type # "free"
      <4>1. y # s /\ inode'[y] = inode[y]
        BY <3>1, <2>8
      <4>2. dinode'[inode[y].inum] = dinode[inode[y].inum]
        BY <4>1, <3>1, <2>11, <2>12
      <4> QED BY <4>1, <4>2, <3>1 DEF CurInv, Current
    <3> QED BY <3>1 DEF Current
  <2>14. ASSUME NEW q \in Proc \ {p}, NEW y \in Slot,
                Frees(todo[q], y) \/ Makes(todo[q], y)
         PROVE  /\ inode'[y] = inode[y]
                /\ dinode'[inode[y].inum] = dinode[inode[y].inum]
    <3>1. todo[q] # <<>> /\ todo[q][1].ip = y /\ y # s
      BY <2>6, <2>14 DEF Frees, Makes
    <3>2. inode[y].ref > 0
      BY <3>1, HeadRefs
    <3> QED BY <3>1, <3>2, <2>8, <2>11, <2>12
  <2>15. t # <<>> =>
          /\ Calm(Tail(t))
          /\ \/ Plain(t[1])
             \/ t[1].op = "iput2"
             \/ t[1].op = "create2" /\ t[1].arg[1] # "free"
    BY <2>2, <1>2, <1>3
  <2>16. \A q \in Proc \ {p}, y \in Slot :
          /\ Frees(todo[q], y) =>
               inode'[y].valid /\ ~Frees(t, y) /\ ~Makes(t, y)
          /\ Makes(todo[q], y) =>
               /\ dinode'[inode'[y].inum].type = todo[q][1].arg[1]
               /\ ~Frees(t, y)
    BY <2>3, <2>14 DEF CurInv, FreesInv, MakesInv
  <2>17. \A y \in Slot :
          /\ Frees(t, y) => inode'[y].valid
          /\ Makes(t, y) => dinode'[inode'[y].inum].type = t[1].arg[1]
    BY <2>3
  <2> QED BY <2>1, <2>10, <2>13, <2>15, <2>16, <2>17, <1>1, Core
<1>6. \/ UNCHANGED <<dinode, inode>>
      \/ /\ Head(todo[p]).arg = 1 /\ inode' = Freed(s)
         /\ dinode' = [dinode EXCEPT ![i] = Free]
  BY DEF IputFree, LastRef
<1> QED BY <1>4, <1>5, <1>6

\* The entry that iget() returns is of the inode it was asked for.
LEMMA GotInum ==
  ASSUME CacheOK(inode), NEW tab, SameRefs(tab), NEW i \in Inum, ~NoEntry(i)
  PROVE  Referenced(tab, i)[Iget(i)].inum = i
<1> DEFINE g == Iget(i)
<1>1. /\ g \in Slot /\ (Cached(i) # {} => g \in Cached(i))
  BY IgetIs
<1>2. DOMAIN tab = Slot /\ IsEntry(tab[g]) /\ tab[g].inum = inode[g].inum
  BY <1>1 DEF SameRefs, CacheOK
<1>3. CASE Cached(i) # {}
  <2> DEFINE e == [tab[g] EXCEPT !.ref = @ + 1]
  <2>1. Referenced(tab, i) = [tab EXCEPT ![g] = e]
    BY <1>3 DEF Referenced
  <2>2. e.inum = i
    BY <1>1, <1>2, <1>3 DEF IsEntry, Cached
  <2> HIDE DEF e, g
  <2> QED BY <2>1, <2>2, <1>1, <1>2 DEF g
<1>4. CASE Cached(i) = {}
  <2> DEFINE e == [NotCached EXCEPT !.inum = i, !.ref = 1]
  <2>1. Referenced(tab, i) = [tab EXCEPT ![g] = e]
    BY <1>4 DEF Referenced
  <2>2. e.inum = i
    BY DEF NotCached
  <2> HIDE DEF e, g
  <2> QED BY <2>1, <2>2, <1>1, <1>2 DEF g
<1> QED BY <1>3, <1>4

\* ialloc() takes an inode that no valid entry is of.
LEMMA CurCreateAlloc ==
  ASSUME IInv, IInv', CurInv, NEW p \in Proc, CreateAlloc(p)
  PROVE  CurInv'
<1> DEFINE s == ret[p]
           i == Ialloc
           g == Iget(i)
           type == Head(todo[p]).arg[1]
           T == Tail(todo[p])
           x == Frame("create2", g, s, Head(todo[p]).arg)
           t == <<x>> \o T
           new == [Free EXCEPT !.type = type]
<1>1. /\ Locked(p, "create") /\ UNCHANGED committed /\ Do(p, <<x>>)
      /\ inode' = Referenced(Ilocked(s), i)
      /\ dinode' = [dinode EXCEPT ![i] = new]
      /\ Dirlookup(s, Head(todo[p]).arg[2]) = {}
  BY DEF CreateAlloc
<1>2. /\ At(p, "create") /\ Wants(p) = s /\ s # None /\ Head(todo[p]).op = "create"
      /\ s \in Slot /\ CacheOK(inode) /\ todo[p] # <<>>
      /\ SameRefs(Ilocked(s)) /\ Sound(Ilocked(s), dinode)
  BY <1>1, TakesRet
<1>3. IsSeq(T) /\ Calm(T)
  BY <1>2, CalmTail
<1>4. Head(todo[p]) = todo[p][1]
  OBVIOUS
<1>5. type # "free"
  BY <1>2, <1>4 DEF CurInv, BehindInv, Plain
<1>6. i \in Inum /\ dinode[i].type = "free"
  <2>1. FreeInodes # {}
    BY <1>1, <1>2 DEF At, PanicOf
  <2>2. FreeInodes \in SUBSET Nat /\ FreeInodes \subseteq Inum
    BY DEF FreeInodes, Inum
  <2>3. \E y \in FreeInodes : \A z \in FreeInodes : y <= z
    BY <2>1, <2>2, LeastOf
  <2>4. i \in FreeInodes
    BY <2>3 DEF Ialloc
  <2> HIDE DEF i
  <2> QED BY <2>4 DEF FreeInodes
<1> HIDE DEF i
<1>7. ~NoEntry(i)
  <2>1. i \in Igets(p, Wants(p))
    BY <1>1, <1>2, <1>6 DEF Igets, i
  <2> QED BY <2>1, <1>2, Gets
<1>8. Sound(inode', dinode) /\ inode'[g].inum = i /\ g \in Slot
  BY <1>1, <1>2, <1>6, <1>7, SoundGot, GotInum, IgetIs
<1> HIDE DEF g
<1>9. /\ DOMAIN dinode = Inum /\ dinode'[i] = new
      /\ \A j \in Inum \ {i} : dinode'[j] = dinode[j]
  BY <1>1, <1>6 DEF CurInv, DiskOK
<1>10. IsDinode(new) /\ new.type = type
  BY DEF IsDinode, Free
<1> HIDE DEF new
<1>11. DiskOK(dinode')
  BY <1>1, <1>6, <1>9, <1>10 DEF CurInv, DiskOK
<1>12. \A y \in Slot : inode'[y].ref \in Nat /\ inode'[y].inum \in Inum
  BY DEF IInv, CacheOK, IsEntry
<1>13. \A y \in Slot : inode'[y].ref > 0 /\ inode'[y].valid => inode'[y].inum # i
  BY <1>6, <1>8 DEF Sound, Current
<1>14. Current(inode', dinode')
  <2>1. \A y \in Slot : inode'[y].ref > 0 /\ inode'[y].valid =>
                          dinode'[inode'[y].inum] = dinode[inode'[y].inum]
    BY <1>9, <1>12, <1>13
  <2> QED BY <2>1, <1>8 DEF Sound, Current
<1>15. todo' = [todo EXCEPT ![p] = t]
  BY <1>1 DEF Do
<1>16. t # <<>> /\ t[1] = x /\ Tail(t) = T
  BY <1>3, InFront
<1>17. x.op = "create2" /\ x.ip = g /\ x.arg[1] = type
  BY DEF Frame
<1> HIDE DEF x, t, type
<1>18. \A y : ~Frees(t, y) /\ (Makes(t, y) => y = g)
  BY <1>16, <1>17 DEF Makes, Frees
<1>19. \A q \in Proc \ {p} : todo'[q] = todo[q]
  BY <1>15 DEF IInv, TypeInv
<1>20. ASSUME NEW q \in Proc \ {p}, NEW y \in Slot, todo[q] # <<>>,
              todo[q][1].ip = y
       PROVE  /\ inode[y].ref > 0 /\ inode'[y].ref > 0
              /\ inode'[y].inum = inode[y].inum
              /\ inode[y].valid => inode'[y].valid
  <2>1. inode[y].ref > 0 /\ inode'[y].ref > 0
    BY <1>19, <1>20, HeadRefs, HeadRefsNext
  <2> QED BY <2>1, <1>8 DEF Sound, Gentle
<1>21. ASSUME NEW q \in Proc \ {p}, NEW y \in Slot, Frees(todo[q], y)
       PROVE  inode'[y].valid /\ ~Makes(t, y)
  <2>1. todo[q] # <<>> /\ todo[q][1].ip = y /\ inode[y].valid
    BY <1>21 DEF Frees, CurInv, FreesInv
  <2>2. inode'[y].valid /\ inode'[y].ref > 0
    BY <2>1, <1>20
  <2> QED BY <2>2, <1>8, <1>13, <1>18
<1>22. ASSUME NEW q \in Proc \ {p}, NEW y \in Slot, Makes(todo[q], y)
       PROVE  dinode'[inode'[y].inum].type = todo[q][1].arg[1]
  <2>1. todo[q] # <<>> /\ todo[q][1].ip = y /\ todo[q][1].op = "create2"
    BY <1>22 DEF Makes
  <2>2. todo[q][1].arg[1] # "free"
    BY <2>1 DEF CurInv, BehindInv, Plain
  <2>3. dinode[inode[y].inum].type = todo[q][1].arg[1]
    BY <1>22 DEF CurInv, MakesInv
  <2>4. inode'[y].inum = inode[y].inum /\ inode'[y].inum # i
    BY <2>1, <2>2, <2>3, <1>6, <1>20
  <2> QED BY <2>3, <2>4, <1>9, <1>12
<1>23. t # <<>> =>
         /\ Calm(Tail(t))
         /\ \/ Plain(t[1])
            \/ t[1].op = "iput2"
            \/ t[1].op = "create2" /\ t[1].arg[1] # "free"
  BY <1>3, <1>5, <1>16, <1>17
<1>24. \A q \in Proc \ {p}, y \in Slot :
         /\ Frees(todo[q], y) =>
              inode'[y].valid /\ ~Frees(t, y) /\ ~Makes(t, y)
         /\ Makes(todo[q], y) =>
              /\ dinode'[inode'[y].inum].type = todo[q][1].arg[1]
              /\ ~Frees(t, y)
  BY <1>18, <1>21, <1>22
<1>25. \A y \in Slot :
         /\ Frees(t, y) => inode'[y].valid
         /\ Makes(t, y) => dinode'[inode'[y].inum].type = t[1].arg[1]
  BY <1>8, <1>9, <1>10, <1>16, <1>17, <1>18
<1> QED BY <1>1, <1>11, <1>14, <1>15, <1>23, <1>24, <1>25, Core

-----------------------------------------------------------------------------
(* Calls begin and end                                                     *)

LEMMA CurStarts ==
  ASSUME IInv, IInv', CurInv, NEW p \in Proc, NEW t, Calm(t),
         todo' = [todo EXCEPT ![p] = t], UNCHANGED <<dinode, committed, inode>>
  PROVE  CurInv'
<1>1. todo'[p] = t /\ IsSeq(todo'[p])
  BY DEF IInv, TypeInv, FrameInv, Good
<1>2. Sound(inode', dinode')
  BY Idles
<1> QED BY <1>1, <1>2, Quiet

LEMMA CalmLists ==
  /\ Calm(<<>>)
  /\ \A a, b : Plain(a) /\ Plain(b) => Calm(<<a, b>>)
  /\ \A a, b, c : Plain(a) /\ Plain(b) /\ Plain(c) => Calm(<<a, b, c>>)
  /\ \A a, b, c, d : Plain(a) /\ Plain(b) /\ Plain(c) /\ Plain(d) =>
                       Calm(<<a, b, c, d>>)
<1>1. Calm(<<>>)
  BY DEF Calm
<1>2. ASSUME NEW a, NEW b, Plain(a), Plain(b) PROVE Calm(<<a, b>>)
  BY <1>2 DEF Calm
<1>3. ASSUME NEW a, NEW b, NEW c, Plain(a), Plain(b), Plain(c)
      PROVE  Calm(<<a, b, c>>)
  BY <1>3 DEF Calm
<1>4. ASSUME NEW a, NEW b, NEW c, NEW d, Plain(a), Plain(b), Plain(c), Plain(d)
      PROVE  Calm(<<a, b, c, d>>)
  BY <1>4 DEF Calm
<1> QED BY <1>1, <1>2, <1>3, <1>4

LEMMA CurClose ==
  ASSUME IInv, IInv', CurInv, NEW p \in Proc, Close(p)
  PROVE  CurInv'
<1>1. /\ todo' = [todo EXCEPT ![p] = <<Iput(fd[p]), End>>]
      /\ UNCHANGED <<dinode, committed, inode>>
  BY DEF Close
<1>2. Calm(<<Iput(fd[p]), End>>)
  BY PlainIs, CalmLists
<1> QED BY <1>1, <1>2, CurStarts

LEMMA CurExit ==
  ASSUME IInv, IInv', CurInv, NEW p \in Proc, Exit(p)
  PROVE  CurInv'
<1>1. /\ todo' = [todo EXCEPT ![p] = <<Iput(cwd[p]), End>>]
      /\ UNCHANGED <<dinode, committed, inode>>
  BY DEF Exit
<1>2. Calm(<<Iput(cwd[p]), End>>)
  BY PlainIs, CalmLists
<1> QED BY <1>1, <1>2, CurStarts

LEMMA CurFork ==
  ASSUME IInv, IInv', CurInv, NEW p \in Proc, NEW q \in Proc, Fork(p, q)
  PROVE  CurInv'
<1>1. /\ todo[p] = <<>> /\ cwd[p] # None /\ UNCHANGED <<todo, dinode, committed>>
      /\ inode' = [inode EXCEPT ![cwd[p]].ref = @ + 1]
  BY DEF Fork
<1>2. /\ todo' = [todo EXCEPT ![p] = <<>>] /\ CacheOK(inode) /\ cwd[p] \in Slot
  BY <1>1, Stays DEF SlotOrNone
<1>3. inode[cwd[p]].ref > 0
  BY <1>2, RefsLocal
<1>4. Sound(inode', dinode')
  BY <1>1, <1>2, <1>3, SoundDup
<1>5. IsSeq(<<>>) /\ Calm(<<>>)
  BY Empty, CalmLists
<1> QED BY <1>1, <1>2, <1>4, <1>5, Quiet

LEMMA CurCall ==
  ASSUME IInv, IInv', CurInv, NEW p \in Proc, NEW c \in Calls, Call(p, c)
  PROVE  CurInv'
<1>1. UNCHANGED <<dinode, committed, inode>>
  BY DEF Call
<1>2. ASSUME NEW w, NEW a, NEW b, Plain(w), Plain(a), Plain(b),
             todo' = [todo EXCEPT ![p] = <<w, a, b, End>>]
      PROVE  CurInv'
  <2>1. Calm(<<w, a, b, End>>)
    BY <1>2, PlainIs, CalmLists
  <2> QED BY <2>1, <1>1, <1>2, CurStarts
<1>3. ASSUME NEW w, NEW a, Plain(w), Plain(a),
             todo' = [todo EXCEPT ![p] = <<w, a, End>>]
      PROVE  CurInv'
  <2>1. Calm(<<w, a, End>>)
    BY <1>3, PlainIs, CalmLists
  <2> QED BY <2>1, <1>1, <1>3, CurStarts
<1>4. CASE c.call = "open"
  <2>1. todo' = [todo EXCEPT ![p] =
          <<Walk(c.path, FALSE), Frame("open", None, None, c.mode),
            Frame("opened", None, None, <<>>), End>>]
    BY <1>4 DEF Call
  <2> QED BY <2>1, <1>2, PlainIs
<1>5. CASE c.call \in {"creat", "mkdir", "mknod"}
  <2> DEFINE type == IF c.call = "creat" THEN "file"
                     ELSE IF c.call = "mkdir" THEN "dir" ELSE "dev"
             end == IF c.call = "creat" THEN "opened" ELSE "made"
             arg == <<type, Last(c.path)>>
  <2>1. todo' = [todo EXCEPT ![p] =
          <<Walk(c.path, TRUE), Frame("create", None, None, arg),
            Frame(end, None, None, <<>>), End>>]
    BY <1>5 DEF Call
  <2>2. arg[1] # "free" /\ end \in {"opened", "made"}
    OBVIOUS
  <2> HIDE DEF type, end, arg
  <2>3. Plain(Frame("create", None, None, arg)) /\ Plain(Frame(end, None, None, <<>>))
    BY <2>2, PlainIs
  <2> QED BY <2>1, <2>3, <1>2, PlainIs
<1>6. CASE c.call = "link"
  <2>1. todo' = [todo EXCEPT ![p] =
          <<Walk(c.path, FALSE), Frame("link1", None, None, c.new), End>>]
    BY <1>6 DEF Call
  <2> QED BY <2>1, <1>3, PlainIs
<1>7. CASE c.call = "unlink"
  <2>1. todo' = [todo EXCEPT ![p] =
          <<Walk(c.path, TRUE), Frame("unlink1", None, None, Last(c.path)), End>>]
    BY <1>7 DEF Call
  <2> QED BY <2>1, <1>3, PlainIs
<1>8. CASE c.call = "chdir"
  <2>1. todo' = [todo EXCEPT ![p] =
          <<Walk(c.path, FALSE), Frame("chdir", None, None, <<>>), End>>]
    BY <1>8 DEF Call
  <2> QED BY <2>1, <1>3, PlainIs
<1> QED BY <1>4, <1>5, <1>6, <1>7, <1>8, FsAssumption

LEMMA CurStill ==
  ASSUME CurInv, UNCHANGED <<inode, dinode, committed, todo>>
  PROVE  CurInv'
  BY DEF CurInv, BehindInv, FreesInv, MakesInv

\* A machine that starts has no valid entry and no call under way.
LEMMA Restarts ==
  ASSUME NEW n, n = Boot.inode, NEW td, td = Boot.todo
  PROVE  /\ \A s \in Slot : n[s].valid = FALSE
         /\ \A p \in Proc : td[p] = <<>>
<1>1. n = [s \in Slot |-> IF s = 1 THEN [NotCached EXCEPT !.ref = 1] ELSE NotCached]
  BY DEF Boot
<1>2. NotCached.valid = FALSE /\ [NotCached EXCEPT !.ref = 1].valid = FALSE
  BY DEF NotCached
<1> QED BY <1>1, <1>2 DEF Boot

LEMMA CurInit == Init => CurInv
<1> SUFFICES ASSUME Init PROVE CurInv
  OBVIOUS
<1>1. dinode = Mkfs /\ committed = Mkfs /\ inode = Boot.inode /\ todo = Boot.todo
  BY DEF Init
<1>2. DiskOK(Mkfs)
  <2> DEFINE D(i) == CASE i = ROOTINO -> [type |-> "dir", nlink |-> 1,
                            ents |-> {<<".", i>>, <<"..", i>>, <<Program, 2>>}]
                       [] i = 2 -> [type |-> "file", nlink |-> 1, ents |-> {}]
                       [] OTHER -> Free
  <2>1. Mkfs = [i \in Inum |-> D(i)]
    BY DEF Mkfs
  <2>2. ASSUME NEW i \in Inum PROVE IsDinode(D(i))
    <3>1. CASE i = ROOTINO
      BY <3>1 DEF IsDinode
    <3>2. CASE i # ROOTINO /\ i = 2
      BY <3>2 DEF IsDinode
    <3>3. CASE i # ROOTINO /\ i # 2
      BY <3>3 DEF IsDinode, Free
    <3> QED BY <3>1, <3>2, <3>3
  <2> HIDE DEF D
  <2> QED BY <2>1, <2>2 DEF DiskOK
<1>3. /\ \A s \in Slot : inode[s].valid = FALSE
      /\ \A p \in Proc : todo[p] = <<>>
  BY <1>1, Restarts
<1> QED BY <1>1, <1>2, <1>3 DEF CurInv, Current, BehindInv, FreesInv, MakesInv,
                                Frees, Makes

LEMMA CurCrash ==
  ASSUME CurInv, Crash
  PROVE  CurInv'
<1>1. /\ dinode' = committed /\ committed' = committed
      /\ inode' = Boot.inode /\ todo' = Boot.todo
  BY DEF Crash
<1>2. /\ \A s \in Slot : inode'[s].valid = FALSE
      /\ \A p \in Proc : todo'[p] = <<>>
  BY <1>1, Restarts
<1>3. DiskOK(dinode)' /\ DiskOK(committed)'
  BY <1>1 DEF CurInv
<1> QED BY <1>2, <1>3 DEF CurInv, Current, BehindInv, FreesInv, MakesInv,
                          Frees, Makes

LEMMA CurNext ==
  ASSUME IInv, IInv', CurInv, [Next]_vars
  PROVE  CurInv'
<1>1. ASSUME NEW p \in Proc, Inside(p) PROVE CurInv'
  <2>1. ASSUME Panics(p) PROVE CurInv'
    BY <2>1, CurStill DEF Panics, memory
  <2> QED BY <1>1, <2>1, CurNamexStart, CurNamexDone, CurNamexStep,
             CurIputLook, CurIputFree, CurIputDrop, CurIunlockput,
             CurOpen, CurOpened, CurCreateFound, CurExists,
             CurCreateAlloc, CurCreateLink, CurMade, CurLinkCount,
             CurDirlink, CurLinkUndo, CurUnlinkFind, CurUnlinkErase,
             CurUnlinkCount, CurChdir, CurEndOp, CurFailed
             DEF Inside
<1>2. ASSUME UNCHANGED vars PROVE CurInv'
  BY <1>2, CurStill DEF vars, memory
<1> QED BY <1>1, <1>2, CurCall, CurClose, CurExit, CurFork, CurCrash DEF Next, Work

-----------------------------------------------------------------------------
(* The theorems                                                            *)

\* The frames of every process are those of a call that the code can be in, and
\* the reference counts are the pointers that processes have.
THEOREM Invariance == Spec => []IInv
<1>1. Init => IInv
  BY InitInv
<1>2. IInv /\ [Next]_vars => IInv'
  BY NextInv
<1> QED BY <1>1, <1>2, PTL DEF Spec

\* ip->ref of every cache entry is the number of pointers to it, in variables
\* and in calls under way: no path of iget(), idup(), namex(), create(),
\* sys_link(), sys_unlink(), sys_open(), sys_chdir(), fork() or exit() forgets
\* an iput() or has one too many.
THEOREM RefsCountedHolds == Spec => []RefsCounted
<1>1. IInv => RefsCounted
  BY DEF IInv
<1> QED BY <1>1, Invariance, PTL

\* iget() never gives an inode two entries: all processes that use it have the
\* same lock and the same copy.
THEOREM OneEntryEach == Spec => []OneEntry(inode)
<1>1. IInv => OneEntry(inode)
  BY DEF IInv, CacheOK
<1> QED BY <1>1, Invariance, PTL

\* The cache is write-through: an entry in use that is valid has the type and
\* the link count of the inode on the disk, and is the inode's only entry. It
\* holds also where iput() frees an inode on a count it read before others
\* came, and where the inode is allocated anew under an entry still in use.
THEOREM CacheIsCurrentHolds == Spec => []CacheIsCurrent
<1>1. Init => IInv /\ CurInv
  BY InitInv, CurInit
<1>2. IInv /\ CurInv /\ [Next]_vars => (IInv /\ CurInv)'
  BY NextInv, CurNext
<1>3. IInv /\ CurInv => CacheIsCurrent
  <2> SUFFICES ASSUME IInv, CurInv, NEW s \in Slot, inode[s].ref > 0
               PROVE  /\ inode[s].valid =>
                           /\ inode[s].type = dinode[inode[s].inum].type
                           /\ inode[s].nlink = dinode[inode[s].inum].nlink
                      /\ Cached(inode[s].inum) = {s}
    BY DEF CacheIsCurrent
  <2>1. Cached(inode[s].inum) = {s}
    BY DEF Cached, IInv, CacheOK, OneEntry
  <2> QED BY <2>1 DEF CurInv, Current
<1> QED BY <1>1, <1>2, <1>3, PTL DEF Spec
=============================================================================
