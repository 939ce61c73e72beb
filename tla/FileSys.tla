------------------------------ MODULE FileSys -------------------------------
(***************************************************************************)
(* Inodes, their cache, directories and path names (fs.c) under the system *)
(* calls that use them (sysfile.c), with a crash between any two steps.    *)
(*                                                                         *)
(* A process inside a call has a list of frames to do, first one first: a  *)
(* function that calls another puts the callee's frame and its own rest in *)
(* front.  A step is what a process does between two points where it can   *)
(* be held up by another one: it locks one inode at most, and ref counts   *)
(* change under icache.lock.  The contents of files are left to FileData,  *)
(* the log is the atomic disk that TxDisk promises.                        *)
(***************************************************************************)
EXTENDS Integers, Sequences, FiniteSets, SequencesExt

CONSTANTS
  Proc,
  InitProc,   \* the process that never exits
  None,       \* no slot, no process
  NINODES,    \* mkfs.c: inodes on the disk
  NINODE,     \* param.h: entries of the inode cache
  Calls,      \* the calls that processes make, with their arguments
  MaxCalls,   \* the bound on how many are made
  Program     \* the name of the file that mkfs puts on the disk

ASSUME FsAssumption ==
  /\ InitProc \in Proc /\ IsFiniteSet(Proc)
  /\ NINODES \in Nat \ {0, 1}
  /\ NINODE \in Nat \ {0}
  /\ MaxCalls \in Nat
  /\ None \notin Proc \cup (1 .. NINODE)
  /\ \A c \in Calls : c.call \in {"open", "creat", "mkdir", "mknod", "link",
                                 "unlink", "chdir"}

Inum == 1 .. NINODES
Slot == 1 .. NINODE
ROOTINO == 1

VARIABLES
  dinode,     \* the inodes on the disk, as the running transaction has them
  committed,  \* as the last commit left them
  inode,      \* icache.inode
  lock,       \* the holder of each cached inode's sleep-lock, or None
  cwd, fd,    \* the slots a process keeps: its directory and one open file
  todo, ret,  \* the frames of its call; the slot returned by the last one
  calls,      \* how many calls were made
  panic       \* the message of panic(), or ""

memory == <<inode, lock, cwd, fd, todo, ret>>
vars == <<dinode, committed, memory, calls, panic>>

Free == [type |-> "free", nlink |-> 0, ents |-> {}]
NotCached == [inum |-> ROOTINO, ref |-> 0, valid |-> FALSE,
              type |-> "free", nlink |-> 0]

\* The disk that mkfs makes: the root directory, and a program in it.
Mkfs ==
  [i \in Inum |->
    CASE i = ROOTINO -> [type |-> "dir", nlink |-> 1,
                         ents |-> {<<".", i>>, <<"..", i>>, <<Program, 2>>}]
      [] i = 2 -> [type |-> "file", nlink |-> 1, ents |-> {}]
      [] OTHER -> Free]

\* userinit(): one process, in the root directory.
Boot ==
  [inode |-> [s \in Slot |-> IF s = 1 THEN [NotCached EXCEPT !.ref = 1]
                                      ELSE NotCached],
   lock  |-> [s \in Slot |-> None],
   cwd   |-> [p \in Proc |-> IF p = InitProc THEN 1 ELSE None],
   none  |-> [p \in Proc |-> None],
   todo  |-> [p \in Proc |-> <<>>]]

Init ==
  /\ dinode = Mkfs /\ committed = Mkfs
  /\ inode = Boot.inode /\ lock = Boot.lock
  /\ cwd = Boot.cwd /\ fd = Boot.none /\ ret = Boot.none
  /\ todo = Boot.todo
  /\ calls = 0 /\ panic = ""

-----------------------------------------------------------------------------
(* Frames                                                                  *)

Frame(op, ip, dp, arg) == [op |-> op, ip |-> ip, dp |-> dp, arg |-> arg]

Walk(path, parent) == Frame("walk", None, None, <<path, parent>>)
Iput(s) == Frame("iput", s, None, <<>>)
Unlockput(s) == Frame("unlockput", s, None, <<>>)
LinkBad(s) == Frame("linkbad", s, None, <<>>)
End == Frame("end", None, None, <<>>)

\* The inode whose lock the next step of p takes, or None.
Wants(p) ==
  IF todo[p] = <<>> THEN None
  ELSE LET f == Head(todo[p]) IN
    CASE f.op \in {"open", "create", "link1", "link2", "unlink1", "chdir"}
           -> ret[p]
      [] f.op = "namex" -> IF f.arg[1] = <<>> THEN None ELSE f.ip
      [] f.op \in {"iput", "exists", "create2", "linkbad", "unlink2"} -> f.ip
      [] OTHER -> None

Do(p, frames) == todo' = [todo EXCEPT ![p] = frames \o Tail(@)]
Returns(p, s) == ret' = [ret EXCEPT ![p] = s]

-----------------------------------------------------------------------------
(* The inode cache                                                         *)

Cached(i) == {s \in Slot : inode[s].ref > 0 /\ inode[s].inum = i}

\* iget(): the entry of inode i, or the first one that is free.
Iget(i) ==
  IF Cached(i) # {} THEN CHOOSE s \in Cached(i) : TRUE
  ELSE CHOOSE s \in Slot : /\ inode[s].ref = 0
                           /\ \A t \in 1 .. s - 1 : inode[t].ref > 0

\* The table tab after iget(i).
Referenced(tab, i) ==
  IF Cached(i) # {} THEN [tab EXCEPT ![Iget(i)].ref = @ + 1]
  ELSE [tab EXCEPT ![Iget(i)] = [NotCached EXCEPT !.inum = i, !.ref = 1]]

\* ilock(): the entry, read from the disk if it is not valid.
Loaded(s) ==
  LET d == dinode[inode[s].inum] IN
  IF inode[s].valid THEN inode[s]
  ELSE [inode[s] EXCEPT !.valid = TRUE, !.type = d.type, !.nlink = d.nlink]

Ilocked(s) == [inode EXCEPT ![s] = Loaded(s)]

-----------------------------------------------------------------------------
(* Directories                                                             *)

\* dirlookup(): the inodes that a directory has under a name.
Dirlookup(s, name) ==
  {i \in Inum : <<name, i>> \in dinode[inode[s].inum].ents}

Isdirempty(s) ==
  \A e \in dinode[inode[s].inum].ents : e[1] \in {".", ".."}

\* ialloc(): the first free inode.
FreeInodes == {i \in Inum : dinode[i].type = "free"}
Ialloc == CHOOSE i \in FreeInodes : \A j \in FreeInodes : i <= j

-----------------------------------------------------------------------------
(* Steps                                                                   *)

\* p is inside a call, and acquiresleep() does not hold it up.
Ready(p) ==
  /\ panic = "" /\ todo[p] # <<>>
  /\ Wants(p) # None => lock[Wants(p)] = None

\* A path that begins at the root.
Absolute(path) == path # <<>> /\ Head(path) = "/"

\* The inodes that the next step of p, with w locked, may give to iget().
Igets(p, w) ==
  LET f == Head(todo[p]) IN
  {i \in Inum :
     \/ f.op = "walk" /\ Absolute(f.arg[1]) /\ i = ROOTINO
     \/ /\ f.op = "namex" /\ w # None /\ Loaded(w).type = "dir"
        /\ ~(f.arg[2] /\ Tail(f.arg[1]) = <<>>)
        /\ i \in Dirlookup(w, Head(f.arg[1]))
     \/ f.op = "create" /\ w # None /\ i \in Dirlookup(w, f.arg[2])
     \/ /\ f.op = "create" /\ w # None /\ Dirlookup(w, f.arg[2]) = {}
        /\ i = Ialloc
     \/ f.op = "link2" /\ w # None /\ i \in Dirlookup(w, f.arg)
     \/ /\ f.op = "unlink1" /\ w # None /\ f.arg \notin {".", ".."}
        /\ i \in Dirlookup(w, f.arg)}

\* iget() finds neither the inode nor a free entry.
NoEntry(i) == Cached(i) = {} /\ \A s \in Slot : inode[s].ref > 0

\* The panic() that the next step of p comes to, or "".
PanicOf(p) ==
  LET f == Head(todo[p])
      w == Wants(p) IN
  IF w # None /\ f.op # "iput" /\ Loaded(w).type = "free" THEN "ilock: no type"
  ELSE IF /\ f.op = "create" /\ w # None
          /\ FreeInodes = {} /\ Dirlookup(w, f.arg[2]) = {}
  THEN "ialloc: no inodes"
  ELSE IF \E i \in Igets(p, w) : NoEntry(i) THEN "iget: no inodes"
  ELSE IF f.op = "create2" /\ Dirlookup(f.dp, f.arg[2]) # {}
  THEN "create: dirlink"
  ELSE IF f.op = "unlink2" /\ Loaded(w).nlink < 1 THEN "unlink: nlink < 1"
  ELSE ""

Panics(p) ==
  /\ Ready(p) /\ PanicOf(p) # ""
  /\ panic' = PanicOf(p)
  /\ UNCHANGED <<dinode, committed, memory, calls>>

\* p is at a frame of that function and goes through it.
At(p, op) ==
  todo[p] # <<>> /\ Head(todo[p]).op = op /\ Ready(p) /\ PanicOf(p) = ""

\* The same, where ilock() has returned.
Locked(p, op) == At(p, op) /\ Wants(p) # None

-----------------------------------------------------------------------------
(* iput()                                                                  *)

\* ip->nlink changes by k, in the cache tab, and iupdate() writes it through.
Nlink(tab, s, k) == [tab EXCEPT ![s].nlink = @ + k]
DiskNlink(dsk, tab, s, k) == [dsk EXCEPT ![tab[s].inum].nlink = tab[s].nlink + k]

\* iput() looks at the inode under its lock: one without links may have to go.
IputLook(p) ==
  /\ At(p, "iput")
  /\ LET s == Head(todo[p]).ip IN
     IF inode[s].valid /\ inode[s].nlink = 0
     THEN /\ lock' = [lock EXCEPT ![s] = p]
          /\ Do(p, <<Frame("iput2", s, None, inode[s].ref)>>)
     ELSE /\ lock' = lock
          /\ Do(p, <<Frame("drop", s, None, <<>>)>>)
  /\ UNCHANGED <<dinode, committed, inode, cwd, fd, ret, calls, panic>>

\* Mutant of LastRef: the count is not looked at.
LastRefNot(f) == TRUE

LastRef(f) == f.arg = 1

\* Mutant of Freed: ip->valid is left set.
FreedValid(s) == [inode EXCEPT ![s].type = "free"]

Freed(s) == [inode EXCEPT ![s].type = "free", ![s].valid = FALSE]

\* r == 1: itrunc(), type 0, iupdate().
IputFree(p) ==
  /\ At(p, "iput2")
  /\ LET f == Head(todo[p]) IN
     /\ IF LastRef(f)
        THEN /\ dinode' = [dinode EXCEPT ![inode[f.ip].inum] = Free]
             /\ inode' = Freed(f.ip)
        ELSE UNCHANGED <<dinode, inode>>
     /\ lock' = [lock EXCEPT ![f.ip] = None]
     /\ Do(p, <<Frame("drop", f.ip, None, <<>>)>>)
  /\ UNCHANGED <<committed, cwd, fd, ret, calls, panic>>

\* An entry without references is not read before iget() writes it anew.
Dropped(e) == IF e.ref = 1 THEN NotCached ELSE [e EXCEPT !.ref = @ - 1]

IputDrop(p) ==
  /\ At(p, "drop")
  /\ inode' = [inode EXCEPT ![Head(todo[p]).ip] = Dropped(@)]
  /\ Do(p, <<>>)
  /\ UNCHANGED <<dinode, committed, lock, cwd, fd, ret, calls, panic>>

\* iunlockput()
Iunlockput(p) ==
  /\ At(p, "unlockput")
  /\ lock' = [lock EXCEPT ![Head(todo[p]).ip] = None]
  /\ Do(p, <<Iput(Head(todo[p]).ip)>>)
  /\ UNCHANGED <<dinode, committed, inode, cwd, fd, ret, calls, panic>>

-----------------------------------------------------------------------------
(* Paths                                                                   *)

\* namex() begins at the root or at the current directory.
NamexStart(p) ==
  /\ At(p, "walk")
  /\ LET path == Head(todo[p]).arg[1]
         parent == Head(todo[p]).arg[2] IN
     IF Absolute(path)
     THEN /\ inode' = Referenced(inode, ROOTINO)
          /\ Do(p, <<Frame("namex", Iget(ROOTINO), None,
                           <<Tail(path), parent>>)>>)
     ELSE /\ inode' = [inode EXCEPT ![cwd[p]].ref = @ + 1]
          /\ Do(p, <<Frame("namex", cwd[p], None, <<path, parent>>)>>)
  /\ UNCHANGED <<dinode, committed, lock, cwd, fd, ret, calls, panic>>

\* skipelem() finds no element.
NamexDone(p) ==
  /\ At(p, "namex")
  /\ LET f == Head(todo[p]) IN
     /\ f.arg[1] = <<>>
     /\ IF f.arg[2] THEN Returns(p, None) /\ Do(p, <<Iput(f.ip)>>)
                    ELSE Returns(p, f.ip) /\ Do(p, <<>>)
  /\ UNCHANGED <<dinode, committed, inode, lock, cwd, fd, calls, panic>>

\* skipelem(): the first element of a path, and the path behind it.
Skipelem(path) == [name |-> Head(path), rest |-> Tail(path)]

\* One element of the path, with the directory locked.
NamexStep(p) ==
  /\ Locked(p, "namex")
  /\ LET f == Head(todo[p])
         path == Skipelem(f.arg[1])
         found == Dirlookup(f.ip, path.name) IN
     IF Loaded(f.ip).type = "dir" /\ f.arg[2] /\ path.rest = <<>>
     THEN /\ inode' = Ilocked(f.ip)
          /\ Returns(p, f.ip) /\ Do(p, <<>>)
     ELSE IF Loaded(f.ip).type # "dir" \/ found = {}
     THEN /\ inode' = Ilocked(f.ip)
          /\ Returns(p, None) /\ Do(p, <<Iput(f.ip)>>)
     ELSE \E i \in found :
          /\ inode' = Referenced(Ilocked(f.ip), i)
          /\ Do(p, <<Iput(f.ip),
                     Frame("namex", Iget(i), None, <<path.rest, f.arg[2]>>)>>)
          /\ ret' = ret
  /\ UNCHANGED <<dinode, committed, lock, cwd, fd, calls, panic>>

-----------------------------------------------------------------------------
(* Calls begin and end                                                     *)

\* begin_op(), and what the call has to do.
Call(p, c) ==
  /\ panic = "" /\ todo[p] = <<>> /\ cwd[p] # None
  /\ calls < MaxCalls /\ calls' = calls + 1
  /\ todo' = [todo EXCEPT ![p] =
       CASE c.call = "open" ->
              <<Walk(c.path, FALSE), Frame("open", None, None, c.mode),
                Frame("opened", None, None, <<>>), End>>
         [] c.call = "creat" ->
              <<Walk(c.path, TRUE),
                Frame("create", None, None, <<"file", Last(c.path)>>),
                Frame("opened", None, None, <<>>), End>>
         [] c.call \in {"mkdir", "mknod"} ->
              <<Walk(c.path, TRUE),
                Frame("create", None, None,
                      <<IF c.call = "mkdir" THEN "dir" ELSE "dev",
                        Last(c.path)>>),
                Frame("made", None, None, <<>>), End>>
         [] c.call = "link" ->
              <<Walk(c.path, FALSE), Frame("link1", None, None, c.new), End>>
         [] c.call = "unlink" ->
              <<Walk(c.path, TRUE),
                Frame("unlink1", None, None, Last(c.path)), End>>
         [] c.call = "chdir" ->
              <<Walk(c.path, FALSE), Frame("chdir", None, None, <<>>), End>>]
  /\ UNCHANGED <<dinode, committed, inode, lock, cwd, fd, ret, panic>>

\* fileclose() of the last reference to the open file.
Close(p) ==
  /\ panic = "" /\ todo[p] = <<>> /\ fd[p] # None
  /\ todo' = [todo EXCEPT ![p] = <<Iput(fd[p]), End>>]
  /\ fd' = [fd EXCEPT ![p] = None]
  /\ UNCHANGED <<dinode, committed, inode, lock, cwd, ret, calls, panic>>

\* fork(): np->cwd = idup(curproc->cwd)
Fork(p, q) ==
  /\ panic = "" /\ todo[p] = <<>> /\ cwd[p] # None
  /\ todo[q] = <<>> /\ cwd[q] = None
  /\ inode' = [inode EXCEPT ![cwd[p]].ref = @ + 1]
  /\ cwd' = [cwd EXCEPT ![q] = cwd[p]]
  /\ UNCHANGED <<dinode, committed, lock, fd, todo, ret, calls, panic>>

\* exit(), once the files are closed.
Exit(p) ==
  /\ panic = "" /\ p # InitProc
  /\ todo[p] = <<>> /\ cwd[p] # None /\ fd[p] = None
  /\ todo' = [todo EXCEPT ![p] = <<Iput(cwd[p]), End>>]
  /\ cwd' = [cwd EXCEPT ![p] = None]
  /\ UNCHANGED <<dinode, committed, inode, lock, fd, ret, calls, panic>>

\* The last operation of the transaction commits all of them.
Commit(p) ==
  IF \A q \in Proc \ {p} : todo[q] = <<>> THEN dinode ELSE committed

EndOp(p) ==
  /\ At(p, "end")
  /\ committed' = Commit(p)
  /\ Do(p, <<>>) /\ Returns(p, None)
  /\ UNCHANGED <<dinode, inode, lock, cwd, fd, calls, panic>>

\* The machine stops; initlog() and userinit() bring it up again.
Crash ==
  /\ panic = ""
  /\ dinode' = committed
  /\ inode' = Boot.inode /\ lock' = Boot.lock
  /\ cwd' = Boot.cwd /\ fd' = Boot.none /\ ret' = Boot.none
  /\ todo' = Boot.todo
  /\ UNCHANGED <<committed, calls, panic>>

\* A function of the call goes on with the failure of the one before it.
Failed(p) ==
  \E op \in {"open", "opened", "create", "made", "link1", "link2", "unlink1",
             "chdir"} :
    /\ At(p, op) /\ ret[p] = None
    /\ Do(p, IF op = "link2" THEN <<LinkBad(Head(todo[p]).ip)>> ELSE <<>>)
    /\ UNCHANGED <<dinode, committed, inode, lock, cwd, fd, ret, calls, panic>>

-----------------------------------------------------------------------------
(* sys_open()                                                              *)

\* ilock(ip): only reading is allowed for a directory.
Open(p) ==
  /\ Locked(p, "open")
  /\ LET s == ret[p] IN
     /\ inode' = Ilocked(s)
     /\ IF Loaded(s).type = "dir" /\ Head(todo[p]).arg # "r"
        THEN Returns(p, None) /\ lock' = lock /\ Do(p, <<Iput(s)>>)
        ELSE ret' = ret /\ lock' = [lock EXCEPT ![s] = p] /\ Do(p, <<>>)
  /\ UNCHANGED <<dinode, committed, cwd, fd, calls, panic>>

\* Mutant of NoFile: the error path forgets the inode.
NoFileLeaks(s) == <<>>

\* iunlockput(ip) where filealloc() or fdalloc() failed
NoFile(s) == <<Iput(s)>>

\* filealloc() and fdalloc(), with the inode locked.
Opened(p) ==
  /\ At(p, "opened") /\ ret[p] # None
  /\ LET s == ret[p] IN
     /\ lock' = [lock EXCEPT ![s] = None]
     /\ \/ fd[p] = None /\ fd' = [fd EXCEPT ![p] = s] /\ Do(p, <<>>)
        \/ fd' = fd /\ Do(p, NoFile(s))
  /\ Returns(p, None)
  /\ UNCHANGED <<dinode, committed, inode, cwd, calls, panic>>

-----------------------------------------------------------------------------
(* create(), sys_mkdir(), sys_mknod()                                      *)

\* The name is there: the directory is given up, then the inode is looked at.
CreateFound(p) ==
  /\ Locked(p, "create")
  /\ LET f == Head(todo[p]) IN
     \E i \in Dirlookup(ret[p], f.arg[2]) :
       /\ inode' = Referenced(Ilocked(ret[p]), i)
       /\ Do(p, <<Iput(ret[p]), Frame("exists", Iget(i), None, f.arg[1])>>)
  /\ Returns(p, None)
  /\ UNCHANGED <<dinode, committed, lock, cwd, fd, calls, panic>>

Exists(p) ==
  /\ Locked(p, "exists")
  /\ LET f == Head(todo[p]) IN
     /\ inode' = Ilocked(f.ip)
     /\ IF f.arg = "file" /\ Loaded(f.ip).type = "file"
        THEN /\ Returns(p, f.ip) /\ lock' = [lock EXCEPT ![f.ip] = p]
             /\ Do(p, <<>>)
        ELSE ret' = ret /\ lock' = lock /\ Do(p, <<Iput(f.ip)>>)
  /\ UNCHANGED <<dinode, committed, cwd, fd, calls, panic>>

\* Mutant of Parent: the directory is not locked while the inode is made.
ParentUnlocked(p, dp) == lock

\* ilock(dp) stays in force from the lookup to the new entry.
Parent(p, dp) == [lock EXCEPT ![dp] = p]

\* The name is not there.
CreateAlloc(p) ==
  /\ Locked(p, "create")
  /\ LET f == Head(todo[p])
         dp == ret[p] IN
     /\ Dirlookup(dp, f.arg[2]) = {}
     /\ dinode' = [dinode EXCEPT ![Ialloc] = [Free EXCEPT !.type = f.arg[1]]]
     /\ inode' = Referenced(Ilocked(dp), Ialloc)
     /\ lock' = Parent(p, dp)
     /\ Do(p, <<Frame("create2", Iget(Ialloc), dp, f.arg)>>)
  /\ Returns(p, None)
  /\ UNCHANGED <<committed, cwd, fd, calls, panic>>

\* dp->nlink++, for ".."
Dotdot(type) == IF type = "dir" THEN 1 ELSE 0

\* The new inode and its entry; it stays locked, the directory does not.  The
\* panic "create dots" cannot happen: dirlink() fails only for a name that is
\* there, and the new directory is empty.
CreateLink(p) ==
  /\ Locked(p, "create2")
  /\ LET f == Head(todo[p])
         i == inode[f.ip].inum
         d == inode[f.dp].inum
         type == f.arg[1]
         dots == IF type = "dir" THEN {<<".", i>>, <<"..", d>>} ELSE {}
         made == [dinode EXCEPT
                   ![i] = [type |-> type, nlink |-> 1, ents |-> dots]] IN
     /\ inode' = Nlink([Ilocked(f.ip) EXCEPT ![f.ip].nlink = 1],
                       f.dp, Dotdot(type))
     /\ dinode' = [made EXCEPT
          ![d] = [@ EXCEPT !.ents = @ \cup {<<f.arg[2], i>>},
                           !.nlink = inode'[f.dp].nlink]]
     /\ lock' = [lock EXCEPT ![f.dp] = None, ![f.ip] = p]
     /\ Returns(p, f.ip)
     /\ Do(p, <<Iput(f.dp)>>)
  /\ UNCHANGED <<committed, cwd, fd, calls, panic>>

\* iunlockput(ip) of sys_mkdir() and sys_mknod()
Made(p) ==
  /\ At(p, "made") /\ ret[p] # None
  /\ Do(p, <<Unlockput(ret[p])>>)
  /\ Returns(p, None)
  /\ UNCHANGED <<dinode, committed, inode, lock, cwd, fd, calls, panic>>

-----------------------------------------------------------------------------
(* sys_link()                                                              *)

\* The count goes up first; the inode is not locked while new is looked up.
LinkCount(p) ==
  /\ Locked(p, "link1")
  /\ LET s == ret[p]
         new == Head(todo[p]).arg IN
     IF Loaded(s).type = "dir"
     THEN /\ inode' = Ilocked(s) /\ dinode' = dinode
          /\ Do(p, <<Iput(s)>>)
     ELSE /\ inode' = Nlink(Ilocked(s), s, 1)
          /\ dinode' = DiskNlink(dinode, Ilocked(s), s, 1)
          /\ Do(p, <<Walk(new, TRUE), Frame("link2", s, None, Last(new))>>)
  /\ Returns(p, None)
  /\ UNCHANGED <<committed, lock, cwd, fd, calls, panic>>

\* dirlink(dp, name, ip->inum): a name that is there is an error, and the inode
\* it was found to be is put while dp is locked.
Dirlink(p) ==
  /\ Locked(p, "link2")
  /\ LET f == Head(todo[p])
         dp == ret[p]
         found == Dirlookup(dp, f.arg) IN
     \/ /\ found = {}
        /\ inode' = Ilocked(dp) /\ lock' = lock
        /\ dinode' = [dinode EXCEPT ![inode[dp].inum].ents =
                        @ \cup {<<f.arg, inode[f.ip].inum>>}]
        /\ Do(p, <<Iput(dp), Iput(f.ip)>>)
     \/ \E i \in found :
        /\ inode' = Referenced(Ilocked(dp), i)
        /\ lock' = [lock EXCEPT ![dp] = p]
        /\ dinode' = dinode
        /\ Do(p, <<Iput(Iget(i)), Unlockput(dp), LinkBad(f.ip)>>)
  /\ Returns(p, None)
  /\ UNCHANGED <<committed, cwd, fd, calls, panic>>

\* Mutant of Undo: the error path leaves the count as it is.
UndoNot == 0

Undo == -1

\* bad: ip->nlink--
LinkUndo(p) ==
  /\ Locked(p, "linkbad")
  /\ LET s == Head(todo[p]).ip IN
     /\ inode' = Nlink(Ilocked(s), s, Undo)
     /\ dinode' = DiskNlink(dinode, Ilocked(s), s, Undo)
     /\ Do(p, <<Iput(s)>>)
  /\ UNCHANGED <<committed, lock, cwd, fd, ret, calls, panic>>

-----------------------------------------------------------------------------
(* sys_unlink()                                                            *)

\* dp stays locked from the lookup on.
UnlinkFind(p) ==
  /\ Locked(p, "unlink1")
  /\ LET dp == ret[p]
         name == Head(todo[p]).arg
         found == IF name \in {".", ".."} THEN {} ELSE Dirlookup(dp, name) IN
     \/ /\ found = {}
        /\ inode' = Ilocked(dp) /\ lock' = lock
        /\ Do(p, <<Iput(dp)>>)
     \/ \E i \in found :
        /\ inode' = Referenced(Ilocked(dp), i)
        /\ lock' = [lock EXCEPT ![dp] = p]
        /\ Do(p, <<Frame("unlink2", Iget(i), dp, name)>>)
  /\ Returns(p, None)
  /\ UNCHANGED <<dinode, committed, cwd, fd, calls, panic>>

Busy(s) == Loaded(s).type = "dir" /\ ~Isdirempty(s)

\* Both are locked: erase the entry, or fail for a directory with entries.
UnlinkErase(p) ==
  /\ Locked(p, "unlink2")
  /\ LET f == Head(todo[p])
         d == inode[f.dp].inum IN
     IF Busy(f.ip)
     THEN /\ inode' = Ilocked(f.ip)
          /\ Do(p, <<Iput(f.ip), Unlockput(f.dp)>>)
          /\ UNCHANGED <<dinode, lock>>
     ELSE /\ inode' = Nlink(Ilocked(f.ip), f.dp, -Dotdot(Loaded(f.ip).type))
          /\ dinode' = [dinode EXCEPT
               ![d] = [@ EXCEPT !.ents = @ \ {<<f.arg, inode[f.ip].inum>>},
                                !.nlink = inode'[f.dp].nlink]]
          /\ lock' = [lock EXCEPT ![f.dp] = None, ![f.ip] = p]
          /\ Do(p, <<Iput(f.dp), Frame("unlink3", f.ip, None, <<>>)>>)
  /\ UNCHANGED <<committed, cwd, fd, ret, calls, panic>>

\* ip->nlink--, with ip still locked.
UnlinkCount(p) ==
  /\ At(p, "unlink3")
  /\ LET s == Head(todo[p]).ip IN
     /\ inode' = Nlink(inode, s, -1)
     /\ dinode' = DiskNlink(dinode, inode, s, -1)
     /\ lock' = [lock EXCEPT ![s] = None]
     /\ Do(p, <<Iput(s)>>)
  /\ UNCHANGED <<committed, cwd, fd, ret, calls, panic>>

-----------------------------------------------------------------------------
(* sys_chdir()                                                             *)

Chdir(p) ==
  /\ Locked(p, "chdir")
  /\ LET s == ret[p] IN
     /\ inode' = Ilocked(s)
     /\ IF Loaded(s).type # "dir"
        THEN Do(p, <<Iput(s)>>) /\ cwd' = cwd
        ELSE Do(p, <<Iput(cwd[p])>>) /\ cwd' = [cwd EXCEPT ![p] = s]
  /\ Returns(p, None)
  /\ UNCHANGED <<dinode, committed, lock, fd, calls, panic>>

-----------------------------------------------------------------------------
Inside(p) ==
  \/ NamexStart(p) \/ NamexDone(p) \/ NamexStep(p)
  \/ IputLook(p) \/ IputFree(p) \/ IputDrop(p) \/ Iunlockput(p)
  \/ Open(p) \/ Opened(p)
  \/ CreateFound(p) \/ Exists(p) \/ CreateAlloc(p)
  \/ CreateLink(p) \/ Made(p)
  \/ LinkCount(p) \/ Dirlink(p)
  \/ LinkUndo(p)
  \/ UnlinkFind(p) \/ UnlinkErase(p) \/ UnlinkCount(p)
  \/ Chdir(p)
  \/ EndOp(p) \/ Failed(p) \/ Panics(p)

Work ==
  \E p \in Proc :
    \/ Inside(p)
    \/ \E c \in Calls : Call(p, c)
    \/ Close(p) \/ Exit(p)
    \/ \E q \in Proc : Fork(p, q)

Next == Work \/ Crash

Spec == Init /\ [][Next]_vars

-----------------------------------------------------------------------------
(* Properties                                                              *)

\* The pointers to a cache entry that processes have, in variables and frames.
Pointers(s) ==
  {x \in Proc \X {"cwd", "fd", "ret"} :
     \/ x[2] = "cwd" /\ cwd[x[1]] = s
     \/ x[2] = "fd" /\ fd[x[1]] = s
     \/ x[2] = "ret" /\ ret[x[1]] = s}
  \cup UNION {{x \in {p} \X (DOMAIN todo[p]) \X {"ip", "dp"} :
                 \/ x[3] = "ip" /\ todo[p][x[2]].ip = s
                 \/ x[3] = "dp" /\ todo[p][x[2]].dp = s} : p \in Proc}

\* ip->ref "tracks the number of in-memory pointers to the entry" (fs.c:123):
\* on every path of every call, failed ones too, each iget() and idup() has
\* its iput(), also when the inode is freed, found again or given up midway.
RefsCounted == \A s \in Slot : inode[s].ref = Cardinality(Pointers(s))

\* iput() frees an inode only when nobody else has it: a pointer to an entry
\* whose inode is free on the disk is one that iput() is about to drop.
HeldIsAllocated ==
  \A s \in Slot :
    inode[s].ref > 0 /\ dinode[inode[s].inum].type = "free" =>
      \A x \in Pointers(s) : Len(x) = 3 /\ todo[x[1]][x[2]].op = "drop"

\* "i-node cache is write-through" (fs.c:216): an entry that is in use and valid
\* has the type and the link count of the disk, also after the inode was freed
\* and allocated anew, and no inode has two entries.
CacheIsCurrent ==
  \A s \in Slot :
    inode[s].ref > 0 =>
      /\ inode[s].valid => /\ inode[s].type = dinode[inode[s].inum].type
                           /\ inode[s].nlink = dinode[inode[s].inum].nlink
      /\ Cached(inode[s].inum) = {s}

\* The panics that say the file system is broken; running out of inodes is not
\* one of them.
FsAsserts ==
  panic \notin {"ilock: no type", "create: dirlink", "unlink: nlink < 1"}

\* "another concurrent link/unlink/create test, to look for deadlocks"
\* (usertests.c:855): no processes wait for each other's inode locks.
NoDeadlock ==
  \A S \in SUBSET Proc \ {{}} :
    \E p \in S : Wants(p) = None \/ lock[Wants(p)] \notin S
=============================================================================
