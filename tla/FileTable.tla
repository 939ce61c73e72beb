----------------------------- MODULE FileTable ------------------------------
(***************************************************************************)
(* The table of open files (file.c), the descriptors that processes have   *)
(* in it (sysfile.c), and pipes as far as their ends are opened, closed    *)
(* and waited for (pipe.c), under the system calls of user processes.      *)
(*                                                                         *)
(* A process has a list of things to do, first one first.  A system call   *)
(* takes several steps where it gives up ftable.lock in between.           *)
(***************************************************************************)
EXTENDS Integers, Sequences, FiniteSets, SequencesExt

CONSTANTS
  Proc,      \* the slots for processes, numbers above 0
  NFILE, NOFILE,
  NPIPE,     \* pages that pipes may take
  PIPESIZE

ASSUME FileTableAssumption ==
  /\ Proc \subseteq Nat \ {0} /\ Proc # {}
  /\ {NFILE, NOFILE, NPIPE, PIPESIZE} \subseteq Nat \ {0}

InitProc == 0
File == 1 .. NFILE
Fd == 0 .. NOFILE - 1

VARIABLES
  file,      \* ftable.file
  pipe,      \* the pipes; used says that the page is allocated
  ofile,     \* the descriptors of each process, 0 for none
  pfd,       \* the array p of runcmd(), for pipe()
  state,     \* "unused", "run" or "zombie"
  parent,
  code       \* what the process has to do

fvars == <<file, pipe, ofile, pfd, state, parent, code>>

NoFile == [ref |-> 0, type |-> "none", pipe |-> 0, writable |-> FALSE]
NoPipe == [used |-> FALSE, readopen |-> FALSE, writeopen |-> FALSE, n |-> 0]
NoFds == [fd \in Fd |-> 0]

\* One thing to do; held are the files that it has references to.
Do(op, arg) == [op |-> op, arg |-> arg, held |-> {}]
Fileclose(f) == [op |-> "fileclose", arg |-> f, held |-> {f}]

Least(S) == CHOOSE x \in S : \A y \in S : x <= y

At(p, op) == state[p] = "run" /\ code[p] # <<>> /\ Head(code[p]).op = op
Arg(p) == Head(code[p]).arg

\* The first thing is replaced by these; everything is.
Then(p, s) == code' = [code EXCEPT ![p] = s \o Tail(@)]
Becomes(p, s) == code' = [code EXCEPT ![p] = s]

Exit == <<Do("exit", 0)>>

\* The descriptor that a number stands for: p[0] and p[1] are 100 and 101.
P0 == 100
P1 == 101
FdOf(p, fd) == IF fd = P0 THEN pfd[p][1] ELSE IF fd = P1 THEN pfd[p][2] ELSE fd

\* argfd(): the file, or 0.
Argfd(p, fd) == IF FdOf(p, fd) \in Fd THEN ofile[p][FdOf(p, fd)] ELSE 0

FreeFiles == {f \in File : file[f].ref = 0}
FreeFds(p) == {fd \in Fd : ofile[p][fd] = 0}

-----------------------------------------------------------------------------
(* close(), dup()                                                          *)

\* Mutant of LastRef: the file is closed with the first descriptor.
LastRefAny(f) == TRUE

\* if(--f->ref > 0) return
LastRef(f) == file[f].ref = 1

\* fileclose(): ff is a copy; the entry is free before the pipe is closed.
Dropped(p, f) ==
  IF LastRef(f)
  THEN /\ file' = [file EXCEPT ![f] = NoFile]
       /\ Then(p, IF file[f].type = "pipe"
                  THEN <<Do("pipeclose", <<file[f].pipe, file[f].writable>>)>>
                  ELSE <<>>)
  ELSE /\ file' = [file EXCEPT ![f].ref = @ - 1]
       /\ Then(p, <<>>)

\* sys_close(): nobody else sees the descriptor.
Close(p) ==
  /\ At(p, "close")
  /\ LET f == Argfd(p, Arg(p)) IN
     IF f = 0 THEN Then(p, <<>>) /\ UNCHANGED <<file, ofile>>
     ELSE ofile' = [ofile EXCEPT ![p][FdOf(p, Arg(p))] = 0] /\ Dropped(p, f)
  /\ UNCHANGED <<pipe, pfd, state, parent>>

\* The files of a pipe() that fails.
FileClose(p) ==
  /\ At(p, "fileclose")
  /\ Dropped(p, Arg(p))
  /\ UNCHANGED <<pipe, ofile, pfd, state, parent>>

\* pipeclose(): the page is freed with the second end.
PipeClose(p) ==
  /\ At(p, "pipeclose")
  /\ LET k == Arg(p)[1]
         now == IF Arg(p)[2] THEN [pipe[k] EXCEPT !.writeopen = FALSE]
                ELSE [pipe[k] EXCEPT !.readopen = FALSE] IN
     pipe' = [pipe EXCEPT ![k] =
                IF now.readopen \/ now.writeopen THEN now ELSE NoPipe]
  /\ Then(p, <<>>)
  /\ UNCHANGED <<file, ofile, pfd, state, parent>>

\* sys_dup(): fdalloc(), then filedup()
Dup(p) ==
  /\ At(p, "dup")
  /\ LET f == Argfd(p, Arg(p)) IN
     IF f = 0 \/ FreeFds(p) = {} THEN UNCHANGED <<file, ofile>>
     ELSE /\ ofile' = [ofile EXCEPT ![p][Least(FreeFds(p))] = f]
          /\ file' = [file EXCEPT ![f].ref = @ + 1]
  /\ Then(p, <<>>)
  /\ UNCHANGED <<pipe, pfd, state, parent>>

-----------------------------------------------------------------------------
(* open(), for a file that is there                                        *)

\* filealloc() and fdalloc(); the argument is what to do if they fail.
Open(p) ==
  /\ At(p, "open")
  /\ LET f == Least(FreeFiles)
         fd == Least(FreeFds(p)) IN
     IF FreeFiles = {} \/ FreeFds(p) = {}
     THEN Becomes(p, Arg(p)) /\ UNCHANGED <<file, ofile>>
     ELSE /\ file' = [file EXCEPT ![f] = [NoFile EXCEPT !.ref = 1,
                                            !.type = "inode", !.writable = TRUE]]
          /\ ofile' = [ofile EXCEPT ![p][fd] = f]
          /\ Then(p, <<>>)
  /\ UNCHANGED <<pipe, pfd, state, parent>>

-----------------------------------------------------------------------------
(* pipe()                                                                  *)

\* pipealloc(): one file, then another one.
PipeFile(p) ==
  /\ At(p, "pipe")
  /\ LET f == Least(FreeFiles)
         held == Head(code[p]).held IN
     IF FreeFiles = {}
     THEN /\ Becomes(p, [k \in DOMAIN Arg(p) |-> Fileclose(Arg(p)[k])] \o Exit)
          /\ file' = file
     ELSE /\ file' = [file EXCEPT ![f] = [NoFile EXCEPT !.ref = 1]]
          /\ Then(p, <<[Head(code[p]) EXCEPT
                          !.op = IF held = {} THEN "pipe" ELSE "pipefd",
                          !.arg = Append(@, f), !.held = @ \cup {f}]>>)
  /\ UNCHANGED <<pipe, ofile, pfd, state, parent>>

FreePipes == {k \in DOMAIN pipe : ~pipe[k].used}

\* kalloc() of the page, and both descriptors in sys_pipe().  With one free
\* descriptor, fd0 is taken and given back: nobody else sees it.
PipeFds(p) ==
  /\ At(p, "pipefd")
  /\ LET rf == Arg(p)[1]
         wf == Arg(p)[2]
         k == Least(FreePipes)
         fd0 == Least(FreeFds(p))
         fd1 == Least(FreeFds(p) \ {fd0}) IN
     IF FreePipes = {}
     THEN /\ Becomes(p, <<Fileclose(rf), Fileclose(wf)>> \o Exit)
          /\ UNCHANGED <<file, pipe, ofile, pfd>>
     ELSE /\ pipe' = [pipe EXCEPT ![k] = [used |-> TRUE, readopen |-> TRUE,
                                          writeopen |-> TRUE, n |-> 0]]
          /\ file' = [file EXCEPT
               ![rf] = [ref |-> 1, type |-> "pipe", pipe |-> k, writable |-> FALSE],
               ![wf] = [ref |-> 1, type |-> "pipe", pipe |-> k, writable |-> TRUE]]
          /\ IF Cardinality(FreeFds(p)) < 2
             THEN /\ Becomes(p, <<Fileclose(rf), Fileclose(wf)>> \o Exit)
                  /\ UNCHANGED <<ofile, pfd>>
             ELSE /\ ofile' = [ofile EXCEPT ![p][fd0] = rf, ![p][fd1] = wf]
                  /\ pfd' = [pfd EXCEPT ![p] = <<fd0, fd1>>]
                  /\ Then(p, <<>>)
  /\ UNCHANGED <<state, parent>>

-----------------------------------------------------------------------------
(* read(), write()                                                         *)

\* One byte, which is written on, or the end of the file.  The console and
\* files are empty.
Read(p) ==
  /\ At(p, "read")
  /\ LET f == Argfd(p, 0)
         k == file[f].pipe IN
     IF f = 0 \/ file[f].type # "pipe" \/ file[f].writable
     THEN Then(p, <<>>) /\ pipe' = pipe
     ELSE IF pipe[k].n > 0
     THEN /\ pipe' = [pipe EXCEPT ![k].n = @ - 1]
          /\ Then(p, <<Do("write", 0), Do("read", 0)>>)
     ELSE ~pipe[k].writeopen /\ Then(p, <<>>) /\ pipe' = pipe
  /\ UNCHANGED <<file, ofile, pfd, state, parent>>

\* One byte.  Only a writer that finds the pipe full looks whether there is a
\* reader left, and waits if there is; an error ends the process.
Write(p) ==
  /\ At(p, "write")
  /\ LET f == Argfd(p, 1)
         k == file[f].pipe IN
     IF f # 0 /\ file[f].type = "inode" THEN Then(p, <<>>) /\ pipe' = pipe
     ELSE IF f = 0 \/ ~file[f].writable THEN Becomes(p, Exit) /\ pipe' = pipe
     ELSE IF pipe[k].n < PIPESIZE
     THEN pipe' = [pipe EXCEPT ![k].n = @ + 1] /\ Then(p, <<>>)
     ELSE ~pipe[k].readopen /\ Becomes(p, Exit) /\ pipe' = pipe
  /\ UNCHANGED <<file, ofile, pfd, state, parent>>

-----------------------------------------------------------------------------
(* fork(), exit(), wait()                                                  *)

Unused == {q \in Proc : state[q] = "unused"}

\* The references that a copy of these descriptors adds.
Dups(fds, f) == Cardinality({fd \in Fd : fds[fd] = f})

\* q starts as a copy of p.
Started(p, q) ==
  /\ state' = [state EXCEPT ![q] = "run"]
  /\ parent' = [parent EXCEPT ![q] = p]
  /\ ofile' = [ofile EXCEPT ![q] = ofile[p]]
  /\ file' = [f \in File |->
                [file[f] EXCEPT !.ref = @ + Dups(ofile[p], f)]]
  /\ pfd' = [pfd EXCEPT ![q] = pfd[p]]

\* fork1(): the child does the argument; sh's panic() where there is no slot.
Fork(p) ==
  /\ At(p, "fork")
  /\ LET q == Least(Unused) IN
     IF Unused = {}
     THEN Becomes(p, Exit) /\ UNCHANGED <<file, ofile, pfd, state, parent>>
     ELSE /\ Started(p, q)
          /\ code' = [code EXCEPT ![p] = Tail(@), ![q] = Arg(p)]
  /\ pipe' = pipe

\* exit() closes the descriptors one by one.
ExitCloses(p) ==
  /\ At(p, "exit")
  /\ LET all == [k \in 1 .. NOFILE |-> Do("close", k - 1)]
         open(d) == ofile[p][d.arg] # 0 IN
     Becomes(p, SelectSeq(all, open) \o <<Do("zombie", 0)>>)
  /\ UNCHANGED <<file, pipe, ofile, pfd, state, parent>>

\* Its children go to init.
ExitZombie(p) ==
  /\ At(p, "zombie")
  /\ state' = [state EXCEPT ![p] = "zombie"]
  /\ parent' = [q \in Proc |-> IF parent[q] = p THEN InitProc ELSE parent[q]]
  /\ Becomes(p, <<>>)
  /\ pfd' = [pfd EXCEPT ![p] = <<0, 0>>]
  /\ UNCHANGED <<file, pipe, ofile>>

Reap(q) == state' = [state EXCEPT ![q] = "unused"]

Wait(p) ==
  /\ At(p, "wait")
  /\ LET kids == {q \in Proc : state[q] # "unused" /\ parent[q] = p}
         dead == {q \in kids : state[q] = "zombie"} IN
     IF kids = {} THEN state' = state ELSE dead # {} /\ Reap(Least(dead))
  /\ Then(p, <<>>)
  /\ UNCHANGED <<file, pipe, ofile, pfd, parent>>

Syscall(p) ==
  \/ Close(p) \/ FileClose(p) \/ PipeClose(p) \/ Dup(p) \/ Open(p)
  \/ PipeFile(p) \/ PipeFds(p) \/ Read(p) \/ Write(p)
  \/ Fork(p) \/ ExitCloses(p) \/ ExitZombie(p) \/ Wait(p)

-----------------------------------------------------------------------------
(* Properties                                                              *)

\* The processes that are about to close an end of pipe k.
Closing(k, w) ==
  \E p \in Proc : \E i \in DOMAIN code[p] :
    code[p][i] = Do("pipeclose", <<k, w>>)

\* f->ref is the number of descriptors and pointers to a file, over fork(),
\* dup() and every way that pipe() can fail; an end of a pipe is open exactly
\* as long as some file is that end, and the page is kept as long as one is.
FilesCounted ==
  /\ \A f \in File :
       file[f].ref =
         Cardinality({x \in (Proc \cup {InitProc}) \X Fd : ofile[x[1]][x[2]] = f})
         + Cardinality(UNION {{<<p, i>> : i \in {i \in DOMAIN code[p] :
                                 f \in code[p][i].held}} : p \in Proc})
  /\ \A k \in DOMAIN pipe, w \in BOOLEAN :
       (IF w THEN pipe[k].writeopen ELSE pipe[k].readopen) <=>
         \/ Closing(k, w)
         \/ \E f \in File : /\ file[f].ref > 0 /\ file[f].type = "pipe"
                            /\ file[f].pipe = k /\ file[f].writable = w
=============================================================================
