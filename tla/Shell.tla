-------------------------------- MODULE Shell -------------------------------
(***************************************************************************)
(* The shell (sh.c) with its parser, the programs it runs and init (init.c)*)
(* over the file table.  A line is a sequence of tokens; gettoken() and    *)
(* peek() are the head of it.                                              *)
(***************************************************************************)
EXTENDS FileTable

CONSTANTS
  MAXARGS,
  Commands,   \* the commands that are typed, as trees
  Malformed,  \* the lines that are typed and are no commands
  Trees,      \* more commands, for the parser only
  MaxLines    \* the bound on the number of lines

VARIABLES
  shell,      \* the process that runs main(), 0 while there is none
  lines,      \* the number of lines typed
  panic       \* init has exited

vars == <<fvars, shell, lines, panic>>

-----------------------------------------------------------------------------
(* The parser                                                              *)

Symbols == {"<", "|", ">", ">>", "&", ";", "(", ")"}

ExecCmd(argv) == [type |-> "EXEC", argv |-> argv]
RedirCmd(cmd, fd) == [type |-> "REDIR", cmd |-> cmd, fd |-> fd]
PipeCmd(left, right) == [type |-> "PIPE", left |-> left, right |-> right]
ListCmd(left, right) == [type |-> "LIST", left |-> left, right |-> right]
BackCmd(cmd) == [type |-> "BACK", cmd |-> cmd]

\* A parser returns a command and the tokens left; Bad is sh's panic().
Parsed(cmd, rest) == [cmd |-> cmd, rest |-> rest]
Bad == Parsed([type |-> "none"], <<"bad">>)

Peek(s, toks) == s # <<>> /\ Head(s) \in toks

\* gettoken() returns 'a': the next token is a word.
Gettoken(s) == s # <<>> /\ Head(s) \notin Symbols

\* F(x), where x is evaluated once.
With(x, F(_)) == CHOOSE v \in {F(y) : y \in {x}} : TRUE

RECURSIVE Parseredirs(_, _), Parseargs(_, _, _), Parseblock(_), Parseexec(_)
RECURSIVE Parsepipe(_), Parseback(_), Parseline(_)

\* The redirections at the head of s, after the ones before: their descriptors.
Parseredirs(fds, s) ==
  IF ~Peek(s, {"<", ">", ">>"}) THEN [fds |-> fds, rest |-> s]
  ELSE IF ~Gettoken(Tail(s)) THEN [fds |-> <<>>, rest |-> <<"bad">>]
  ELSE Parseredirs(Append(fds, IF Head(s) = "<" THEN 0 ELSE 1),
                   SubSeq(s, 3, Len(s)))

Redirected(cmd, fds) == FoldLeft(RedirCmd, cmd, fds)

\* Arguments and redirections may alternate; the latter end up outermost.
Parseargs(argv, fds, s) ==
  LET after(r) ==
        IF r.rest = <<"bad">> THEN Bad
        ELSE IF r.rest = <<>> \/ Peek(r.rest, {"|", ")", "&", ";"})
        THEN Parsed(Redirected(ExecCmd(argv), r.fds), r.rest)
        ELSE IF ~Gettoken(r.rest) \/ Len(argv) + 1 >= MAXARGS THEN Bad
        ELSE Parseargs(Append(argv, Head(r.rest)), r.fds, Tail(r.rest)) IN
  With(Parseredirs(fds, s), after)

Parseblock(s) ==
  LET redirected(r, t) == IF t.rest = <<"bad">> THEN Bad
                          ELSE Parsed(Redirected(r.cmd, t.fds), t.rest)
      after(r) == IF ~Peek(r.rest, {")"}) THEN Bad
                  ELSE redirected(r, Parseredirs(<<>>, Tail(r.rest))) IN
  With(Parseline(Tail(s)), after)

Parseexec(s) ==
  IF Peek(s, {"("}) THEN Parseblock(s) ELSE Parseargs(<<>>, <<>>, s)

\* Mutant of Pipeline: pipes are taken from the right.
PipelineLeft(cmd, r) ==
  Parsed(IF r.cmd.type = "PIPE"
         THEN PipeCmd(PipeCmd(cmd, r.cmd.left), r.cmd.right)
         ELSE PipeCmd(cmd, r.cmd), r.rest)

Pipeline(cmd, r) == Parsed(PipeCmd(cmd, r.cmd), r.rest)

Parsepipe(s) ==
  LET after(r) == IF Peek(r.rest, {"|"})
                  THEN Pipeline(r.cmd, Parsepipe(Tail(r.rest))) ELSE r IN
  With(Parseexec(s), after)

Parseback(r) ==
  IF Peek(r.rest, {"&"}) THEN Parseback(Parsed(BackCmd(r.cmd), Tail(r.rest)))
  ELSE r

Parseline(s) ==
  LET listed(cmd, t) == Parsed(ListCmd(cmd, t.cmd), t.rest)
      after(r) == IF Peek(r.rest, {";"})
                  THEN listed(r.cmd, Parseline(Tail(r.rest))) ELSE r IN
  With(Parseback(Parsepipe(s)), after)

\* Leftover tokens are an error.
Parsecmd(s) ==
  LET after(r) == IF r.rest = <<>> THEN r.cmd ELSE Bad.cmd IN
  With(Parseline(s), after)

-----------------------------------------------------------------------------
(* What is typed                                                           *)

RECURSIVE Unparse(_)

\* The line for a command, with parentheses around what is not of these types.
Inner(c, types) ==
  IF c.type \in types THEN Unparse(c) ELSE <<"(">> \o Unparse(c) \o <<")">>

Unparse(c) ==
  CASE c.type = "EXEC" -> c.argv
    [] c.type = "REDIR" ->
         Inner(c.cmd, {"EXEC", "REDIR"})
         \o <<IF c.fd = 0 THEN "<" ELSE ">", "file">>
    [] c.type = "PIPE" ->
         Inner(c.left, {"EXEC", "REDIR"}) \o <<"|">>
         \o Inner(c.right, {"EXEC", "REDIR", "PIPE"})
    [] c.type = "LIST" ->
         Inner(c.left, {"EXEC", "REDIR", "PIPE", "BACK"}) \o <<";">>
         \o Unparse(c.right)
    [] c.type = "BACK" ->
         Inner(c.cmd, {"EXEC", "REDIR", "PIPE", "BACK"}) \o <<"&">>

Typed == {Unparse(c) : c \in Commands} \cup Malformed

-----------------------------------------------------------------------------
(* init, the shell's main() and runcmd()                                   *)

\* Three descriptors are open; a fourth one is closed again.
ShMain ==
  <<Do("open", <<Do("getcmd", 0)>>), Do("close", 3), Do("getcmd", 0)>>

Init ==
  /\ file = [f \in File |->
       IF f = 1 THEN [NoFile EXCEPT !.ref = 6, !.type = "inode",
                                    !.writable = TRUE]
       ELSE NoFile]
  /\ pipe = [k \in 1 .. NPIPE |-> NoPipe]
  /\ shell = Least(Proc)
  /\ ofile = [p \in Proc \cup {InitProc} |->
       [fd \in Fd |-> IF p \in {InitProc, shell} /\ fd < 3 THEN 1 ELSE 0]]
  /\ pfd = [p \in Proc \cup {InitProc} |-> <<0, 0>>]
  /\ state = [p \in Proc |-> IF p = shell THEN "run" ELSE "unused"]
  /\ parent = [p \in Proc |-> InitProc]
  /\ code = [p \in Proc |-> IF p = shell THEN ShMain ELSE <<>>]
  /\ lines = 0 /\ panic = ""

\* init's wait(): orphans, and the shell.
InitReaps(q) ==
  /\ panic = "" /\ parent[q] = InitProc /\ state[q] = "zombie"
  /\ Reap(q)
  /\ shell' = IF q = shell THEN 0 ELSE shell
  /\ UNCHANGED <<file, pipe, ofile, pfd, parent, code, lines, panic>>

\* init forks and runs a new shell, or exits, which it must not.
InitStarts ==
  /\ panic = "" /\ shell = 0
  /\ LET q == Least(Unused) IN
     IF Unused = {}
     THEN /\ panic' = "init exiting"
          /\ UNCHANGED <<file, pipe, ofile, pfd, state, parent, code, shell>>
     ELSE /\ Started(InitProc, q)
          /\ code' = [code EXCEPT ![q] = ShMain]
          /\ shell' = q
          /\ UNCHANGED <<pipe, panic>>
  /\ lines' = lines

\* getcmd(): "cd" is for the shell itself, other lines for a child; the end
\* of the input ends the shell.
Getcmd(p) ==
  /\ panic = "" /\ At(p, "getcmd") /\ lines < MaxLines
  /\ \/ Becomes(p, Exit)
     \/ \E s \in Typed :
          Becomes(p, IF Peek(s, {"cd"}) THEN <<Do("getcmd", 0)>>
                     ELSE <<Do("fork", <<Do("parse", s)>>), Do("wait", 0),
                            Do("getcmd", 0)>>)
  /\ lines' = lines + 1
  /\ UNCHANGED <<file, pipe, ofile, pfd, state, parent, shell, panic>>

Parse(p) ==
  /\ panic = "" /\ At(p, "parse")
  /\ Becomes(p, IF Parsecmd(Arg(p)) = Bad.cmd THEN Exit
                ELSE <<Do("run", Parsecmd(Arg(p)))>>)
  /\ UNCHANGED <<file, pipe, ofile, pfd, state, parent, shell, lines, panic>>

\* Mutant of ParentCloses: the write end stays open in the process that waits.
ParentClosesOne == <<Do("close", P0)>>

\* close(p[0]); close(p[1]) after both forks
ParentCloses == <<Do("close", P0), Do("close", P1)>>

\* The child for one side of a pipe: p[1] becomes 1, or p[0] becomes 0.
Side(fd, end, cmd) ==
  <<Do("close", fd), Do("dup", end), Do("close", P0), Do("close", P1),
    Do("run", cmd)>>

\* What runcmd() does for a command, which ends in exit().
Runcmd(c) ==
  CASE c.type = "EXEC" -> IF c.argv = <<>> THEN Exit
                          ELSE <<Do("exec", Head(c.argv))>>
    [] c.type = "REDIR" ->
         <<Do("close", c.fd), Do("open", Exit), Do("run", c.cmd)>>
    [] c.type = "LIST" ->
         <<Do("fork", <<Do("run", c.left)>>), Do("wait", 0), Do("run", c.right)>>
    [] c.type = "PIPE" ->
         <<Do("pipe", <<>>), Do("fork", Side(1, P1, c.left)),
           Do("fork", Side(0, P0, c.right))>>
         \o ParentCloses \o <<Do("wait", 0), Do("wait", 0)>> \o Exit
    [] c.type = "BACK" -> <<Do("fork", <<Do("run", c.cmd)>>)>> \o Exit

Run(p) ==
  /\ panic = "" /\ At(p, "run")
  /\ Becomes(p, Runcmd(Arg(p)))
  /\ UNCHANGED <<file, pipe, ofile, pfd, state, parent, shell, lines, panic>>

\* exec(): echo writes its argument and a newline, cat copies its input; "hoard"
\* is a user program that calls pipe() when it has one descriptor left; other
\* names are not programs.
Exec(p) ==
  /\ panic = "" /\ At(p, "exec")
  /\ Becomes(p, (CASE Arg(p) = "echo" -> <<Do("write", 0), Do("write", 0)>>
                   [] Arg(p) = "cat" -> <<Do("read", 0)>>
                   [] Arg(p) = "hoard" ->
                        [k \in 1 .. NOFILE - 4 |-> Do("open", Exit)]
                        \o <<Do("pipe", <<>>)>>
                   [] OTHER -> <<>>) \o Exit)
  /\ UNCHANGED <<file, pipe, ofile, pfd, state, parent, shell, lines, panic>>

Calls(p) == panic = "" /\ Syscall(p) /\ UNCHANGED <<shell, lines, panic>>

Steps(p) == Calls(p) \/ Parse(p) \/ Run(p) \/ Exec(p)

Next ==
  \/ \E p \in Proc : Steps(p) \/ Getcmd(p) \/ InitReaps(p)
  \/ InitStarts

\* The scheduler lets every process go on (Proc); nobody has to type.
Fairness ==
  /\ \A p \in Proc : WF_vars(Steps(p)) /\ WF_vars(InitReaps(p))
  /\ WF_vars(InitStarts)

Spec == Init /\ [][Next]_vars /\ Fairness

-----------------------------------------------------------------------------
(* Properties                                                              *)

\* sh's parser gives every line the command that was meant by it, with "|"
\* binding tighter than "&" and ";", and rejects the other lines.
ParsedAsMeant ==
  lines = 0 /\ code[shell] = ShMain =>
    /\ \A c \in Trees \cup Commands : Parsecmd(Unparse(c)) = c
    /\ \A s \in Malformed : Parsecmd(s) = Bad.cmd

Prompt == \E p \in Proc : At(p, "getcmd")

\* After every line the shell comes back with its prompt: each reader of a
\* pipeline gets its end of file, since all copies of the write end are closed
\* in the end, each writer an error or room, and each wait() has its child,
\* also where pipe(), open() or fork() fails on the way.
PromptReturns == <>[](panic # "") \/ []<>Prompt
=============================================================================
