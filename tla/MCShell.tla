------------------------------- MODULE MCShell ------------------------------
(* A small instance of Shell for TLC.                                      *)
EXTENDS Shell

Echo == ExecCmd(<<"echo", "a">>)
Cat == ExecCmd(<<"cat">>)
Missing == ExecCmd(<<"missing">>)

MCCommands ==
  {ExecCmd(<<"cd", "d">>),
   ExecCmd(<<"hoard">>),
   PipeCmd(Echo, Cat),
   BackCmd(PipeCmd(Missing, BackCmd(Cat))),
   ListCmd(BackCmd(Echo), RedirCmd(Cat, 0))}

MCMalformed == {<<"cat", "<">>, <<"(", "cat">>, <<"cat", "&", "cat">>}

\* All trees of a depth of two above these.
Small == {ExecCmd(<<>>), ExecCmd(<<"a", "b">>)}

Above(S) ==
  {RedirCmd(c, fd) : c \in S, fd \in {0, 1}} \cup {BackCmd(c) : c \in S}
  \cup {PipeCmd(c, d) : c, d \in S} \cup {ListCmd(c, d) : c, d \in S}

MCTrees == Above(Small \cup Above(Small))
=============================================================================
