----------------------------- MODULE MCFileSys ------------------------------
(* Small instances of FileSys for TLC.                                     *)
EXTENDS FileSysLinks

\* A directory "d", the program "c" and new names for it.
MCCalls ==
  {[call |-> "creat", path |-> <<"c">>],
   [call |-> "mkdir", path |-> <<"/", "d">>],
   [call |-> "open", path |-> <<"d">>, mode |-> "w"],
   [call |-> "link", path |-> <<"/", "c">>, new |-> <<"d">>],
   [call |-> "link", path |-> <<"/", "c">>, new |-> <<"d", "c">>],
   [call |-> "unlink", path |-> <<"/", "c">>],
   [call |-> "unlink", path |-> <<"d">>],
   [call |-> "chdir", path |-> <<"d">>]}

\* linkunlink() of usertests.c
MCLinkUnlink ==
  {[call |-> "creat", path |-> <<"x">>],
   [call |-> "link", path |-> <<"cat">>, new |-> <<"x">>],
   [call |-> "unlink", path |-> <<"x">>]}
=============================================================================
