---------------------------- MODULE FileSysLinks ----------------------------
(***************************************************************************)
(* The link counts of FileSys, with the history that they need: a process  *)
(* can be in a directory that was removed, or have it at hand in sys_link(),*)
(* and make names in it; when the directory is freed, its names are gone,  *)
(* and the counts of the inodes they named stay as they are.               *)
(***************************************************************************)
EXTENDS FileSys

VARIABLES
  gone,   \* for each inode, how many of its names went with a directory
  kept    \* the same, as of the last commit

\* The names of inode i in directory j, as the disk d has them.
NamesIn(d, j, i) == {e \in d[j].ents : e[1] \notin {".", ".."} /\ e[2] = i}

\* Inodes that a step frees.
FreedNow == {j \in Inum : dinode[j].type # "free" /\ dinode'[j].type = "free"}

\* What the history is after a step that frees directories with names in them.
Gone ==
  IF FreedNow = {} THEN gone
  ELSE [i \in Inum |->
          IF i \in FreedNow THEN 0
          ELSE gone[i] + Cardinality(UNION {{j} \X NamesIn(dinode, j, i) : j \in FreedNow})]

\* No call is running: the last one has committed.
Quiet == \A p \in Proc : todo[p] = <<>>

LinksInit == Init /\ gone = [i \in Inum |-> 0] /\ kept = gone

LinksNext ==
  \/ /\ Work
     /\ gone' = Gone
     /\ kept' = IF Quiet' THEN gone' ELSE kept
  \/ Crash /\ gone' = kept /\ kept' = kept

LinksSpec == LinksInit /\ [][LinksNext]_<<vars, gone, kept>>

\* The inodes that can be named from the root.
Reachable(d) ==
  LET reach[n \in 0 .. NINODES] ==
        IF n = 0 THEN {ROOTINO}
        ELSE reach[n - 1] \cup
             UNION {{e[2] : e \in d[j].ents} : j \in reach[n - 1]}
  IN reach[NINODES]

\* What a commit leaves for a crash to bring back is consistent, whatever calls
\* ran together in the transaction.  Every inode that can be named is allocated, and no
\* directory has a name twice.  Its link count is the number of its names in
\* all directories that are not free, removed ones that a process is in too,
\* and of the ".." of its subdirectories, and of the names that went with a
\* directory: no call that fails midway and no race leaves another difference.
LinksCounted ==
  LET R == Reachable(committed)
      names(i) == UNION {{j} \X NamesIn(committed, j, i) : j \in Inum}
      subdirs(i) == {j \in R : <<"..", i>> \in committed[j].ents}
  IN Quiet => \A i \in R :
       /\ committed[i].type # "free"
       /\ committed[i].nlink = Cardinality(names(i)) + Cardinality(subdirs(i)) + kept[i]
       /\ \A e, g \in committed[i].ents : e[1] = g[1] => e = g
=============================================================================
