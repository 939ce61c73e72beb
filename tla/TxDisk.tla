------------------------------- MODULE TxDisk -------------------------------
(***************************************************************************)
(* What log.c promises its callers: a disk on which the writes of a group  *)
(* of system calls become durable together or not at all.                  *)
(***************************************************************************)
CONSTANTS Block, Val, Op

VARIABLES
  durable,   \* what a crash now would leave after recovery
  current,   \* what the running system reads
  active     \* the operations between begin_op() and end_op()

txVars == <<durable, current, active>>

TxInit ==
  /\ durable \in [Block -> Val]
  /\ current = durable
  /\ active = {}

Begin(p) ==
  /\ p \notin active
  /\ active' = active \cup {p}
  /\ UNCHANGED <<durable, current>>

Write(p, b, v) ==
  /\ p \in active
  /\ current' = [current EXCEPT ![b] = v]
  /\ UNCHANGED <<durable, active>>

End(p) ==
  /\ p \in active
  /\ active' = active \ {p}
  /\ UNCHANGED <<durable, current>>

\* No operation is half done: everything written so far becomes durable.
Commit ==
  /\ active = {}
  /\ durable' = current
  /\ UNCHANGED <<current, active>>

\* A crash falls back to the last commit.
Crash ==
  /\ current' = durable
  /\ active' = {}
  /\ UNCHANGED durable

TxNext ==
  \/ \E p \in Op : Begin(p) \/ End(p)
  \/ \E p \in Op, b \in Block, v \in Val : Write(p, b, v)
  \/ Commit
  \/ Crash

TxSpec == TxInit /\ [][TxNext]_txVars
=============================================================================
