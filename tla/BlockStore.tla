----------------------------- MODULE BlockStore -----------------------------
(***************************************************************************)
(* What bio.c promises its callers: bread() hands out a block to one       *)
(* process at a time, with the contents its last holder left in it.        *)
(***************************************************************************)
CONSTANTS Block, Proc, Val, None

VARIABLES
  val,      \* the contents of each block
  holder,   \* the process that has it, between bread() and brelse()
  want,     \* the block each process is asking for, or None
  got       \* the contents that bread() returned last

storeVars == <<val, holder, want, got>>

StoreInit ==
  /\ val \in [Block -> Val]
  /\ holder = [b \in Block |-> None]
  /\ want = [p \in Proc |-> None]
  /\ got = None

Ask(p, b) ==
  /\ want[p] = None
  /\ want' = [want EXCEPT ![p] = b]
  /\ UNCHANGED <<val, holder, got>>

Take(p) ==
  /\ want[p] # None /\ holder[want[p]] = None
  /\ holder' = [holder EXCEPT ![want[p]] = p]
  /\ UNCHANGED <<val, want, got>>

Return(p) ==
  /\ want[p] # None /\ holder[want[p]] = p
  /\ got' = val[want[p]]
  /\ want' = [want EXCEPT ![p] = None]
  /\ UNCHANGED <<val, holder>>

Change(p, b, v) ==
  /\ holder[b] = p
  /\ val' = [val EXCEPT ![b] = v]
  /\ UNCHANGED <<holder, want, got>>

Release(p, b) ==
  /\ holder[b] = p
  /\ holder' = [holder EXCEPT ![b] = None]
  /\ UNCHANGED <<val, want, got>>

StoreNext ==
  \E p \in Proc :
    \/ Take(p) \/ Return(p)
    \/ \E b \in Block : Ask(p, b) \/ Release(p, b)
    \/ \E b \in Block, v \in Val : Change(p, b, v)

StoreSpec == StoreInit /\ [][StoreNext]_storeVars
=============================================================================
