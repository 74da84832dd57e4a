------------------------------ MODULE MCSynch ------------------------------
(* Instances of Synch for TLC. *)
EXTENDS Synch, TLC

CONSTANTS l1, l2, c1

OneLock == {l1}
OneCond == {c1}
TwoLocks == {l1, l2}
LockOf == [c \in {c1} |-> l1]
AllSema == Lock \cup Thread
ClientSymmetry == Permutations(Thread \ {initial_thread, idle})
=============================================================================
