------------------------------ MODULE Monitor ------------------------------
(***************************************************************************)
(* What threads/synch.c promises of locks and condition variables: a lock  *)
(* has at most one owner; cond_wait() releases the lock and joins the      *)
(* queue atomically; cond_signal() picks the longest waiting thread, which *)
(* returns from cond_wait() only when it owns the lock again ("Mesa"       *)
(* style: others may own the lock in between).  Synch implements this.     *)
(***************************************************************************)
EXTENDS Naturals, Sequences

CONSTANTS Thread, NULL, Lock, Cond, lock_of

VARIABLES owner,      \* [Lock -> Thread or NULL]
          queue,      \* [Cond -> sequence of threads in cond_wait()]
          signalled   \* [Thread -> Lock or NULL]: the lock that a signalled
                      \* thread must own to return from cond_wait()

vars == <<owner, queue, signalled>>

InMonitor(t) == \/ signalled[t] # NULL
                \/ \E c \in Cond : \E i \in 1..Len(queue[c]) : queue[c][i] = t

Init == /\ owner = [l \in Lock |-> NULL]
        /\ queue = [c \in Cond |-> <<>>]
        /\ signalled = [t \in Thread |-> NULL]

Acquire(t, l) == /\ owner[l] = NULL
                 /\ ~InMonitor(t)
                 /\ owner' = [owner EXCEPT ![l] = t]
                 /\ UNCHANGED <<queue, signalled>>

Release(t, l) == /\ owner[l] = t
                 /\ ~InMonitor(t)
                 /\ owner' = [owner EXCEPT ![l] = NULL]
                 /\ UNCHANGED <<queue, signalled>>

Wait(t, c) == /\ owner[lock_of[c]] = t
              /\ ~InMonitor(t)
              /\ owner' = [owner EXCEPT ![lock_of[c]] = NULL]
              /\ queue' = [queue EXCEPT ![c] = Append(@, t)]
              /\ UNCHANGED signalled

Signal(t, c) == /\ owner[lock_of[c]] = t
                /\ ~InMonitor(t)
                /\ queue[c] # <<>>
                /\ queue' = [queue EXCEPT ![c] = Tail(@)]
                /\ signalled' = [signalled EXCEPT ![Head(queue[c])] = lock_of[c]]
                /\ UNCHANGED owner

Return(t) == LET l == signalled[t]
             IN  /\ l # NULL
                 /\ owner[l] = NULL
                 /\ owner' = [owner EXCEPT ![l] = t]
                 /\ signalled' = [signalled EXCEPT ![t] = NULL]
                 /\ UNCHANGED queue

Next == \E t \in Thread :
          \/ \E l \in Lock : Acquire(t, l) \/ Release(t, l)
          \/ \E c \in Cond : Wait(t, c) \/ Signal(t, c)
          \/ Return(t)

Spec == Init /\ [][Next]_vars
=============================================================================
