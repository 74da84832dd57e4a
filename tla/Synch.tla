------------------------------- MODULE Synch -------------------------------
(***************************************************************************)
(* Locks and condition variables (threads/synch.c) on top of semaphores    *)
(* and the scheduler.  Every thread but the idle thread runs a client that *)
(* acquires and releases locks and waits for, signals and broadcasts       *)
(* conditions in any order that the documented rules allow: it acquires    *)
(* only locks it does not hold, and releases, waits and signals only with  *)
(* the lock held.                                                          *)
(***************************************************************************)
EXTENDS Sched

CONSTANTS Lock,       \* a lock is named by the semaphore inside it
          Cond,
          lock_of,    \* [Cond -> Lock]: the lock that protects a condition
          idle,       \* the idle thread
          MaxHeld     \* bound: locks that a client holds at a time

ASSUME SynchAssumption ==
  /\ Sema = Lock \cup Thread /\ Lock \cap Thread = {}
  /\ lock_of \in [Cond -> Lock]
  /\ NULL \notin Cond
  /\ idle \in Thread /\ idle # initial_thread
  /\ MaxHeld \in Nat

VARIABLES
  holder,      \* [Lock -> Thread or NULL]: lock->holder
  cwaiters,    \* [Cond -> sequence of threads]: cond->waiters
  pc,
  held,        \* [Thread -> set of locks]: what the client may rely on
  arg,         \* [Thread -> Lock or NULL]: the lock being acquired or released
  waiting,     \* [Thread -> BOOLEAN]: in cond_wait()
  popped,      \* [Thread -> Thread or NULL]: the waiter cond_signal() popped
  bcast        \* [Thread -> Cond or NULL]: cond_broadcast()'s argument

client_vars == <<holder, cwaiters, pc, held, arg, waiting, popped, bcast>>
vars == <<sched_vars, client_vars>>

(* The semaphore in the semaphore_elem on T's stack in cond_wait(). *)
WaiterSema(t) == t

PC == {"run", "acq_down", "acq_hold", "rel_hold", "rel_up", "cw_down",
       "bcast", "sig_up", "idle"}

Goto(t, l) == pc' = [pc EXCEPT ![t] = l]
At(t, l) == Running(t) /\ pc[t] = l

(* The clients have been created, in any order, after main() started. *)
Init ==
  LET others == Thread \ {idle, initial_thread}
  IN  /\ ready_list \in {s \in [1..Cardinality(others) -> others] : NoDup(s)}
      /\ status = [t \in Thread |-> IF t = initial_thread THEN "RUNNING"
                                    ELSE IF t = idle THEN "BLOCKED" ELSE "READY"]
      /\ current = initial_thread
      /\ idle_thread = idle
      /\ thread_ticks = 0
      /\ level = [t \in Thread |-> "ON"]
      /\ asleep = [t \in Thread |-> NULL]
      /\ value = [s \in Sema |-> IF s \in Lock THEN 1 ELSE 0]
      /\ waiters = [s \in Sema |-> <<>>]
      /\ holder = [l \in Lock |-> NULL]
      /\ cwaiters = [c \in Cond |-> <<>>]
      /\ pc = [t \in Thread |-> IF t = idle THEN "idle" ELSE "run"]
      /\ held = [t \in Thread |-> {}]
      /\ arg = [t \in Thread |-> NULL]
      /\ waiting = [t \in Thread |-> FALSE]
      /\ popped = [t \in Thread |-> NULL]
      /\ bcast = [t \in Thread |-> NULL]

-----------------------------------------------------------------------------
(* Locks *)

lock_acquire(t) ==
  /\ At(t, "run")
  /\ Cardinality(held[t]) < MaxHeld
  /\ \E l \in Lock \ held[t] : arg' = [arg EXCEPT ![t] = l]
  /\ Goto(t, "acq_down")
  /\ UNCHANGED <<sched_vars, holder, cwaiters, held, waiting, popped, bcast>>

AcquireDown(t) ==
  /\ pc[t] = "acq_down"
  /\ InSemaDown(t, arg[t])
  /\ \/ sema_down_wait(t, arg[t]) /\ UNCHANGED <<pc, waiting>>
     \/ /\ sema_down_take(t, arg[t])
        /\ waiting' = [waiting EXCEPT ![t] = FALSE]
        /\ Goto(t, "acq_hold")
  /\ UNCHANGED <<holder, cwaiters, held, arg, popped, bcast>>

AcquireHold(t) ==
  /\ At(t, "acq_hold")
  /\ holder' = [holder EXCEPT ![arg[t]] = t]
  /\ held' = [held EXCEPT ![t] = @ \cup {arg[t]}]
  /\ arg' = [arg EXCEPT ![t] = NULL]
  /\ Goto(t, "run")
  /\ UNCHANGED <<sched_vars, cwaiters, waiting, popped, bcast>>

(* Mutant: the result of sema_try_down() is ignored. *)
lock_try_acquire_always(t) ==
  /\ At(t, "run")
  /\ Cardinality(held[t]) < MaxHeld
  /\ \E l \in Lock \ held[t] :
       sema_try_down(l) /\ arg' = [arg EXCEPT ![t] = l]
  /\ Goto(t, "acq_hold")
  /\ UNCHANGED <<holder, cwaiters, held, waiting, popped, bcast>>

lock_try_acquire(t) ==
  /\ At(t, "run")
  /\ Cardinality(held[t]) < MaxHeld
  /\ \E l \in Lock \ held[t] :
       /\ sema_try_down(l)
       /\ IF value[l] > 0
          THEN arg' = [arg EXCEPT ![t] = l] /\ Goto(t, "acq_hold")
          ELSE UNCHANGED <<arg, pc>>
  /\ UNCHANGED <<holder, cwaiters, held, waiting, popped, bcast>>

lock_release(t) ==
  /\ At(t, "run")
  /\ \E l \in held[t] : arg' = [arg EXCEPT ![t] = l]
  /\ Goto(t, "rel_hold")
  /\ UNCHANGED <<sched_vars, holder, cwaiters, held, waiting, popped, bcast>>

ReleaseHold(t) ==
  /\ At(t, "rel_hold")
  /\ holder' = [holder EXCEPT ![arg[t]] = NULL]
  /\ held' = [held EXCEPT ![t] = @ \ {arg[t]}]
  /\ Goto(t, "rel_up")
  /\ UNCHANGED <<sched_vars, cwaiters, arg, waiting, popped, bcast>>

ReleaseUp(t) ==
  /\ At(t, "rel_up")
  /\ sema_up(arg[t])
  /\ Goto(t, IF waiting[t] THEN "cw_down" ELSE "run")
  /\ arg' = [arg EXCEPT ![t] = IF waiting[t] THEN @ ELSE NULL]
  /\ UNCHANGED <<holder, cwaiters, held, waiting, popped, bcast>>

-----------------------------------------------------------------------------
(* Condition variables *)

(* Mutant: pushed at the front of the waiters. *)
cond_wait_front(t) ==
  /\ At(t, "run")
  /\ \E c \in Cond :
       /\ lock_of[c] \in held[t]
       /\ cwaiters' = [cwaiters EXCEPT ![c] = <<t>> \o @]
       /\ arg' = [arg EXCEPT ![t] = lock_of[c]]
  /\ value' = [value EXCEPT ![WaiterSema(t)] = 0]
  /\ waiters' = [waiters EXCEPT ![WaiterSema(t)] = <<>>]
  /\ waiting' = [waiting EXCEPT ![t] = TRUE]
  /\ Goto(t, "rel_hold")
  /\ UNCHANGED <<status, ready_list, current, idle_thread, thread_ticks,
                 level, asleep, holder, held, popped, bcast>>

(* Initializes the waiter's semaphore, queues it, and goes on to release   *)
(* the lock, sleep and reacquire the lock.                                 *)
cond_wait(t) ==
  /\ At(t, "run")
  /\ \E c \in Cond :
       /\ lock_of[c] \in held[t]
       /\ cwaiters' = [cwaiters EXCEPT ![c] = Append(@, t)]
       /\ arg' = [arg EXCEPT ![t] = lock_of[c]]
  /\ value' = [value EXCEPT ![WaiterSema(t)] = 0]
  /\ waiters' = [waiters EXCEPT ![WaiterSema(t)] = <<>>]
  /\ waiting' = [waiting EXCEPT ![t] = TRUE]
  /\ Goto(t, "rel_hold")
  /\ UNCHANGED <<status, ready_list, current, idle_thread, thread_ticks,
                 level, asleep, holder, held, popped, bcast>>

WaitDown(t) ==
  /\ pc[t] = "cw_down"
  /\ InSemaDown(t, WaiterSema(t))
  /\ \/ sema_down_wait(t, WaiterSema(t)) /\ UNCHANGED pc
     \/ sema_down_take(t, WaiterSema(t)) /\ Goto(t, "acq_down")
  /\ UNCHANGED <<holder, cwaiters, held, arg, waiting, popped, bcast>>

(* Mutant: the waiter is read with list_front() and stays in the list. *)
PopWaiter_stays(t, c) ==
  /\ cwaiters[c] # <<>>
  /\ popped' = [popped EXCEPT ![t] = Head(cwaiters[c])]
  /\ Goto(t, "sig_up")
  /\ UNCHANGED cwaiters

PopWaiter(t, c) ==
  /\ cwaiters[c] # <<>>
  /\ popped' = [popped EXCEPT ![t] = Head(cwaiters[c])]
  /\ cwaiters' = [cwaiters EXCEPT ![c] = Tail(@)]
  /\ Goto(t, "sig_up")

(* With no waiter it does nothing. *)
cond_signal(t) ==
  /\ At(t, "run")
  /\ \E c \in Cond : lock_of[c] \in held[t] /\ PopWaiter(t, c)
  /\ UNCHANGED <<sched_vars, holder, held, arg, waiting, bcast>>

SignalUp(t) ==
  /\ At(t, "sig_up")
  /\ sema_up(WaiterSema(popped[t]))
  /\ popped' = [popped EXCEPT ![t] = NULL]
  /\ Goto(t, IF bcast[t] = NULL THEN "run" ELSE "bcast")
  /\ UNCHANGED <<holder, cwaiters, held, arg, waiting, bcast>>

cond_broadcast(t) ==
  /\ At(t, "run")
  /\ \E c \in Cond : /\ lock_of[c] \in held[t]
                     /\ bcast' = [bcast EXCEPT ![t] = c]
  /\ Goto(t, "bcast")
  /\ UNCHANGED <<sched_vars, holder, cwaiters, held, arg, waiting, popped>>

BroadcastLoop(t) ==
  /\ At(t, "bcast")
  /\ \/ PopWaiter(t, bcast[t]) /\ UNCHANGED bcast
     \/ /\ cwaiters[bcast[t]] = <<>>
        /\ bcast' = [bcast EXCEPT ![t] = NULL]
        /\ Goto(t, "run")
        /\ UNCHANGED <<cwaiters, popped>>
  /\ UNCHANGED <<sched_vars, holder, held, arg, waiting>>

-----------------------------------------------------------------------------
(* The loop of idle(), and the timer *)

IdleBlock ==
  /\ At(idle, "idle")
  /\ thread_block
  /\ UNCHANGED <<idle_thread, level, asleep, value, waiters, client_vars>>

TimerInterrupt == thread_tick /\ UNCHANGED client_vars

ThreadStep(t) ==
  \/ lock_acquire(t) \/ AcquireDown(t) \/ AcquireHold(t) \/ lock_try_acquire(t)
  \/ lock_release(t) \/ ReleaseHold(t) \/ ReleaseUp(t)
  \/ cond_wait(t) \/ WaitDown(t)
  \/ cond_signal(t) \/ SignalUp(t) \/ cond_broadcast(t) \/ BroadcastLoop(t)

Next == (\E t \in Thread : ThreadStep(t)) \/ IdleBlock \/ TimerInterrupt

Spec == Init /\ [][Next]_vars

(* A pending timer interrupt is delivered once interrupts are on, and a    *)
(* time slice is long enough for a scheduled thread to get something done: *)
(* a thread that runs again and again takes steps.                         *)
FairSpec == /\ Spec
            /\ SF_vars(TimerInterrupt)
            /\ WF_vars(IdleBlock)
            /\ \A t \in Thread : SF_vars(ThreadStep(t))

-----------------------------------------------------------------------------
(* Properties *)

TypeOK ==
  /\ SchedTypeOK
  /\ holder \in [Lock -> Thread \cup {NULL}]
  /\ cwaiters \in [Cond -> Seq(Thread)]
  /\ pc \in [Thread -> PC]
  /\ held \in [Thread -> SUBSET Lock]
  /\ arg \in [Thread -> Lock \cup {NULL}]
  /\ waiting \in [Thread -> BOOLEAN]
  /\ popped \in [Thread -> Thread \cup {NULL}]
  /\ bcast \in [Thread -> Cond \cup {NULL}]

(* Mutual exclusion, and the assertions on lock_held_by_current_thread()   *)
(* in lock_acquire(), lock_release(), cond_wait() and cond_signal(): the   *)
(* client that acquired a lock and has not released it is its holder, and  *)
(* so the only one.                                                        *)
HolderExact == \A t \in Thread, l \in Lock : l \in held[t] <=> holder[l] = t

(* The places in the queues where T's semaphore_elem is, and the threads   *)
(* that have popped it and not yet raised its semaphore.                   *)
Queued(t) == {p \in Cond \X (1..Cardinality(Thread)) :
                p[2] <= Len(cwaiters[p[1]]) /\ cwaiters[p[1]][p[2]] = t}
Poppers(t) == {u \in Thread : popped[u] = t}

(* The semaphore_elem on a waiter's stack is in scope for as long as       *)
(* cond_signal() can reach it: every queued or popped waiter is inside     *)
(* cond_wait(), has not yet taken its wake-up, and is in one place only.   *)
WaiterInScope ==
  \A t \in Thread :
    LET places == Cardinality(Queued(t)) + Cardinality(Poppers(t))
    IN  /\ places + value[WaiterSema(t)] <= 1
        /\ places > 0 => waiting[t] /\ pc[t] \in {"rel_hold", "rel_up", "cw_down"}
        /\ pc[t] = "cw_down" => places + value[WaiterSema(t)] = 1
        /\ Poppers(t) # {} => pc[t] = "cw_down"

(* What lock_acquire(), lock_release(), cond_wait() and cond_signal()      *)
(* assert and rely on: a lock has one holder, which knows it, and a waiter *)
(* is signalled at most once, while it waits.                              *)
LocksExact == TypeOK /\ HolderExact /\ WaiterInScope

Owns(t, l) == l \in held[t] \/ (arg[t] = l /\ pc[t] \in {"acq_hold", "rel_up"})
InQueue(t) == \E c \in Cond : t \in InList(cwaiters[c])

(* What the abstract monitor sees: who has a lock from the moment          *)
(* sema_down() returns until sema_up(); the waiters of a condition, save   *)
(* the one that still has the lock to release, which came last; and the    *)
(* lock that a waiter needs once it has been signalled.                    *)
owner == [l \in Lock |-> IF \E t \in Thread : Owns(t, l)
                         THEN CHOOSE t \in Thread : Owns(t, l) ELSE NULL]
queue == [c \in Cond |->
            LET n == Len(cwaiters[c])
            IN  IF n > 0 /\ pc[cwaiters[c][n]] # "cw_down"
                THEN SubSeq(cwaiters[c], 1, n - 1) ELSE cwaiters[c]]
signalled == [t \in Thread |-> IF waiting[t] /\ ~InQueue(t) THEN arg[t] ELSE NULL]

Abstract == INSTANCE Monitor

(* Locks and condition variables behave as one-owner locks and a monitor   *)
(* with a FIFO queue: in particular cond_wait() "atomically releases LOCK  *)
(* and waits", although it is four separate, preemptible calls.            *)
ImplementsMonitor == Abstract!Spec

(* A signalled thread gets out of cond_wait()'s sema_down(), whatever the  *)
(* other threads do.                                                       *)
SignalledReturns ==
  \A t \in Thread : (pc[t] = "cw_down" /\ value[WaiterSema(t)] > 0)
                      ~> pc[t] # "cw_down"

(* A free lock that some thread sleeps on is taken: lock_release() between *)
(* a waiter's check and its sleep is not missed.                           *)
FreeLockTaken ==
  \A l \in Lock : (value[l] > 0 /\ \E t \in Thread : asleep[t] = l) ~> value[l] = 0
=============================================================================
