------------------------------- MODULE Sched -------------------------------
(***************************************************************************)
(* The round-robin scheduler of threads/thread.c, the external-interrupt   *)
(* path of threads/interrupt.c that preempts the running thread, and the   *)
(* semaphores of threads/synch.c, as operators over the state that they    *)
(* share.  Components that run on top (Threads, Synch, IntQ) extend this   *)
(* module, give every thread a program, and combine these operators into   *)
(* their actions.                                                          *)
(*                                                                         *)
(* Pintos is a uniprocessor kernel.  Code that runs with interrupts off is *)
(* atomic until it switches threads, so every section between              *)
(* intr_disable() and the restoring intr_set_level() is one step; a step   *)
(* that calls schedule() ends with the next thread running.  Everywhere    *)
(* else the timer interrupt may take the CPU away between two steps.       *)
(***************************************************************************)
EXTENDS Integers, Sequences, FiniteSets

CONSTANTS Thread,          \* pages that can hold a struct thread
          NULL,
          initial_thread,  \* the thread running main(), not palloc'ed
          TIME_SLICE,      \* timer ticks given to each thread
          Sema             \* all semaphores

ASSUME ThreadAssumption == /\ IsFiniteSet(Thread)
                           /\ initial_thread \in Thread
                           /\ NULL \notin Thread
                           /\ NULL \notin Sema
ASSUME TimeSliceAssumption == TIME_SLICE \in Nat \ {0}

VARIABLES
  status,        \* [Thread -> Status]: t->status, "FREE" when the page is free
  ready_list,    \* sequence of threads linked through elem
  current,       \* running_thread(): the thread whose stack the CPU is on
  idle_thread,   \* NULL until idle() has run for the first time
  thread_ticks,  \* ticks since the last switch
  level,         \* [Thread -> Level]: what intr_get_level() is in t's own
                 \* code, the old_level every primitive restores
  asleep,        \* [Thread -> Sema or NULL]: the semaphore whose sema_down()
                 \* loop t is in; interrupts are off inside the loop
  value,         \* [Sema -> Nat]
  waiters        \* [Sema -> sequence of threads linked through elem]

sched_vars == <<status, ready_list, current, idle_thread, thread_ticks,
                level, asleep, value, waiters>>

Status == {"FREE", "BLOCKED", "READY", "RUNNING", "DYING"}
Level == {"ON", "OFF"}

(* A list linked through elements embedded in its members: they are a set, *)
(* and the links make sense only if none occurs twice.                     *)
InList(l) == {l[i] : i \in 1..Len(l)}
NoDup(l) == \A i, j \in 1..Len(l) : l[i] = l[j] => i = j

(* intr_get_level() of the CPU: can an interrupt be delivered now?         *)
InterruptsOn == level[current] = "ON" /\ asleep[current] = NULL

(* T is on the CPU, executing its own code and not inside sema_down(). *)
Running(t) == current = t /\ asleep[t] = NULL

-----------------------------------------------------------------------------
(* Scheduling: thread.c *)

next_thread_to_run(rl) == IF rl = <<>> THEN idle_thread ELSE Head(rl)

(* Mutant: the status of the next thread is not set. *)
thread_schedule_tail_unmarked(st, next) ==
  [t \in Thread |-> IF t = current /\ st[t] = "DYING" /\ t # initial_thread
                    THEN "FREE" ELSE st[t]]

(* Mutant: the page of any thread switched from is freed. *)
thread_schedule_tail_frees(st, next) ==
  [t \in Thread |-> IF t = next THEN "RUNNING"
                    ELSE IF t = current /\ t # initial_thread THEN "FREE"
                    ELSE st[t]]

(* Marks NEXT running and, when the thread switched from is dying, frees   *)
(* its page; the initial thread's page was not obtained from palloc.       *)
thread_schedule_tail(st, next) ==
  [t \in Thread |->
     IF t = next THEN "RUNNING"
     ELSE IF t = current /\ st[t] = "DYING" /\ t # initial_thread THEN "FREE"
     ELSE st[t]]

(* ST and RL are the statuses and the ready list as the caller left them.  *)
schedule(st, rl) ==
  LET next == next_thread_to_run(rl)
  IN  /\ current' = next
      /\ ready_list' = IF rl = <<>> THEN rl ELSE Tail(rl)
      /\ status' = thread_schedule_tail(st, next)
      /\ thread_ticks' = 0

thread_block ==
  schedule([status EXCEPT ![current] = "BLOCKED"], ready_list)

(* Mutant: the idle thread is put in the ready list too. *)
thread_yield_idle ==
  schedule([status EXCEPT ![current] = "READY"], Append(ready_list, current))

(* Mutant: pushed at the front of the ready list. *)
thread_yield_front ==
  schedule([status EXCEPT ![current] = "READY"],
           IF current # idle_thread THEN <<current>> \o ready_list
                                    ELSE ready_list)

thread_yield ==
  schedule([status EXCEPT ![current] = "READY"],
           IF current # idle_thread THEN Append(ready_list, current)
                                    ELSE ready_list)

(* thread_unblock() for threads that ASSERT (t->status == THREAD_BLOCKED)  *)
(* accepts; that the assertion holds is the invariant WaitersBlocked.      *)
thread_unblock(t) ==
  /\ ready_list' = Append(ready_list, t)
  /\ status' = [status EXCEPT ![t] = "READY"]

(* Mutant: one tick too many. *)
thread_tick_late ==
  /\ InterruptsOn
  /\ IF thread_ticks + 1 > TIME_SLICE
     THEN thread_yield
     ELSE /\ thread_ticks' = thread_ticks + 1
          /\ UNCHANGED <<status, ready_list, current>>
  /\ UNCHANGED <<idle_thread, level, asleep, value, waiters>>

(* intr_handler() for the timer: thread_tick() and the yield on return.    *)
thread_tick ==
  /\ InterruptsOn
  /\ IF thread_ticks + 1 >= TIME_SLICE
     THEN thread_yield
     ELSE /\ thread_ticks' = thread_ticks + 1
          /\ UNCHANGED <<status, ready_list, current>>
  /\ UNCHANGED <<idle_thread, level, asleep, value, waiters>>

-----------------------------------------------------------------------------
(* Semaphores: synch.c *)

(* One pass through the body of sema_down()'s loop: queue and sleep. *)
sema_down_wait(t, s) ==
  /\ value[s] = 0
  /\ waiters' = [waiters EXCEPT ![s] = Append(@, t)]
  /\ asleep' = [asleep EXCEPT ![t] = s]
  /\ thread_block
  /\ UNCHANGED <<idle_thread, level, value>>

(* The loop condition fails: take one unit and restore the old level. *)
sema_down_take(t, s) ==
  /\ value[s] > 0
  /\ value' = [value EXCEPT ![s] = @ - 1]
  /\ asleep' = [asleep EXCEPT ![t] = NULL]
  /\ UNCHANGED <<status, ready_list, current, idle_thread, thread_ticks,
                 level, waiters>>

(* T enters sema_down(), or continues in it after being woken. *)
InSemaDown(t, s) == current = t /\ asleep[t] \in {NULL, s}

sema_try_down(s) ==
  /\ value' = IF value[s] > 0 THEN [value EXCEPT ![s] = @ - 1] ELSE value
  /\ UNCHANGED <<status, ready_list, current, idle_thread, thread_ticks,
                 level, asleep, waiters>>

(* Mutant: the waiter is read with list_front() and stays in the list. *)
sema_up_front(s) ==
  /\ value' = [value EXCEPT ![s] = @ + 1]
  /\ IF waiters[s] # <<>> THEN thread_unblock(Head(waiters[s]))
                          ELSE UNCHANGED <<status, ready_list>>
  /\ UNCHANGED <<waiters, current, idle_thread, thread_ticks, level, asleep>>

(* Mutant: wakes a waiter only when the value was 0. *)
sema_up_at_zero(s) ==
  /\ value' = [value EXCEPT ![s] = @ + 1]
  /\ IF waiters[s] # <<>> /\ value[s] = 0
     THEN /\ thread_unblock(Head(waiters[s]))
          /\ waiters' = [waiters EXCEPT ![s] = Tail(@)]
     ELSE UNCHANGED <<status, ready_list, waiters>>
  /\ UNCHANGED <<current, idle_thread, thread_ticks, level, asleep>>

(* Mutant: does not unblock anyone. *)
sema_up_silent(s) ==
  /\ value' = [value EXCEPT ![s] = @ + 1]
  /\ UNCHANGED <<status, ready_list, waiters, current, idle_thread, thread_ticks,
                 level, asleep>>

(* Unblocks the first waiter, if any; never preempts the caller. *)
sema_up(s) ==
  /\ value' = [value EXCEPT ![s] = @ + 1]
  /\ IF waiters[s] # <<>>
     THEN /\ thread_unblock(Head(waiters[s]))
          /\ waiters' = [waiters EXCEPT ![s] = Tail(@)]
     ELSE UNCHANGED <<status, ready_list, waiters>>
  /\ UNCHANGED <<current, idle_thread, thread_ticks, level, asleep>>

-----------------------------------------------------------------------------
(* Properties of the shared state, for every component that runs on it. *)

SchedTypeOK ==
  /\ status \in [Thread -> Status]
  /\ ready_list \in Seq(Thread)
  /\ current \in Thread
  /\ idle_thread \in Thread \cup {NULL}
  /\ thread_ticks \in 0..TIME_SLICE - 1
  /\ level \in [Thread -> Level]
  /\ asleep \in [Thread -> Sema \cup {NULL}]
  /\ value \in [Sema -> Nat]
  /\ waiters \in [Sema -> Seq(Thread)]

(* thread_current()'s assertion: the CPU is on the stack of the one thread *)
(* whose status is THREAD_RUNNING.                                         *)
OneRunning == \A t \in Thread : status[t] = "RUNNING" <=> t = current

(* The run queue holds exactly the READY threads, each once, save for the  *)
(* idle thread, which never appears in it once it has announced itself.    *)
ReadyListExact ==
  /\ NoDup(ready_list)
  /\ InList(ready_list) = {t \in Thread : status[t] = "READY"
                                          /\ t # idle_thread}

(* A waiter list holds exactly the threads blocked in that semaphore's     *)
(* sema_down(), each once: so thread_unblock()'s assertion holds for the   *)
(* thread sema_up() pops, and elem is never linked into two lists.         *)
WaitersBlocked ==
  \A s \in Sema :
    /\ NoDup(waiters[s])
    /\ InList(waiters[s]) = {t \in Thread : status[t] = "BLOCKED"
                                            /\ asleep[t] = s}

(* Threads that sema_up() has woken and that have not yet looked at the    *)
(* value again.                                                            *)
Woken(s) == {t \in Thread : asleep[t] = s /\ status[t] # "BLOCKED"}

(* No wake-up is lost: while threads wait on a semaphore, every unit of    *)
(* its value has a woken thread on its way to take it, even when another   *)
(* thread steals a unit between the wake-up and the woken thread's turn.   *)
NoLostWakeup ==
  \A s \in Sema : waiters[s] # <<>> => value[s] <= Cardinality(Woken(s))

(* The inductive invariant of the shared state.  The last conjunct says    *)
(* that the idle thread never sits in a waiter list, so that schedule()    *)
(* may run it without unlinking it.                                        *)
SchedInv ==
  /\ SchedTypeOK
  /\ OneRunning
  /\ ReadyListExact
  /\ WaitersBlocked
  /\ NoLostWakeup
  /\ idle_thread # NULL => asleep[idle_thread] = NULL

(* schedule() has a thread to switch to. *)
CanSwitch == ready_list # <<>> \/ idle_thread # NULL
=============================================================================
