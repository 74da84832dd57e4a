------------------------------ MODULE Threads ------------------------------
(***************************************************************************)
(* The kernel's thread system (threads/thread.c): starting it with         *)
(* thread_start(), the idle thread, creating and destroying threads, tid   *)
(* allocation under tid_lock, and threads that synchronise through         *)
(* semaphores, in the face of timer preemption at every point where        *)
(* interrupts are on.                                                      *)
(*                                                                         *)
(* A thread with pc "run" executes some kernel code that may call any of   *)
(* the operations below.  palloc_get_page() is one step here: Palloc       *)
(* models it.                                                              *)
(***************************************************************************)
EXTENDS Sched

CONSTANTS tid_lock,      \* the semaphore inside tid_lock
          idle_started,  \* the semaphore on thread_start()'s stack
          MaxTid,        \* bound: no thread is created beyond this next_tid
          MaxValue       \* bound: no sema_up() beyond this value

ASSUME SemaAssumption == /\ tid_lock \in Sema
                         /\ idle_started \in Sema
                         /\ tid_lock # idle_started
ASSUME BoundsAssumption == MaxTid \in Nat /\ MaxValue \in Nat
(* thread_start() ignores thread_create()'s result: it relies on a free    *)
(* page for the idle thread.                                               *)
ASSUME PagesAssumption == \E p \in Thread : p # initial_thread

VARIABLES
  all_list,    \* threads linked through allelem (a set: its order is unused)
  pc,          \* [Thread -> PC]
  new,         \* [Thread -> Thread or NULL]: thread_create()'s local t
  tid,         \* [Thread -> Nat]: t->tid, 0 when not assigned
  reg,         \* [Thread -> Nat]: allocate_tid()'s local tid
  next_tid,
  holder       \* tid_lock.holder

vars == <<sched_vars, all_list, pc, new, tid, reg, next_tid, holder>>
local_vars == <<all_list, new, tid, reg, next_tid, holder>>

ClientSema == Sema \ {tid_lock, idle_started}

CreatePC == {"palloc", "all_list", "tid_down", "tid_hold", "tid_read",
             "tid_write", "tid_rel", "tid_up", "unblock"}
IdlePC == {"idle_set", "idle_up", "idle_block", "idle_hlt"}
PC == CreatePC \cup IdlePC \cup {"none", "run", "start_enable", "start_down"}

Goto(t, l) == pc' = [pc EXCEPT ![t] = l]

(* T, on the CPU and outside sema_down(), is about to execute L. *)
At(t, l) == Running(t) /\ pc[t] = l

(* thread_init() has made the code that is running the initial thread and  *)
(* given it tid 1; main() is about to call thread_start().                 *)
Init ==
  /\ status = [t \in Thread |-> IF t = initial_thread THEN "RUNNING" ELSE "FREE"]
  /\ ready_list = <<>>
  /\ current = initial_thread
  /\ idle_thread = NULL
  /\ thread_ticks = 0
  /\ level = [t \in Thread |-> IF t = initial_thread THEN "OFF" ELSE "ON"]
  /\ asleep = [t \in Thread |-> NULL]
  /\ value = [s \in Sema |-> IF s = tid_lock THEN 1 ELSE 0]
  /\ waiters = [s \in Sema |-> <<>>]
  /\ all_list = {initial_thread}
  /\ pc = [t \in Thread |-> IF t = initial_thread THEN "palloc" ELSE "none"]
  /\ new = [t \in Thread |-> NULL]
  /\ tid = [t \in Thread |-> IF t = initial_thread THEN 1 ELSE 0]
  /\ reg = [t \in Thread |-> 0]
  /\ next_tid = 2
  /\ holder = NULL

-----------------------------------------------------------------------------
(* thread_start() and idle() *)

StartEnable(t) ==
  /\ At(t, "start_enable")
  /\ level' = [level EXCEPT ![t] = "ON"]
  /\ Goto(t, "start_down")
  /\ UNCHANGED <<status, ready_list, current, idle_thread, thread_ticks,
                 asleep, value, waiters, local_vars>>

(* Mutant: thread_start() does not wait for the idle thread. *)
StartDown_nowait(t) ==
  /\ At(t, "start_down")
  /\ Goto(t, "run")
  /\ UNCHANGED <<sched_vars, local_vars>>

StartDown(t) ==
  /\ InSemaDown(t, idle_started)
  /\ pc[t] = "start_down"
  /\ \/ sema_down_wait(t, idle_started) /\ UNCHANGED pc
     \/ sema_down_take(t, idle_started) /\ Goto(t, "run")
  /\ UNCHANGED local_vars

(* Mutant: idle() does not set idle_thread. *)
IdleSet_forgets(t) ==
  /\ At(t, "idle_set")
  /\ Goto(t, "idle_up")
  /\ UNCHANGED <<sched_vars, local_vars>>

IdleSet(t) ==
  /\ At(t, "idle_set")
  /\ idle_thread' = t
  /\ Goto(t, "idle_up")
  /\ UNCHANGED <<status, ready_list, current, thread_ticks, level, asleep,
                 value, waiters, local_vars>>

(* Mutant: idle() does not up idle_started. *)
IdleUp_forgets(t) ==
  /\ At(t, "idle_up")
  /\ Goto(t, "idle_block")
  /\ UNCHANGED <<sched_vars, local_vars>>

IdleUp(t) ==
  /\ At(t, "idle_up")
  /\ sema_up(idle_started)
  /\ Goto(t, "idle_block")
  /\ UNCHANGED local_vars

(* intr_disable (); thread_block (): when it runs again, `sti; hlt'. *)
IdleBlock(t) ==
  /\ At(t, "idle_block")
  /\ thread_block
  /\ Goto(t, "idle_hlt")
  /\ UNCHANGED <<idle_thread, level, asleep, value, waiters, local_vars>>

(* An interrupt ends the `hlt' of the idle thread that it interrupts. *)
WakeFromHlt ==
  pc' = IF pc[current] = "idle_hlt" THEN [pc EXCEPT ![current] = "idle_block"]
                                    ELSE pc

-----------------------------------------------------------------------------
(* thread_create() *)

(* A client calls thread_create(). *)
CallCreate(t) ==
  /\ At(t, "run")
  /\ next_tid <= MaxTid
  /\ Goto(t, "palloc")
  /\ UNCHANGED <<sched_vars, local_vars>>

(* palloc_get_page() and init_thread()'s initialization of the page. *)
PallocPage(t) ==
  /\ At(t, "palloc")
  /\ \E p \in Thread :
       /\ status[p] = "FREE"
       /\ status' = [status EXCEPT ![p] = "BLOCKED"]
       /\ new' = [new EXCEPT ![t] = p]
  /\ Goto(t, "all_list")
  /\ UNCHANGED <<ready_list, current, idle_thread, thread_ticks, level, asleep,
                 value, waiters, all_list, tid, reg, next_tid, holder>>

(* No page: thread_create() returns TID_ERROR. *)
PallocFails(t) ==
  /\ At(t, "palloc")
  /\ \A p \in Thread : status[p] # "FREE"
  /\ Goto(t, "run")
  /\ UNCHANGED <<sched_vars, local_vars>>

PushAllList(t) ==
  /\ At(t, "all_list")
  /\ all_list' = all_list \cup {new[t]}
  /\ Goto(t, "tid_down")
  /\ UNCHANGED <<sched_vars, new, tid, reg, next_tid, holder>>

(* Mutant: allocate_tid() does not take the lock. *)
TidDown_unlocked(t) ==
  /\ At(t, "tid_down")
  /\ Goto(t, "tid_hold")
  /\ UNCHANGED <<sched_vars, local_vars>>

(* allocate_tid(): lock_acquire (&tid_lock) *)
TidDown(t) ==
  /\ InSemaDown(t, tid_lock)
  /\ pc[t] = "tid_down"
  /\ \/ sema_down_wait(t, tid_lock) /\ UNCHANGED pc
     \/ sema_down_take(t, tid_lock) /\ Goto(t, "tid_hold")
  /\ UNCHANGED local_vars

TidHold(t) ==
  /\ At(t, "tid_hold")
  /\ holder' = t
  /\ Goto(t, "tid_read")
  /\ UNCHANGED <<sched_vars, all_list, new, tid, reg, next_tid>>

(* tid = next_tid++ is a load and a store. *)
TidRead(t) ==
  /\ At(t, "tid_read")
  /\ reg' = [reg EXCEPT ![t] = next_tid]
  /\ Goto(t, "tid_write")
  /\ UNCHANGED <<sched_vars, all_list, new, tid, next_tid, holder>>

TidWrite(t) ==
  /\ At(t, "tid_write")
  /\ next_tid' = reg[t] + 1
  /\ Goto(t, "tid_rel")
  /\ UNCHANGED <<sched_vars, all_list, new, tid, reg, holder>>

(* lock_release (&tid_lock) *)
TidRel(t) ==
  /\ At(t, "tid_rel")
  /\ holder' = NULL
  /\ Goto(t, "tid_up")
  /\ UNCHANGED <<sched_vars, all_list, new, tid, reg, next_tid>>

TidUp(t) ==
  /\ At(t, "tid_up")
  /\ sema_up(tid_lock)
  /\ Goto(t, "unblock")
  /\ UNCHANGED local_vars

(* Assigns t->tid, builds the stack frames and unblocks the new thread,    *)
(* which starts in kernel_thread() by enabling interrupts.                 *)
CreateUnblock(t) ==
  LET boot == level[t] = "OFF"
      fn == IF boot THEN "idle_set" ELSE "run"
      return == IF boot THEN "start_enable" ELSE "run"
  IN  /\ At(t, "unblock")
      /\ thread_unblock(new[t])
      /\ tid' = [tid EXCEPT ![new[t]] = reg[t]]
      /\ reg' = [reg EXCEPT ![t] = 0]
      /\ new' = [new EXCEPT ![t] = NULL]
      /\ pc' = [pc EXCEPT ![new[t]] = fn, ![t] = return]
      /\ UNCHANGED <<current, idle_thread, thread_ticks, level, asleep, value,
                     waiters, all_list, next_tid, holder>>

-----------------------------------------------------------------------------
(* Operations of a running thread *)

Yield(t) ==
  /\ At(t, "run")
  /\ thread_yield
  /\ UNCHANGED <<idle_thread, level, asleep, value, waiters, pc, local_vars>>

(* Mutant: thread_exit() leaves the thread in all_list. *)
Exit_stays(t) ==
  /\ At(t, "run")
  /\ schedule([status EXCEPT ![t] = "DYING"], ready_list)
  /\ tid' = [tid EXCEPT ![t] = IF t = initial_thread THEN @ ELSE 0]
  /\ Goto(t, "none")
  /\ UNCHANGED <<idle_thread, level, asleep, value, waiters, all_list, new, reg,
                 next_tid, holder>>

(* thread_exit(): the thread switched to frees the page. *)
Exit(t) ==
  /\ At(t, "run")
  /\ all_list' = all_list \ {t}
  /\ schedule([status EXCEPT ![t] = "DYING"], ready_list)
  /\ tid' = [tid EXCEPT ![t] = IF t = initial_thread THEN @ ELSE 0]
  /\ Goto(t, "none")
  /\ UNCHANGED <<idle_thread, level, asleep, value, waiters, new, reg, next_tid,
                 holder>>

ClientDown(t) ==
  /\ pc[t] = "run"
  /\ \E s \in ClientSema :
       /\ InSemaDown(t, s)
       /\ sema_down_wait(t, s) \/ sema_down_take(t, s)
  /\ UNCHANGED <<pc, local_vars>>

ClientTryDown(t) ==
  /\ At(t, "run")
  /\ \E s \in ClientSema : sema_try_down(s)
  /\ UNCHANGED <<pc, local_vars>>

ClientUp(t) ==
  /\ At(t, "run")
  /\ \E s \in ClientSema : value[s] < MaxValue /\ sema_up(s)
  /\ UNCHANGED <<pc, local_vars>>

-----------------------------------------------------------------------------
(* External interrupts *)

TimerInterrupt == thread_tick /\ WakeFromHlt /\ UNCHANGED local_vars

(* A device's handler ups a semaphore some thread may be waiting for. *)
DeviceInterrupt ==
  /\ InterruptsOn
  /\ \E s \in ClientSema : value[s] < MaxValue /\ sema_up(s)
  /\ WakeFromHlt
  /\ UNCHANGED local_vars

ThreadStep(t) ==
  \/ StartEnable(t) \/ StartDown(t)
  \/ IdleSet(t) \/ IdleUp(t) \/ IdleBlock(t)
  \/ CallCreate(t) \/ PallocPage(t) \/ PallocFails(t) \/ PushAllList(t)
  \/ TidDown(t) \/ TidHold(t) \/ TidRead(t) \/ TidWrite(t) \/ TidRel(t)
  \/ TidUp(t) \/ CreateUnblock(t)
  \/ Yield(t) \/ Exit(t)
  \/ ClientDown(t) \/ ClientTryDown(t) \/ ClientUp(t)

Next == (\E t \in Thread : ThreadStep(t)) \/ TimerInterrupt \/ DeviceInterrupt

Spec == Init /\ [][Next]_vars

(* The hardware keeps a timer interrupt pending until interrupts are on,   *)
(* so the timer is strongly fair; the CPU executes the running thread.     *)
FairSpec == /\ Spec
            /\ SF_vars(TimerInterrupt)
            /\ WF_vars(\E t \in Thread : ThreadStep(t))

-----------------------------------------------------------------------------
(* Properties *)

TypeOK ==
  /\ SchedTypeOK
  /\ all_list \in SUBSET Thread
  /\ pc \in [Thread -> PC]
  /\ new \in [Thread -> Thread \cup {NULL}]
  /\ tid \in [Thread -> Nat]
  /\ reg \in [Thread -> Nat]
  /\ next_tid \in Nat
  /\ holder \in Thread \cup {NULL}

(* thread_foreach() visits only pages that hold a thread: a thread leaves  *)
(* all_list before its page can be freed and reused, and the pages of      *)
(* threads being created are each owned by one creator.                    *)
AllListLive ==
  /\ \A t \in all_list : status[t] \notin {"FREE", "DYING"}
  /\ \A t, u \in Thread : new[t] # NULL =>
       /\ status[new[t]] = "BLOCKED" /\ asleep[new[t]] = NULL
       /\ new[t] = new[u] => t = u

(* tid_lock makes next_tid++ safe: between allocate_tid()'s load and store *)
(* nobody else touches next_tid, and no two live threads share a tid, nor  *)
(* will a later one get a tid in use.                                      *)
UniqueTids ==
  /\ \A t, u \in Thread : tid[t] = tid[u] /\ tid[t] # 0 => t = u
  /\ \A t \in Thread : tid[t] < next_tid
  /\ \A t \in Thread : pc[t] \in {"tid_rel", "tid_up", "unblock"} =>
       /\ reg[t] < next_tid
       /\ \A u \in Thread : tid[u] # reg[t]

(* thread_start()'s semaphore lives on its stack: the idle thread is done  *)
(* with it before thread_start() returns.                                  *)
IdleStartedInScope ==
  (\E t \in Thread : pc[t] \in {"idle_set", "idle_up"})
    => pc[initial_thread] \in {"start_enable", "start_down"}

(* ASSERT (is_thread (next)) in schedule(): there is always a thread to    *)
(* switch to, also while idle_thread is still NULL.  Only the idle thread  *)
(* runs idle(), and it neither exits nor waits for a semaphore.            *)
SomeThreadToRun ==
  /\ idle_thread # NULL =>
       /\ pc[idle_thread] \in IdlePC
       /\ status[idle_thread] \in {"RUNNING", "READY", "BLOCKED"}
       /\ asleep[idle_thread] = NULL
  /\ idle_thread = NULL =>
       ready_list # <<>> \/ pc[current] \in CreatePC \cup {"idle_set"}

(* A page is only ever freed by the switch away from the thread on it, and *)
(* the initial thread's page is never freed.                               *)
FreeOnlyDying ==
  [][\A t \in Thread : status[t] # "FREE" /\ status'[t] = "FREE" =>
        t = current /\ t \notin all_list' /\ t # initial_thread]_vars

(* Round robin starves nobody: a thread that is ready is run, whatever the *)
(* other threads do, because the timer takes the CPU from them.            *)
ReadyRuns ==
  \A t \in Thread : (status[t] = "READY" /\ t # idle_thread) ~> status[t] = "RUNNING"

(* thread_start() returns: the idle thread gets to run and to up the       *)
(* semaphore.                                                              *)
BootCompletes == <>(pc[initial_thread] = "run")

-----------------------------------------------------------------------------
(* The inductive invariant: SchedInv and what the programs add to it. *)

(* A page without a program is free, dying or under construction by one    *)
(* creator, which keeps it between palloc_get_page() and thread_unblock(). *)
CreateInv ==
  /\ \A t \in Thread : pc[t] = "none" <=>
       status[t] \in {"FREE", "DYING"} \/ \E u \in Thread : new[u] = t
  /\ \A t \in Thread : new[t] # NULL <=> pc[t] \in CreatePC \ {"palloc"}

(* Which program points sleep on which semaphore. *)
SleepInv ==
  \A t \in Thread :
    /\ asleep[t] = tid_lock => pc[t] = "tid_down"
    /\ asleep[t] = idle_started => pc[t] = "start_down"
    /\ asleep[t] \in ClientSema => pc[t] = "run"
    /\ pc[t] \in {"start_enable", "start_down"} => t = initial_thread

(* The holder of tid_lock is between the two calls; its value counts it. *)
Critical == {"tid_hold", "tid_read", "tid_write", "tid_rel", "tid_up"}
TidLockInv ==
  /\ value[tid_lock] \in {0, 1}
  /\ value[tid_lock] = 1 <=> \A t \in Thread : pc[t] \notin Critical
  /\ \A t, u \in Thread : pc[t] \in Critical /\ pc[u] \in Critical => t = u

TidInv ==
  /\ UniqueTids
  /\ next_tid >= 1
  /\ \A t \in Thread : pc[t] = "tid_write" => reg[t] = next_tid
  /\ \A t \in Thread : pc[t] \in {"tid_rel", "tid_up", "unblock"} => reg[t] >= 1
  /\ \A t, u \in Thread :
       /\ pc[t] \in {"tid_rel", "tid_up", "unblock"}
       /\ pc[u] \in {"tid_rel", "tid_up", "unblock"}
       /\ reg[t] = reg[u]
       => t = u

(* thread_start(): the idle thread is created with interrupts off, before  *)
(* any other thread exists; idle_thread stays NULL until it has run.       *)
Creating == level[initial_thread] = "OFF" /\ pc[initial_thread] \in CreatePC
BootInv ==
  /\ \A t \in Thread : level[t] = "OFF" =>
       t = initial_thread /\ pc[t] \in CreatePC \cup {"start_enable"}
  /\ Creating =>
       /\ current = initial_thread
       /\ idle_thread = NULL
       /\ \A t \in Thread : t # initial_thread =>
            /\ pc[t] = "none"
            /\ status[t] = "FREE" \/ (status[t] = "BLOCKED" /\ new[initial_thread] = t)
  /\ pc[initial_thread] = "start_enable" =>
       current = initial_thread /\ level[initial_thread] = "OFF"
  /\ idle_thread = NULL => Creating \/ \E t \in Thread : pc[t] = "idle_set"
  /\ \A t \in Thread : pc[t] = "idle_set" =>
       idle_thread = NULL /\ status[t] \in {"READY", "RUNNING"}
  /\ \A t \in Thread : pc[t] \in IdlePC \ {"idle_set"} <=> t = idle_thread
  /\ \A t \in Thread : t = idle_thread => status[t] # "BLOCKED" \/ pc[t] = "idle_hlt"
  /\ \A t, u \in Thread : pc[t] \in IdlePC /\ pc[u] \in IdlePC => t = u
  /\ value[idle_started] > 0 =>
       \A t \in Thread : pc[t] \notin {"idle_set", "idle_up"} /\ ~Creating
                         /\ pc[initial_thread] # "start_enable"
  /\ pc[initial_thread] = "start_down" => idle_thread # NULL \/
       \E t \in Thread : pc[t] = "idle_set"

(* The thread system's state in every reachable state: exactly one thread  *)
(* runs and the ready list holds the ready ones; a semaphore's waiters are *)
(* the threads asleep on it; a page under construction has one creator and *)
(* all_list links only live threads; tid_lock makes tids unique; and idle  *)
(* is done with idle_started before thread_start() returns.                *)
IInv == /\ TypeOK
        /\ SchedInv
        /\ CreateInv
        /\ SleepInv
        /\ TidLockInv
        /\ TidInv
        /\ BootInv
        /\ AllListLive
        /\ IdleStartedInScope

=============================================================================
