--------------------------- MODULE ThreadsProofs ---------------------------
(***************************************************************************)
(* The safety properties of Threads, for any finite set of pages, any set  *)
(* of semaphores and any time slice.  The steps of Threads preserve the    *)
(* inductive invariant IInv: those that switch threads, allocate a tid or  *)
(* use semaphores, the interrupts, those of thread_create() that take a    *)
(* page and make a new thread ready, and those of thread_start(), the idle *)
(* thread and thread_exit().                                               *)
(***************************************************************************)
EXTENDS Threads, SchedProofs


(* thread_start() and the creators never leave schedule() without a thread *)
(* to switch to: before idle() has run, the idle thread is in the ready    *)
(* list whenever the other thread blocks.                                  *)
LEMMA CanSwitchLemma ==
  ASSUME IInv, ~Creating, pc[current] # "idle_set"
  PROVE  CanSwitch
<1>1. CASE idle_thread # NULL BY Zenon, <1>1 DEF CanSwitch
<1>2. CASE idle_thread = NULL
  <2>1. PICK t \in Thread : pc[t] = "idle_set" BY Zenon, <1>2 DEF IInv, BootInv
  <2>2. status[t] = "READY" /\ t # idle_thread
    BY Zenon, <1>2, <2>1, ThreadAssumption DEF IInv, BootInv, SchedInv, OneRunning
  <2>3. t \in InList(ready_list) BY Zenon, <2>2 DEF IInv, SchedInv, ReadyListExact
  <2>4. QED
    BY Zenon, <2>3, EmptyList DEF CanSwitch, IInv, SchedInv, SchedTypeOK
<1>3. QED BY Zenon, <1>1, <1>2

(* A running thread moves from one point of thread_create() to another,    *)
(* the page it is building in hand.                                        *)
LEMMA CreateMove ==
  ASSUME IInv, NEW t \in Thread, NEW l \in CreatePC \ {"palloc"},
         current = t, asleep[t] = NULL, pc[t] \in CreatePC \ {"palloc"},
         Goto(t, l), UNCHANGED <<sched_vars, new>>
  PROVE  /\ SchedInv' /\ CreateInv' /\ SleepInv' /\ BootInv'
         /\ IdleStartedInScope'
<1>1. /\ \A u \in Thread : pc'[u] = IF u = t THEN l ELSE pc[u]
      /\ UNCHANGED <<status, ready_list, current, idle_thread, thread_ticks,
                     level, asleep, value, waiters, new>>
  BY Zenon DEF Goto, IInv, TypeOK, sched_vars
<1>2. SchedInv' BY Zenon, SchedStutter DEF IInv
<1>3. /\ CreateInv /\ SleepInv /\ BootInv /\ IdleStartedInScope
      /\ status[t] = "RUNNING" /\ initial_thread \in Thread
      /\ NULL \notin Thread /\ NULL \notin Sema
  BY Zenon, ThreadAssumption DEF IInv, SchedInv, OneRunning
<1>4. CreateInv' BY <1>1, <1>3 DEF CreateInv, CreatePC
<1>5. SleepInv' BY Zenon, <1>1, <1>3, SemaAssumption DEF SleepInv, CreatePC, ClientSema
<1>6. Creating' = Creating BY Zenon, <1>1, <1>3 DEF Creating
<1>7. BootInv' BY <1>1, <1>3, <1>6 DEF BootInv, CreatePC, IdlePC
<1>8. IdleStartedInScope'
  BY <1>1, <1>3 DEF IdleStartedInScope, CreatePC, BootInv, IdlePC
<1>9. QED BY Zenon, <1>2, <1>4, <1>5, <1>7, <1>8

LEMMA PushAllListStep ==
  ASSUME IInv, NEW t \in Thread, PushAllList(t)
  PROVE  IInv'
<1>1. /\ current = t /\ asleep[t] = NULL /\ pc[t] = "all_list"
      /\ Goto(t, "tid_down") /\ all_list' = all_list \cup {new[t]}
      /\ UNCHANGED <<sched_vars, new, tid, reg, next_tid, holder>>
  BY Zenon DEF PushAllList, At, Running
<1>2. /\ SchedInv' /\ CreateInv' /\ SleepInv' /\ BootInv' /\ IdleStartedInScope'
  BY Zenon, <1>1, CreateMove DEF CreatePC
<1>3. \A u \in Thread : pc'[u] = IF u = t THEN "tid_down" ELSE pc[u]
  BY Zenon, <1>1 DEF Goto, IInv, TypeOK
<1>4. new[t] \in Thread /\ status[new[t]] = "BLOCKED"
  BY SMTT(60), <1>1, ThreadAssumption DEF IInv, TypeOK, CreateInv, CreatePC, AllListLive
<1>5. TypeOK'
  BY Zenon, <1>1, <1>2, <1>4 DEF IInv, TypeOK, SchedInv, Goto, PC, CreatePC
<1>6. TidLockInv'
  <2>1. TidLockInv BY Zenon DEF IInv
  <2>2. QED BY ZenonT(60), <1>1, <1>3, <2>1 DEF TidLockInv, Critical, sched_vars
<1>7. TidInv'
  <2>1. TidInv BY Zenon DEF IInv
  <2>2. QED BY Zenon, <1>1, <1>3, <2>1 DEF TidInv, UniqueTids
<1>8. AllListLive'
  <2>1. AllListLive BY Zenon DEF IInv
  <2>2. QED BY Zenon, <1>1, <1>4, <2>1 DEF AllListLive, sched_vars
<1>9. QED BY Zenon, <1>2, <1>5, <1>6, <1>7, <1>8 DEF IInv

LEMMA TidHoldStep ==
  ASSUME IInv, NEW t \in Thread, TidHold(t)
  PROVE  IInv'
<1>1. /\ current = t /\ asleep[t] = NULL /\ pc[t] = "tid_hold"
      /\ Goto(t, "tid_read") /\ holder' = t
      /\ UNCHANGED <<sched_vars, all_list, new, tid, reg, next_tid>>
  BY Zenon DEF TidHold, At, Running
<1>2. /\ SchedInv' /\ CreateInv' /\ SleepInv' /\ BootInv' /\ IdleStartedInScope'
  BY Zenon, <1>1, CreateMove DEF CreatePC
<1>3. \A u \in Thread : pc'[u] = IF u = t THEN "tid_read" ELSE pc[u]
  BY Zenon, <1>1 DEF Goto, IInv, TypeOK
<1>4. TypeOK' BY Zenon, <1>1, <1>2 DEF IInv, TypeOK, SchedInv, Goto, PC, CreatePC
<1>5. TidLockInv'
  <2>1. TidLockInv BY Zenon DEF IInv
  <2>2. QED BY Zenon, <1>1, <1>3, <2>1 DEF TidLockInv, Critical, sched_vars
<1>6. TidInv'
  <2>1. TidInv BY Zenon DEF IInv
  <2>2. QED BY Zenon, <1>1, <1>3, <2>1 DEF TidInv, UniqueTids
<1>7. AllListLive'
  <2>1. AllListLive BY Zenon DEF IInv
  <2>2. QED BY Zenon, <1>1, <2>1 DEF AllListLive, sched_vars
<1>8. QED BY Zenon, <1>2, <1>4, <1>5, <1>6, <1>7 DEF IInv

LEMMA TidReadStep ==
  ASSUME IInv, NEW t \in Thread, TidRead(t)
  PROVE  IInv'
<1>1. /\ current = t /\ asleep[t] = NULL /\ pc[t] = "tid_read"
      /\ Goto(t, "tid_write") /\ reg' = [reg EXCEPT ![t] = next_tid]
      /\ UNCHANGED <<sched_vars, all_list, new, tid, next_tid, holder>>
  BY Zenon DEF TidRead, At, Running
<1>2. /\ SchedInv' /\ CreateInv' /\ SleepInv' /\ BootInv' /\ IdleStartedInScope'
  BY Zenon, <1>1, CreateMove DEF CreatePC
<1>3. \A u \in Thread : /\ pc'[u] = IF u = t THEN "tid_write" ELSE pc[u]
                        /\ reg'[u] = IF u = t THEN next_tid ELSE reg[u]
  BY Zenon, <1>1 DEF Goto, IInv, TypeOK
<1>4. TypeOK' BY Zenon, <1>1, <1>2 DEF IInv, TypeOK, SchedInv, Goto, PC, CreatePC
<1>5. TidLockInv'
  <2>1. TidLockInv BY Zenon DEF IInv
  <2>2. QED BY Zenon, <1>1, <1>3, <2>1 DEF TidLockInv, Critical, sched_vars
<1>6. TidInv'
  <2>1. TidInv BY Zenon DEF IInv
  <2>2. QED BY <1>1, <1>3, <2>1 DEF TidInv, UniqueTids
<1>7. AllListLive'
  <2>1. AllListLive BY Zenon DEF IInv
  <2>2. QED BY Zenon, <1>1, <2>1 DEF AllListLive, sched_vars
<1>8. QED BY Zenon, <1>2, <1>4, <1>5, <1>6, <1>7 DEF IInv

(* The store: no one else is between the load and the store, so no tid in  *)
(* use or in flight reaches the new next_tid.                              *)
LEMMA TidWriteStep ==
  ASSUME IInv, NEW t \in Thread, TidWrite(t)
  PROVE  IInv'
<1>1. /\ current = t /\ asleep[t] = NULL /\ pc[t] = "tid_write"
      /\ Goto(t, "tid_rel") /\ next_tid' = reg[t] + 1
      /\ UNCHANGED <<sched_vars, all_list, new, tid, reg, holder>>
  BY Zenon DEF TidWrite, At, Running
<1>2. /\ SchedInv' /\ CreateInv' /\ SleepInv' /\ BootInv' /\ IdleStartedInScope'
  BY Zenon, <1>1, CreateMove DEF CreatePC
<1>3. \A u \in Thread : /\ pc'[u] = IF u = t THEN "tid_rel" ELSE pc[u]
                        /\ reg[u] \in Nat /\ tid[u] \in Nat
  BY Zenon, <1>1 DEF Goto, IInv, TypeOK
<1>4. TypeOK' BY <1>1, <1>2, <1>3 DEF IInv, TypeOK, SchedInv, Goto, PC, CreatePC
<1>5. TidLockInv /\ TidInv /\ next_tid \in Nat BY Zenon DEF IInv, TypeOK
<1>6. TidLockInv'
  BY Zenon, <1>1, <1>3, <1>5 DEF TidLockInv, Critical, sched_vars
<1>7. /\ reg[t] = next_tid /\ next_tid' = next_tid + 1
      /\ \A u \in Thread : u # t => pc[u] \notin Critical
      /\ \A u \in Thread : tid[u] < next_tid
  BY Zenon, <1>1, <1>5 DEF TidInv, UniqueTids, TidLockInv, Critical
<1>8. TidInv'
  <2>1. UniqueTids'
    BY <1>1, <1>3, <1>5, <1>7 DEF TidInv, UniqueTids
  <2>2. \A u \in Thread : pc'[u] # "tid_write"
    BY Zenon, <1>3, <1>7 DEF Critical
  <2>3. QED BY SMTT(60), <1>1, <1>3, <1>5, <1>7, <2>1, <2>2 DEF TidInv, UniqueTids
<1>9. AllListLive'
  <2>1. AllListLive BY Zenon DEF IInv
  <2>2. QED BY Zenon, <1>1, <2>1 DEF AllListLive, sched_vars
<1>10. QED BY Zenon, <1>2, <1>4, <1>6, <1>8, <1>9 DEF IInv

LEMMA TidRelStep ==
  ASSUME IInv, NEW t \in Thread, TidRel(t)
  PROVE  IInv'
<1>1. /\ current = t /\ asleep[t] = NULL /\ pc[t] = "tid_rel"
      /\ Goto(t, "tid_up") /\ holder' = NULL
      /\ UNCHANGED <<sched_vars, all_list, new, tid, reg, next_tid>>
  BY Zenon DEF TidRel, At, Running
<1>2. /\ SchedInv' /\ CreateInv' /\ SleepInv' /\ BootInv' /\ IdleStartedInScope'
  BY Zenon, <1>1, CreateMove DEF CreatePC
<1>3. \A u \in Thread : pc'[u] = IF u = t THEN "tid_up" ELSE pc[u]
  BY Zenon, <1>1 DEF Goto, IInv, TypeOK
<1>4. TypeOK' BY Zenon, <1>1, <1>2 DEF IInv, TypeOK, SchedInv, Goto, PC, CreatePC
<1>5. TidLockInv'
  <2>1. TidLockInv BY Zenon DEF IInv
  <2>2. QED BY Zenon, <1>1, <1>3, <2>1 DEF TidLockInv, Critical, sched_vars
<1>6. TidInv'
  <2>1. TidInv BY Zenon DEF IInv
  <2>2. QED BY <1>1, <1>3, <2>1 DEF TidInv, UniqueTids
<1>7. AllListLive'
  <2>1. AllListLive BY Zenon DEF IInv
  <2>2. QED BY Zenon, <1>1, <2>1 DEF AllListLive, sched_vars
<1>8. QED BY Zenon, <1>2, <1>4, <1>5, <1>6, <1>7 DEF IInv

-----------------------------------------------------------------------------
(* Steps that schedule, block and unblock *)

(* The step creates and destroys no thread, and the threads that are       *)
(* blocked outside sema_down() are the same but for the idle thread.       *)
Quiet ==
  \A u \in Thread :
    /\ status'[u] = "FREE" <=> status[u] = "FREE"
    /\ status'[u] = "DYING" <=> status[u] = "DYING"
    /\ status[u] = "BLOCKED" /\ asleep[u] = NULL /\ u # idle_thread
         => status'[u] = "BLOCKED" /\ asleep'[u] = NULL
    /\ status'[u] = "BLOCKED" /\ asleep'[u] = NULL
         => status[u] = "BLOCKED" /\ asleep[u] = NULL

(* The program counters that such a step may move: an interrupt ends the   *)
(* idle thread's hlt, and a creator advances with its page in hand.        *)
QuietMove ==
  \A u \in Thread :
    \/ pc'[u] = pc[u]
    \/ /\ pc[u] = "idle_hlt" /\ pc'[u] = "idle_block" /\ u = current
    \/ pc[u] \in CreatePC \ {"palloc"} /\ pc'[u] \in CreatePC \ {"palloc"}

LEMMA QuietStep ==
  ASSUME IInv, SchedInv', SleepInv', Quiet, QuietMove,
         UNCHANGED <<all_list, new, level, idle_thread>>,
         value'[idle_started] > 0 => value[idle_started] > 0,
         Creating \/ pc[initial_thread] = "start_enable" => current' = current
  PROVE  CreateInv' /\ BootInv' /\ AllListLive' /\ IdleStartedInScope'
<1>1. /\ CreateInv /\ SleepInv /\ BootInv /\ IdleStartedInScope /\ AllListLive
      /\ initial_thread \in Thread /\ NULL \notin Thread /\ NULL \notin Sema
      /\ tid_lock \in Sema /\ idle_started \in Sema
      /\ status[current] = "RUNNING" /\ current \in Thread
  BY Zenon, ThreadAssumption, SemaAssumption DEF IInv, SchedInv, OneRunning, SchedTypeOK
<1>2. \A u \in Thread : /\ status'[u] \in Status
                        /\ asleep'[u] # NULL => asleep'[u] \in Sema
                        /\ new[u] # NULL => new[u] \in Thread
  BY Zenon DEF SchedInv, SchedTypeOK, IInv, TypeOK
<1>3. \A u \in Thread : asleep'[u] # NULL =>
                          pc'[u] \in {"tid_down", "start_down", "run"}
  BY Zenon, <1>2 DEF SleepInv, ClientSema
<1>4. \A u \in Thread : /\ pc'[u] = "none" <=> pc[u] = "none"
                        /\ pc'[u] \in CreatePC \ {"palloc"}
                             <=> pc[u] \in CreatePC \ {"palloc"}
                        /\ pc'[u] \in CreatePC <=> pc[u] \in CreatePC
                        /\ pc'[u] \in IdlePC <=> pc[u] \in IdlePC
                        /\ \A l \in {"idle_set", "idle_up", "start_enable", "start_down"} :
                             pc'[u] = l <=> pc[u] = l
  BY ZenonT(60) DEF QuietMove, CreatePC, IdlePC
<1>5. CreateInv'
  <2>1. \A u \in Thread : status'[u] \in {"FREE", "DYING"}
                         <=> status[u] \in {"FREE", "DYING"}
    BY Zenon DEF Quiet
  <2>2. QED BY <1>1, <1>4, <2>1 DEF CreateInv
<1>6. \A u \in Thread : new[u] # NULL => new[u] # idle_thread
  BY Zenon, <1>1, <1>2 DEF BootInv, CreateInv, IdlePC
<1>7. AllListLive'
  <2>1. \A u \in Thread : new[u] # NULL => status'[new[u]] = "BLOCKED"
                                          /\ asleep'[new[u]] = NULL
    BY Zenon, <1>1, <1>2, <1>6 DEF AllListLive, Quiet
  <2>2. QED BY SMTT(60), <1>1, <2>1 DEF AllListLive, Quiet, IInv, TypeOK
<1>8. Creating' = Creating BY Zenon, <1>1, <1>4 DEF Creating
<1>9. \A u \in Thread : pc[u] = "idle_set" => status'[u] \in {"READY", "RUNNING"}
  <2> SUFFICES ASSUME NEW u \in Thread, pc[u] = "idle_set"
               PROVE  status'[u] \in {"READY", "RUNNING"}
    BY Zenon
  <2>1. status[u] \in {"READY", "RUNNING"} BY Zenon, <1>1 DEF BootInv
  <2>2. asleep'[u] = NULL BY Zenon, <1>3, <1>4
  <2>3. QED BY Zenon, <1>2, <2>1, <2>2 DEF Quiet, Status
<1>10. \A u \in Thread : u = idle_thread => status'[u] # "BLOCKED" \/ pc'[u] = "idle_hlt"
  <2> SUFFICES ASSUME NEW u \in Thread, u = idle_thread, status'[u] = "BLOCKED"
               PROVE  pc'[u] = "idle_hlt"
    BY Zenon
  <2>1. pc[u] \in IdlePC BY Zenon, <1>1 DEF BootInv, IdlePC
  <2>2. asleep'[u] = NULL BY Zenon, <1>3, <1>4, <2>1 DEF IdlePC
  <2>3. status[u] = "BLOCKED" BY Zenon, <2>2 DEF Quiet
  <2>4. QED BY ZenonT(60), <1>1, <2>3 DEF BootInv, QuietMove, CreatePC
<1>11. \A u \in Thread : u # initial_thread /\ Creating =>
         /\ pc'[u] = "none"
         /\ status'[u] = "FREE" \/ (status'[u] = "BLOCKED" /\ new[initial_thread] = u)
  BY SMTT(60), <1>1, <1>4, <1>6, <1>7 DEF BootInv, Quiet, AllListLive
<1>12. BootInv'
  BY SMTT(60), <1>1, <1>4, <1>8, <1>9, <1>10, <1>11 DEF BootInv
<1>13. IdleStartedInScope'
  BY Zenon, <1>1, <1>4 DEF IdleStartedInScope
<1>14. QED BY Zenon, <1>5, <1>7, <1>12, <1>13

(* The three ways in which the operators of Sched change a status. *)
LEMMA SwitchStatus ==
  ASSUME NEW st, NEW rl, schedule(st, rl)
  PROVE  \A u \in Thread : status'[u] =
           IF u = current' THEN "RUNNING"
           ELSE IF u = current /\ st[u] = "DYING" /\ u # initial_thread THEN "FREE"
           ELSE st[u]
BY Zenon DEF schedule, thread_schedule_tail

LEMMA UpQuiet ==
  ASSUME IInv, NEW s \in Sema, sema_up(s)
  PROVE  Quiet
<1>1. CASE waiters[s] = <<>>
  BY Zenon, <1>1 DEF sema_up, Quiet
<1>2. CASE waiters[s] # <<>>
  <2> DEFINE t == Head(waiters[s])
  <2>1. t \in InList(waiters[s])
    BY Zenon, <1>2, PopFront DEF IInv, SchedInv, SchedTypeOK, WaitersBlocked
  <2>2. t \in Thread /\ status[t] = "BLOCKED" /\ asleep[t] = s /\ s # NULL
    BY Zenon, <2>1, ThreadAssumption DEF IInv, SchedInv, WaitersBlocked
  <2>3. asleep' = asleep /\ status' = [status EXCEPT ![t] = "READY"]
    BY Zenon, <1>2 DEF sema_up, thread_unblock
  <2> HIDE DEF t
  <2>4. \A u \in Thread : status'[u] = IF u = t THEN "READY" ELSE status[u]
    BY Zenon, <2>3 DEF IInv, SchedInv, SchedTypeOK
  <2>5. QED BY <2>2, <2>3, <2>4 DEF Quiet
<1>3. QED BY Zenon, <1>1, <1>2

LEMMA YieldQuiet ==
  ASSUME IInv, thread_yield, UNCHANGED asleep, current' \in Thread, SchedInv'
  PROVE  Quiet
<1> DEFINE st == [status EXCEPT ![current] = "READY"]
<1>1. \A u \in Thread : st[u] = IF u = current THEN "READY" ELSE status[u]
  BY Zenon DEF IInv, SchedInv, SchedTypeOK
<1> HIDE DEF st
<1>2. \A u \in Thread : status'[u] =
        IF u = current' THEN "RUNNING"
        ELSE IF u = current /\ st[u] = "DYING" /\ u # initial_thread THEN "FREE"
        ELSE st[u]
  BY Zenon, SwitchStatus DEF thread_yield, st
<1>3. current' = idle_thread \/ current' = current \/ status[current'] = "READY"
  <2>1. CASE current = idle_thread /\ ready_list = <<>>
    BY Zenon, <2>1 DEF thread_yield, schedule, next_thread_to_run
  <2>2. CASE current = idle_thread /\ ready_list # <<>>
    <3>1. current' = Head(ready_list) /\ Head(ready_list) \in InList(ready_list)
      BY Zenon, <2>2, PopFront
         DEF thread_yield, schedule, next_thread_to_run, IInv, SchedInv,
             SchedTypeOK, ReadyListExact
    <3>2. QED BY Zenon, <3>1 DEF IInv, SchedInv, ReadyListExact
  <2>3. CASE current # idle_thread
    <3> DEFINE rl == Append(ready_list, current)
    <3>0. /\ current \in Thread /\ current \notin InList(ready_list)
          /\ ready_list \in Seq(Thread) /\ NoDup(ready_list)
      BY Zenon DEF IInv, SchedInv, SchedTypeOK, ReadyListExact, OneRunning
    <3>1. rl \in Seq(Thread) /\ rl # <<>> /\ InList(rl) = InList(ready_list) \cup {current}
          /\ NoDup(rl)
      BY <3>0, PushBack
    <3>2. current' = Head(rl)
      BY Zenon, <2>3, <3>1 DEF thread_yield, schedule, next_thread_to_run
    <3> HIDE DEF rl
    <3>3. Head(rl) \in InList(rl) BY Zenon, <3>1, PopFront
    <3>4. QED BY Zenon, <3>1, <3>2, <3>3 DEF IInv, SchedInv, ReadyListExact
  <2>4. QED BY Zenon, <2>1, <2>2, <2>3
<1>4. idle_thread # NULL =>
        idle_thread \in Thread /\ status[idle_thread] \notin {"FREE", "DYING"}
  <2>1. CreateInv /\ BootInv /\ TypeOK BY Zenon DEF IInv
  <2>2. QED BY Zenon, <2>1 DEF CreateInv, BootInv, TypeOK, SchedTypeOK, IdlePC
<1>5. \A u \in Thread : status[u] = "RUNNING" <=> u = current
  BY Zenon DEF IInv, SchedInv, OneRunning
<1>6. QED BY Zenon, <1>1, <1>2, <1>3, <1>4, <1>5, ThreadAssumption DEF Quiet

(* sema_down() puts the caller, which is not the idle thread, to sleep. *)
LEMMA WaitQuiet ==
  ASSUME IInv, CanSwitch, NEW t \in Thread, NEW s \in Sema,
         InSemaDown(t, s), sema_down_wait(t, s), t # idle_thread, SchedInv'
  PROVE  Quiet
<1> DEFINE st == [status EXCEPT ![current] = "BLOCKED"]
<1>1. \A u \in Thread : st[u] = IF u = current THEN "BLOCKED" ELSE status[u]
  BY Zenon DEF IInv, SchedInv, SchedTypeOK
<1> HIDE DEF st
<1>2. \A u \in Thread : status'[u] =
        IF u = current' THEN "RUNNING"
        ELSE IF u = current /\ st[u] = "DYING" /\ u # initial_thread THEN "FREE"
        ELSE st[u]
  BY Zenon, SwitchStatus DEF sema_down_wait, thread_block, st
<1>3. current' = idle_thread \/ status[current'] = "READY"
  <2>1. CASE ready_list = <<>>
    BY Zenon, <2>1 DEF sema_down_wait, thread_block, schedule, next_thread_to_run
  <2>2. CASE ready_list # <<>>
    <3>1. current' = Head(ready_list) /\ Head(ready_list) \in InList(ready_list)
      BY Zenon, <2>2, PopFront
         DEF sema_down_wait, thread_block, schedule, next_thread_to_run, IInv,
             SchedInv, SchedTypeOK, ReadyListExact
    <3>2. QED BY Zenon, <3>1 DEF IInv, SchedInv, ReadyListExact
  <2>3. QED BY Zenon, <2>1, <2>2
<1>4. current' \in Thread BY Zenon DEF SchedInv, SchedTypeOK
<1>5. idle_thread # NULL =>
        idle_thread \in Thread /\ status[idle_thread] \notin {"FREE", "DYING"}
  <2>1. CreateInv /\ BootInv /\ TypeOK BY Zenon DEF IInv
  <2>2. QED BY Zenon, <2>1 DEF CreateInv, BootInv, TypeOK, SchedTypeOK, IdlePC
<1>6. \A u \in Thread : status[u] = "RUNNING" <=> u = current
  BY Zenon DEF IInv, SchedInv, OneRunning
<1>7. /\ current = t /\ s # NULL
      /\ \A u \in Thread : asleep'[u] = IF u = t THEN s ELSE asleep[u]
  BY Zenon, ThreadAssumption DEF sema_down_wait, InSemaDown, IInv, SchedInv, SchedTypeOK
<1>8. QED
  BY Zenon, <1>1, <1>2, <1>3, <1>4, <1>5, <1>6, <1>7, ThreadAssumption DEF Quiet

(* Who can sleep: creators, main in thread_start() and clients, never the  *)
(* idle thread, and never while the idle thread is being created.          *)
LEMMA DownWaitInv ==
  ASSUME CountFacts, IInv, NEW t \in Thread, NEW s \in Sema, ~Creating,
         pc[t] = (IF s = tid_lock THEN "tid_down"
                  ELSE IF s = idle_started THEN "start_down" ELSE "run"),
         InSemaDown(t, s), sema_down_wait(t, s), UNCHANGED <<pc, local_vars>>
  PROVE  IInv'
<1>1. current = t BY Zenon DEF InSemaDown
<1>2. BootInv /\ SleepInv /\ TidLockInv /\ TidInv BY Zenon DEF IInv
<1>3. /\ t # idle_thread /\ pc[t] # "idle_set"
      /\ pc[initial_thread] # "start_enable"
  BY Zenon, <1>1, <1>2, SemaAssumption DEF BootInv, IdlePC
<1>4. CanSwitch BY Zenon, <1>1, <1>3, CanSwitchLemma
<1>5. SchedInv'
  BY Zenon, <1>3, <1>4, DownWaitStep, ThreadAssumption, TimeSliceAssumption DEF IInv
<1>6. Quiet BY Zenon, <1>3, <1>4, <1>5, WaitQuiet
<1>7. /\ \A u \in Thread : asleep'[u] = IF u = t THEN s ELSE asleep[u]
      /\ value' = value /\ UNCHANGED <<idle_thread, level, pc, all_list, new>>
  BY Zenon DEF sema_down_wait, IInv, SchedInv, SchedTypeOK, local_vars
<1>8. SleepInv'
  BY Zenon, <1>2, <1>7, SemaAssumption DEF SleepInv, ClientSema
<1>9. QuietMove BY Zenon, <1>7 DEF QuietMove
<1>10. CreateInv' /\ BootInv' /\ AllListLive' /\ IdleStartedInScope'
  BY Zenon, <1>3, <1>5, <1>6, <1>7, <1>8, <1>9, QuietStep
<1>11. TypeOK' BY Zenon, <1>5 DEF SchedInv, IInv, TypeOK, local_vars
<1>12. TidLockInv' BY Zenon, <1>2, <1>7 DEF TidLockInv
<1>13. TidInv' BY Zenon, <1>2 DEF TidInv, UniqueTids, local_vars
<1>14. QED BY Zenon, <1>5, <1>8, <1>10, <1>11, <1>12, <1>13 DEF IInv

LEMMA YieldInv ==
  ASSUME IInv, thread_yield, QuietMove,
         ~Creating, pc[initial_thread] # "start_enable",
         \A u \in Thread : pc'[u] = pc[u] \/ u = idle_thread,
         pc' \in [Thread -> PC],
         UNCHANGED <<idle_thread, level, asleep, value, waiters, local_vars>>
  PROVE  IInv'
<1>1. SchedInv' BY Zenon, YieldStep, ThreadAssumption, TimeSliceAssumption DEF IInv
<1>2. Quiet BY Zenon, <1>1, YieldQuiet DEF SchedInv, SchedTypeOK
<1>3. BootInv /\ SleepInv /\ TidLockInv /\ TidInv BY Zenon DEF IInv
<1>4. \A u \in Thread : pc'[u] = pc[u] \/ (u = idle_thread /\ pc[u] \in IdlePC
                                             /\ pc'[u] \in IdlePC)
  BY Zenon, <1>3 DEF BootInv, QuietMove, IdlePC, CreatePC
<1>5. SleepInv' BY Zenon, <1>3, <1>4, SemaAssumption DEF SleepInv, IdlePC, ClientSema
<1>6. CreateInv' /\ BootInv' /\ AllListLive' /\ IdleStartedInScope'
  BY Zenon, <1>1, <1>2, <1>5, QuietStep DEF local_vars
<1>7. TypeOK' BY Zenon, <1>1 DEF SchedInv, IInv, TypeOK, local_vars
<1>8. TidLockInv' BY SMTT(60), <1>3, <1>4 DEF TidLockInv, Critical, IdlePC
<1>9. TidInv' BY Zenon, <1>3, <1>4 DEF TidInv, UniqueTids, local_vars, IdlePC
<1>10. QED BY Zenon, <1>1, <1>5, <1>6, <1>7, <1>8, <1>9 DEF IInv

-----------------------------------------------------------------------------
(* Semaphores, yielding and interrupts *)

LEMMA YieldActionStep ==
  ASSUME IInv, NEW t \in Thread, Yield(t)
  PROVE  IInv'
<1>1. ~Creating /\ pc[initial_thread] # "start_enable"
  BY Zenon DEF Yield, At, Running, IInv, BootInv, Creating, CreatePC
<1>2. QuietMove BY Zenon DEF Yield, QuietMove
<1>3. QED BY Zenon, <1>1, <1>2, YieldInv DEF Yield, IInv, TypeOK

(* An interrupt finds the CPU with interrupts on, so thread_start() is not *)
(* creating the idle thread.                                               *)
LEMMA InterruptFacts ==
  ASSUME IInv, InterruptsOn, WakeFromHlt
  PROVE  /\ ~Creating /\ pc[initial_thread] # "start_enable"
         /\ QuietMove /\ pc' \in [Thread -> PC]
         /\ \A u \in Thread : pc'[u] = pc[u] \/ u = idle_thread
<1>1. ~Creating /\ pc[initial_thread] # "start_enable"
  BY Zenon DEF InterruptsOn, IInv, BootInv, Creating
<1>2. BootInv /\ pc \in [Thread -> PC] /\ current \in Thread
  BY Zenon DEF IInv, TypeOK, SchedTypeOK
<1>3. \A u \in Thread : pc'[u] = pc[u] \/ (u = current /\ pc[u] = "idle_hlt"
                                            /\ pc'[u] = "idle_block")
  BY Zenon, <1>2 DEF WakeFromHlt
<1>4. QuietMove BY Zenon, <1>3 DEF QuietMove
<1>5. pc' \in [Thread -> PC] BY Zenon, <1>2 DEF WakeFromHlt, PC, IdlePC
<1>6. QED BY Zenon, <1>1, <1>2, <1>3, <1>4, <1>5 DEF BootInv, IdlePC

LEMMA TimerStep ==
  ASSUME IInv, TimerInterrupt
  PROVE  IInv'
<1>1. /\ ~Creating /\ pc[initial_thread] # "start_enable"
      /\ QuietMove /\ pc' \in [Thread -> PC]
      /\ \A u \in Thread : pc'[u] = pc[u] \/ u = idle_thread
  BY Zenon, InterruptFacts DEF TimerInterrupt, thread_tick
<1>2. CASE thread_ticks + 1 >= TIME_SLICE
  BY Zenon, <1>1, <1>2, YieldInv DEF TimerInterrupt, thread_tick
<1>3. CASE ~(thread_ticks + 1 >= TIME_SLICE)
  <2>1. SchedInv'
    BY Zenon, TickStep, ThreadAssumption, TimeSliceAssumption DEF IInv, TimerInterrupt
  <2>2. UNCHANGED <<status, ready_list, current, idle_thread, level, asleep,
                    value, waiters, local_vars>>
    BY Zenon, <1>3 DEF TimerInterrupt, thread_tick
  <2>3. Quiet BY Zenon, <2>2 DEF Quiet
  <2>4. BootInv /\ SleepInv /\ TidLockInv /\ TidInv BY Zenon DEF IInv
  <2>5. \A u \in Thread : pc'[u] = pc[u] \/ (pc[u] \in IdlePC /\ pc'[u] \in IdlePC)
    BY Zenon, <1>1, <2>4 DEF BootInv, QuietMove, IdlePC, CreatePC
  <2>6. SleepInv' BY Zenon, <2>2, <2>4, <2>5, SemaAssumption DEF SleepInv, IdlePC, ClientSema
  <2>7. CreateInv' /\ BootInv' /\ AllListLive' /\ IdleStartedInScope'
    BY Zenon, <1>1, <2>1, <2>2, <2>3, <2>6, QuietStep DEF local_vars
  <2>8. TypeOK' BY Zenon, <1>1, <2>1, <2>2 DEF SchedInv, IInv, TypeOK, local_vars
  <2>9. TidLockInv' BY ZenonT(60), <2>2, <2>4, <2>5 DEF TidLockInv, Critical, IdlePC
  <2>10. TidInv' BY Zenon, <2>2, <2>4, <2>5 DEF TidInv, UniqueTids, local_vars, IdlePC
  <2>11. QED BY Zenon, <2>1, <2>6, <2>7, <2>8, <2>9, <2>10 DEF IInv
<1>4. QED BY Zenon, <1>2, <1>3

(* sema_up() of a client semaphore, by a thread or an interrupt handler. *)
LEMMA UpInv ==
  ASSUME CountFacts, IInv, NEW s \in ClientSema, sema_up(s), QuietMove,
         \A u \in Thread : pc'[u] = pc[u] \/ u = idle_thread,
         pc' \in [Thread -> PC], UNCHANGED local_vars
  PROVE  IInv'
<1>0. s \in Sema /\ s # tid_lock /\ s # idle_started BY Zenon DEF ClientSema
<1>1. SchedInv' BY Zenon, <1>0, UpStep, ThreadAssumption DEF IInv
<1>2. Quiet BY Zenon, <1>0, UpQuiet
<1>3. BootInv /\ SleepInv /\ TidLockInv /\ TidInv BY Zenon DEF IInv
<1>4. /\ UNCHANGED <<current, idle_thread, level, asleep>>
      /\ value'[tid_lock] = value[tid_lock]
      /\ value'[idle_started] = value[idle_started]
  BY Zenon, <1>0, SemaAssumption DEF sema_up, IInv, SchedInv, SchedTypeOK
<1>5. \A u \in Thread : pc'[u] = pc[u] \/ (pc[u] \in IdlePC /\ pc'[u] \in IdlePC)
  BY Zenon, <1>3 DEF BootInv, QuietMove, IdlePC, CreatePC
<1>6. SleepInv' BY Zenon, <1>3, <1>4, <1>5, SemaAssumption DEF SleepInv, IdlePC, ClientSema
<1>7. CreateInv' /\ BootInv' /\ AllListLive' /\ IdleStartedInScope'
  BY Zenon, <1>1, <1>2, <1>4, <1>6, QuietStep DEF local_vars
<1>8. TypeOK' BY Zenon, <1>1 DEF SchedInv, IInv, TypeOK, local_vars
<1>9. TidLockInv' BY Zenon, <1>3, <1>4, <1>5 DEF TidLockInv, Critical, IdlePC
<1>10. TidInv' BY Zenon, <1>3, <1>5 DEF TidInv, UniqueTids, local_vars, IdlePC
<1>11. QED BY Zenon, <1>1, <1>6, <1>7, <1>8, <1>9, <1>10 DEF IInv

LEMMA DeviceStep ==
  ASSUME CountFacts, IInv, DeviceInterrupt
  PROVE  IInv'
<1>1. /\ QuietMove /\ pc' \in [Thread -> PC]
      /\ \A u \in Thread : pc'[u] = pc[u] \/ u = idle_thread
  BY Zenon, InterruptFacts DEF DeviceInterrupt
<1>2. PICK s \in ClientSema : sema_up(s) BY Zenon DEF DeviceInterrupt
<1>3. QED BY Zenon, <1>1, <1>2, UpInv DEF DeviceInterrupt

LEMMA ClientUpStep ==
  ASSUME CountFacts, IInv, NEW t \in Thread, ClientUp(t)
  PROVE  IInv'
<1>1. PICK s \in ClientSema : sema_up(s) BY Zenon DEF ClientUp
<1>2. QuietMove BY Zenon DEF ClientUp, QuietMove
<1>3. QED BY Zenon, <1>1, <1>2, UpInv DEF ClientUp, IInv, TypeOK

LEMMA ClientTryDownStep ==
  ASSUME CountFacts, IInv, NEW t \in Thread, ClientTryDown(t)
  PROVE  IInv'
<1>1. PICK s \in ClientSema : sema_try_down(s) BY Zenon DEF ClientTryDown
<1>2. s \in Sema /\ s # tid_lock /\ s # idle_started BY Zenon DEF ClientSema
<1>3. SchedInv' BY Zenon, <1>1, <1>2, TryDownStep, ThreadAssumption DEF IInv
<1>4. /\ UNCHANGED <<status, current, idle_thread, level, asleep, pc, local_vars>>
      /\ value'[tid_lock] = value[tid_lock]
      /\ value'[idle_started] = value[idle_started]
  BY Zenon, <1>1, <1>2, SemaAssumption
     DEF sema_try_down, ClientTryDown, IInv, SchedInv, SchedTypeOK
<1>5. Quiet /\ QuietMove BY Zenon, <1>4 DEF Quiet, QuietMove
<1>6. SleepInv /\ TidLockInv /\ TidInv BY Zenon DEF IInv
<1>7. SleepInv' BY Zenon, <1>4, <1>6 DEF SleepInv
<1>8. CreateInv' /\ BootInv' /\ AllListLive' /\ IdleStartedInScope'
  BY Zenon, <1>3, <1>4, <1>5, <1>7, QuietStep DEF local_vars
<1>9. TypeOK' BY Zenon, <1>3, <1>4 DEF SchedInv, IInv, TypeOK, local_vars
<1>10. TidLockInv' /\ TidInv'
  BY Zenon, <1>4, <1>6 DEF TidLockInv, TidInv, UniqueTids, local_vars
<1>11. QED BY Zenon, <1>3, <1>7, <1>8, <1>9, <1>10 DEF IInv

(* What taking a unit leaves unchanged. *)
LEMMA TakeFacts ==
  ASSUME CountFacts, IInv, NEW t \in Thread, NEW s \in Sema, InSemaDown(t, s),
         sema_down_take(t, s)
  PROVE  /\ SchedInv' /\ Quiet
         /\ UNCHANGED <<status, current, idle_thread, level, waiters>>
         /\ \A u \in Thread : asleep'[u] = IF u = t THEN NULL ELSE asleep[u]
         /\ \A r \in Sema : value'[r] = IF r = s THEN value[r] - 1 ELSE value[r]
         /\ value[s] > 0 /\ current = t /\ status[t] = "RUNNING"
<1>1. SchedInv' BY Zenon, DownTakeStep, ThreadAssumption DEF IInv
<1>2. /\ UNCHANGED <<status, current, idle_thread, level, waiters>>
      /\ \A u \in Thread : asleep'[u] = IF u = t THEN NULL ELSE asleep[u]
      /\ \A r \in Sema : value'[r] = IF r = s THEN value[r] - 1 ELSE value[r]
      /\ value[s] > 0 /\ current = t /\ status[t] = "RUNNING"
  BY Zenon DEF sema_down_take, InSemaDown, IInv, SchedInv, SchedTypeOK, OneRunning
<1>3. Quiet BY Zenon, <1>2 DEF Quiet
<1>4. QED BY Zenon, <1>1, <1>2, <1>3

LEMMA ClientDownStep ==
  ASSUME CountFacts, IInv, NEW t \in Thread, ClientDown(t)
  PROVE  IInv'
<1>1. PICK s \in ClientSema : /\ InSemaDown(t, s)
                              /\ sema_down_wait(t, s) \/ sema_down_take(t, s)
  BY Zenon DEF ClientDown
<1>2. /\ s \in Sema /\ s # tid_lock /\ s # idle_started
      /\ pc[t] = "run" /\ UNCHANGED <<pc, local_vars>>
  BY Zenon DEF ClientSema, ClientDown
<1>3. CASE sema_down_wait(t, s)
  <2>1. ~Creating BY Zenon, <1>1, <1>2 DEF InSemaDown, IInv, BootInv, Creating, CreatePC
  <2>2. QED BY Zenon, <1>1, <1>2, <1>3, <2>1, DownWaitInv
<1>4. CASE sema_down_take(t, s)
  <2>1. /\ SchedInv' /\ Quiet
        /\ UNCHANGED <<status, current, idle_thread, level, waiters>>
        /\ \A u \in Thread : asleep'[u] = IF u = t THEN NULL ELSE asleep[u]
        /\ \A r \in Sema : value'[r] = IF r = s THEN value[r] - 1 ELSE value[r]
    BY Zenon, <1>1, <1>2, <1>4, TakeFacts
  <2>2. SleepInv /\ TidLockInv /\ TidInv /\ NULL \notin Sema
    BY Zenon, ThreadAssumption DEF IInv
  <2>3. SleepInv' BY Zenon, <1>2, <2>1, <2>2, SemaAssumption DEF SleepInv, ClientSema
  <2>4. QuietMove BY Zenon, <1>2 DEF QuietMove
  <2>5. CreateInv' /\ BootInv' /\ AllListLive' /\ IdleStartedInScope'
    BY Zenon, <1>2, <2>1, <2>3, <2>4, SemaAssumption, QuietStep DEF local_vars
  <2>6. TypeOK' BY Zenon, <1>2, <2>1 DEF SchedInv, IInv, TypeOK, local_vars
  <2>7. TidLockInv' /\ TidInv'
    BY Zenon, <1>2, <2>1, <2>2, SemaAssumption DEF TidLockInv, TidInv, UniqueTids, local_vars
  <2>8. QED BY Zenon, <2>1, <2>3, <2>5, <2>6, <2>7 DEF IInv
<1>5. QED BY Zenon, <1>1, <1>3, <1>4

(* tid_lock is free while the idle thread is being created: nobody else    *)
(* exists that could hold it.                                              *)
LEMMA TidDownStep ==
  ASSUME CountFacts, IInv, NEW t \in Thread, TidDown(t)
  PROVE  IInv'
<1>1. /\ InSemaDown(t, tid_lock) /\ pc[t] = "tid_down" /\ UNCHANGED local_vars
      /\ tid_lock \in Sema /\ tid_lock # idle_started /\ idle_started \in Sema
      /\ NULL \notin Sema /\ initial_thread \in Thread
  BY Zenon, SemaAssumption, ThreadAssumption DEF TidDown
<1>2. SleepInv /\ TidLockInv /\ TidInv /\ BootInv BY Zenon DEF IInv
<1>3. CASE sema_down_wait(t, tid_lock) /\ UNCHANGED pc
  <2>1. PICK u \in Thread : pc[u] \in Critical
    BY SMTT(60), <1>2, <1>3 DEF TidLockInv, sema_down_wait
  <2>2. ~Creating
    BY <1>1, <1>2, <2>1 DEF BootInv, InSemaDown, Critical
  <2>3. QED BY Zenon, <1>1, <1>3, <2>2, DownWaitInv
<1>4. CASE sema_down_take(t, tid_lock) /\ Goto(t, "tid_hold")
  <2>1. /\ SchedInv' /\ Quiet
        /\ UNCHANGED <<status, current, idle_thread, level, waiters>>
        /\ \A u \in Thread : asleep'[u] = IF u = t THEN NULL ELSE asleep[u]
        /\ \A r \in Sema : value'[r] = IF r = tid_lock THEN value[r] - 1 ELSE value[r]
        /\ value[tid_lock] > 0
    BY Zenon, <1>1, <1>4, TakeFacts
  <2>2. \A u \in Thread : pc'[u] = IF u = t THEN "tid_hold" ELSE pc[u]
    BY Zenon, <1>4 DEF Goto, IInv, TypeOK
  <2>3. SleepInv' BY SMTT(60), <1>1, <1>2, <2>1, <2>2, SemaAssumption DEF SleepInv, ClientSema
  <2>4. QuietMove BY Zenon, <1>1, <2>2 DEF QuietMove, CreatePC
  <2>5. CreateInv' /\ BootInv' /\ AllListLive' /\ IdleStartedInScope'
    BY Zenon, <1>1, <2>1, <2>3, <2>4, QuietStep DEF local_vars
  <2>6. TypeOK'
    BY Zenon, <1>1, <1>4, <2>1 DEF SchedInv, IInv, TypeOK, local_vars, Goto, PC, CreatePC
  <2>7. TidLockInv'
    <3>1. value[tid_lock] = 1 /\ value'[tid_lock] = 0
      BY SMTT(60), <1>1, <1>2, <2>1 DEF TidLockInv
    <3>2. QED BY SMTT(60), <1>2, <2>2, <3>1 DEF TidLockInv, Critical
  <2>8. TidInv' BY Zenon, <1>1, <1>2, <2>2 DEF TidInv, UniqueTids, local_vars
  <2>9. QED BY Zenon, <2>1, <2>3, <2>5, <2>6, <2>7, <2>8 DEF IInv
<1>5. QED BY Zenon, <1>3, <1>4 DEF TidDown

LEMMA TidUpStep ==
  ASSUME CountFacts, IInv, NEW t \in Thread, TidUp(t)
  PROVE  IInv'
<1>1. /\ current = t /\ asleep[t] = NULL /\ pc[t] = "tid_up" /\ sema_up(tid_lock)
      /\ UNCHANGED local_vars /\ Goto(t, "unblock")
      /\ tid_lock \in Sema /\ tid_lock # idle_started /\ idle_started \in Sema
  BY Zenon, SemaAssumption DEF TidUp, At, Running
<1>2. SleepInv /\ TidLockInv /\ TidInv BY Zenon DEF IInv
<1>3. SchedInv' BY Zenon, <1>1, UpStep, ThreadAssumption DEF IInv
<1>4. Quiet BY Zenon, <1>1, UpQuiet
<1>5. /\ UNCHANGED <<current, idle_thread, level, asleep>>
      /\ value'[tid_lock] = value[tid_lock] + 1
      /\ value'[idle_started] = value[idle_started]
  BY Zenon, <1>1 DEF sema_up, IInv, SchedInv, SchedTypeOK
<1>6. \A u \in Thread : pc'[u] = IF u = t THEN "unblock" ELSE pc[u]
  BY Zenon, <1>1 DEF Goto, IInv, TypeOK
<1>7. SleepInv' BY Zenon, <1>1, <1>2, <1>5, <1>6, ThreadAssumption DEF SleepInv, ClientSema
<1>8. QuietMove BY Zenon, <1>1, <1>6 DEF QuietMove, CreatePC
<1>9. CreateInv' /\ BootInv' /\ AllListLive' /\ IdleStartedInScope'
  BY Zenon, <1>1, <1>3, <1>4, <1>5, <1>7, <1>8, QuietStep DEF local_vars
<1>10. TypeOK'
  BY Zenon, <1>1, <1>3 DEF SchedInv, IInv, TypeOK, local_vars, Goto, PC, CreatePC
<1>11. TidLockInv'
  BY SMTT(60), <1>1, <1>2, <1>5, <1>6 DEF TidLockInv, Critical
<1>12. TidInv'
  <2>1. \A u \in Thread :
          /\ pc'[u] = "tid_write" => pc[u] = "tid_write"
          /\ pc'[u] \in {"tid_rel", "tid_up", "unblock"} => pc[u] \in {"tid_rel", "tid_up", "unblock"}
    BY Zenon, <1>1, <1>6
  <2>2. QED BY Zenon, <1>1, <1>2, <2>1 DEF TidInv, UniqueTids, local_vars
<1>13. QED BY Zenon, <1>3, <1>7, <1>9, <1>10, <1>11, <1>12 DEF IInv

-----------------------------------------------------------------------------
(* Taking a page and making the new thread ready *)

(* Once the idle thread has been created, BootInv is about idle() and      *)
(* thread_start() only: it survives steps that leave those two alone.      *)
LEMMA BootKeep ==
  ASSUME BootInv, ~Creating, initial_thread \in Thread,
         UNCHANGED <<current, idle_thread, level>>,
         value'[idle_started] > 0 => value[idle_started] > 0,
         \A u \in Thread :
           /\ level[u] = "OFF" => pc'[u] = pc[u]
           /\ pc[u] \in IdlePC \/ pc'[u] \in IdlePC =>
                pc'[u] = pc[u] /\ status'[u] = status[u]
           /\ \A l \in {"start_enable", "start_down"} : pc'[u] = l <=> pc[u] = l
  PROVE  BootInv'
<1>1. ~Creating' BY Zenon DEF Creating
<1>2. \A u \in Thread : level[u] = "OFF" =>
        u = initial_thread /\ pc'[u] \in CreatePC \cup {"start_enable"}
  BY Zenon DEF BootInv
<1>3. \A u \in Thread : /\ pc'[u] \in IdlePC <=> pc[u] \in IdlePC
                        /\ \A l \in IdlePC : pc'[u] = l <=> pc[u] = l
  BY Zenon
<1>4. \A u \in Thread : pc'[u] \in IdlePC \ {"idle_set"} <=> u = idle_thread
  BY Zenon, <1>3 DEF BootInv, IdlePC
<1>5. \A u \in Thread : u = idle_thread => status'[u] # "BLOCKED" \/ pc'[u] = "idle_hlt"
  BY <1>3, <1>4 DEF BootInv, IdlePC
<1>6. \A u \in Thread : pc'[u] = "idle_set" =>
        idle_thread = NULL /\ status'[u] \in {"READY", "RUNNING"}
  BY Zenon, <1>3 DEF BootInv, IdlePC
<1>7. /\ idle_thread = NULL => \E u \in Thread : pc'[u] = "idle_set"
      /\ \A u, v \in Thread : pc'[u] \in IdlePC /\ pc'[v] \in IdlePC => u = v
  BY Zenon, <1>3 DEF BootInv, IdlePC
<1>8. value'[idle_started] > 0 =>
       \A u \in Thread : pc'[u] \notin {"idle_set", "idle_up"}
                         /\ pc'[initial_thread] # "start_enable"
  BY Zenon, <1>3 DEF BootInv, IdlePC
<1>9. /\ pc'[initial_thread] = "start_down" => idle_thread # NULL \/
           \E u \in Thread : pc'[u] = "idle_set"
      /\ pc'[initial_thread] = "start_enable" =>
           current = initial_thread /\ level[initial_thread] = "OFF"
  BY Zenon, <1>7 DEF BootInv
<1>10. QED BY Zenon, <1>1, <1>2, <1>4, <1>5, <1>6, <1>7, <1>8, <1>9 DEF BootInv

LEMMA CallCreateStep ==
  ASSUME IInv, NEW t \in Thread, CallCreate(t)
  PROVE  IInv'
<1>1. /\ current = t /\ asleep[t] = NULL /\ pc[t] = "run"
      /\ \A u \in Thread : pc'[u] = IF u = t THEN "palloc" ELSE pc[u]
      /\ UNCHANGED <<status, ready_list, current, idle_thread, thread_ticks,
                     level, asleep, value, waiters, local_vars>>
  BY Zenon DEF CallCreate, Goto, At, Running, IInv, TypeOK, sched_vars
<1>2. /\ CreateInv /\ SleepInv /\ BootInv /\ IdleStartedInScope /\ AllListLive
      /\ TidLockInv /\ TidInv /\ status[t] = "RUNNING"
      /\ initial_thread \in Thread /\ NULL \notin Thread /\ NULL \notin Sema
  BY Zenon, <1>1, ThreadAssumption DEF IInv, SchedInv, OneRunning
<1>3. SchedInv' BY Zenon, <1>1, SchedStutter DEF IInv, sched_vars
<1>4. TypeOK'
  BY Zenon, <1>1, <1>3 DEF CallCreate, Goto, SchedInv, IInv, TypeOK, local_vars, PC, CreatePC
<1>5. level[t] # "OFF"
  BY Zenon, <1>1, <1>2 DEF BootInv, CreatePC
<1>6. ~Creating
  BY Zenon, <1>1, <1>2, <1>5 DEF BootInv, Creating, CreatePC
<1>7. BootInv' BY Zenon, <1>1, <1>2, <1>5, <1>6, BootKeep DEF IdlePC
<1>8. CreateInv' BY <1>1, <1>2 DEF CreateInv, local_vars, CreatePC
<1>9. SleepInv' BY Zenon, <1>1, <1>2, SemaAssumption DEF SleepInv, ClientSema
<1>10. AllListLive' /\ IdleStartedInScope'
  BY Zenon, <1>1, <1>2 DEF AllListLive, IdleStartedInScope, local_vars
<1>11. TidLockInv' BY Zenon, <1>1, <1>2 DEF TidLockInv, Critical
<1>12. TidInv' BY Zenon, <1>1, <1>2 DEF TidInv, UniqueTids, local_vars
<1>13. QED
  BY Zenon, <1>3, <1>4, <1>7, <1>8, <1>9, <1>10, <1>11, <1>12 DEF IInv

(* At boot a page is free, so only a client sees thread_create() fail. *)
LEMMA PallocFailsStep ==
  ASSUME IInv, NEW t \in Thread, PallocFails(t)
  PROVE  IInv'
<1>1. /\ current = t /\ asleep[t] = NULL /\ pc[t] = "palloc"
      /\ \A u \in Thread : pc'[u] = IF u = t THEN "run" ELSE pc[u]
      /\ \A u \in Thread : status[u] # "FREE"
      /\ UNCHANGED <<status, ready_list, current, idle_thread, thread_ticks,
                     level, asleep, value, waiters, local_vars>>
  BY Zenon DEF PallocFails, Goto, At, Running, IInv, TypeOK, sched_vars
<1>2. /\ CreateInv /\ SleepInv /\ BootInv /\ IdleStartedInScope /\ AllListLive
      /\ TidLockInv /\ TidInv /\ status[t] = "RUNNING"
      /\ initial_thread \in Thread /\ NULL \notin Thread /\ NULL \notin Sema
  BY Zenon, <1>1, ThreadAssumption DEF IInv, SchedInv, OneRunning
<1>3. SchedInv' BY Zenon, <1>1, SchedStutter DEF IInv, sched_vars
<1>4. TypeOK'
  BY Zenon, <1>1, <1>3 DEF PallocFails, Goto, SchedInv, IInv, TypeOK, local_vars, PC
<1>5. ~Creating
  <2>1. PICK p \in Thread : p # initial_thread BY Zenon, PagesAssumption
  <2>2. SUFFICES ASSUME Creating PROVE FALSE BY Zenon
  <2>3. status[p] = "BLOCKED" /\ new[initial_thread] = p
    BY Zenon, <1>1, <1>2, <2>1, <2>2 DEF BootInv
  <2>4. t = initial_thread BY Zenon, <1>1, <1>2, <2>2 DEF BootInv
  <2>5. QED BY Zenon, <1>1, <1>2, <2>3, <2>4 DEF CreateInv, CreatePC
<1>6. level[t] # "OFF"
  BY Zenon, <1>1, <1>2, <1>5 DEF BootInv, Creating, CreatePC
<1>7. BootInv' BY Zenon, <1>1, <1>2, <1>5, <1>6, BootKeep DEF IdlePC
<1>8. CreateInv' BY <1>1, <1>2 DEF CreateInv, local_vars, CreatePC
<1>9. SleepInv' BY Zenon, <1>1, <1>2, SemaAssumption DEF SleepInv, ClientSema
<1>10. AllListLive' /\ IdleStartedInScope'
  BY Zenon, <1>1, <1>2 DEF AllListLive, IdleStartedInScope, local_vars
<1>11. TidLockInv' BY Zenon, <1>1, <1>2 DEF TidLockInv, Critical
<1>12. TidInv' BY Zenon, <1>1, <1>2 DEF TidInv, UniqueTids, local_vars
<1>13. QED
  BY Zenon, <1>3, <1>4, <1>7, <1>8, <1>9, <1>10, <1>11, <1>12 DEF IInv

LEMMA PallocPageStep ==
  ASSUME IInv, NEW t \in Thread, PallocPage(t)
  PROVE  IInv'
<1>0. PICK p \in Thread : /\ status[p] = "FREE"
                          /\ status' = [status EXCEPT ![p] = "BLOCKED"]
                          /\ new' = [new EXCEPT ![t] = p]
  BY Zenon DEF PallocPage
<1>1. /\ current = t /\ asleep[t] = NULL /\ pc[t] = "palloc"
      /\ \A u \in Thread : pc'[u] = IF u = t THEN "all_list" ELSE pc[u]
      /\ \A u \in Thread : status'[u] = IF u = p THEN "BLOCKED" ELSE status[u]
      /\ \A u \in Thread : new'[u] = IF u = t THEN p ELSE new[u]
      /\ UNCHANGED <<ready_list, current, idle_thread, thread_ticks, level,
                     asleep, value, waiters, all_list, tid, reg, next_tid, holder>>
  BY Zenon, <1>0 DEF PallocPage, Goto, At, Running, IInv, TypeOK, SchedTypeOK
<1>2. /\ CreateInv /\ SleepInv /\ BootInv /\ IdleStartedInScope /\ AllListLive
      /\ TidLockInv /\ TidInv /\ status[t] = "RUNNING" /\ SchedInv /\ p # t
      /\ initial_thread \in Thread /\ NULL \notin Thread /\ NULL \notin Sema
  BY Zenon, <1>0, <1>1, ThreadAssumption DEF IInv, SchedInv, OneRunning
<1>3. pc[p] = "none" /\ asleep[p] = NULL /\ p # idle_thread
      /\ \A u \in Thread : new[u] # p
  <2>1. pc[p] = "none" BY Zenon, <1>0, <1>2 DEF CreateInv
  <2>2. asleep[p] = NULL
    BY Zenon, <1>2, <2>1 DEF SleepInv, ClientSema, SchedInv, SchedTypeOK
  <2>3. p # idle_thread BY Zenon, <1>2, <2>1 DEF BootInv, IdlePC
  <2>4. QED BY Zenon, <1>0, <1>2, <2>1, <2>2, <2>3 DEF AllListLive
<1>4. SchedInv'
  <2>1. SchedTypeOK' BY Zenon, <1>0, <1>1, <1>2 DEF SchedInv, SchedTypeOK, Status
  <2>2. OneRunning' /\ ReadyListExact'
    BY SMTT(60), <1>0, <1>1, <1>2 DEF SchedInv, OneRunning, ReadyListExact
  <2>3. WaitersBlocked'
    BY SMTT(60), <1>0, <1>1, <1>2, <1>3 DEF SchedInv, WaitersBlocked
  <2>4. NoLostWakeup'
    BY Zenon, <1>1, <1>2, <1>3, WokenUnchanged, ThreadAssumption DEF SchedInv
  <2>5. QED BY Zenon, <1>1, <1>2, <2>1, <2>2, <2>3, <2>4 DEF SchedInv
<1>5. TypeOK'
  BY Zenon, <1>0, <1>1, <1>4 DEF PallocPage, Goto, SchedInv, IInv, TypeOK, PC, CreatePC
<1>6. CreateInv'
  <2>1. ASSUME NEW u \in Thread
        PROVE  pc'[u] = "none" <=> status'[u] \in {"FREE", "DYING"}
                                   \/ \E v \in Thread : new'[v] = u
    <3>1. new[t] = NULL BY Zenon, <1>1, <1>2 DEF CreateInv, CreatePC
    <3>2. CASE u = p BY Zenon, <1>1, <1>2, <1>3, <3>2
    <3>3. CASE u # p
      <4>1. (\E v \in Thread : new'[v] = u) <=> (\E v \in Thread : new[v] = u)
        BY Zenon, <1>1, <1>2, <3>1, <3>3
      <4>2. QED BY SMTT(60), <1>1, <1>2, <3>3, <4>1 DEF CreateInv
    <3>4. QED BY Zenon, <3>2, <3>3
  <2>2. \A u \in Thread : new'[u] # NULL <=> pc'[u] \in CreatePC \ {"palloc"}
    BY SMTT(60), <1>1, <1>2 DEF CreateInv, CreatePC
  <2>3. QED BY Zenon, <2>1, <2>2 DEF CreateInv
<1>7. SleepInv' BY <1>1, <1>2, SemaAssumption DEF SleepInv, ClientSema
<1>8. Creating' = Creating BY Zenon, <1>1, <1>2 DEF Creating, CreatePC
<1>9. BootInv'
  <2>1. CASE Creating
    <3>1. /\ t = initial_thread /\ idle_thread = NULL /\ new[t] = NULL
          /\ level[t] = "OFF" /\ ~(value[idle_started] > 0)
          /\ \A u \in Thread : u # t => pc[u] = "none" /\ level[u] # "OFF"
      BY ZenonT(60), <1>1, <1>2, <2>1 DEF BootInv, CreateInv, CreatePC, Creating
    <3>2. \A u \in Thread : u # t =>
            status[u] = "FREE" \/ (status[u] = "BLOCKED" /\ new[t] = u)
      BY Zenon, <1>2, <2>1, <3>1 DEF BootInv
    <3>3. \A u \in Thread : u # t =>
            status'[u] = "FREE" \/ (status'[u] = "BLOCKED" /\ new'[t] = u)
      BY SMTT(60), <1>1, <1>2, <3>1, <3>2
    <3>4. \A u \in Thread : pc'[u] = IF u = t THEN "all_list" ELSE "none"
      BY Zenon, <1>1, <3>1
    <3>5. QED
      BY SMTT(60), <1>1, <1>8, <2>1, <3>1, <3>3, <3>4, ThreadAssumption
         DEF BootInv, IdlePC, CreatePC
  <2>2. CASE ~Creating
    <3>1. level[t] # "OFF" BY ZenonT(60), <1>1, <1>2, <2>2 DEF BootInv, Creating, CreatePC
    <3>2. QED BY Zenon, <1>1, <1>2, <1>3, <2>2, <3>1, BootKeep DEF IdlePC
  <2>3. QED BY Zenon, <2>1, <2>2
<1>10. AllListLive'
  <2>1. \A u \in all_list' : u \in Thread /\ status'[u] \notin {"FREE", "DYING"}
    BY Zenon, <1>1, <1>2 DEF AllListLive, IInv, TypeOK
  <2>2. \A u \in Thread : new[u] # NULL => new[u] \in Thread
    BY Zenon DEF IInv, TypeOK
  <2>3. QED BY SMTT(60), <1>1, <1>2, <1>3, <2>1, <2>2 DEF AllListLive
<1>11. IdleStartedInScope'
  BY ZenonT(60), <1>1, <1>2 DEF IdleStartedInScope, BootInv, CreatePC
<1>12. TidLockInv' BY ZenonT(60), <1>1, <1>2 DEF TidLockInv, Critical
<1>13. TidInv' BY ZenonT(60), <1>1, <1>2 DEF TidInv, UniqueTids
<1>14. QED
  BY Zenon, <1>4, <1>5, <1>6, <1>7, <1>9, <1>10, <1>11, <1>12, <1>13 DEF IInv

(* The new thread becomes ready; no other page is its creator's, and its   *)
(* tid is one nobody has or will get.  At boot it is the idle thread.      *)
LEMMA CreateUnblockStep ==
  ASSUME IInv, NEW t \in Thread, CreateUnblock(t)
  PROVE  IInv'
<1> DEFINE boot == level[t] = "OFF"
           fn == IF boot THEN "idle_set" ELSE "run"
           return == IF boot THEN "start_enable" ELSE "run"
<1>1. /\ CreateInv /\ SleepInv /\ BootInv /\ IdleStartedInScope /\ AllListLive
      /\ TidLockInv /\ TidInv /\ SchedInv /\ TypeOK
      /\ initial_thread \in Thread /\ NULL \notin Thread /\ NULL \notin Sema
  BY Zenon, ThreadAssumption DEF IInv
<1>2. /\ current = t /\ asleep[t] = NULL /\ pc[t] = "unblock" /\ status[t] = "RUNNING"
  BY Zenon, <1>1 DEF CreateUnblock, At, Running, SchedInv, OneRunning
<1>3. PICK n \in Thread : n = new[t]
  BY SMTT(60), <1>1, <1>2 DEF CreateInv, CreatePC, TypeOK
<1>4. /\ pc[n] = "none" /\ n # t /\ status[n] = "BLOCKED" /\ asleep[n] = NULL
      /\ n # idle_thread /\ \A u \in Thread : new[u] = n => u = t
  BY SMTT(60), <1>1, <1>2, <1>3 DEF CreateInv, AllListLive, BootInv, IdlePC
<1>5. /\ \A u \in Thread : pc'[u] = IF u = t THEN return ELSE IF u = n THEN fn ELSE pc[u]
      /\ \A u \in Thread : new'[u] = IF u = t THEN NULL ELSE new[u]
      /\ \A u \in Thread : tid'[u] = IF u = n THEN reg[t] ELSE tid[u]
      /\ \A u \in Thread : reg'[u] = IF u = t THEN 0 ELSE reg[u]
      /\ UNCHANGED <<current, idle_thread, thread_ticks, level, asleep, value,
                     waiters, all_list, next_tid, holder>>
      /\ thread_unblock(n)
  BY Zenon, <1>1, <1>3, <1>4 DEF CreateUnblock, TypeOK
<1>6. /\ status' \in [Thread -> Status] /\ ready_list' \in Seq(Thread)
      /\ OneRunning' /\ ReadyListExact'
      /\ \A u \in Thread : status'[u] = IF u = n THEN "READY" ELSE status[u]
  BY Zenon, <1>1, <1>4, <1>5, UnblockStep, ThreadAssumption
<1>7. SchedInv'
  <2>1. SchedTypeOK' BY Zenon, <1>1, <1>5, <1>6 DEF SchedInv, SchedTypeOK
  <2>2. WaitersBlocked'
    <3> SUFFICES ASSUME NEW s \in Sema
                 PROVE  /\ NoDup(waiters'[s])
                        /\ InList(waiters'[s]) = {u \in Thread : status'[u] = "BLOCKED"
                                                                /\ asleep'[u] = s}
      BY Zenon DEF WaitersBlocked
    <3>1. /\ NoDup(waiters[s])
          /\ InList(waiters[s]) = {u \in Thread : status[u] = "BLOCKED" /\ asleep[u] = s}
      BY Zenon, <1>1 DEF SchedInv, WaitersBlocked
    <3>2. waiters' = waiters /\ asleep' = asleep /\ s # NULL BY Zenon, <1>1, <1>5
    <3>3. \A u \in Thread : (status'[u] = "BLOCKED" /\ asleep'[u] = s)
                            <=> (status[u] = "BLOCKED" /\ asleep[u] = s)
      BY Zenon, <1>4, <1>6, <3>2
    <3>4. QED BY Zenon, <3>1, <3>2, <3>3
  <2>3. NoLostWakeup'
    BY Zenon, <1>1, <1>4, <1>5, <1>6, WokenUnchanged, ThreadAssumption DEF SchedInv
  <2>4. QED BY Zenon, <1>1, <1>5, <1>6, <2>1, <2>2, <2>3 DEF SchedInv
<1>8. TypeOK'
  <2>1. reg[t] \in Nat BY Zenon, <1>1 DEF TypeOK
  <2>2. pc' \in [Thread -> PC] /\ new' \in [Thread -> Thread \cup {NULL}]
        /\ tid' \in [Thread -> Nat] /\ reg' \in [Thread -> Nat]
    BY Zenon, <1>1, <1>3, <2>1 DEF CreateUnblock, TypeOK, PC, CreatePC, IdlePC
  <2>3. QED BY Zenon, <1>1, <1>5, <1>7, <2>2 DEF TypeOK, SchedInv
<1>9. CreateInv'
  <2>1. ASSUME NEW u \in Thread
        PROVE  pc'[u] = "none" <=> status'[u] \in {"FREE", "DYING"}
                                   \/ \E v \in Thread : new'[v] = u
    <3>1. CASE u = n BY ZenonT(60), <1>1, <1>4, <1>5, <1>6, <3>1
    <3>2. CASE u # n
      <4>1. (\E v \in Thread : new'[v] = u) <=> (\E v \in Thread : new[v] = u)
        BY ZenonT(60), <1>1, <1>3, <1>5, <3>2
      <4>2. status'[u] = status[u] BY Zenon, <1>6, <3>2
      <4>3. pc[u] = "none" <=> status[u] \in {"FREE", "DYING"}
                               \/ \E v \in Thread : new[v] = u
        BY Zenon, <1>1 DEF CreateInv
      <4>4. pc'[u] = "none" <=> pc[u] = "none" BY Zenon, <1>2, <1>5, <3>2
      <4>5. QED BY Zenon, <4>1, <4>2, <4>3, <4>4
    <3>3. QED BY Zenon, <3>1, <3>2
  <2>2. ASSUME NEW u \in Thread
        PROVE  new'[u] # NULL <=> pc'[u] \in CreatePC \ {"palloc"}
    <3>1. CASE u = t BY Zenon, <1>5, <3>1 DEF CreatePC
    <3>2. CASE u = n
      <4>1. new[n] = NULL BY Zenon, <1>1, <1>4 DEF CreateInv, CreatePC
      <4>2. new'[n] = NULL /\ pc'[n] = fn BY Zenon, <1>4, <1>5, <4>1
      <4>3. QED BY Zenon, <3>2, <4>2 DEF CreatePC
    <3>3. CASE u # t /\ u # n
      <4>1. new'[u] = new[u] /\ pc'[u] = pc[u] BY Zenon, <1>5, <3>3
      <4>2. QED BY Zenon, <1>1, <4>1 DEF CreateInv
    <3>4. QED BY Zenon, <3>1, <3>2, <3>3
  <2>3. QED BY Zenon, <2>1, <2>2 DEF CreateInv
<1>10. SleepInv'
  <2>1. boot => t = initial_thread BY Zenon, <1>1 DEF BootInv
  <2>2. asleep' = asleep /\ NULL \notin {tid_lock, idle_started} \cup ClientSema
    BY Zenon, <1>1, <1>5, SemaAssumption DEF ClientSema
  <2>3. QED BY ZenonT(60), <1>1, <1>2, <1>4, <1>5, <2>1, <2>2 DEF SleepInv
<1>11. BootInv' /\ IdleStartedInScope'
  <2>1. CASE boot
    <3>1. t = initial_thread /\ Creating /\ idle_thread = NULL
          /\ \A u \in Thread : u # t => pc[u] = "none" /\ level[u] # "OFF"
      BY Zenon, <1>1, <1>2, <2>1 DEF BootInv, Creating, CreatePC
    <3>2. ~(value[idle_started] > 0) BY Zenon, <1>1, <3>1 DEF BootInv
    <3>3. ~Creating' BY Zenon, <1>5, <2>1, <3>1 DEF Creating, CreatePC
    <3>4. \A u \in Thread : pc'[u] = IF u = t THEN "start_enable"
                                     ELSE IF u = n THEN "idle_set" ELSE "none"
      BY Zenon, <1>5, <2>1, <3>1
    <3>5. BootInv'
      <4>1. level' = level /\ current' = current /\ idle_thread' = NULL /\ value' = value
        BY Zenon, <1>5, <3>1
      <4>2. \A u \in Thread : level'[u] = "OFF" =>
              u = initial_thread /\ pc'[u] \in CreatePC \cup {"start_enable"}
        BY Zenon, <3>1, <3>4, <4>1
      <4>3. current' = initial_thread /\ level'[initial_thread] = "OFF"
        BY Zenon, <1>2, <3>1, <4>1 DEF Creating
      <4>4. pc'[n] = "idle_set" /\ status'[n] = "READY" BY Zenon, <1>4, <1>6, <3>4
      <4>5. \A u \in Thread : pc'[u] \in IdlePC => u = n BY Zenon, <3>4 DEF IdlePC
      <4>6. \A u \in Thread : pc'[u] \in IdlePC \ {"idle_set"} <=> u = idle_thread'
        BY Zenon, <1>1, <4>1, <4>4, <4>5
      <4>7. ~(value'[idle_started] > 0) BY Zenon, <3>2, <4>1
      <4>8. pc'[initial_thread] = "start_enable" BY Zenon, <3>1, <3>4
      <4>9. "idle_set" \in IdlePC /\ "start_down" # "start_enable" BY Zenon DEF IdlePC
      <4>10. \A u \in Thread : u # idle_thread' BY Zenon, <1>1, <4>1
      <4>11. QED BY Zenon, <3>3, <4>1, <4>2, <4>3, <4>4, <4>5, <4>6, <4>7, <4>8, <4>9, <4>10 DEF BootInv
    <3>6. QED BY Zenon, <3>1, <3>4, <3>5 DEF IdleStartedInScope
  <2>2. CASE ~boot
    <3>1. ~Creating BY Zenon, <1>1, <1>2, <2>2 DEF BootInv, Creating
    <3>2. \A u \in Thread : pc'[u] = IF u \in {t, n} THEN "run" ELSE pc[u]
      BY Zenon, <1>5, <2>2
    <3>3. \A u \in Thread : level[u] = "OFF" => u # t /\ u # n
      <4>1. \A u \in Thread : level[u] = "OFF" => pc[u] \in CreatePC \cup {"start_enable"}
        BY Zenon, <1>1 DEF BootInv
      <4>2. "none" \notin CreatePC \cup {"start_enable"} BY Zenon DEF CreatePC
      <4>3. QED BY Zenon, <1>4, <2>2, <4>1, <4>2
    <3>4. \A u \in Thread : \A l \in IdlePC \cup {"start_enable", "start_down"} :
            pc'[u] = l <=> pc[u] = l
      BY Zenon, <1>2, <1>4, <3>2 DEF IdlePC
    <3>5. BootInv'
      BY Zenon, <1>1, <1>2, <1>4, <1>5, <1>6, <3>1, <3>2, <3>3, BootKeep DEF IdlePC
    <3>6. QED BY Zenon, <1>1, <3>4, <3>5 DEF IdleStartedInScope, IdlePC
  <2>3. QED BY Zenon, <2>1, <2>2
<1>12. AllListLive'
  <2>1. \A u \in Thread : new[u] # NULL => new[u] \in Thread
    BY Zenon, <1>1 DEF TypeOK
  <2>2. \A u \in all_list' : u \in Thread /\ status'[u] \notin {"FREE", "DYING"}
    BY ZenonT(60), <1>1, <1>5, <1>6 DEF AllListLive, TypeOK
  <2>3. ASSUME NEW u \in Thread, new'[u] # NULL
        PROVE  /\ status'[new'[u]] = "BLOCKED" /\ asleep'[new'[u]] = NULL
               /\ new'[u] = new[u] /\ u # t
    <3>1. u # t /\ new'[u] = new[u] BY Zenon, <1>5, <2>3
    <3>2. new[u] \in Thread /\ new[u] # n BY Zenon, <1>4, <2>1, <2>3, <3>1
    <3>3. status[new[u]] = "BLOCKED" /\ asleep[new[u]] = NULL
      BY Zenon, <1>1, <2>3, <3>1 DEF AllListLive
    <3>4. asleep' = asleep /\ status'[new[u]] = status[new[u]] BY Zenon, <1>5, <1>6, <3>2
    <3>5. QED BY Zenon, <3>1, <3>3, <3>4
  <2>4. \A u, v \in Thread : new'[u] # NULL /\ new'[u] = new'[v] => u = v
    <3>1. \A u, v \in Thread : new[u] # NULL /\ new[u] = new[v] => u = v
      BY Zenon, <1>1 DEF AllListLive
    <3>2. \A u \in Thread : new'[u] # NULL => new'[u] = new[u] BY Zenon, <2>3
    <3>3. QED BY Zenon, <3>1, <3>2
  <2>5. QED BY Zenon, <2>2, <2>3, <2>4 DEF AllListLive
<1>13. TidLockInv' BY SMTT(60), <1>1, <1>2, <1>4, <1>5 DEF TidLockInv, Critical
<1>14. TidInv'
  <2>1. reg[t] < next_tid /\ reg[t] >= 1
        /\ (\A u \in Thread : tid[u] # reg[t])
        /\ \A u \in Thread : u # t /\ pc[u] \in {"tid_rel", "tid_up", "unblock"}
                             => reg[u] # reg[t]
    BY Zenon, <1>1, <1>2 DEF TidInv, UniqueTids
  <2>2. \A u \in Thread : pc'[u] \in {"tid_write", "tid_rel", "tid_up", "unblock"}
                          => pc'[u] = pc[u] /\ u # t /\ u # n
    BY Zenon, <1>5
  <2>3. UniqueTids'
    <3>1. UniqueTids BY Zenon, <1>1, <1>2 DEF TidInv
    <3>2. \A u, v \in Thread : tid'[u] = tid'[v] /\ tid'[u] # 0 => u = v
      BY ZenonT(60), <1>1, <1>5, <2>1, <3>1 DEF UniqueTids
    <3>3. \A u \in Thread : tid'[u] < next_tid'
      BY Zenon, <1>1, <1>5, <2>1, <3>1 DEF UniqueTids
    <3>4. \A u \in Thread : pc'[u] \in {"tid_rel", "tid_up", "unblock"} =>
            /\ reg'[u] < next_tid'
            /\ \A v \in Thread : tid'[v] # reg'[u]
      BY ZenonT(60), <1>1, <1>5, <2>1, <2>2, <3>1 DEF UniqueTids
    <3>5. QED BY Zenon, <3>2, <3>3, <3>4 DEF UniqueTids
  <2>4. QED BY ZenonT(60), <1>1, <1>5, <2>2, <2>3 DEF TidInv
<1>15. QED
  BY Zenon, <1>7, <1>8, <1>9, <1>10, <1>11, <1>12, <1>13, <1>14 DEF IInv

-----------------------------------------------------------------------------
(* thread_start(), the idle thread and thread_exit() *)

LEMMA StartEnableStep ==
  ASSUME IInv, NEW t \in Thread, StartEnable(t)
  PROVE  IInv'
<1>1. /\ CreateInv /\ SleepInv /\ BootInv /\ IdleStartedInScope /\ AllListLive
      /\ TidLockInv /\ TidInv /\ SchedInv /\ TypeOK
      /\ initial_thread \in Thread /\ NULL \notin Thread /\ NULL \notin Sema
  BY Zenon, ThreadAssumption DEF IInv
<1>2. /\ current = t /\ asleep[t] = NULL /\ pc[t] = "start_enable"
      /\ \A u \in Thread : pc'[u] = IF u = t THEN "start_down" ELSE pc[u]
      /\ \A u \in Thread : level'[u] = IF u = t THEN "ON" ELSE level[u]
      /\ UNCHANGED <<status, ready_list, current, idle_thread, thread_ticks,
                     asleep, value, waiters, local_vars>>
  BY Zenon, <1>1 DEF StartEnable, At, Running, Goto, TypeOK, SchedTypeOK
<1>3. t = initial_thread BY Zenon, <1>1, <1>2 DEF SleepInv
<1>4. SchedInv'
  <2>1. SchedTypeOK' BY Zenon, <1>1, <1>2 DEF StartEnable, SchedInv, SchedTypeOK, Level
  <2>2. QED BY Zenon, <1>1, <1>2, <2>1 DEF SchedInv, OneRunning, ReadyListExact,
                                    WaitersBlocked, NoLostWakeup, Woken
<1>5. TypeOK' BY Zenon, <1>1, <1>2, <1>4 DEF StartEnable, Goto, SchedInv, TypeOK, local_vars, PC
<1>6. CreateInv' BY <1>1, <1>2 DEF CreateInv, local_vars, CreatePC
<1>7. SleepInv' BY Zenon, <1>1, <1>2, <1>3, SemaAssumption DEF SleepInv, ClientSema
<1>8. ~Creating /\ ~Creating' BY Zenon, <1>1, <1>2, <1>3 DEF Creating, CreatePC
<1>9. BootInv'
  BY SMTT(60), <1>1, <1>2, <1>3, <1>8 DEF BootInv, local_vars, CreatePC, IdlePC
<1>10. AllListLive' /\ IdleStartedInScope'
  BY Zenon, <1>1, <1>2, <1>3 DEF AllListLive, IdleStartedInScope, local_vars
<1>11. TidLockInv' BY Zenon, <1>1, <1>2 DEF TidLockInv, Critical
<1>12. TidInv' BY Zenon, <1>1, <1>2 DEF TidInv, UniqueTids, local_vars
<1>13. QED
  BY Zenon, <1>4, <1>5, <1>6, <1>7, <1>9, <1>10, <1>11, <1>12 DEF IInv

(* thread_start() returns only after idle() is done with idle_started. *)
LEMMA StartDownStep ==
  ASSUME CountFacts, IInv, NEW t \in Thread, StartDown(t)
  PROVE  IInv'
<1>1. /\ InSemaDown(t, idle_started) /\ pc[t] = "start_down" /\ UNCHANGED local_vars
      /\ tid_lock \in Sema /\ tid_lock # idle_started /\ idle_started \in Sema
      /\ NULL \notin Sema /\ NULL \notin Thread /\ initial_thread \in Thread
  BY Zenon, SemaAssumption, ThreadAssumption DEF StartDown
<1>2. /\ CreateInv /\ SleepInv /\ BootInv /\ IdleStartedInScope /\ AllListLive
      /\ TidLockInv /\ TidInv /\ SchedInv /\ TypeOK
  BY Zenon DEF IInv
<1>3. t = initial_thread /\ ~Creating BY Zenon, <1>1, <1>2 DEF SleepInv, Creating, CreatePC
<1>4. CASE sema_down_wait(t, idle_started) /\ UNCHANGED pc
  BY Zenon, <1>1, <1>3, <1>4, DownWaitInv
<1>5. CASE sema_down_take(t, idle_started) /\ Goto(t, "run")
  <2>1. /\ SchedInv'
        /\ UNCHANGED <<status, current, idle_thread, level, waiters>>
        /\ \A u \in Thread : asleep'[u] = IF u = t THEN NULL ELSE asleep[u]
        /\ \A r \in Sema : value'[r] = IF r = idle_started THEN value[r] - 1 ELSE value[r]
        /\ value[idle_started] > 0 /\ status[t] = "RUNNING"
    BY Zenon, <1>1, <1>5, TakeFacts
  <2>2. \A u \in Thread : pc'[u] = IF u = t THEN "run" ELSE pc[u]
    BY Zenon, <1>2, <1>5 DEF Goto, TypeOK
  <2>3. TypeOK' BY Zenon, <1>1, <1>2, <1>5, <2>1 DEF SchedInv, TypeOK, local_vars, Goto, PC
  <2>4. SleepInv'
    <3>1. asleep'[t] = NULL /\ pc'[t] = "run" BY Zenon, <2>1, <2>2
    <3>2. \A u \in Thread \ {t} : asleep'[u] = asleep[u] /\ pc'[u] = pc[u]
      BY Zenon, <2>1, <2>2
    <3>3. NULL \notin {tid_lock, idle_started} \cup ClientSema BY Zenon, <1>1 DEF ClientSema
    <3>4. QED BY Zenon, <1>2, <3>1, <3>2, <3>3 DEF SleepInv
  <2>5. CreateInv'
    <3>1. status' = status /\ new' = new BY Zenon, <1>1, <2>1 DEF local_vars
    <3>2. \A u \in Thread : /\ pc'[u] = "none" <=> pc[u] = "none"
                            /\ pc'[u] \in CreatePC \ {"palloc"}
                                 <=> pc[u] \in CreatePC \ {"palloc"}
      BY Zenon, <1>1, <2>2 DEF CreatePC
    <3>3. QED BY Zenon, <1>2, <3>1, <3>2 DEF CreateInv
  <2>6. ~Creating' BY Zenon, <1>3, <2>2 DEF Creating, CreatePC
  <2>7. \A u \in Thread : pc[u] \notin {"idle_set", "idle_up"}
    BY Zenon, <1>2, <2>1 DEF BootInv
  <2>8. BootInv'
    <3>1. idle_thread # NULL BY Zenon, <1>2, <1>3, <2>7 DEF BootInv
    <3>2. \A u \in Thread : level[u] # "OFF"
      BY Zenon, <1>1, <1>2, <1>3 DEF BootInv, CreatePC
    <3>3. \A u \in Thread : /\ pc'[u] \in IdlePC <=> pc[u] \in IdlePC
                            /\ \A l \in IdlePC : pc'[u] = l <=> pc[u] = l
      BY Zenon, <1>1, <2>2 DEF IdlePC
    <3>4. /\ \A u \in Thread : pc'[u] \in IdlePC \ {"idle_set"} <=> u = idle_thread
          /\ \A u \in Thread : u = idle_thread =>
               status'[u] # "BLOCKED" \/ pc'[u] = "idle_hlt"
          /\ \A u, v \in Thread : pc'[u] \in IdlePC /\ pc'[v] \in IdlePC => u = v
      BY Zenon, <1>2, <2>1, <3>3 DEF BootInv, IdlePC
    <3>5. \A u \in Thread : pc'[u] \notin {"idle_set", "idle_up"}
      BY Zenon, <2>2, <2>7
    <3>6. pc'[initial_thread] = "run" BY Zenon, <1>1, <1>3, <2>2
    <3>7. QED BY Zenon, <2>1, <2>6, <3>1, <3>2, <3>4, <3>5, <3>6 DEF BootInv
  <2>9. IdleStartedInScope' BY Zenon, <2>2, <2>7 DEF IdleStartedInScope
  <2>10. AllListLive'
    <3>1. \A u \in Thread : new[u] # NULL => new[u] \in Thread /\ new[u] # t
      BY SMTT(60), <1>1, <1>2 DEF TypeOK, CreateInv
    <3>2. QED BY Zenon, <1>1, <1>2, <2>1, <3>1 DEF AllListLive, local_vars
  <2>11. TidLockInv' BY ZenonT(60), <1>1, <1>2, <2>1, <2>2 DEF TidLockInv, Critical
  <2>12. TidInv' BY Zenon, <1>1, <1>2, <2>2 DEF TidInv, UniqueTids, local_vars
  <2>13. QED
    BY Zenon, <2>1, <2>3, <2>4, <2>5, <2>8, <2>9, <2>10, <2>11, <2>12 DEF IInv
<1>6. QED BY Zenon, <1>4, <1>5 DEF StartDown

-----------------------------------------------------------------------------
(* The idle thread, and the end of a thread *)

(* BootInv over a step that may switch threads, once thread_start() has    *)
(* enabled interrupts.                                                     *)
LEMMA BootSwitch ==
  ASSUME BootInv, ~Creating, initial_thread \in Thread,
         pc[initial_thread] # "start_enable", pc'[initial_thread] # "start_enable",
         pc'[initial_thread] = "start_down" => pc[initial_thread] = "start_down",
         UNCHANGED <<idle_thread, level>>,
         value'[idle_started] > 0 =>
           \A u \in Thread : pc'[u] \notin {"idle_set", "idle_up"},
         \A u \in Thread :
           /\ pc'[u] \in IdlePC <=> pc[u] \in IdlePC
           /\ pc'[u] = "idle_set" <=> pc[u] = "idle_set"
           /\ pc[u] = "idle_set" => status'[u] \in {"READY", "RUNNING"}
           /\ u = idle_thread => status'[u] # "BLOCKED" \/ pc'[u] = "idle_hlt"
  PROVE  BootInv'
<1>1. \A u \in Thread : level[u] # "OFF" BY DEF BootInv, Creating
<1>2. ~Creating' BY Zenon, <1>1 DEF Creating
<1>3. \A u \in Thread : pc'[u] \in IdlePC \ {"idle_set"} <=> u = idle_thread
  BY Zenon DEF BootInv
<1>4. \A u \in Thread : pc'[u] = "idle_set" =>
        idle_thread = NULL /\ status'[u] \in {"READY", "RUNNING"}
  BY Zenon DEF BootInv
<1>5. /\ idle_thread = NULL => \E u \in Thread : pc'[u] = "idle_set"
      /\ \A u, v \in Thread : pc'[u] \in IdlePC /\ pc'[v] \in IdlePC => u = v
  BY Zenon DEF BootInv
<1>6. QED BY Zenon, <1>1, <1>2, <1>3, <1>4, <1>5 DEF BootInv

(* Who runs after the current thread has left the CPU. *)
LEMMA LeaveFacts ==
  ASSUME IInv, CanSwitch, NEW x \in {"BLOCKED", "DYING"},
         schedule([status EXCEPT ![current] = x], ready_list)
  PROVE  /\ current' = idle_thread \/ status[current'] = "READY"
         /\ \A u \in Thread : u # current =>
              status'[u] = IF u = current' THEN "RUNNING" ELSE status[u]
         /\ current # idle_thread =>
              /\ current' # current
              /\ x = "DYING" => status'[current] =
                                  IF current = initial_thread THEN "DYING" ELSE "FREE"
<1> DEFINE st == [status EXCEPT ![current] = x]
<1>1. \A u \in Thread : st[u] = IF u = current THEN x ELSE status[u]
  BY Zenon DEF IInv, SchedInv, SchedTypeOK
<1> HIDE DEF st
<1>2. \A u \in Thread : status'[u] =
        IF u = current' THEN "RUNNING"
        ELSE IF u = current /\ st[u] = "DYING" /\ u # initial_thread THEN "FREE"
        ELSE st[u]
  BY Zenon, SwitchStatus DEF st
<1>3. current' = idle_thread \/ status[current'] = "READY"
  <2>1. CASE ready_list = <<>>
    BY Zenon, <2>1 DEF schedule, next_thread_to_run
  <2>2. CASE ready_list # <<>>
    <3>1. current' = Head(ready_list) /\ Head(ready_list) \in InList(ready_list)
      BY Zenon, <2>2, PopFront
         DEF schedule, next_thread_to_run, IInv, SchedInv, SchedTypeOK, ReadyListExact
    <3>2. QED BY Zenon, <3>1 DEF IInv, SchedInv, ReadyListExact
  <2>3. QED BY Zenon, <2>1, <2>2
<1>4. current \in Thread /\ status[current] = "RUNNING"
  BY Zenon DEF IInv, SchedInv, SchedTypeOK, OneRunning
<1>5. QED BY Zenon, <1>1, <1>2, <1>3, <1>4

LEMMA IdleSetStep ==
  ASSUME IInv, NEW t \in Thread, IdleSet(t)
  PROVE  IInv'
<1>1. /\ CreateInv /\ SleepInv /\ BootInv /\ IdleStartedInScope /\ AllListLive
      /\ TidLockInv /\ TidInv /\ SchedInv /\ TypeOK
      /\ initial_thread \in Thread /\ NULL \notin Thread /\ NULL \notin Sema
  BY Zenon, ThreadAssumption DEF IInv
<1>2. /\ current = t /\ asleep[t] = NULL /\ pc[t] = "idle_set" /\ idle_thread' = t
      /\ \A u \in Thread : pc'[u] = IF u = t THEN "idle_up" ELSE pc[u]
      /\ UNCHANGED <<status, ready_list, current, thread_ticks, level,
                     asleep, value, waiters, local_vars>>
  BY Zenon, <1>1 DEF IdleSet, At, Running, Goto, TypeOK
<1>3. /\ idle_thread = NULL /\ status[t] = "RUNNING"
      /\ \A u \in Thread : pc[u] \in IdlePC => u = t
  BY Zenon, <1>1, <1>2 DEF BootInv, SchedInv, OneRunning, IdlePC
<1>4. SchedInv'
  <2>1. SchedTypeOK' BY Zenon, <1>1, <1>2 DEF SchedInv, SchedTypeOK
  <2>2. ReadyListExact' BY Zenon, <1>1, <1>2, <1>3 DEF SchedInv, ReadyListExact
  <2>3. QED BY Zenon, <1>1, <1>2, <2>1, <2>2 DEF SchedInv, OneRunning,
                                          WaitersBlocked, NoLostWakeup, Woken
<1>5. TypeOK' BY Zenon, <1>1, <1>2, <1>4 DEF IdleSet, Goto, SchedInv, TypeOK, local_vars, PC, IdlePC
<1>6. CreateInv' BY SMTT(60), <1>1, <1>2 DEF CreateInv, local_vars, CreatePC
<1>7. SleepInv' BY Zenon, <1>1, <1>2, SemaAssumption DEF SleepInv, ClientSema
<1>8. ~Creating /\ ~Creating' BY Zenon, <1>1, <1>2 DEF Creating, CreatePC, BootInv
<1>9. BootInv'
  <2>1. /\ pc[initial_thread] # "start_enable" /\ ~(value[idle_started] > 0)
        /\ \A u \in Thread : level[u] # "OFF"
    BY Zenon, <1>1, <1>2, <1>8 DEF BootInv, Creating
  <2>2. \A u \in Thread : /\ pc'[u] \in IdlePC <=> u = t
                          /\ pc'[u] # "idle_set"
                          /\ u = t => pc'[u] = "idle_up"
    BY Zenon, <1>2, <1>3 DEF IdlePC
  <2>3. pc'[initial_thread] # "start_enable" BY Zenon, <1>1, <1>2, <2>1
  <2>4. QED BY Zenon, <1>1, <1>2, <1>3, <1>8, <2>1, <2>2, <2>3 DEF BootInv
<1>10. AllListLive' /\ IdleStartedInScope'
  BY Zenon, <1>1, <1>2 DEF AllListLive, IdleStartedInScope, local_vars
<1>11. TidLockInv' BY Zenon, <1>1, <1>2 DEF TidLockInv, Critical
<1>12. TidInv' BY Zenon, <1>1, <1>2 DEF TidInv, UniqueTids, local_vars
<1>13. QED
  BY Zenon, <1>4, <1>5, <1>6, <1>7, <1>9, <1>10, <1>11, <1>12 DEF IInv

LEMMA IdleUpStep ==
  ASSUME CountFacts, IInv, NEW t \in Thread, IdleUp(t)
  PROVE  IInv'
<1>1. /\ CreateInv /\ SleepInv /\ BootInv /\ IdleStartedInScope /\ AllListLive
      /\ TidLockInv /\ TidInv /\ SchedInv /\ TypeOK
      /\ initial_thread \in Thread /\ NULL \notin Thread /\ NULL \notin Sema
      /\ tid_lock \in Sema /\ tid_lock # idle_started /\ idle_started \in Sema
  BY Zenon, ThreadAssumption, SemaAssumption DEF IInv
<1>2. /\ current = t /\ asleep[t] = NULL /\ pc[t] = "idle_up" /\ sema_up(idle_started)
      /\ \A u \in Thread : pc'[u] = IF u = t THEN "idle_block" ELSE pc[u]
      /\ UNCHANGED local_vars
  BY Zenon, <1>1 DEF IdleUp, At, Running, Goto, TypeOK
<1>3. SchedInv' BY Zenon, <1>1, <1>2, UpStep, ThreadAssumption
<1>4. Quiet BY Zenon, <1>1, <1>2, UpQuiet
<1>5. /\ UNCHANGED <<current, idle_thread, level, asleep>>
      /\ value'[tid_lock] = value[tid_lock]
  BY Zenon, <1>1, <1>2 DEF sema_up, SchedInv, SchedTypeOK
<1>6. /\ t = idle_thread /\ status[t] = "RUNNING"
      /\ \A u \in Thread : pc[u] \in IdlePC => u = t
  BY Zenon, <1>1, <1>2 DEF BootInv, IdlePC, SchedInv, OneRunning
<1>7. TypeOK'
  BY Zenon, <1>1, <1>2, <1>3 DEF IdleUp, Goto, SchedInv, TypeOK, local_vars, PC, IdlePC
<1>8. CreateInv'
  <2>1. \A u \in Thread : status'[u] \in {"FREE", "DYING"}
                         <=> status[u] \in {"FREE", "DYING"}
    BY Zenon, <1>4 DEF Quiet
  <2>2. QED BY <1>1, <1>2, <2>1 DEF CreateInv, local_vars, CreatePC
<1>9. SleepInv' BY Zenon, <1>1, <1>2, <1>5 DEF SleepInv, ClientSema
<1>10. BootInv'
  <2>1. ~Creating /\ pc[initial_thread] # "start_enable"
    BY Zenon, <1>1, <1>2 DEF Creating, CreatePC, BootInv
  <2>2. status'[t] # "BLOCKED"
    <3>1. status'[current'] = "RUNNING"
      BY Zenon, <1>3 DEF SchedInv, OneRunning, SchedTypeOK
    <3>2. QED BY Zenon, <1>2, <1>5, <3>1
  <2>3. \A u \in Thread : /\ pc'[u] \in IdlePC <=> u = t
                          /\ pc[u] \in IdlePC <=> u = t
                          /\ pc'[u] \notin {"idle_set", "idle_up"}
                          /\ pc[u] # "idle_set"
    BY Zenon, <1>2, <1>6 DEF IdlePC
  <2>4. QED BY Zenon, <1>1, <1>2, <1>5, <1>6, <2>1, <2>2, <2>3, BootSwitch
<1>11. IdleStartedInScope'
  BY Zenon, <1>2, <1>6 DEF IdleStartedInScope, IdlePC
<1>12. AllListLive'
  <2>1. \A u \in Thread : new[u] # NULL => new[u] \in Thread /\ new[u] # idle_thread
    BY SMTT(60), <1>1, <1>2, <1>6 DEF TypeOK, CreateInv
  <2>2. \A u \in Thread : new[u] # NULL => status'[new[u]] = "BLOCKED"
                                          /\ asleep'[new[u]] = NULL
    BY Zenon, <1>1, <1>4, <2>1 DEF AllListLive, Quiet
  <2>3. QED BY SMTT(60), <1>1, <1>2, <1>4, <2>2 DEF AllListLive, Quiet, TypeOK, local_vars
<1>13. TidLockInv' BY Zenon, <1>1, <1>2, <1>5 DEF TidLockInv, Critical
<1>14. TidInv' BY Zenon, <1>1, <1>2 DEF TidInv, UniqueTids, local_vars
<1>15. QED
  BY Zenon, <1>3, <1>7, <1>8, <1>9, <1>10, <1>11, <1>12, <1>13, <1>14 DEF IInv

LEMMA IdleBlockStep ==
  ASSUME IInv, NEW t \in Thread, IdleBlock(t)
  PROVE  IInv'
<1>1. /\ CreateInv /\ SleepInv /\ BootInv /\ IdleStartedInScope /\ AllListLive
      /\ TidLockInv /\ TidInv /\ SchedInv /\ TypeOK
      /\ initial_thread \in Thread /\ NULL \notin Thread /\ NULL \notin Sema
  BY Zenon, ThreadAssumption DEF IInv
<1>2. /\ current = t /\ asleep[t] = NULL /\ pc[t] = "idle_block"
      /\ schedule([status EXCEPT ![current] = "BLOCKED"], ready_list)
      /\ \A u \in Thread : pc'[u] = IF u = t THEN "idle_hlt" ELSE pc[u]
      /\ UNCHANGED <<idle_thread, level, asleep, value, waiters, local_vars>>
  BY Zenon, <1>1 DEF IdleBlock, At, Running, Goto, TypeOK, thread_block
<1>3. /\ t = idle_thread /\ status[t] = "RUNNING"
      /\ \A u \in Thread : pc[u] \in IdlePC => u = t
  BY Zenon, <1>1, <1>2 DEF BootInv, IdlePC, SchedInv, OneRunning
<1>4. CanSwitch BY Zenon, <1>1, <1>3 DEF CanSwitch
<1>5. SchedInv'
  BY Zenon, <1>1, <1>2, <1>4, LeaveAwakeStep, ThreadAssumption, TimeSliceAssumption
<1>6. /\ current' = t \/ status[current'] = "READY"
      /\ \A u \in Thread : u # t =>
           status'[u] = IF u = current' THEN "RUNNING" ELSE status[u]
  BY Zenon, <1>2, <1>3, <1>4, LeaveFacts
<1>7. \A u \in Thread : /\ status'[u] \in {"FREE", "DYING"}
                             <=> status[u] \in {"FREE", "DYING"}
                        /\ status[u] = "BLOCKED" => status'[u] = "BLOCKED"
  <2>1. status'[t] \in {"BLOCKED", "RUNNING"}
    <3> DEFINE st == [status EXCEPT ![current] = "BLOCKED"]
    <3>1. st[t] = "BLOCKED" BY Zenon, <1>1, <1>2 DEF SchedInv, SchedTypeOK
    <3> HIDE DEF st
    <3>2. schedule(st, ready_list) BY Zenon, <1>2 DEF st
    <3>3. QED BY Zenon, <3>1, <3>2, SwitchStatus
  <2>2. QED BY Zenon, <1>3, <1>6, <2>1
<1>8. TypeOK'
  BY Zenon, <1>1, <1>2, <1>5 DEF IdleBlock, Goto, SchedInv, TypeOK, local_vars, PC, IdlePC
<1>9. CreateInv' BY SMTT(60), <1>1, <1>2, <1>7 DEF CreateInv, local_vars, CreatePC
<1>10. SleepInv' BY Zenon, <1>1, <1>2, SemaAssumption DEF SleepInv, ClientSema
<1>11. BootInv'
  <2>1. ~Creating /\ pc[initial_thread] # "start_enable"
    BY Zenon, <1>1, <1>2 DEF Creating, CreatePC, BootInv
  <2>2. \A u \in Thread : /\ pc'[u] \in IdlePC <=> u = t
                          /\ pc[u] \in IdlePC <=> u = t
                          /\ pc'[u] \notin {"idle_set", "idle_up"}
                          /\ pc[u] # "idle_set"
    BY Zenon, <1>2, <1>3 DEF IdlePC
  <2>3. QED BY Zenon, <1>1, <1>2, <1>3, <2>1, <2>2, BootSwitch
<1>12. IdleStartedInScope'
  BY Zenon, <1>2, <1>3 DEF IdleStartedInScope, IdlePC
<1>13. AllListLive'
  <2>1. \A u \in Thread : new[u] # NULL => new[u] \in Thread BY Zenon, <1>1 DEF TypeOK
  <2>2. \A u \in all_list' : u \in Thread /\ status'[u] \notin {"FREE", "DYING"}
    BY Zenon, <1>1, <1>2, <1>7 DEF AllListLive, TypeOK, local_vars
  <2>3. new' = new /\ asleep' = asleep BY Zenon, <1>2 DEF local_vars
  <2>4. ASSUME NEW u \in Thread, NEW v \in Thread, new[u] # NULL
        PROVE  /\ status'[new[u]] = "BLOCKED" /\ asleep[new[u]] = NULL
               /\ new[u] = new[v] => u = v
    <3>1. /\ new[u] \in Thread /\ status[new[u]] = "BLOCKED" /\ asleep[new[u]] = NULL
          /\ new[u] = new[v] => u = v
      BY Zenon, <1>1, <2>1, <2>4 DEF AllListLive
    <3>2. QED BY Zenon, <1>7, <3>1
  <2>5. QED BY Zenon, <2>2, <2>3, <2>4 DEF AllListLive
<1>14. TidLockInv' BY Zenon, <1>1, <1>2 DEF TidLockInv, Critical
<1>15. TidInv' BY Zenon, <1>1, <1>2 DEF TidInv, UniqueTids, local_vars
<1>16. QED
  BY Zenon, <1>5, <1>8, <1>9, <1>10, <1>11, <1>12, <1>13, <1>14, <1>15 DEF IInv

LEMMA ExitStep ==
  ASSUME IInv, NEW t \in Thread, Exit(t)
  PROVE  /\ IInv'
         /\ current' # t
         /\ \A u \in Thread : u # t => (status'[u] = "FREE" <=> status[u] = "FREE")
         /\ status'[t] = IF t = initial_thread THEN "DYING" ELSE "FREE"
<1>1. /\ CreateInv /\ SleepInv /\ BootInv /\ IdleStartedInScope /\ AllListLive
      /\ TidLockInv /\ TidInv /\ SchedInv /\ TypeOK
      /\ initial_thread \in Thread /\ NULL \notin Thread /\ NULL \notin Sema
  BY Zenon, ThreadAssumption DEF IInv
<1>2. /\ current = t /\ asleep[t] = NULL /\ pc[t] = "run"
      /\ schedule([status EXCEPT ![current] = "DYING"], ready_list)
      /\ \A u \in Thread : pc'[u] = IF u = t THEN "none" ELSE pc[u]
      /\ \A u \in Thread : tid'[u] = IF u = t /\ t # initial_thread THEN 0 ELSE tid[u]
      /\ all_list' = all_list \ {t}
      /\ UNCHANGED <<idle_thread, level, asleep, value, waiters, new, reg,
                     next_tid, holder>>
  BY Zenon, <1>1 DEF Exit, At, Running, Goto, TypeOK
<1>3. ~Creating /\ pc[initial_thread] # "start_enable" /\ t # idle_thread
  BY Zenon, <1>1, <1>2 DEF BootInv, Creating, CreatePC, IdlePC
<1>4. CanSwitch BY Zenon, <1>2, <1>3, CanSwitchLemma
<1>5. SchedInv'
  BY Zenon, <1>1, <1>2, <1>4, LeaveAwakeStep, ThreadAssumption, TimeSliceAssumption
<1>6. /\ current' = idle_thread \/ status[current'] = "READY"
      /\ \A u \in Thread : u # t =>
           status'[u] = IF u = current' THEN "RUNNING" ELSE status[u]
      /\ current' # t
      /\ status'[t] = IF t = initial_thread THEN "DYING" ELSE "FREE"
  BY Zenon, <1>2, <1>3, <1>4, LeaveFacts
<1>7. idle_thread # NULL =>
        /\ idle_thread \in Thread /\ status[idle_thread] \notin {"FREE", "DYING"}
        /\ \A u \in Thread : new[u] # idle_thread
  BY Zenon, <1>1 DEF CreateInv, BootInv, TypeOK, SchedTypeOK, IdlePC
<1>8. \A u \in Thread : u # t =>
        /\ status'[u] \in {"FREE", "DYING"} <=> status[u] \in {"FREE", "DYING"}
        /\ status'[u] = "FREE" <=> status[u] = "FREE"
        /\ status[u] = "BLOCKED" /\ u # idle_thread => status'[u] = "BLOCKED"
  BY Zenon, <1>1, <1>6, <1>7
<1>9. TypeOK'
  <2>1. tid' \in [Thread -> Nat] BY Zenon, <1>1 DEF Exit, TypeOK
  <2>2. QED BY ZenonT(60), <1>1, <1>2, <1>5, <2>1 DEF Exit, Goto, SchedInv, TypeOK, PC
<1>10. CreateInv'
  <2>1. \A u \in Thread : pc'[u] = "none" <=>
          status'[u] \in {"FREE", "DYING"} \/ \E v \in Thread : new'[v] = u
    <3> SUFFICES ASSUME NEW u \in Thread
                 PROVE  pc'[u] = "none" <=> status'[u] \in {"FREE", "DYING"}
                                            \/ \E v \in Thread : new'[v] = u
      BY Zenon
    <3>1. new' = new BY Zenon, <1>2
    <3>2. CASE u = t
      <4>1. pc'[t] = "none" BY Zenon, <1>2
      <4>2. status'[t] \in {"FREE", "DYING"} BY Zenon, <1>6
      <4>3. QED BY Zenon, <3>2, <4>1, <4>2
    <3>3. CASE u # t
      <4>1. pc'[u] = pc[u] BY Zenon, <1>2, <3>3
      <4>2. status'[u] \in {"FREE", "DYING"} <=> status[u] \in {"FREE", "DYING"}
        BY Zenon, <1>8, <3>3
      <4>3. pc[u] = "none" <=> status[u] \in {"FREE", "DYING"}
                               \/ \E v \in Thread : new[v] = u
        BY Zenon, <1>1 DEF CreateInv
      <4>4. QED BY Zenon, <3>1, <4>1, <4>2, <4>3
    <3>4. QED BY Zenon, <3>2, <3>3
  <2>2. \A u \in Thread : new'[u] # NULL <=> pc'[u] \in CreatePC \ {"palloc"}
    <3> SUFFICES ASSUME NEW u \in Thread
                 PROVE  new'[u] # NULL <=> pc'[u] \in CreatePC \ {"palloc"}
      BY Zenon
    <3>1. new[u] # NULL <=> pc[u] \in CreatePC \ {"palloc"}
      BY Zenon, <1>1 DEF CreateInv
    <3>2. new' = new /\ pc'[u] = (IF u = t THEN "none" ELSE pc[u]) /\ pc[t] = "run"
      BY Zenon, <1>2
    <3>3. QED BY Zenon, <3>1, <3>2 DEF CreatePC
  <2>3. QED BY Zenon, <2>1, <2>2 DEF CreateInv
<1>11. SleepInv' BY Zenon, <1>1, <1>2, SemaAssumption DEF SleepInv, ClientSema
<1>12. BootInv'
  <2>1. \A u \in Thread : /\ pc'[u] \in IdlePC <=> pc[u] \in IdlePC
                          /\ \A l \in IdlePC : pc'[u] = l <=> pc[u] = l
    BY Zenon, <1>2 DEF IdlePC
  <2>2. \A u \in Thread : u = idle_thread => status'[u] # "BLOCKED" \/ pc'[u] = "idle_hlt"
    <3>1. \A u \in Thread : u = idle_thread =>
            status[u] # "BLOCKED" \/ (pc[u] = "idle_hlt" /\ u # t)
      BY Zenon, <1>1, <1>3 DEF BootInv
    <3>2. QED BY ZenonT(60), <1>2, <1>3, <1>6, <3>1
  <2>3. \A u \in Thread : pc[u] = "idle_set" => status'[u] \in {"READY", "RUNNING"}
    <3>1. \A u \in Thread : pc[u] = "idle_set" => status[u] \in {"READY", "RUNNING"}
      BY Zenon, <1>1 DEF BootInv
    <3>2. pc[t] # "idle_set" BY Zenon, <1>2
    <3>3. QED BY Zenon, <1>6, <3>1, <3>2
  <2>4. value[idle_started] > 0 => \A u \in Thread : pc[u] \notin {"idle_set", "idle_up"}
    BY Zenon, <1>1 DEF BootInv
  <2>5. QED
    BY Zenon, <1>1, <1>2, <1>3, <2>1, <2>2, <2>3, <2>4, BootSwitch DEF IdlePC
<1>13. IdleStartedInScope' BY Zenon, <1>1, <1>2 DEF IdleStartedInScope
<1>14. AllListLive'
  <2>1. \A u \in Thread : new[u] # NULL =>
          new[u] \in Thread /\ new[u] # t /\ new[u] # idle_thread
    <3>1. \A u \in Thread : new[u] # NULL => new[u] \in Thread BY Zenon, <1>1 DEF TypeOK
    <3>2. \A u \in Thread : new[u] # t BY Zenon, <1>1, <1>2 DEF CreateInv
    <3>3. QED BY Zenon, <1>7, <3>1, <3>2
  <2>2. \A u \in all_list' : u \in Thread /\ status'[u] \notin {"FREE", "DYING"}
    BY Zenon, <1>1, <1>2, <1>8 DEF AllListLive, TypeOK
  <2>3. new' = new /\ asleep' = asleep BY Zenon, <1>2
  <2>4. ASSUME NEW u \in Thread, NEW v \in Thread, new[u] # NULL
        PROVE  /\ status'[new[u]] = "BLOCKED" /\ asleep[new[u]] = NULL
               /\ new[u] = new[v] => u = v
    <3>1. /\ status[new[u]] = "BLOCKED" /\ asleep[new[u]] = NULL
          /\ new[u] = new[v] => u = v
      BY Zenon, <1>1, <2>4 DEF AllListLive
    <3>2. QED BY Zenon, <1>8, <2>1, <2>4, <3>1
  <2>5. QED BY Zenon, <2>2, <2>3, <2>4 DEF AllListLive
<1>15. TidLockInv' BY Zenon, <1>1, <1>2 DEF TidLockInv, Critical
<1>16. TidInv'
  <2>1. UniqueTids'
    <3> DEFINE Numbered(l) == l \in {"tid_rel", "tid_up", "unblock"}
    <3>1. /\ \A u \in Thread : tid'[u] = 0 \/ tid'[u] = tid[u]
          /\ \A u \in Thread : Numbered(pc'[u]) => Numbered(pc[u])
          /\ reg' = reg /\ next_tid' = next_tid
      BY Zenon, <1>2
    <3>2. next_tid >= 1 /\ next_tid \in Nat BY Zenon, <1>1 DEF TidInv, TypeOK
    <3>3. 0 < next_tid BY <3>2
    <3>4. \A u \in Thread : Numbered(pc[u]) => reg[u] >= 1 BY Zenon, <1>1 DEF TidInv
    <3>5. \A u \in Thread : reg[u] >= 1 => reg[u] # 0 OBVIOUS
    <3>6. QED BY ZenonT(60), <1>1, <3>1, <3>3, <3>4, <3>5 DEF TidInv, UniqueTids
  <2>2. QED BY Zenon, <1>1, <1>2, <2>1 DEF TidInv
<1>17. QED
  BY Zenon, <1>5, <1>6, <1>8, <1>9, <1>10, <1>11, <1>12, <1>13, <1>14, <1>15, <1>16 DEF IInv

-----------------------------------------------------------------------------
(* Counting *)

LOCAL F == INSTANCE FiniteSetTheorems

(* The library's facts are about these operators. *)
LEMMA SameCounting ==
  ASSUME NEW S
  PROVE  Cardinality(S) = F!Cardinality(S) /\ (IsFiniteSet(S) <=> F!IsFiniteSet(S))
<1>1. Cardinality(S) = F!Cardinality(S)
  BY DEF Cardinality, F!Cardinality
<1>2. IsFiniteSet(S) <=> F!IsFiniteSet(S)
  BY DEF IsFiniteSet, F!IsFiniteSet
<1>3. QED BY Zenon, <1>1, <1>2

LEMMA FiniteSubset ==
  ASSUME NEW S, IsFiniteSet(S), NEW R \in SUBSET S
  PROVE  IsFiniteSet(R) /\ Cardinality(R) \in Nat
<1>1. F!IsFiniteSet(S) BY Zenon, SameCounting
<1>2. F!IsFiniteSet(R) BY Zenon, <1>1, F!FS_Subset
<1>3. F!Cardinality(R) \in Nat BY Zenon, <1>2, F!FS_CardinalityType
<1>4. QED BY Zenon, <1>2, <1>3, SameCounting

(* The threads are finitely many, so that any set of them can be counted. *)
LEMMA Counting == CountFacts
<1> SUFFICES ASSUME NEW S \in SUBSET Thread
             PROVE  /\ Cardinality(S) \in Nat
                    /\ \A t \in S : Cardinality(S \ {t}) = Cardinality(S) - 1
                    /\ \A t \in Thread \ S :
                         Cardinality(S \cup {t}) = Cardinality(S) + 1
  BY Zenon DEF CountFacts
<1>1. IsFiniteSet(S) /\ Cardinality(S) \in Nat
  BY Zenon, FiniteSubset, ThreadAssumption DEF ThreadAssumption
<1>2. F!IsFiniteSet(S) BY Zenon, <1>1, SameCounting
<1>3. ASSUME NEW t \in S PROVE Cardinality(S \ {t}) = Cardinality(S) - 1
  <2>1. F!Cardinality(S \ {t}) = F!Cardinality(S) - 1 BY Zenon, <1>2, F!FS_RemoveElement
  <2>2. QED BY Zenon, <2>1, SameCounting
<1>4. ASSUME NEW t \in Thread \ S PROVE Cardinality(S \cup {t}) = Cardinality(S) + 1
  <2>1. F!Cardinality(S \cup {t}) = F!Cardinality(S) + 1 BY Zenon, <1>2, F!FS_AddElement
  <2>2. QED BY Zenon, <2>1, SameCounting
<1>5. QED BY Zenon, <1>1, <1>3, <1>4

-----------------------------------------------------------------------------
(* The invariant *)

LEMMA InitInv == Init => IInv
<1> SUFFICES ASSUME Init PROVE IInv BY Zenon
<1>1. /\ initial_thread \in Thread /\ NULL \notin Thread /\ NULL \notin Sema
      /\ tid_lock \in Sema /\ idle_started \in Sema /\ tid_lock # idle_started
      /\ TIME_SLICE \in Nat \ {0}
  BY Zenon, ThreadAssumption, SemaAssumption, TimeSliceAssumption
<1>2. TypeOK
  <2>1. SchedTypeOK BY <1>1 DEF Init, SchedTypeOK, Status, Level
  <2>2. QED BY Zenon, <1>1, <2>1 DEF Init, TypeOK, PC, CreatePC
<1>3. SchedInv
  <2>1. \A s \in Sema : waiters[s] = <<>> BY Zenon DEF Init
  <2>2. InList(<<>>) = {} /\ NoDup(<<>>) BY DEF InList, NoDup
  <2>3. OneRunning BY Zenon, <1>1 DEF Init, OneRunning
  <2>4. ReadyListExact BY Zenon, <2>2 DEF Init, ReadyListExact
  <2>5. WaitersBlocked BY Zenon, <1>1, <2>1, <2>2 DEF Init, WaitersBlocked
  <2>6. NoLostWakeup BY Zenon, <2>1 DEF NoLostWakeup
  <2>7. QED BY Zenon, <1>2, <2>3, <2>4, <2>5, <2>6 DEF Init, SchedInv, TypeOK
<1>4. CreateInv BY Zenon, <1>1 DEF Init, CreateInv, CreatePC
<1>5. SleepInv BY Zenon, <1>1 DEF Init, SleepInv, ClientSema
<1>6. TidLockInv BY Zenon, <1>1 DEF Init, TidLockInv, Critical
<1>7. TidInv BY <1>1 DEF Init, TidInv, UniqueTids
<1>8. BootInv
  <2>1. Creating BY Zenon, <1>1 DEF Init, Creating, CreatePC
  <2>2. QED BY <1>1, <2>1 DEF Init, BootInv, CreatePC, IdlePC
<1>9. AllListLive /\ IdleStartedInScope
  BY Zenon, <1>1 DEF Init, AllListLive, IdleStartedInScope
<1>10. QED BY Zenon, <1>2, <1>3, <1>4, <1>5, <1>6, <1>7, <1>8, <1>9 DEF IInv

LEMMA StutterInv == IInv /\ UNCHANGED vars => IInv'
<1> SUFFICES ASSUME IInv, UNCHANGED vars PROVE IInv' BY Zenon
<1>1. /\ UNCHANGED <<status, ready_list, current, idle_thread, thread_ticks,
                     level, asleep, value, waiters>>
      /\ UNCHANGED <<all_list, pc, new, tid, reg, next_tid, holder>>
  BY Zenon DEF vars, sched_vars
<1>2. SchedInv' BY Zenon, SchedStutter DEF IInv, vars
<1>3. TypeOK' BY Zenon, <1>1, <1>2 DEF IInv, TypeOK, SchedInv
<1>4. CreateInv' /\ SleepInv' BY Zenon, <1>1 DEF IInv, CreateInv, SleepInv
<1>5. TidLockInv' /\ TidInv' BY Zenon, <1>1 DEF IInv, TidLockInv, TidInv, UniqueTids
<1>6. BootInv' BY Zenon, <1>1 DEF IInv, BootInv, Creating
<1>7. AllListLive' /\ IdleStartedInScope'
  BY Zenon, <1>1 DEF IInv, AllListLive, IdleStartedInScope
<1>8. QED BY Zenon, <1>2, <1>3, <1>4, <1>5, <1>6, <1>7 DEF IInv

LEMMA NextInv == IInv /\ [Next]_vars => IInv'
<1> SUFFICES ASSUME IInv, [Next]_vars PROVE IInv' BY Zenon
<1>1. CASE UNCHANGED vars BY Zenon, <1>1, StutterInv
<1>2. CASE TimerInterrupt BY Zenon, <1>2, TimerStep
<1>3. CASE DeviceInterrupt BY Zenon, <1>3, DeviceStep, Counting
<1>4. ASSUME NEW t \in Thread, ThreadStep(t) PROVE IInv'
  <2>1. CASE StartEnable(t) \/ StartDown(t)
    BY Zenon, <2>1, StartEnableStep, StartDownStep, Counting
  <2>2. CASE IdleSet(t) \/ IdleUp(t) \/ IdleBlock(t)
    BY Zenon, <2>2, IdleSetStep, IdleUpStep, IdleBlockStep, Counting
  <2>3. CASE CallCreate(t) \/ PallocPage(t) \/ PallocFails(t) \/ PushAllList(t)
    BY Zenon, <2>3, CallCreateStep, PallocPageStep, PallocFailsStep, PushAllListStep
  <2>4. CASE TidDown(t) \/ TidHold(t) \/ TidRead(t)
    BY Zenon, <2>4, TidDownStep, TidHoldStep, TidReadStep, Counting
  <2>5. CASE TidWrite(t) \/ TidRel(t) \/ TidUp(t)
    BY Zenon, <2>5, TidWriteStep, TidRelStep, TidUpStep, Counting
  <2>6. CASE CreateUnblock(t) \/ Yield(t) \/ Exit(t)
    BY Zenon, <2>6, CreateUnblockStep, YieldActionStep, ExitStep
  <2>7. CASE ClientDown(t) \/ ClientTryDown(t) \/ ClientUp(t)
    BY Zenon, <2>7, ClientDownStep, ClientTryDownStep, ClientUpStep, Counting
  <2>8. QED
    BY Zenon, <1>4, <2>1, <2>2, <2>3, <2>4, <2>5, <2>6, <2>7 DEF ThreadStep
<1>5. QED BY Zenon, <1>1, <1>2, <1>3, <1>4 DEF Next

(* The inductive invariant of the thread system. *)
THEOREM Invariant == Spec => []IInv
<1>1. Init => IInv BY Zenon, InitInv
<1>2. IInv /\ [Next]_vars => IInv' BY Zenon, NextInv
<1>3. QED BY <1>1, <1>2, PTL DEF Spec

-----------------------------------------------------------------------------
(* What it establishes *)

(* Every variable keeps its type in every reachable state of thread.c.     *)
THEOREM TypeCorrect == Spec => []TypeOK
<1>1. IInv => TypeOK BY Zenon DEF IInv
<1>2. QED BY <1>1, Invariant, PTL

(* thread_current()'s assertion and the run queue: exactly one thread is   *)
(* running, and the ready list holds exactly the ready threads, once each. *)
THEOREM SchedulerSafe == Spec => [](OneRunning /\ ReadyListExact)
<1>1. IInv => OneRunning /\ ReadyListExact BY Zenon DEF IInv, SchedInv
<1>2. QED BY <1>1, Invariant, PTL

(* Semaphores: a waiter list holds exactly the threads asleep on it, so    *)
(* thread_unblock()'s assertion never fails, and no wake-up is lost.       *)
THEOREM SemaphoresSafe == Spec => [](WaitersBlocked /\ NoLostWakeup)
<1>1. IInv => WaitersBlocked /\ NoLostWakeup BY Zenon DEF IInv, SchedInv
<1>2. QED BY <1>1, Invariant, PTL

(* allocate_tid() never gives out a tid that a live thread has. *)
THEOREM TidsUnique == Spec => []UniqueTids
<1>1. IInv => UniqueTids BY Zenon DEF IInv, TidInv
<1>2. QED BY <1>1, Invariant, PTL

(* all_list never links a page that has been or is being freed. *)
THEOREM AllListSafe == Spec => []AllListLive
<1>1. IInv => AllListLive BY Zenon DEF IInv
<1>2. QED BY <1>1, Invariant, PTL

(* idle() never touches thread_start()'s semaphore after it went out of    *)
(* scope.                                                                  *)
THEOREM StartSafe == Spec => []IdleStartedInScope
<1>1. IInv => IdleStartedInScope BY Zenon DEF IInv
<1>2. QED BY <1>1, Invariant, PTL

(* schedule() always finds a thread to switch to, before and after the     *)
(* idle thread has announced itself.                                       *)
THEOREM AlwaysSomeThread == Spec => []SomeThreadToRun
<1>1. IInv => SomeThreadToRun
  <2> SUFFICES ASSUME IInv PROVE SomeThreadToRun BY Zenon
  <2>1. CreateInv /\ BootInv /\ TypeOK /\ SchedInv BY Zenon DEF IInv
  <2>2. idle_thread # NULL =>
          /\ pc[idle_thread] \in IdlePC
          /\ status[idle_thread] \in {"RUNNING", "READY", "BLOCKED"}
          /\ asleep[idle_thread] = NULL
    <3> SUFFICES ASSUME idle_thread # NULL
                 PROVE  /\ pc[idle_thread] \in IdlePC
                        /\ status[idle_thread] \in {"RUNNING", "READY", "BLOCKED"}
                        /\ asleep[idle_thread] = NULL
      BY Zenon
    <3>1. idle_thread \in Thread /\ status[idle_thread] \in Status
      BY Zenon, <2>1 DEF SchedInv, SchedTypeOK
    <3>2. pc[idle_thread] \in IdlePC BY Zenon, <2>1, <3>1 DEF BootInv
    <3>3. status[idle_thread] \notin {"FREE", "DYING"}
      BY Zenon, <2>1, <3>1, <3>2 DEF CreateInv, IdlePC
    <3>4. asleep[idle_thread] = NULL BY Zenon, <2>1 DEF SchedInv
    <3>5. QED BY Zenon, <3>1, <3>2, <3>3, <3>4 DEF Status
  <2>3. idle_thread = NULL =>
          ready_list # <<>> \/ pc[current] \in CreatePC \cup {"idle_set"}
    BY Zenon, <2>1, CanSwitchLemma DEF CanSwitch, BootInv, Creating
  <2>4. QED BY Zenon, <2>2, <2>3 DEF SomeThreadToRun
<1>2. QED BY <1>1, Invariant, PTL

(* Only thread_exit() lets a page be freed. *)
LEMMA NoFree ==
  ASSUME IInv, Next, \A t \in Thread : ~Exit(t), NEW u \in Thread,
         status'[u] = "FREE"
  PROVE  status[u] = "FREE"
<1>1. status \in [Thread -> Status] /\ current \in Thread
  BY Zenon DEF IInv, TypeOK, SchedTypeOK
<1>2. ASSUME NEW x \in {"BLOCKED", "READY"}, NEW rl,
             schedule([status EXCEPT ![current] = x], rl)
      PROVE  status[u] = "FREE"
  <2> DEFINE st == [status EXCEPT ![current] = x]
  <2>1. st[u] = IF u = current THEN x ELSE status[u] BY Zenon, <1>1
  <2> HIDE DEF st
  <2>2. schedule(st, rl) BY Zenon, <1>2 DEF st
  <2>3. QED BY Zenon, <2>1, <2>2, SwitchStatus
<1>3. ASSUME NEW n, thread_unblock(n) PROVE status[u] = "FREE"
  BY Zenon, <1>1, <1>3 DEF thread_unblock
<1>4. ASSUME NEW s, sema_up(s) PROVE status[u] = "FREE"
  BY Zenon, <1>3, <1>4 DEF sema_up
<1>5. thread_block => status[u] = "FREE" BY Zenon, <1>2 DEF thread_block
<1>6. thread_yield => status[u] = "FREE" BY Zenon, <1>2 DEF thread_yield
<1>7. CASE TimerInterrupt BY Zenon, <1>6, <1>7 DEF TimerInterrupt, thread_tick
<1>8. CASE DeviceInterrupt BY Zenon, <1>4, <1>8 DEF DeviceInterrupt
<1>9. ASSUME NEW t \in Thread, ThreadStep(t) PROVE status[u] = "FREE"
  <2>1. CASE StartEnable(t) \/ IdleSet(t) BY Zenon, <2>1 DEF StartEnable, IdleSet
  <2>2. CASE StartDown(t) \/ TidDown(t) \/ ClientDown(t)
    BY Zenon, <1>5, <2>2 DEF StartDown, TidDown, ClientDown, sema_down_wait, sema_down_take
  <2>3. CASE IdleUp(t) \/ TidUp(t) \/ ClientUp(t)
    BY Zenon, <1>4, <2>3 DEF IdleUp, TidUp, ClientUp
  <2>4. CASE IdleBlock(t) \/ Yield(t) BY Zenon, <1>5, <1>6, <2>4 DEF IdleBlock, Yield
  <2>5. CASE CallCreate(t) \/ PallocFails(t) \/ PushAllList(t)
    BY Zenon, <2>5 DEF CallCreate, PallocFails, PushAllList, sched_vars
  <2>6. CASE PallocPage(t) BY Zenon, <1>1, <2>6 DEF PallocPage
  <2>7. CASE TidHold(t) \/ TidRead(t) \/ TidWrite(t) \/ TidRel(t)
    BY Zenon, <2>7 DEF TidHold, TidRead, TidWrite, TidRel, sched_vars
  <2>8. CASE CreateUnblock(t) BY Zenon, <1>3, <2>8 DEF CreateUnblock
  <2>9. CASE ClientTryDown(t) BY Zenon, <2>9 DEF ClientTryDown, sema_try_down
  <2>10. QED
    BY Zenon, <1>9, <2>1, <2>2, <2>3, <2>4, <2>5, <2>6, <2>7, <2>8, <2>9 DEF ThreadStep
<1>10. QED BY Zenon, <1>7, <1>8, <1>9 DEF Next

(* thread_schedule_tail() frees only the page of the thread it has just    *)
(* switched away from, which has left all_list, and never the initial      *)
(* thread's.                                                               *)
THEOREM FreesOnlyDying == Spec => FreeOnlyDying
<1> DEFINE P == \A t \in Thread : status[t] # "FREE" /\ status'[t] = "FREE" =>
                  t = current /\ t \notin all_list' /\ t # initial_thread
<1>1. IInv /\ [Next]_vars => [P]_vars
  <2> SUFFICES ASSUME IInv, Next PROVE P BY Zenon
  <2>1. CASE \A t \in Thread : ~Exit(t) BY Zenon, <2>1, NoFree
  <2>2. ASSUME NEW t \in Thread, Exit(t) PROVE P
    <3>1. /\ t = current /\ t \notin all_list'
      BY Zenon, <2>2 DEF Exit, At, Running
    <3>2. QED BY Zenon, <2>2, <3>1, ExitStep
  <2>3. QED BY Zenon, <2>1, <2>2
<1>2. QED BY <1>1, Invariant, PTL DEF Spec, FreeOnlyDying

=============================================================================
