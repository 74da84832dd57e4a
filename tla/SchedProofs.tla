---------------------------- MODULE SchedProofs ----------------------------
(***************************************************************************)
(* Facts about the operators of Sched that the components built on it cite *)
(* to show that each of their steps preserves SchedInv.                    *)
(***************************************************************************)
EXTENDS Sched, TLAPS

-----------------------------------------------------------------------------
(* Lists *)

(* list_push_back() of an element that is not in the list. *)
LEMMA PushBack ==
  ASSUME NEW S, NEW l \in Seq(S), NEW x \in S
  PROVE  /\ Append(l, x) \in Seq(S)
         /\ Append(l, x) # <<>>
         /\ InList(Append(l, x)) = InList(l) \cup {x}
         /\ NoDup(l) /\ x \notin InList(l) => NoDup(Append(l, x))
<1>1. /\ Append(l, x) \in Seq(S) /\ Append(l, x) # <<>>
      /\ Len(Append(l, x)) = Len(l) + 1 /\ Len(l) \in Nat
      /\ \A i \in 1..Len(l) : Append(l, x)[i] = l[i]
      /\ Append(l, x)[Len(l) + 1] = x
  OBVIOUS
<1>2. InList(Append(l, x)) = InList(l) \cup {x}
  <2>1. ASSUME NEW y \in InList(Append(l, x)) PROVE y \in InList(l) \cup {x}
    BY <1>1 DEF InList
  <2>2. ASSUME NEW y \in InList(l) PROVE y \in InList(Append(l, x))
    BY <1>1 DEF InList
  <2>3. x \in InList(Append(l, x))
    BY <1>1 DEF InList
  <2>4. QED BY Zenon, <2>1, <2>2, <2>3
<1>3. NoDup(l) /\ x \notin InList(l) => NoDup(Append(l, x))
  BY <1>1 DEF NoDup, InList
<1>4. QED BY Zenon, <1>1, <1>2, <1>3

(* list_pop_front() of a nonempty list. *)
LEMMA PopFront ==
  ASSUME NEW S, NEW l \in Seq(S), l # <<>>, NoDup(l)
  PROVE  /\ Head(l) \in S
         /\ Head(l) \in InList(l)
         /\ Tail(l) \in Seq(S)
         /\ InList(Tail(l)) = InList(l) \ {Head(l)}
         /\ NoDup(Tail(l))
<1>1. /\ Head(l) = l[1] /\ Tail(l) \in Seq(S) /\ Len(l) \in Nat \ {0}
      /\ Len(Tail(l)) = Len(l) - 1
      /\ \A i \in 1..Len(l) - 1 : Tail(l)[i] = l[i + 1]
      /\ \A i \in 1..Len(l) : l[i] \in S
  OBVIOUS
<1>2. Head(l) \in S /\ Head(l) \in InList(l)
  BY <1>1 DEF InList
<1>3. InList(Tail(l)) = InList(l) \ {Head(l)}
  <2>1. ASSUME NEW y \in InList(Tail(l)) PROVE y \in InList(l) \ {Head(l)}
    BY <1>1 DEF InList, NoDup
  <2>2. ASSUME NEW y \in InList(l), y # Head(l) PROVE y \in InList(Tail(l))
    <3>1. PICK i \in 1..Len(l) : y = l[i] BY Zenon, <2>2 DEF InList
    <3>2. i # 1 BY Zenon, <1>1, <2>2, <3>1
    <3>3. i - 1 \in 1..Len(l) - 1 /\ Tail(l)[i - 1] = l[i] BY <1>1, <3>2
    <3>4. QED BY Zenon, <1>1, <3>1, <3>3 DEF InList
  <2>3. QED BY Zenon, <2>1, <2>2
<1>4. NoDup(Tail(l))
  BY <1>1 DEF NoDup
<1>5. QED BY Zenon, <1>1, <1>2, <1>3, <1>4

LEMMA EmptyList ==
  ASSUME NEW S, NEW l \in Seq(S)
  PROVE  l = <<>> <=> InList(l) = {}
<1>1. CASE l = <<>> BY <1>1 DEF InList
<1>2. CASE l # <<>>
  <2>1. l[1] \in InList(l) BY <1>2 DEF InList
  <2>2. QED BY Zenon, <1>2, <2>1
<1>3. QED BY Zenon, <1>1, <1>2

-----------------------------------------------------------------------------
(* schedule() *)

(* What a switch establishes, when the caller has left the ready list and  *)
(* the statuses ST consistent and no thread marked running.                *)
LEMMA ScheduleStep ==
  ASSUME ThreadAssumption, TimeSliceAssumption, SchedTypeOK,
         NEW st \in [Thread -> Status], NEW rl \in Seq(Thread),
         NoDup(rl),
         InList(rl) = {t \in Thread : st[t] = "READY" /\ t # idle_thread},
         \A t \in Thread : st[t] # "RUNNING",
         rl # <<>> \/ idle_thread # NULL,
         schedule(st, rl)
  PROVE  /\ current' \in Thread
         /\ current' = idle_thread \/ st[current'] = "READY"
         /\ ready_list' \in Seq(Thread)
         /\ NoDup(ready_list')
         /\ thread_ticks' \in 0..TIME_SLICE - 1
         /\ status' \in [Thread -> Status]
         /\ \A t \in Thread : status'[t] = "RUNNING" <=> t = current'
         /\ InList(ready_list') = {t \in Thread : status'[t] = "READY"
                                                  /\ t # idle_thread}
         /\ \A t \in Thread : status'[t] = "BLOCKED"
                              <=> st[t] = "BLOCKED" /\ t # current'
<1> DEFINE next == next_thread_to_run(rl)
<1>1. /\ current' = next
      /\ ready_list' = IF rl = <<>> THEN rl ELSE Tail(rl)
      /\ status' = thread_schedule_tail(st, next)
      /\ thread_ticks' = 0
  BY Zenon DEF schedule
<1>2. next \in Thread /\ (rl = <<>> => next = idle_thread)
                     /\ (rl # <<>> => next = Head(rl) /\ next \in InList(rl))
  BY Zenon, PopFront DEF next_thread_to_run, SchedTypeOK
<1>3. \A t \in Thread : status'[t] =
        IF t = next THEN "RUNNING"
        ELSE IF t = current /\ st[t] = "DYING" /\ t # initial_thread THEN "FREE"
        ELSE st[t]
  BY Zenon, <1>1 DEF thread_schedule_tail
<1>4. status' \in [Thread -> Status]
  BY Zenon, <1>1 DEF thread_schedule_tail, Status
<1>5. InList(ready_list') = InList(rl) \ {next} /\ NoDup(ready_list')
      /\ ready_list' \in Seq(Thread)
  <2>1. CASE rl = <<>>
    <3>1. InList(rl) = {} BY Zenon, <2>1, EmptyList
    <3>2. QED BY Zenon, <1>1, <2>1, <3>1
  <2>2. CASE rl # <<>>
    BY Zenon, <1>1, <1>2, <2>2, PopFront
  <2>3. QED BY Zenon, <2>1, <2>2
<1>6. next = idle_thread \/ st[next] = "READY"
  BY Zenon, <1>2
<1>7. \A t \in Thread : (status'[t] = "READY" /\ t # idle_thread)
                        <=> (t \in InList(rl) /\ t # next)
  BY Zenon, <1>2, <1>3
<1>8. InList(ready_list') = {t \in Thread : status'[t] = "READY"
                                           /\ t # idle_thread}
  BY Zenon, <1>5, <1>7
<1>9. thread_ticks' \in 0..TIME_SLICE - 1
  BY <1>1, TimeSliceAssumption
<1>10. \A t \in Thread : /\ status'[t] = "RUNNING" <=> t = next
                         /\ status'[t] = "BLOCKED" <=> st[t] = "BLOCKED" /\ t # next
  BY Zenon, <1>3
<1>11. QED
  <2> HIDE DEF next
  <2> QED BY Zenon, <1>1, <1>2, <1>4, <1>5, <1>6, <1>8, <1>9, <1>10

(* NoLostWakeup depends only on who is woken, so it survives a step that   *)
(* leaves the semaphores alone and blocks or unblocks no sleeping thread.  *)
LEMMA WokenUnchanged ==
  ASSUME SchedTypeOK, NoLostWakeup,
         UNCHANGED <<value, waiters>>,
         \A t \in Thread : /\ asleep'[t] = asleep[t]
                           /\ asleep[t] # NULL =>
                                (status'[t] = "BLOCKED" <=> status[t] = "BLOCKED"),
         ThreadAssumption
  PROVE  NoLostWakeup'
<1>1. ASSUME NEW s \in Sema PROVE Woken(s)' = Woken(s)
  BY Zenon, ThreadAssumption, s # NULL DEF Woken
<1>2. QED BY Zenon, <1>1 DEF NoLostWakeup

(* thread_yield(), from a thread or on return from the timer interrupt. *)
LEMMA YieldStep ==
  ASSUME ThreadAssumption, TimeSliceAssumption, SchedInv, thread_yield,
         UNCHANGED <<idle_thread, level, asleep, value, waiters>>
  PROVE  SchedInv'
<1> DEFINE st == [status EXCEPT ![current] = "READY"]
           rl == IF current # idle_thread THEN Append(ready_list, current)
                                          ELSE ready_list
<1> USE DEF SchedInv
<1>1. st \in [Thread -> Status] /\ current \in Thread
  BY Zenon DEF SchedTypeOK, Status
<1>2. current \notin InList(ready_list)
  BY Zenon, <1>1 DEF OneRunning, ReadyListExact
<1>3. rl \in Seq(Thread) /\ NoDup(rl) /\ (rl # <<>> \/ idle_thread # NULL)
      /\ InList(rl) = IF current # idle_thread THEN InList(ready_list) \cup {current}
                                               ELSE InList(ready_list)
  BY ZenonT(60), <1>1, <1>2, PushBack, ThreadAssumption DEF SchedTypeOK, ReadyListExact
<1>4. \A t \in Thread : st[t] = IF t = current THEN "READY" ELSE status[t]
  BY Zenon DEF SchedTypeOK
<1>5. InList(rl) = {t \in Thread : st[t] = "READY" /\ t # idle_thread}
  <2> HIDE DEF st, rl
  <2> QED BY Zenon, <1>1, <1>3, <1>4 DEF ReadyListExact
<1>6. \A t \in Thread : st[t] # "RUNNING"
  BY <1>4 DEF OneRunning
<1>7. schedule(st, rl)
  BY Zenon DEF thread_yield
<1> HIDE DEF st, rl
<1>8. /\ current' \in Thread
      /\ current' = idle_thread \/ st[current'] = "READY"
      /\ ready_list' \in Seq(Thread)
      /\ NoDup(ready_list')
      /\ thread_ticks' \in 0..TIME_SLICE - 1
      /\ status' \in [Thread -> Status]
      /\ \A t \in Thread : status'[t] = "RUNNING" <=> t = current'
      /\ InList(ready_list') = {t \in Thread : status'[t] = "READY"
                                               /\ t # idle_thread}
      /\ \A t \in Thread : status'[t] = "BLOCKED"
                           <=> st[t] = "BLOCKED" /\ t # current'
  BY Zenon, <1>1, <1>3, <1>5, <1>6, <1>7, ScheduleStep, ThreadAssumption,
     TimeSliceAssumption
<1>9. SchedTypeOK' BY Zenon, <1>8 DEF SchedTypeOK
<1>10. OneRunning' /\ ReadyListExact' BY Zenon, <1>8 DEF OneRunning, ReadyListExact
<1>11. \A t \in Thread : asleep[t] # NULL =>
                           (status'[t] = "BLOCKED" <=> status[t] = "BLOCKED")
  BY ZenonT(60), <1>4, <1>8 DEF OneRunning
<1>12. WaitersBlocked'
  BY Zenon, <1>11, ThreadAssumption DEF WaitersBlocked
<1>13. NoLostWakeup'
  BY Zenon, <1>11, WokenUnchanged, ThreadAssumption DEF SchedTypeOK
<1>14. QED BY Zenon, <1>9, <1>10, <1>12, <1>13

(* The timer interrupt. *)
LEMMA TickStep ==
  ASSUME ThreadAssumption, TimeSliceAssumption, SchedInv, thread_tick
  PROVE  SchedInv'
<1>1. CASE thread_ticks + 1 >= TIME_SLICE
  BY Zenon, <1>1, YieldStep, ThreadAssumption, TimeSliceAssumption DEF thread_tick
<1>2. CASE ~(thread_ticks + 1 >= TIME_SLICE)
  <2>1. thread_ticks' \in 0..TIME_SLICE - 1
    BY <1>2, TimeSliceAssumption DEF thread_tick, SchedInv, SchedTypeOK
  <2>2. UNCHANGED <<status, ready_list, current, idle_thread, level, asleep,
                    value, waiters>>
    BY Zenon, <1>2 DEF thread_tick
  <2>3. QED
    BY <2>1, <2>2 DEF SchedInv, SchedTypeOK, OneRunning, ReadyListExact,
                      WaitersBlocked, NoLostWakeup, Woken
<1>3. QED BY Zenon, <1>1, <1>2

(* The running thread gives up the CPU for good or until it is unblocked:  *)
(* thread_block() and thread_exit().                                       *)
LEMMA LeaveStep ==
  ASSUME ThreadAssumption, TimeSliceAssumption, SchedInv, CanSwitch,
         NEW x \in {"BLOCKED", "DYING"},
         schedule([status EXCEPT ![current] = x], ready_list),
         UNCHANGED idle_thread
  PROVE  /\ current' \in Thread
         /\ ready_list' \in Seq(Thread)
         /\ thread_ticks' \in 0..TIME_SLICE - 1
         /\ status' \in [Thread -> Status]
         /\ OneRunning'
         /\ ReadyListExact'
         /\ \A t \in Thread : asleep[t] # NULL /\ t # current =>
              (status'[t] = "BLOCKED" <=> status[t] = "BLOCKED")
         /\ current # idle_thread => (status'[current] = "BLOCKED" <=> x = "BLOCKED")
<1> DEFINE st == [status EXCEPT ![current] = x]
<1> USE DEF SchedInv
<1>1. st \in [Thread -> Status] /\ current \in Thread
  BY Zenon DEF SchedTypeOK, Status
<1>2. \A t \in Thread : st[t] = IF t = current THEN x ELSE status[t]
  BY Zenon DEF SchedTypeOK
<1> HIDE DEF st
<1>3. InList(ready_list) = {t \in Thread : st[t] = "READY" /\ t # idle_thread}
  BY Zenon, <1>1, <1>2 DEF ReadyListExact, OneRunning
<1>4. \A t \in Thread : st[t] # "RUNNING"
  BY Zenon, <1>2 DEF OneRunning
<1>5. schedule(st, ready_list)
  BY Zenon DEF st
<1>6. /\ current' \in Thread
      /\ current' = idle_thread \/ st[current'] = "READY"
      /\ ready_list' \in Seq(Thread)
      /\ NoDup(ready_list')
      /\ thread_ticks' \in 0..TIME_SLICE - 1
      /\ status' \in [Thread -> Status]
      /\ \A t \in Thread : status'[t] = "RUNNING" <=> t = current'
      /\ InList(ready_list') = {t \in Thread : status'[t] = "READY"
                                               /\ t # idle_thread}
      /\ \A t \in Thread : status'[t] = "BLOCKED"
                           <=> st[t] = "BLOCKED" /\ t # current'
  BY Zenon, <1>1, <1>3, <1>4, <1>5, ScheduleStep, ThreadAssumption,
     TimeSliceAssumption DEF SchedTypeOK, ReadyListExact, CanSwitch
<1>7. OneRunning' /\ ReadyListExact' BY Zenon, <1>6 DEF OneRunning, ReadyListExact
<1>8. \A t \in Thread : asleep[t] # NULL /\ t # current =>
          (status'[t] = "BLOCKED" <=> status[t] = "BLOCKED")
  BY Zenon, <1>2, <1>6
<1>9. current # idle_thread => (status'[current] = "BLOCKED" <=> x = "BLOCKED")
  BY Zenon, <1>1, <1>2, <1>6
<1>10. QED BY Zenon, <1>6, <1>7, <1>8, <1>9

(* A thread that is in no sema_down() blocks or exits. *)
LEMMA LeaveAwakeStep ==
  ASSUME ThreadAssumption, TimeSliceAssumption, SchedInv, CanSwitch,
         NEW x \in {"BLOCKED", "DYING"},
         asleep[current] = NULL,
         schedule([status EXCEPT ![current] = x], ready_list),
         UNCHANGED <<idle_thread, level, asleep, value, waiters>>
  PROVE  SchedInv'
<1>1. /\ current' \in Thread
      /\ ready_list' \in Seq(Thread)
      /\ thread_ticks' \in 0..TIME_SLICE - 1
      /\ status' \in [Thread -> Status]
      /\ OneRunning'
      /\ ReadyListExact'
      /\ \A t \in Thread : asleep[t] # NULL =>
           (status'[t] = "BLOCKED" <=> status[t] = "BLOCKED")
  BY Zenon, LeaveStep, ThreadAssumption, TimeSliceAssumption
<1>2. SchedTypeOK' BY Zenon, <1>1 DEF SchedInv, SchedTypeOK
<1>3. WaitersBlocked'
  BY Zenon, <1>1, ThreadAssumption DEF SchedInv, WaitersBlocked
<1>4. NoLostWakeup'
  BY Zenon, <1>1, WokenUnchanged, ThreadAssumption DEF SchedInv, SchedTypeOK
<1>5. QED BY Zenon, <1>1, <1>2, <1>3, <1>4 DEF SchedInv

-----------------------------------------------------------------------------
(* Semaphores *)

(* What the proofs need to know of counting a set of threads.  The modules *)
(* that draw the conclusions prove it from ThreadAssumption.               *)
CountFacts ==
  \A S \in SUBSET Thread :
    /\ Cardinality(S) \in Nat
    /\ \A t \in S : Cardinality(S \ {t}) = Cardinality(S) - 1
    /\ \A t \in Thread \ S : Cardinality(S \cup {t}) = Cardinality(S) + 1

LEMMA WokenFinite ==
  ASSUME CountFacts, NEW s
  PROVE  Woken(s) \in SUBSET Thread /\ Cardinality(Woken(s)) \in Nat
<1>1. Woken(s) \in SUBSET Thread BY Zenon DEF Woken
<1>2. QED BY Zenon, <1>1 DEF CountFacts

(* sema_down() queues the caller and sleeps.  When the caller had been     *)
(* woken it leaves Woken(s), but then the value is 0.                      *)
LEMMA DownWaitStep ==
  ASSUME ThreadAssumption, CountFacts, TimeSliceAssumption, SchedInv, CanSwitch,
         NEW t \in Thread, NEW s \in Sema,
         t # idle_thread,
         InSemaDown(t, s), sema_down_wait(t, s)
  PROVE  SchedInv'
<1> USE DEF SchedInv
<1>1. /\ value[s] = 0 /\ value' = value /\ current = t /\ s # NULL
      /\ asleep[t] \in {NULL, s}
      /\ waiters' = [waiters EXCEPT ![s] = Append(waiters[s], t)]
      /\ asleep' = [asleep EXCEPT ![t] = s]
      /\ schedule([status EXCEPT ![current] = "BLOCKED"], ready_list)
      /\ UNCHANGED <<idle_thread, level>>
  BY Zenon, ThreadAssumption DEF sema_down_wait, InSemaDown, thread_block
<1>2. /\ current' \in Thread
      /\ ready_list' \in Seq(Thread)
      /\ thread_ticks' \in 0..TIME_SLICE - 1
      /\ status' \in [Thread -> Status]
      /\ OneRunning'
      /\ ReadyListExact'
      /\ \A u \in Thread : asleep[u] # NULL /\ u # current =>
           (status'[u] = "BLOCKED" <=> status[u] = "BLOCKED")
      /\ status'[t] = "BLOCKED"
  BY Zenon, <1>1, LeaveStep, ThreadAssumption, TimeSliceAssumption
<1>3. SchedTypeOK'
  <2>1. waiters[s] \in Seq(Thread) /\ Append(waiters[s], t) \in Seq(Thread)
    BY DEF SchedTypeOK
  <2>2. QED BY Zenon, <1>1, <1>2, <2>1 DEF SchedTypeOK
<1>4. t \notin InList(waiters[s])
  BY Zenon, <1>1 DEF WaitersBlocked, OneRunning
<1>5. InList(waiters'[s]) = InList(waiters[s]) \cup {t} /\ NoDup(waiters'[s])
  <2>1. waiters'[s] = Append(waiters[s], t) /\ waiters[s] \in Seq(Thread)
    BY Zenon, <1>1 DEF SchedTypeOK
  <2>2. QED BY <1>4, <2>1, PushBack DEF WaitersBlocked
<1>6. \A u \in Thread : asleep'[u] = IF u = t THEN s ELSE asleep[u]
  BY Zenon, <1>1 DEF SchedTypeOK
<1>7. WaitersBlocked'
  <2> SUFFICES ASSUME NEW r \in Sema
               PROVE  /\ NoDup(waiters'[r])
                      /\ InList(waiters'[r]) = {u \in Thread :
                            status'[u] = "BLOCKED" /\ asleep'[u] = r}
    BY Zenon DEF WaitersBlocked
  <2>0. r # NULL BY Zenon, ThreadAssumption
  <2>1. CASE r = s
    BY SMTT(60), <1>1, <1>2, <1>5, <1>6, <2>0, <2>1 DEF WaitersBlocked
  <2>2. CASE r # s
    <3>1. waiters'[r] = waiters[r] BY Zenon, <1>1, <2>2 DEF SchedTypeOK
    <3>2. \A u \in Thread : (status'[u] = "BLOCKED" /\ asleep'[u] = r)
                          <=> (status[u] = "BLOCKED" /\ asleep[u] = r)
      BY Zenon, <1>1, <1>2, <1>6, <2>0, <2>2 DEF OneRunning
    <3>3. QED BY Zenon, <3>1, <3>2 DEF WaitersBlocked
  <2>3. QED BY Zenon, <2>1, <2>2
<1>8. NoLostWakeup'
  <2> SUFFICES ASSUME NEW r \in Sema, waiters'[r] # <<>>
               PROVE  value'[r] <= Cardinality(Woken(r)')
    BY Zenon DEF NoLostWakeup
  <2>0. r # NULL BY Zenon, ThreadAssumption
  <2>1. CASE r = s
    <3>1. Woken(r)' \in SUBSET Thread BY Zenon DEF Woken
    <3>2. Cardinality(Woken(r)') \in Nat BY Zenon, <3>1 DEF CountFacts
    <3>3. QED BY <1>1, <2>1, <3>2
  <2>2. CASE r # s
    <3>1. waiters'[r] = waiters[r] BY Zenon, <1>1, <2>2 DEF SchedTypeOK
    <3>2. \A u \in Thread : (status'[u] # "BLOCKED" /\ asleep'[u] = r)
                          <=> (status[u] # "BLOCKED" /\ asleep[u] = r)
      BY ZenonT(60), <1>1, <1>2, <1>6, <2>0, <2>2 DEF OneRunning
    <3>3. Woken(r)' = Woken(r) BY Zenon, <3>2 DEF Woken
    <3>4. QED BY Zenon, <1>1, <3>1, <3>3 DEF NoLostWakeup
  <2>3. QED BY Zenon, <2>1, <2>2
<1>9. idle_thread' # NULL => asleep'[idle_thread'] = NULL
  BY Zenon, <1>1, <1>6 DEF SchedTypeOK
<1>10. QED BY Zenon, <1>2, <1>3, <1>7, <1>8, <1>9

(* A unit of S is taken: by a thread that had been woken, which then       *)
(* leaves Woken(s), or by one that steals it, which needs one unit less    *)
(* to be accounted for.                                                    *)
LEMMA DownTakeStep ==
  ASSUME ThreadAssumption, CountFacts, SchedInv,
         NEW t \in Thread, NEW s \in Sema,
         InSemaDown(t, s), sema_down_take(t, s)
  PROVE  SchedInv'
<1> USE DEF SchedInv
<1>1. /\ value[s] > 0 /\ current = t /\ s # NULL
      /\ asleep[t] \in {NULL, s}
      /\ value' = [value EXCEPT ![s] = value[s] - 1]
      /\ asleep' = [asleep EXCEPT ![t] = NULL]
      /\ UNCHANGED <<status, ready_list, current, idle_thread, thread_ticks,
                     level, waiters>>
  BY Zenon, ThreadAssumption DEF sema_down_take, InSemaDown
<1>2. value[s] \in Nat /\ value[s] - 1 \in Nat
  BY <1>1 DEF SchedTypeOK
<1>3. SchedTypeOK' BY Zenon, <1>1, <1>2 DEF SchedTypeOK
<1>4. \A u \in Thread : asleep'[u] = IF u = t THEN NULL ELSE asleep[u]
  BY Zenon, <1>1 DEF SchedTypeOK
<1>5. status[t] = "RUNNING" BY Zenon, <1>1 DEF OneRunning
<1>6. WaitersBlocked'
  <2> SUFFICES ASSUME NEW r \in Sema
               PROVE  /\ NoDup(waiters'[r])
                      /\ InList(waiters'[r]) = {u \in Thread :
                            status'[u] = "BLOCKED" /\ asleep'[u] = r}
    BY Zenon DEF WaitersBlocked
  <2>1. \A u \in Thread : (status'[u] = "BLOCKED" /\ asleep'[u] = r)
                        <=> (status[u] = "BLOCKED" /\ asleep[u] = r)
    BY Zenon, <1>1, <1>4, <1>5, ThreadAssumption
  <2>2. QED BY Zenon, <1>1, <2>1 DEF WaitersBlocked
<1>7. NoLostWakeup'
  <2> SUFFICES ASSUME NEW r \in Sema, waiters'[r] # <<>>
               PROVE  value'[r] <= Cardinality(Woken(r)')
    BY Zenon DEF NoLostWakeup
  <2>1. \A u \in Thread : u \in Woken(r)' <=> u \in Woken(r) /\ (u # t)
    BY Zenon, <1>1, <1>4, <1>5, ThreadAssumption DEF Woken
  <2>2. Woken(r)' = Woken(r) \ {t} BY Zenon, <2>1 DEF Woken
  <2>3. Woken(r) \in SUBSET Thread /\ Cardinality(Woken(r)) \in Nat
    BY Zenon, WokenFinite
  <2>4. value[r] <= Cardinality(Woken(r)) /\ value[r] \in Nat
    BY Zenon, <1>1 DEF NoLostWakeup, SchedTypeOK
  <2>5. CASE t \in Woken(r)
    <3>1. r = s BY Zenon, <1>1, <2>5, ThreadAssumption DEF Woken
    <3>2. Cardinality(Woken(r)') = Cardinality(Woken(r)) - 1
      BY Zenon, <2>2, <2>3, <2>5 DEF CountFacts
    <3>3. value'[r] = value[r] - 1 BY Zenon, <1>1, <3>1 DEF SchedTypeOK
    <3>4. QED BY SMTT(60), <2>3, <2>4, <3>2, <3>3
  <2>6. CASE t \notin Woken(r)
    <3>1. Woken(r)' = Woken(r) BY Zenon, <2>2, <2>6
    <3>2. value'[r] <= value[r] /\ value'[r] \in Nat
      BY <1>1, <1>2 DEF SchedTypeOK
    <3>3. QED BY <2>3, <2>4, <3>1, <3>2
  <2>7. QED BY Zenon, <2>5, <2>6
<1>8. QED
  BY Zenon, <1>1, <1>3, <1>4, <1>6, <1>7 DEF OneRunning, ReadyListExact, SchedTypeOK

(* sema_try_down() can only lower the value. *)
LEMMA TryDownStep ==
  ASSUME ThreadAssumption, CountFacts, SchedInv, NEW s \in Sema, sema_try_down(s)
  PROVE  SchedInv'
<1> USE DEF SchedInv
<1>1. \A r \in Sema : value'[r] \in Nat /\ value'[r] <= value[r]
  BY DEF sema_try_down, SchedTypeOK
<1>2. value' \in [Sema -> Nat]
  BY DEF sema_try_down, SchedTypeOK
<1>3. UNCHANGED <<status, ready_list, current, idle_thread, thread_ticks,
                  level, asleep, waiters>>
  BY Zenon DEF sema_try_down
<1>4. \A r \in Sema : Woken(r)' = Woken(r) BY Zenon, <1>3 DEF Woken
<1>5. NoLostWakeup'
  <2> SUFFICES ASSUME NEW r \in Sema, waiters'[r] # <<>>
               PROVE  value'[r] <= Cardinality(Woken(r)')
    BY Zenon DEF NoLostWakeup
  <2>1. value[r] <= Cardinality(Woken(r)) /\ value[r] \in Nat
    BY Zenon, <1>3 DEF NoLostWakeup, SchedTypeOK
  <2>2. Cardinality(Woken(r)) \in Nat BY Zenon, WokenFinite
  <2>3. Cardinality(Woken(r)') = Cardinality(Woken(r)) BY Zenon, <1>4
  <2>4. QED BY <1>1, <2>1, <2>2, <2>3
<1>6. QED
  BY Zenon, <1>2, <1>3, <1>5 DEF SchedTypeOK, OneRunning, ReadyListExact, WaitersBlocked

(* thread_unblock() of a blocked thread, which is not the idle thread. *)
LEMMA UnblockStep ==
  ASSUME ThreadAssumption, SchedInv, NEW t \in Thread,
         status[t] = "BLOCKED", t # idle_thread, thread_unblock(t),
         UNCHANGED <<current, idle_thread>>
  PROVE  /\ status' \in [Thread -> Status]
         /\ ready_list' \in Seq(Thread)
         /\ OneRunning'
         /\ ReadyListExact'
         /\ \A u \in Thread : status'[u] = IF u = t THEN "READY" ELSE status[u]
<1> USE DEF SchedInv
<1>1. /\ ready_list' = Append(ready_list, t)
      /\ status' = [status EXCEPT ![t] = "READY"]
  BY Zenon DEF thread_unblock
<1>2. status' \in [Thread -> Status]
      /\ \A u \in Thread : status'[u] = IF u = t THEN "READY" ELSE status[u]
  BY Zenon, <1>1 DEF SchedTypeOK, Status
<1>3. t \notin InList(ready_list) BY Zenon DEF ReadyListExact
<1>4. /\ ready_list' \in Seq(Thread) /\ NoDup(ready_list')
      /\ InList(ready_list') = InList(ready_list) \cup {t}
  BY SMTT(60), <1>1, <1>3, PushBack DEF SchedTypeOK, ReadyListExact
<1>5. InList(ready_list') = {u \in Thread : status'[u] = "READY"
                                           /\ u # idle_thread}
  BY Zenon, <1>2, <1>4 DEF ReadyListExact
<1>6. ReadyListExact' BY Zenon, <1>4, <1>5 DEF ReadyListExact
<1>7. OneRunning' BY Zenon, <1>2 DEF OneRunning
<1>8. QED BY Zenon, <1>2, <1>4, <1>6, <1>7

(* sema_up(), by a thread or an interrupt handler. *)
LEMMA UpStep ==
  ASSUME ThreadAssumption, CountFacts, SchedInv, NEW s \in Sema, sema_up(s)
  PROVE  SchedInv'
<1> USE DEF SchedInv
<1>0. s # NULL BY Zenon, ThreadAssumption
<1>1. /\ value' = [value EXCEPT ![s] = value[s] + 1]
      /\ UNCHANGED <<current, idle_thread, thread_ticks, level, asleep>>
  BY Zenon DEF sema_up
<1>2. value' \in [Sema -> Nat] /\ value[s] \in Nat
      /\ \A r \in Sema : value'[r] = IF r = s THEN value[s] + 1 ELSE value[r]
  BY <1>1 DEF SchedTypeOK
<1>3. CASE waiters[s] = <<>>
  <2>1. UNCHANGED <<status, ready_list, waiters>> BY Zenon, <1>3 DEF sema_up
  <2>2. \A r \in Sema : Woken(r)' = Woken(r) BY Zenon, <1>1, <2>1 DEF Woken
  <2>3. NoLostWakeup' BY Zenon, <1>2, <1>3, <2>1, <2>2 DEF NoLostWakeup
  <2>4. QED
    BY Zenon, <1>1, <1>2, <2>1, <2>3 DEF SchedTypeOK, OneRunning, ReadyListExact,
                                  WaitersBlocked
<1>4. CASE waiters[s] # <<>>
  <2> DEFINE t == Head(waiters[s])
  <2>1. /\ thread_unblock(t)
        /\ waiters' = [waiters EXCEPT ![s] = Tail(waiters[s])]
    BY Zenon, <1>4 DEF sema_up
  <2>2. /\ waiters[s] \in Seq(Thread) /\ NoDup(waiters[s])
        /\ t \in InList(waiters[s]) /\ t \in Thread
        /\ Tail(waiters[s]) \in Seq(Thread) /\ NoDup(Tail(waiters[s]))
        /\ InList(Tail(waiters[s])) = InList(waiters[s]) \ {t}
    BY Zenon, <1>4, PopFront DEF SchedTypeOK, WaitersBlocked
  <2> HIDE DEF t
  <2>3. status[t] = "BLOCKED" /\ asleep[t] = s
    BY <2>2 DEF WaitersBlocked
  <2>4. t # idle_thread BY Zenon, <1>0, <2>2, <2>3, ThreadAssumption
  <2>5. /\ status' \in [Thread -> Status]
        /\ ready_list' \in Seq(Thread)
        /\ OneRunning'
        /\ ReadyListExact'
        /\ \A u \in Thread : status'[u] = IF u = t THEN "READY" ELSE status[u]
    BY Zenon, <1>1, <2>1, <2>2, <2>3, <2>4, UnblockStep, ThreadAssumption
  <2>6. SchedTypeOK'
    BY Zenon, <1>1, <1>2, <2>1, <2>2, <2>5 DEF SchedTypeOK
  <2>7. WaitersBlocked'
    <3> SUFFICES ASSUME NEW r \in Sema
                 PROVE  /\ NoDup(waiters'[r])
                        /\ InList(waiters'[r]) = {u \in Thread :
                              status'[u] = "BLOCKED" /\ asleep'[u] = r}
      BY Zenon DEF WaitersBlocked
    <3>1. CASE r = s
      <4>1. waiters'[r] = Tail(waiters[s]) BY Zenon, <2>1, <3>1 DEF SchedTypeOK
      <4>2. QED BY Zenon, <1>1, <2>2, <2>5, <3>1, <4>1 DEF WaitersBlocked
    <3>2. CASE r # s
      <4>1. waiters'[r] = waiters[r] BY Zenon, <2>1, <3>2 DEF SchedTypeOK
      <4>2. QED BY <1>1, <2>3, <2>5, <3>2, <4>1 DEF WaitersBlocked
    <3>3. QED BY Zenon, <3>1, <3>2
  <2>8. NoLostWakeup'
    <3> SUFFICES ASSUME NEW r \in Sema, waiters'[r] # <<>>
                 PROVE  value'[r] <= Cardinality(Woken(r)')
      BY Zenon DEF NoLostWakeup
    <3>1. Woken(r) \in SUBSET Thread /\ Cardinality(Woken(r)) \in Nat
      BY Zenon, WokenFinite
    <3>2. CASE r = s
      <4>1. Woken(r)' = Woken(r) \cup {t} /\ t \notin Woken(r)
        BY Zenon, <1>1, <2>2, <2>3, <2>5, <3>2 DEF Woken
      <4>2. Cardinality(Woken(r)') = Cardinality(Woken(r)) + 1
        BY Zenon, <2>2, <3>1, <4>1 DEF CountFacts
      <4>3. value[s] <= Cardinality(Woken(s)) BY Zenon, <1>4 DEF NoLostWakeup
      <4>4. QED BY SMTT(60), <1>2, <3>1, <3>2, <4>2, <4>3
    <3>3. CASE r # s
      <4>1. Woken(r)' = Woken(r)
        BY Zenon, <1>1, <2>3, <2>5, <3>3 DEF Woken
      <4>2. waiters'[r] = waiters[r] BY Zenon, <2>1, <3>3 DEF SchedTypeOK
      <4>3. QED BY Zenon, <1>2, <3>3, <4>1, <4>2 DEF NoLostWakeup
    <3>4. QED BY Zenon, <3>2, <3>3
  <2>9. QED BY Zenon, <1>1, <2>5, <2>6, <2>7, <2>8
<1>5. QED BY Zenon, <1>3, <1>4

(* Steps that touch no scheduler state. *)
LEMMA SchedStutter ==
  ASSUME SchedInv, UNCHANGED sched_vars
  PROVE  SchedInv'
BY ZenonT(60) DEF SchedInv, sched_vars, SchedTypeOK, OneRunning, ReadyListExact,
       WaitersBlocked, NoLostWakeup, Woken
=============================================================================
