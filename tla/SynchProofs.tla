---------------------------- MODULE SynchProofs ----------------------------
(***************************************************************************)
(* Locks and condition variables keep LocksExact and implement Monitor,    *)
(* for any finite set of threads, any locks and conditions and any time    *)
(* slice.  First the steps, then what each of them is in Monitor, and last *)
(* what needs the counting of threads and the theorems.                    *)
(***************************************************************************)
EXTENDS Synch, SchedProofs

(* Where a thread is in its code determines which of its locals are set,   *)
(* and in which sema_down() it may sleep.                                  *)
LocalsOf(t) ==
  /\ pc[t] = "idle" <=> t = idle
  /\ arg[t] # NULL <=> pc[t] \in {"acq_down", "acq_hold", "rel_hold", "rel_up",
                                  "cw_down"}
  /\ popped[t] # NULL <=> pc[t] = "sig_up"
  /\ pc[t] = "bcast" => bcast[t] # NULL
  /\ bcast[t] # NULL => pc[t] \in {"bcast", "sig_up"}
  /\ waiting[t] => pc[t] \in {"rel_hold", "rel_up", "cw_down", "acq_down"}
  /\ pc[t] = "cw_down" => waiting[t]
  /\ asleep[t] # NULL => \/ pc[t] = "acq_down" /\ asleep[t] = arg[t]
                         \/ pc[t] = "cw_down" /\ asleep[t] = WaiterSema(t)
Locals == \A t \in Thread : LocalsOf(t)

(* Which locks a thread holds where it is. *)
HeldBy(t) ==
  /\ pc[t] = "rel_hold" => arg[t] \in held[t]
  /\ pc[t] = "rel_up" => arg[t] \notin held[t]
  /\ bcast[t] # NULL => lock_of[bcast[t]] \in held[t]
HeldLocks == \A t \in Thread : HeldBy(t)

(* The semaphore of a lock has one unit, which the owner has. *)
OneOwner ==
  \A l \in Lock :
    /\ \A t, u \in Thread : Owns(t, l) /\ Owns(u, l) => t = u
    /\ value[l] = IF \E t \in Thread : Owns(t, l) THEN 0 ELSE 1

(* A queued waiter is in one queue, once, and has not been signalled; only *)
(* the last of a queue may still have the lock.                            *)
QueueOf(c) ==
  /\ NoDup(cwaiters[c])
  /\ \A t \in InList(cwaiters[c]) :
       /\ waiting[t] /\ arg[t] = lock_of[c]
       /\ pc[t] \in {"rel_hold", "rel_up", "cw_down"}
       /\ value[WaiterSema(t)] = 0
       /\ \A d \in Cond : t \in InList(cwaiters[d]) => c = d
  /\ \A i \in 1..Len(cwaiters[c]) - 1 : pc[cwaiters[c][i]] = "cw_down"
Queues == \A c \in Cond : QueueOf(c)

(* A popped waiter sleeps, or is about to, until its signaller raises its  *)
(* semaphore; a waiter is queued, popped or raised, and only one of them.  *)
SignalOf(t) ==
  /\ \A u \in Thread : popped[t] = popped[u] /\ popped[t] # NULL => t = u
  /\ popped[t] # NULL => /\ pc[popped[t]] = "cw_down"
                         /\ ~InQueue(popped[t])
                         /\ value[WaiterSema(popped[t])] = 0
  /\ value[WaiterSema(t)] \in {0, 1}
  /\ value[WaiterSema(t)] = 1 => pc[t] = "cw_down"
  /\ waiting[t] /\ pc[t] \in {"rel_hold", "rel_up"} => InQueue(t)
  /\ pc[t] = "cw_down" => \/ InQueue(t) \/ value[WaiterSema(t)] = 1
                          \/ \E u \in Thread : popped[u] = t
Signals == \A t \in Thread : SignalOf(t)

Clients == Locals /\ HeldLocks /\ HolderExact /\ OneOwner /\ Queues /\ Signals

IInv == TypeOK /\ SchedInv /\ idle_thread = idle /\ Clients

Assumptions ==
  ThreadAssumption /\ TimeSliceAssumption /\ SynchAssumption /\ CountFacts

-----------------------------------------------------------------------------
(* sema_init() of a semaphore that nobody sleeps on. *)
LEMMA ReinitStep ==
  ASSUME ThreadAssumption, SchedInv, NEW s \in Sema,
         \A t \in Thread : asleep[t] # s,
         value' = [value EXCEPT ![s] = 0],
         waiters' = [waiters EXCEPT ![s] = <<>>],
         UNCHANGED <<status, ready_list, current, idle_thread, thread_ticks, level,
                     asleep>>
  PROVE  SchedInv'
<1> USE DEF SchedInv
<1>1. waiters[s] = <<>>
  <2>1. InList(waiters[s]) = {} BY Zenon DEF WaitersBlocked
  <2>2. waiters[s] \in Seq(Thread) BY Zenon DEF SchedTypeOK
  <2>3. QED BY Zenon, <2>1, <2>2, EmptyList
<1>2. waiters' = waiters BY Zenon, <1>1 DEF SchedTypeOK
<1>3. \A r \in Sema : value'[r] = IF r = s THEN 0 ELSE value[r]
  BY Zenon DEF SchedTypeOK
<1>4. SchedTypeOK' BY Zenon, <1>2 DEF SchedTypeOK
<1>5. \A r \in Sema : Woken(r)' = Woken(r) BY Zenon DEF Woken
<1>6. NoLostWakeup' BY Zenon, <1>1, <1>2, <1>3, <1>5 DEF NoLostWakeup
<1>7. QED
  BY <1>2, <1>4, <1>6 DEF OneRunning, ReadyListExact, WaitersBlocked

-----------------------------------------------------------------------------
(* The scheduler's invariant is kept by every step of the clients. *)
LEMMA SchedKept ==
  ASSUME Assumptions, IInv, [Next]_vars
  PROVE  SchedInv' /\ idle_thread' = idle
<1> USE DEF Assumptions, IInv
<1>1. CanSwitch BY Zenon DEF CanSwitch, ThreadAssumption, SynchAssumption
<1>2. \A t \in Thread : t # idle => t # idle_thread
  BY Zenon
<1>3. Lock \subseteq Sema /\ Thread \subseteq Sema BY Zenon DEF SynchAssumption
<1>4. ASSUME NEW t \in Thread, ThreadStep(t) PROVE SchedInv' /\ idle_thread' = idle
  <2> USE DEF Clients
  <2>1. CASE \/ lock_acquire(t) \/ AcquireHold(t) \/ lock_release(t)
             \/ ReleaseHold(t) \/ cond_signal(t) \/ cond_broadcast(t)
             \/ BroadcastLoop(t)
    <3>1. UNCHANGED sched_vars
      BY Zenon, <2>1 DEF lock_acquire, AcquireHold, lock_release, ReleaseHold, cond_signal,
                  cond_broadcast, BroadcastLoop
    <3>2. QED BY Zenon, <3>1, SchedStutter DEF sched_vars
  <2>2. CASE AcquireDown(t)
    <3>1. arg[t] \in Sema /\ t # idle_thread
      BY <1>3, <2>2 DEF AcquireDown, Locals, LocalsOf, TypeOK
    <3>2. /\ InSemaDown(t, arg[t])
          /\ sema_down_wait(t, arg[t]) \/ sema_down_take(t, arg[t])
      BY Zenon, <2>2 DEF AcquireDown
    <3>3. SchedInv' BY Zenon, <1>1, <3>1, <3>2, DownWaitStep, DownTakeStep
    <3>4. QED BY Zenon, <3>2, <3>3 DEF sema_down_wait, sema_down_take
  <2>3. CASE WaitDown(t)
    <3>1. t # idle_thread BY Zenon, <2>3 DEF WaitDown, Locals, LocalsOf
    <3>2. /\ InSemaDown(t, t)
          /\ sema_down_wait(t, t) \/ sema_down_take(t, t)
      BY Zenon, <2>3 DEF WaitDown, WaiterSema
    <3>3. SchedInv' BY Zenon, <1>1, <1>3, <3>1, <3>2, DownWaitStep, DownTakeStep
    <3>4. QED BY Zenon, <3>2, <3>3 DEF sema_down_wait, sema_down_take
  <2>4. CASE lock_try_acquire(t)
    <3>1. PICK l \in Lock : sema_try_down(l) BY Zenon, <2>4 DEF lock_try_acquire
    <3>2. QED BY Zenon, <1>3, <3>1, TryDownStep DEF sema_try_down
  <2>5. CASE ReleaseUp(t)
    <3>1. arg[t] \in Sema /\ sema_up(arg[t])
      BY <1>3, <2>5 DEF ReleaseUp, At, Locals, LocalsOf, TypeOK
    <3>2. QED BY Zenon, <3>1, UpStep DEF sema_up
  <2>6. CASE SignalUp(t)
    <3>1. popped[t] \in Sema /\ sema_up(popped[t])
      BY <1>3, <2>6 DEF SignalUp, At, Locals, LocalsOf, TypeOK, WaiterSema
    <3>2. QED BY Zenon, <3>1, UpStep DEF sema_up
  <2>7. CASE cond_wait(t)
    <3>1. \A u \in Thread : asleep[u] # t
      <4> SUFFICES ASSUME NEW u \in Thread, asleep[u] = t PROVE FALSE
        BY Zenon
      <4>1. asleep[t] = NULL /\ pc[t] = "run" /\ t # NULL /\ t \notin Lock
        BY Zenon, <2>7 DEF cond_wait, At, Running, ThreadAssumption, SynchAssumption
      <4>2. u # t /\ arg[u] \in Lock \cup {NULL} BY Zenon, <4>1 DEF TypeOK
      <4>3. arg[u] = t \/ u = t BY Zenon, <4>1 DEF Locals, LocalsOf, WaiterSema
      <4>4. QED BY Zenon, <4>1, <4>2, <4>3
    <3>2. QED BY Zenon, <1>3, <2>7, <3>1, ReinitStep DEF cond_wait, WaiterSema
  <2>8. QED BY Zenon, <1>4, <2>1, <2>2, <2>3, <2>4, <2>5, <2>6, <2>7 DEF ThreadStep
<1>5. CASE IdleBlock
  BY Zenon, <1>1, <1>5, LeaveAwakeStep DEF IdleBlock, At, Running, thread_block
<1>6. CASE TimerInterrupt
  BY Zenon, <1>6, TickStep DEF TimerInterrupt, thread_tick
<1>7. CASE UNCHANGED vars
  BY Zenon, <1>7, SchedStutter DEF vars, sched_vars
<1>8. QED BY Zenon, <1>4, <1>5, <1>6, <1>7 DEF Next

-----------------------------------------------------------------------------
(* The clients' invariant *)

(* A step that changes neither the owners nor the values of the locks. *)
LEMMA SameOwners ==
  ASSUME OneOwner,
         \A t \in Thread, l \in Lock : Owns(t, l)' <=> Owns(t, l),
         \A l \in Lock : value'[l] = value[l]
  PROVE  OneOwner'
<1>1. ASSUME NEW l \in Lock
      PROVE  (\E t \in Thread : Owns(t, l)') <=> (\E t \in Thread : Owns(t, l))
  BY Zenon
<1> HIDE DEF Owns
<1>2. QED BY Zenon, <1>1 DEF OneOwner

(* A step that changes only scheduler state other than values. *)
LEMMA ClientsRest ==
  ASSUME Clients, UNCHANGED <<client_vars, value>>
  PROVE  HeldLocks' /\ HolderExact' /\ OneOwner' /\ Queues' /\ Signals'
<1> USE DEF Clients, client_vars
<1>1. HeldLocks' BY Zenon DEF HeldLocks, HeldBy
<1>2. HolderExact' BY Zenon DEF HolderExact
<1>3. OneOwner' BY ZenonT(60) DEF OneOwner, Owns
<1>4. Queues' BY ZenonT(30) DEF Queues, QueueOf, WaiterSema
<1>5. Signals' BY Zenon DEF Signals, SignalOf, WaiterSema, InQueue
<1>6. QED BY Zenon, <1>1, <1>2, <1>3, <1>4, <1>5

(* A step of a thread that is not in cond_wait(), or that has been         *)
(* signalled and has left its sema_down().                                 *)
LEMMA NotInQueue ==
  ASSUME Assumptions, TypeOK, Locals, Queues, Signals, NEW t \in Thread,
         ~waiting[t] \/ pc[t] = "acq_down",
         pc'[t] # "cw_down" /\ (waiting'[t] => pc'[t] = "acq_down"),
         \A u \in Thread \ {t} : /\ pc'[u] = pc[u] /\ arg'[u] = arg[u]
                                 /\ waiting'[u] = waiting[u],
         \A u \in Thread : value'[u] = value[u],
         UNCHANGED <<cwaiters, popped>>
  PROVE  Queues' /\ Signals'
<1> USE DEF Assumptions, WaiterSema
<1>1. pc[t] # "cw_down" BY Zenon DEF Locals, LocalsOf
<1>2. \A c \in Cond : t \notin InList(cwaiters[c]) BY Zenon DEF Queues, QueueOf
<1>3. \A c \in Cond : InList(cwaiters[c]) \subseteq Thread
  BY DEF TypeOK, InList
<1>4. \A c \in Cond : \A i \in 1..Len(cwaiters[c]) : /\ cwaiters[c][i] \in Thread
                                                     /\ cwaiters[c][i] # t
  BY <1>2 DEF InList, TypeOK
<1>5. Queues'
  <2> SUFFICES ASSUME NEW c \in Cond PROVE QueueOf(c)'
    BY Zenon DEF Queues, QueueOf
  <2>1. \A u \in InList(cwaiters[c]) : u \in Thread \ {t} BY Zenon, <1>2, <1>3
  <2>2. \A i \in 1..Len(cwaiters[c]) - 1 : cwaiters[c][i] \in Thread \ {t}
    BY <1>4 DEF TypeOK
  <2>3. QED BY <2>1, <2>2 DEF Queues, QueueOf
<1>6. \A u \in Thread : InQueue(u)' <=> InQueue(u) BY Zenon DEF InQueue
<1>7. \A u \in Thread : popped[u] \in (Thread \ {t}) \cup {NULL}
  BY <1>1 DEF TypeOK, Signals, SignalOf
<1> HIDE DEF InQueue
<1>8. Signals'
  BY <1>1, <1>6, <1>7 DEF Signals, SignalOf, TypeOK
<1>9. QED BY Zenon, <1>5, <1>8

(* A waiter goes on releasing the lock. *)
LEMMA StillQueued ==
  ASSUME Assumptions, TypeOK, Locals, Queues, Signals, NEW t \in Thread,
         waiting[t], pc[t] \in {"rel_hold", "rel_up"},
         pc' = [pc EXCEPT ![t] = IF pc[t] = "rel_hold" THEN "rel_up" ELSE "cw_down"],
         \A u \in Thread : value'[u] = value[u],
         UNCHANGED <<cwaiters, popped, arg, waiting>>
  PROVE  Queues' /\ Signals'
<1> USE DEF Assumptions, WaiterSema
<1>1. /\ pc'[t] \in {"rel_up", "cw_down"} /\ InQueue(t)
      /\ \A u \in Thread \ {t} : pc'[u] = pc[u]
  BY DEF TypeOK, Signals, SignalOf
<1>2. \A c \in Cond : InList(cwaiters[c]) \subseteq Thread
  BY DEF TypeOK, InList
<1>3. \A c \in Cond : \A i \in 1..Len(cwaiters[c]) : cwaiters[c][i] \in Thread
  BY DEF TypeOK
<1>4. Queues'
  <2> SUFFICES ASSUME NEW c \in Cond PROVE QueueOf(c)'
    BY Zenon DEF Queues, QueueOf
  <2>1. \A i \in 1..Len(cwaiters[c]) - 1 : cwaiters[c][i] \in Thread \ {t}
    BY <1>3 DEF Queues, QueueOf, TypeOK
  <2>2. QED BY <1>1, <1>2, <2>1 DEF Queues, QueueOf
<1>5. \A u \in Thread : InQueue(u)' <=> InQueue(u) BY Zenon DEF InQueue
<1> HIDE DEF InQueue
<1>6. \A u \in Thread : popped[u] \in (Thread \ {t}) \cup {NULL}
  BY DEF TypeOK, Signals, SignalOf
<1>7. Signals' BY <1>1, <1>5, <1>6 DEF Signals, SignalOf, TypeOK
<1>8. QED BY Zenon, <1>4, <1>7

(* lock_acquire() and lock_try_acquire() up to sema_down(). *)
LEMMA AcquireStep ==
  ASSUME Assumptions, IInv, SchedInv', NEW t \in Thread,
         lock_acquire(t) \/ lock_try_acquire(t)
  PROVE  TypeOK' /\ Clients'
<1> USE DEF Assumptions, IInv, Clients
<1>1. /\ pc[t] = "run" /\ arg[t] = NULL /\ ~waiting[t] /\ bcast[t] = NULL
      /\ asleep[t] = NULL /\ popped[t] = NULL /\ t # idle
  BY Zenon DEF lock_acquire, lock_try_acquire, At, Running, Locals, LocalsOf
<1>2. PICK l \in Lock :
        /\ l \notin held[t] /\ l # NULL
        /\ \/ /\ arg' = [arg EXCEPT ![t] = l] /\ pc' = [pc EXCEPT ![t] = "acq_down"]
              /\ value' = value
           \/ /\ value[l] > 0 /\ value' = [value EXCEPT ![l] = value[l] - 1]
              /\ arg' = [arg EXCEPT ![t] = l] /\ pc' = [pc EXCEPT ![t] = "acq_hold"]
           \/ UNCHANGED <<arg, pc, value>>
  BY Zenon DEF lock_acquire, lock_try_acquire, sema_try_down, Goto, sched_vars,
         ThreadAssumption, SynchAssumption
<1>3. UNCHANGED <<asleep, holder, cwaiters, held, waiting, popped, bcast>>
  BY Zenon DEF lock_acquire, lock_try_acquire, sema_try_down, sched_vars
<1>4. TypeOK' BY ZenonT(30), <1>2, <1>3 DEF TypeOK, PC, SchedInv
<1>5. Locals' /\ HeldLocks' /\ HolderExact'
  <2>1. Locals' BY <1>1, <1>2, <1>3 DEF Locals, LocalsOf, TypeOK
  <2>2. HeldLocks' BY <1>1, <1>2, <1>3 DEF HeldLocks, HeldBy, TypeOK
  <2>3. HolderExact' BY Zenon, <1>3 DEF HolderExact
  <2>4. QED BY Zenon, <2>1, <2>2, <2>3
<1>6. Queues' /\ Signals'
  <2>1. \A u \in Thread : value'[u] = value[u]
    <3>1. value \in [Sema -> Nat] BY Zenon DEF TypeOK, SchedTypeOK
    <3>2. Thread \subseteq Sema /\ l \notin Thread BY Zenon DEF SynchAssumption
    <3>3. value' = value \/ value' = [value EXCEPT ![l] = value[l] - 1] BY Zenon, <1>2
    <3>4. QED BY Zenon, <3>1, <3>2, <3>3
  <2>2. /\ pc'[t] # "cw_down" /\ ~waiting'[t]
        /\ \A u \in Thread \ {t} : /\ pc'[u] = pc[u] /\ arg'[u] = arg[u]
                                   /\ waiting'[u] = waiting[u]
    BY ZenonT(60), <1>1, <1>2, <1>3 DEF TypeOK
  <2>3. QED BY Zenon, <1>1, <1>3, <2>1, <2>2, NotInQueue
<1>7. OneOwner'
  <2>1. CASE value' = value
    <3>1. pc'[t] # "acq_hold"
      BY <1>1, <1>2, <2>1 DEF TypeOK, SchedTypeOK, SynchAssumption
    <3>2. \A u \in Thread, k \in Lock : Owns(u, k)' <=> Owns(u, k)
      BY ZenonT(60), <1>1, <1>2, <1>3, <3>1 DEF Owns, TypeOK
    <3>3. QED BY Zenon, <2>1, <3>2, SameOwners
  <2>2. CASE value' # value
    <3>1. /\ value[l] > 0 /\ value' = [value EXCEPT ![l] = value[l] - 1]
          /\ arg' = [arg EXCEPT ![t] = l] /\ pc' = [pc EXCEPT ![t] = "acq_hold"]
      BY Zenon, <1>2, <2>2
    <3>2. \A u \in Thread, k \in Lock : Owns(u, k)' <=> Owns(u, k) \/ (u = t /\ k = l)
      BY Zenon, <1>1, <1>3, <3>1 DEF Owns, TypeOK
    <3>3. value[l] = 1 /\ \A u \in Thread : ~Owns(u, l)
      BY <3>1 DEF OneOwner
    <3>4. \A k \in Lock : value'[k] = IF k = l THEN 0 ELSE value[k]
      BY <3>1, <3>3 DEF TypeOK, SchedTypeOK, SynchAssumption
    <3> HIDE DEF Owns
    <3>5. QED BY <3>2, <3>3, <3>4 DEF OneOwner
  <2>3. QED BY Zenon, <2>1, <2>2
<1>8. QED BY Zenon, <1>4, <1>5, <1>6, <1>7

(* lock_acquire(): the sema_down(), also at the end of cond_wait(). *)
LEMMA AcquireDownStep ==
  ASSUME Assumptions, IInv, SchedInv', NEW t \in Thread, AcquireDown(t)
  PROVE  TypeOK' /\ Clients'
<1> USE DEF Assumptions, IInv, Clients
<1> DEFINE l == arg[t]
<1>1. /\ pc[t] = "acq_down" /\ l \in Lock /\ l # NULL /\ t # idle
      /\ bcast[t] = NULL /\ popped[t] = NULL /\ l \notin Thread
      /\ UNCHANGED <<holder, cwaiters, held, arg, popped, bcast>>
  BY DEF AcquireDown, Locals, LocalsOf, TypeOK, ThreadAssumption, SynchAssumption
<1>2. CASE sema_down_wait(t, l) /\ UNCHANGED <<pc, waiting>>
  <2>1. value' = value /\ asleep' = [asleep EXCEPT ![t] = l]
    BY Zenon, <1>2 DEF sema_down_wait
  <2>2. TypeOK' BY Zenon, <1>1, <1>2 DEF TypeOK, SchedInv
  <2>3. Locals' BY <1>1, <1>2, <2>1 DEF Locals, LocalsOf, TypeOK, SchedTypeOK, WaiterSema
  <2>4. QED BY Zenon, <1>1, <1>2, <2>1, <2>2, <2>3, ClientsRest DEF client_vars
<1>3. CASE /\ sema_down_take(t, l)
           /\ waiting' = [waiting EXCEPT ![t] = FALSE]
           /\ Goto(t, "acq_hold")
  <2>1. /\ value[l] > 0 /\ value' = [value EXCEPT ![l] = value[l] - 1]
        /\ asleep' = [asleep EXCEPT ![t] = NULL]
        /\ pc' = [pc EXCEPT ![t] = "acq_hold"]
    BY Zenon, <1>3 DEF sema_down_take, Goto
  <2>2. TypeOK' BY Zenon, <1>1, <1>3, <2>1 DEF TypeOK, SchedInv, PC
  <2>3. Locals' /\ HeldLocks' /\ HolderExact'
    BY <1>1, <1>3, <2>1 DEF Locals, LocalsOf, HeldLocks, HeldBy, HolderExact, TypeOK,
       SchedTypeOK, WaiterSema
  <2>4. Queues' /\ Signals'
    <3>1. \A u \in Thread : value'[u] = value[u]
      BY Zenon, <1>1, <2>1 DEF TypeOK, SchedTypeOK, SynchAssumption
    <3>2. /\ pc'[t] # "cw_down" /\ ~waiting'[t]
          /\ \A u \in Thread \ {t} : /\ pc'[u] = pc[u] /\ arg'[u] = arg[u]
                                     /\ waiting'[u] = waiting[u]
      BY Zenon, <1>1, <1>3, <2>1 DEF TypeOK
    <3>3. QED BY Zenon, <1>1, <3>1, <3>2, NotInQueue
  <2>5. \A u \in Thread, k \in Lock : Owns(u, k)' <=> Owns(u, k) \/ (u = t /\ k = l)
    BY Zenon, <1>1, <2>1 DEF Owns, TypeOK
  <2>6. value[l] = 1 /\ \A u \in Thread : ~Owns(u, l)
    BY <1>1, <2>1 DEF OneOwner
  <2>7. \A k \in Lock : value'[k] = IF k = l THEN 0 ELSE value[k]
    BY <1>1, <2>1, <2>6 DEF TypeOK, SchedTypeOK, SynchAssumption
  <2> HIDE DEF Owns, l
  <2>8. OneOwner' BY <1>1, <2>5, <2>6, <2>7 DEF OneOwner
  <2>9. QED BY Zenon, <2>2, <2>3, <2>4, <2>8
<1>4. QED BY Zenon, <1>2, <1>3 DEF AcquireDown

(* lock_acquire() and lock_try_acquire() once they have the unit. *)
LEMMA AcquireHoldStep ==
  ASSUME Assumptions, IInv, SchedInv', NEW t \in Thread, AcquireHold(t)
  PROVE  TypeOK' /\ Clients'
<1> USE DEF Assumptions, IInv, Clients
<1> DEFINE l == arg[t]
<1>1. /\ pc[t] = "acq_hold" /\ l \in Lock /\ asleep[t] = NULL /\ t # idle
      /\ bcast[t] = NULL /\ popped[t] = NULL /\ ~waiting[t] /\ t # NULL
  BY DEF AcquireHold, At, Running, Locals, LocalsOf, TypeOK, ThreadAssumption
<1>2. /\ holder' = [holder EXCEPT ![l] = t] /\ held' = [held EXCEPT ![t] = held[t] \cup {l}]
      /\ arg' = [arg EXCEPT ![t] = NULL] /\ pc' = [pc EXCEPT ![t] = "run"]
      /\ UNCHANGED <<value, asleep, cwaiters, waiting, popped, bcast>>
  BY Zenon DEF AcquireHold, Goto, sched_vars
<1>3. TypeOK' BY <1>1, <1>2 DEF TypeOK, PC, SchedInv
<1>4. Locals' BY <1>1, <1>2 DEF Locals, LocalsOf, TypeOK
<1>5. HeldLocks' BY Zenon, <1>1, <1>2 DEF HeldLocks, HeldBy, TypeOK
<1>6. Owns(t, l) BY Zenon, <1>1 DEF Owns
<1>7. \A u \in Thread, k \in Lock : Owns(u, k)' <=> Owns(u, k)
  BY Zenon, <1>1, <1>2 DEF Owns, TypeOK, ThreadAssumption, SynchAssumption
<1>8. OneOwner' BY Zenon, <1>2, <1>7, SameOwners
<1>9. \A u \in Thread : l \in held[u] => u = t
  BY Zenon, <1>1, <1>6 DEF OneOwner, Owns
<1>10. HolderExact'
  <2> SUFFICES ASSUME NEW u \in Thread, NEW k \in Lock
               PROVE  k \in held'[u] <=> holder'[k] = u
    BY Zenon DEF HolderExact
  <2>1. CASE k = l BY <1>1, <1>2, <1>9, <2>1 DEF HolderExact, TypeOK
  <2>2. CASE k # l BY <1>1, <1>2, <2>2 DEF HolderExact, TypeOK
  <2>3. QED BY Zenon, <2>1, <2>2
<1>11. Queues' /\ Signals'
  <2>1. /\ pc'[t] # "cw_down" /\ ~waiting'[t]
        /\ \A u \in Thread \ {t} : /\ pc'[u] = pc[u] /\ arg'[u] = arg[u]
                                   /\ waiting'[u] = waiting[u]
    BY Zenon, <1>1, <1>2 DEF TypeOK
  <2>2. QED BY Zenon, <1>1, <1>2, <2>1, NotInQueue
<1>12. QED BY Zenon, <1>3, <1>4, <1>5, <1>8, <1>10, <1>11

(* Calls that only pick the lock or the condition. *)
LEMMA CallStep ==
  ASSUME Assumptions, IInv, SchedInv', NEW t \in Thread,
         lock_release(t) \/ cond_broadcast(t)
  PROVE  TypeOK' /\ Clients'
<1> USE DEF Assumptions, IInv, Clients
<1>1. /\ pc[t] = "run" /\ arg[t] = NULL /\ ~waiting[t] /\ bcast[t] = NULL
      /\ asleep[t] = NULL /\ popped[t] = NULL /\ t # idle
  BY Zenon DEF lock_release, cond_broadcast, At, Running, Locals, LocalsOf
<1>2. /\ \/ /\ \E l \in held[t] : arg' = [arg EXCEPT ![t] = l]
            /\ pc' = [pc EXCEPT ![t] = "rel_hold"] /\ bcast' = bcast
         \/ /\ \E c \in Cond : /\ lock_of[c] \in held[t]
                               /\ bcast' = [bcast EXCEPT ![t] = c]
            /\ pc' = [pc EXCEPT ![t] = "bcast"] /\ arg' = arg
      /\ UNCHANGED <<value, asleep, holder, cwaiters, held, waiting, popped>>
  BY Zenon DEF lock_release, cond_broadcast, Goto, sched_vars
<1>3. TypeOK' BY ZenonT(30), <1>2 DEF TypeOK, PC, SchedInv
<1>4. Locals'
  BY <1>1, <1>2 DEF Locals, LocalsOf, TypeOK, SynchAssumption, ThreadAssumption
<1>5. HeldLocks' BY <1>1, <1>2 DEF HeldLocks, HeldBy, TypeOK
<1>6. HolderExact' BY Zenon, <1>2 DEF HolderExact
<1>7. \A u \in Thread, k \in Lock : Owns(u, k)' <=> Owns(u, k)
  BY <1>1, <1>2 DEF Owns, TypeOK
<1>8. OneOwner' BY Zenon, <1>2, <1>7, SameOwners
<1>9. Queues' /\ Signals'
  <2>1. /\ pc'[t] # "cw_down" /\ ~waiting'[t]
        /\ \A u \in Thread \ {t} : /\ pc'[u] = pc[u] /\ arg'[u] = arg[u]
                                   /\ waiting'[u] = waiting[u]
    BY Zenon, <1>1, <1>2 DEF TypeOK
  <2>2. QED BY Zenon, <1>1, <1>2, <2>1, NotInQueue
<1>10. QED BY Zenon, <1>3, <1>4, <1>5, <1>6, <1>8, <1>9

(* lock_release() clears the holder, also in cond_wait(). *)
LEMMA ReleaseHoldStep ==
  ASSUME Assumptions, IInv, SchedInv', NEW t \in Thread, ReleaseHold(t)
  PROVE  TypeOK' /\ Clients'
<1> USE DEF Assumptions, IInv, Clients
<1> DEFINE l == arg[t]
<1>1. /\ pc[t] = "rel_hold" /\ l \in Lock /\ l \in held[t] /\ asleep[t] = NULL
      /\ t # idle /\ bcast[t] = NULL /\ popped[t] = NULL /\ NULL \notin Thread
  BY Zenon DEF ReleaseHold, At, Running, Locals, LocalsOf, HeldLocks, HeldBy, TypeOK,
         ThreadAssumption
<1>2. /\ holder' = [holder EXCEPT ![l] = NULL] /\ held' = [held EXCEPT ![t] = held[t] \ {l}]
      /\ pc' = [pc EXCEPT ![t] = "rel_up"]
      /\ UNCHANGED <<value, asleep, cwaiters, arg, waiting, popped, bcast>>
  BY Zenon DEF ReleaseHold, Goto, sched_vars
<1>3. TypeOK' BY Zenon, <1>1, <1>2 DEF TypeOK, PC, SchedInv
<1>4. Locals' BY <1>1, <1>2 DEF Locals, LocalsOf, TypeOK
<1>5. HeldLocks' BY Zenon, <1>1, <1>2 DEF HeldLocks, HeldBy, TypeOK
<1>6. \A u \in Thread, k \in Lock : Owns(u, k)' <=> Owns(u, k)
  BY Zenon, <1>1, <1>2 DEF Owns, TypeOK
<1>7. OneOwner' BY Zenon, <1>2, <1>6, SameOwners
<1>8. HolderExact'
  <2> SUFFICES ASSUME NEW u \in Thread, NEW k \in Lock
               PROVE  k \in held'[u] <=> holder'[k] = u
    BY Zenon DEF HolderExact
  <2>1. CASE k = l BY <1>1, <1>2, <2>1 DEF HolderExact, TypeOK
  <2>2. CASE k # l BY <1>1, <1>2, <2>2 DEF HolderExact, TypeOK
  <2>3. QED BY Zenon, <2>1, <2>2
<1>9. Queues' /\ Signals'
  <2>1. CASE waiting[t] BY Zenon, <1>1, <1>2, <2>1, StillQueued
  <2>2. CASE ~waiting[t]
    <3>1. /\ pc'[t] # "cw_down" /\ ~waiting'[t]
          /\ \A u \in Thread \ {t} : /\ pc'[u] = pc[u] /\ arg'[u] = arg[u]
                                     /\ waiting'[u] = waiting[u]
      BY Zenon, <1>1, <1>2, <2>2 DEF TypeOK
    <3>2. QED BY Zenon, <1>1, <1>2, <2>2, <3>1, NotInQueue
  <2>3. QED BY Zenon, <2>1, <2>2
<1>10. QED BY Zenon, <1>3, <1>4, <1>5, <1>7, <1>8, <1>9

(* lock_release() gives the unit back. *)
LEMMA ReleaseUpStep ==
  ASSUME Assumptions, IInv, SchedInv', NEW t \in Thread, ReleaseUp(t)
  PROVE  TypeOK' /\ Clients'
<1> USE DEF Assumptions, IInv, Clients
<1> DEFINE l == arg[t]
<1>1. /\ pc[t] = "rel_up" /\ l \in Lock /\ l \notin held[t] /\ asleep[t] = NULL
      /\ t # idle /\ bcast[t] = NULL /\ popped[t] = NULL /\ l \notin Thread
      /\ waiting[t] \in BOOLEAN
  BY DEF ReleaseUp, At, Running, Locals, LocalsOf, HeldLocks, HeldBy, TypeOK,
         SynchAssumption
<1>2. /\ value' = [value EXCEPT ![l] = value[l] + 1] /\ asleep' = asleep
      /\ pc' = [pc EXCEPT ![t] = IF waiting[t] THEN "cw_down" ELSE "run"]
      /\ arg' = [arg EXCEPT ![t] = IF waiting[t] THEN arg[t] ELSE NULL]
      /\ UNCHANGED <<holder, cwaiters, held, waiting, popped, bcast>>
  BY Zenon DEF ReleaseUp, Goto, sema_up
<1>3. TypeOK' BY Zenon, <1>1, <1>2 DEF TypeOK, PC, SchedInv
<1>4. Locals' BY <1>1, <1>2 DEF Locals, LocalsOf, TypeOK
<1>5. HeldLocks' BY Zenon, <1>1, <1>2 DEF HeldLocks, HeldBy, TypeOK
<1>6. HolderExact' BY Zenon, <1>2 DEF HolderExact
<1>7. \A u \in Thread, k \in Lock : Owns(u, k)' <=> Owns(u, k) /\ (u # t \/ k # l)
  BY Zenon, <1>1, <1>2 DEF Owns, TypeOK, ThreadAssumption, SynchAssumption
<1>8. Owns(t, l) BY Zenon, <1>1 DEF Owns
<1>9. value[l] = 0 /\ \A u \in Thread : Owns(u, l) => u = t
  BY Zenon, <1>1, <1>8 DEF OneOwner
<1>10. \A k \in Lock : value'[k] = IF k = l THEN 1 ELSE value[k]
  BY <1>1, <1>2, <1>9 DEF TypeOK, SchedTypeOK, SynchAssumption
<1>11. OneOwner'
  <2> HIDE DEF Owns, l
  <2> QED BY <1>1, <1>7, <1>8, <1>9, <1>10 DEF OneOwner
<1>12. \A u \in Thread : value'[u] = value[u]
  BY Zenon, <1>1, <1>2 DEF TypeOK, SchedTypeOK, SynchAssumption
<1>13. Queues' /\ Signals'
  <2>1. CASE waiting[t]
    <3>1. arg' = arg /\ pc' = [pc EXCEPT ![t] = "cw_down"] BY Zenon, <1>2, <2>1 DEF TypeOK
    <3>2. QED BY Zenon, <1>1, <1>2, <1>12, <2>1, <3>1, StillQueued
  <2>2. CASE ~waiting[t]
    <3>1. /\ pc'[t] # "cw_down" /\ ~waiting'[t]
          /\ \A u \in Thread \ {t} : /\ pc'[u] = pc[u] /\ arg'[u] = arg[u]
                                     /\ waiting'[u] = waiting[u]
      BY Zenon, <1>1, <1>2, <2>2 DEF TypeOK
    <3>2. QED BY Zenon, <1>1, <1>2, <1>12, <2>2, <3>1, NotInQueue
  <2>3. QED BY Zenon, <2>1, <2>2
<1>14. QED BY ZenonT(60), <1>3, <1>4, <1>5, <1>6, <1>11, <1>13

(* The members of the queues are threads. *)
LEMMA QueueMembers ==
  ASSUME TypeOK, NEW c \in Cond
  PROVE  /\ cwaiters[c] \in Seq(Thread) /\ InList(cwaiters[c]) \subseteq Thread
         /\ \A i \in 1..Len(cwaiters[c]) : /\ cwaiters[c][i] \in Thread
                                           /\ cwaiters[c][i] \in InList(cwaiters[c])
BY DEF TypeOK, InList

(* While a thread holds the lock of a condition and is not itself about to *)
(* wait, every thread queued there has released the lock.                  *)
LEMMA QueuedHaveReleased ==
  ASSUME Assumptions, TypeOK, Clients, NEW t \in Thread, NEW c \in Cond,
         lock_of[c] \in held[t], ~waiting[t]
  PROVE  \A u \in InList(cwaiters[c]) : pc[u] = "cw_down"
<1> USE DEF Assumptions, Clients
<1> SUFFICES ASSUME NEW u \in InList(cwaiters[c]), pc[u] # "cw_down" PROVE FALSE
  BY Zenon
<1>1. /\ u \in Thread /\ waiting[u] /\ arg[u] = lock_of[c]
      /\ pc[u] \in {"rel_hold", "rel_up"}
  BY QueueMembers DEF Queues, QueueOf
<1>2. lock_of[c] \in Lock BY Zenon DEF SynchAssumption
<1>3. Owns(u, lock_of[c])
  BY Zenon, <1>1 DEF Owns, HeldLocks, HeldBy
<1>4. Owns(t, lock_of[c]) BY Zenon DEF Owns
<1>5. u = t BY Zenon, <1>1, <1>2, <1>3, <1>4 DEF OneOwner
<1>6. QED BY Zenon, <1>1, <1>5

LEMMA WaitStep ==
  ASSUME Assumptions, IInv, SchedInv', NEW t \in Thread, cond_wait(t)
  PROVE  TypeOK' /\ Clients'
<1> USE DEF Assumptions, IInv, Clients, WaiterSema
<1>1. /\ pc[t] = "run" /\ arg[t] = NULL /\ ~waiting[t] /\ bcast[t] = NULL
      /\ asleep[t] = NULL /\ popped[t] = NULL /\ t # idle
  BY Zenon DEF cond_wait, At, Running, Locals, LocalsOf
<1>2. PICK c \in Cond : /\ lock_of[c] \in held[t]
                        /\ cwaiters' = [cwaiters EXCEPT ![c] = Append(cwaiters[c], t)]
                        /\ arg' = [arg EXCEPT ![t] = lock_of[c]]
  BY Zenon DEF cond_wait
<1>3. /\ value' = [value EXCEPT ![t] = 0] /\ waiting' = [waiting EXCEPT ![t] = TRUE]
      /\ pc' = [pc EXCEPT ![t] = "rel_hold"]
      /\ UNCHANGED <<asleep, holder, held, popped, bcast>>
  BY Zenon DEF cond_wait, Goto
<1>4. value' = value /\ value[t] = 0
  <2>1. value[t] = 0 BY Zenon, <1>1 DEF Signals, SignalOf
  <2>2. QED BY Zenon, <1>3, <2>1 DEF TypeOK, SchedTypeOK, SynchAssumption
<1>5. lock_of[c] \in Lock /\ lock_of[c] # NULL
  BY Zenon DEF SynchAssumption, ThreadAssumption
<1>6. /\ cwaiters[c] \in Seq(Thread) /\ cwaiters'[c] = Append(cwaiters[c], t)
      /\ \A d \in Cond : d # c => cwaiters'[d] = cwaiters[d]
  BY Zenon, <1>2 DEF TypeOK
<1>7. /\ \A d \in Cond : t \notin InList(cwaiters[d])
      /\ \A u \in Thread : popped[u] # t
  BY <1>1 DEF Queues, QueueOf, Signals, SignalOf, ThreadAssumption
<1>8. /\ cwaiters'[c] \in Seq(Thread) /\ NoDup(cwaiters'[c])
      /\ InList(cwaiters'[c]) = InList(cwaiters[c]) \cup {t}
  BY <1>6, <1>7, PushBack DEF Queues, QueueOf
<1>9. TypeOK'
  <2>1. cwaiters' \in [Cond -> Seq(Thread)] BY ZenonT(60), <1>2, <1>6, <1>8 DEF TypeOK
  <2>2. QED BY Zenon, <1>2, <1>3, <1>5, <2>1 DEF TypeOK, PC, SchedInv
<1>10. Locals' BY <1>1, <1>2, <1>3, <1>5 DEF Locals, LocalsOf, TypeOK
<1>11. HeldLocks' BY Zenon, <1>1, <1>2, <1>3 DEF HeldLocks, HeldBy, TypeOK
<1>12. HolderExact' BY Zenon, <1>3 DEF HolderExact
<1>13. \A u \in Thread, k \in Lock : Owns(u, k)' <=> Owns(u, k)
  BY Zenon, <1>1, <1>2, <1>3 DEF Owns, TypeOK
<1>14. OneOwner' BY Zenon, <1>4, <1>13, SameOwners
<1>15. \A u \in Thread \ {t} : /\ pc'[u] = pc[u] /\ arg'[u] = arg[u]
                               /\ waiting'[u] = waiting[u]
  BY Zenon, <1>2, <1>3 DEF TypeOK
<1>16. pc'[t] = "rel_hold" /\ waiting'[t] /\ arg'[t] = lock_of[c]
  BY Zenon, <1>2, <1>3 DEF TypeOK
<1>17. \A d \in Cond : \A u \in InList(cwaiters[d]) : u \in Thread \ {t}
  BY Zenon, <1>7, QueueMembers
<1>18. \A d \in Cond : InList(cwaiters'[d]) = IF d = c THEN InList(cwaiters[c]) \cup {t}
                                               ELSE InList(cwaiters[d])
  BY Zenon, <1>6, <1>8
<1>19. Queues'
  <2> SUFFICES ASSUME NEW d \in Cond PROVE QueueOf(d)'
    BY Zenon DEF Queues
  <2>1. NoDup(cwaiters'[d]) BY Zenon, <1>6, <1>8 DEF Queues, QueueOf
  <2>2. ASSUME NEW u \in InList(cwaiters'[d])
        PROVE  /\ waiting'[u] /\ arg'[u] = lock_of[d]
               /\ pc'[u] \in {"rel_hold", "rel_up", "cw_down"}
               /\ value'[u] = 0
               /\ \A e \in Cond : u \in InList(cwaiters'[e]) => d = e
    <3>1. CASE u = t BY Zenon, <1>4, <1>7, <1>16, <1>18, <3>1
    <3>2. CASE u # t
      <4>1. /\ u \in InList(cwaiters[d]) /\ u \in Thread \ {t}
            /\ \A e \in Cond : u \in InList(cwaiters'[e]) => u \in InList(cwaiters[e])
        BY Zenon, <1>17, <1>18, <3>2
      <4>2. /\ pc'[u] = pc[u] /\ arg'[u] = arg[u] /\ waiting'[u] = waiting[u]
            /\ value'[u] = value[u]
        BY Zenon, <1>4, <1>15, <4>1
      <4>3. QED BY Zenon, <4>1, <4>2 DEF Queues, QueueOf
    <3>3. QED BY Zenon, <3>1, <3>2
  <2>3. ASSUME NEW i \in 1..Len(cwaiters'[d]) - 1
        PROVE  pc'[cwaiters'[d][i]] = "cw_down"
    <3>1. CASE d = c
      <4>1. i \in 1..Len(cwaiters[c]) /\ cwaiters'[d][i] = cwaiters[c][i]
        BY <1>6, <3>1
      <4>2. pc[cwaiters[c][i]] = "cw_down"
        BY Zenon, <1>1, <1>2, <4>1, QueueMembers, QueuedHaveReleased
      <4>3. QED BY Zenon, <1>15, <1>17, <4>1, <4>2, QueueMembers
    <3>2. CASE d # c
      <4>1. cwaiters'[d] = cwaiters[d] /\ cwaiters[d] \in Seq(Thread)
        BY Zenon, <1>6, <3>2, QueueMembers
      <4>2. i \in 1..Len(cwaiters[d]) /\ pc[cwaiters[d][i]] = "cw_down"
        BY <4>1 DEF Queues, QueueOf
      <4>3. QED BY Zenon, <1>15, <1>17, <4>1, <4>2, QueueMembers
    <3>3. QED BY Zenon, <3>1, <3>2
  <2>4. QED BY Zenon, <2>1, <2>2, <2>3 DEF QueueOf
<1>20. \A u \in Thread : InQueue(u)' <=> InQueue(u) \/ u = t
  BY Zenon, <1>18 DEF InQueue
<1>21. Signals'
  <2> SUFFICES ASSUME NEW u \in Thread PROVE SignalOf(u)'
    BY Zenon DEF Signals
  <2> HIDE DEF InQueue
  <2>1. popped[u] \in (Thread \ {t}) \cup {NULL} BY Zenon, <1>7 DEF TypeOK
  <2>2. QED BY <1>3, <1>4, <1>15, <1>16, <1>20, <2>1 DEF Signals, SignalOf
<1>22. QED BY Zenon, <1>9, <1>10, <1>11, <1>12, <1>14, <1>19, <1>21

LEMMA WaitDownStep ==
  ASSUME Assumptions, IInv, SchedInv', NEW t \in Thread, WaitDown(t)
  PROVE  TypeOK' /\ Clients'
<1> USE DEF Assumptions, IInv, Clients, WaiterSema
<1>1. /\ pc[t] = "cw_down" /\ arg[t] # NULL /\ waiting[t] /\ bcast[t] = NULL
      /\ popped[t] = NULL
      /\ UNCHANGED <<holder, cwaiters, held, arg, waiting, popped, bcast>>
  BY Zenon DEF WaitDown, Locals, LocalsOf
<1>2. CASE sema_down_wait(t, WaiterSema(t)) /\ UNCHANGED pc
  <2>1. /\ UNCHANGED <<client_vars, value>>
        /\ asleep' = [asleep EXCEPT ![t] = t]
    BY Zenon, <1>1, <1>2 DEF sema_down_wait, client_vars
  <2>2. TypeOK' BY Zenon, <2>1 DEF TypeOK, client_vars, SchedInv
  <2>3. HeldLocks' /\ HolderExact' /\ OneOwner' /\ Queues' /\ Signals'
    BY Zenon, <2>1, ClientsRest
  <2>4. Locals'
    BY <1>1, <2>1 DEF Locals, LocalsOf, client_vars, TypeOK, SchedTypeOK
  <2>5. QED BY Zenon, <2>2, <2>3, <2>4
<1>3. CASE sema_down_take(t, WaiterSema(t)) /\ Goto(t, "acq_down")
  <2>1. /\ value[t] > 0 /\ value' = [value EXCEPT ![t] = value[t] - 1]
        /\ asleep' = [asleep EXCEPT ![t] = NULL]
        /\ pc' = [pc EXCEPT ![t] = "acq_down"]
    BY Zenon, <1>3 DEF sema_down_take, Goto
  <2>2. value[t] = 1 /\ value'[t] = 0 /\ t \in Sema
    BY <2>1 DEF Signals, SignalOf, TypeOK, SchedTypeOK, SynchAssumption
  <2>3. \A s \in Sema : s # t => value'[s] = value[s]
    BY Zenon, <2>1 DEF TypeOK, SchedTypeOK
  <2>4. \A l \in Lock : l \in Sema /\ l # t BY Zenon DEF SynchAssumption
  <2>5. \A u \in Thread : u \in Sema BY Zenon DEF SynchAssumption
  <2>6. TypeOK' BY Zenon, <1>1, <2>1 DEF TypeOK, PC, SchedInv
  <2>7. Locals' BY <1>1, <2>1 DEF Locals, LocalsOf, TypeOK, SchedTypeOK
  <2>8. HeldLocks' BY Zenon, <1>1, <2>1 DEF HeldLocks, HeldBy, TypeOK
  <2>9. HolderExact' BY Zenon, <1>1 DEF HolderExact
  <2>10. \A u \in Thread, k \in Lock : Owns(u, k)' <=> Owns(u, k)
    BY Zenon, <1>1, <2>1 DEF Owns, TypeOK
  <2>11. \A l \in Lock : value'[l] = value[l] BY Zenon, <2>3, <2>4
  <2>12. OneOwner' BY Zenon, <2>10, <2>11 DEF OneOwner
  <2>13. /\ \A c \in Cond : t \notin InList(cwaiters[c])
         /\ \A u \in Thread : popped[u] # t
    BY <2>2 DEF Queues, QueueOf, Signals, SignalOf, ThreadAssumption
  <2>14. \A u \in Thread \ {t} : pc'[u] = pc[u] /\ value'[u] = value[u]
    BY Zenon, <2>1, <2>3, <2>5 DEF TypeOK
  <2>15. \A c \in Cond : \A u \in InList(cwaiters[c]) : u \in Thread \ {t}
    BY ZenonT(60), <2>13, QueueMembers
  <2>16. Queues'
    <3> SUFFICES ASSUME NEW c \in Cond PROVE QueueOf(c)'
      BY Zenon DEF Queues
    <3>1. ASSUME NEW i \in 1..Len(cwaiters[c]) - 1
          PROVE  pc'[cwaiters[c][i]] = "cw_down"
      <4>1. pc[cwaiters[c][i]] = "cw_down" BY Zenon DEF Queues, QueueOf
      <4>2. i \in 1..Len(cwaiters[c]) BY QueueMembers
      <4>3. QED BY Zenon, <2>14, <2>15, <4>1, <4>2, QueueMembers
    <3>2. QueueOf(c) BY Zenon DEF Queues
    <3>3. cwaiters' = cwaiters /\ waiting' = waiting /\ arg' = arg BY Zenon, <1>1
    <3>4. \A u \in InList(cwaiters[c]) : pc'[u] = pc[u] /\ value'[u] = value[u]
      BY Zenon, <2>14, <2>15
    <3>5. QED BY Zenon, <3>1, <3>2, <3>3, <3>4 DEF QueueOf
  <2>17. \A u \in Thread : InQueue(u)' <=> InQueue(u) BY Zenon, <1>1 DEF InQueue
  <2>18. pc'[t] = "acq_down" BY Zenon, <2>1 DEF TypeOK
  <2>19. Signals'
    <3> SUFFICES ASSUME NEW u \in Thread PROVE SignalOf(u)'
      BY Zenon DEF Signals
    <3>1. popped[u] \in (Thread \ {t}) \cup {NULL} BY Zenon, <2>13 DEF TypeOK
    <3>2. SignalOf(u) BY Zenon DEF Signals
    <3>3. popped' = popped /\ waiting' = waiting /\ popped[t] = NULL BY Zenon, <1>1
    <3>4. CASE u = t
      <4>1. value'[t] # 1 /\ value'[t] \in {0, 1} BY <2>2
      <4>2. QED BY Zenon, <2>18, <3>3, <3>4, <4>1 DEF SignalOf
    <3>5. CASE u # t
      <4>1. pc'[u] = pc[u] /\ value'[u] = value[u] BY Zenon, <2>14, <3>5
      <4>2. popped[u] # NULL => /\ pc'[popped[u]] = pc[popped[u]]
                                /\ value'[popped[u]] = value[popped[u]]
                                /\ InQueue(popped[u])' <=> InQueue(popped[u])
        BY Zenon, <2>14, <2>17, <3>1, <3>3
      <4>3. InQueue(u)' <=> InQueue(u) BY Zenon, <2>17
      <4> HIDE DEF InQueue
      <4>4. QED BY Zenon, <3>2, <3>3, <4>1, <4>2, <4>3 DEF SignalOf
    <3>6. QED BY Zenon, <3>4, <3>5
  <2>20. QED BY Zenon, <2>6, <2>7, <2>8, <2>9, <2>12, <2>16, <2>19
<1>4. QED BY Zenon, <1>2, <1>3 DEF WaitDown

LEMMA TailIndex ==
  ASSUME NEW S, NEW l \in Seq(S), l # <<>>, NEW i \in 1..Len(Tail(l)) - 1
  PROVE  i + 1 \in 1..Len(l) - 1 /\ Tail(l)[i] = l[i + 1]
<1>1. Len(Tail(l)) = Len(l) - 1 /\ Len(l) \in Nat OBVIOUS
<1>2. i \in 1..Len(l) - 2 BY <1>1
<1>3. i + 1 \in 1..Len(l) - 1 BY <1>1, <1>2
<1>4. Tail(l)[i] = l[i + 1] BY <1>1, <1>2
<1>5. QED BY Zenon, <1>3, <1>4

(* cond_signal() pops the waiter that came first. *)
LEMMA PopStep ==
  ASSUME Assumptions, IInv, SchedInv', NEW t \in Thread, NEW c \in Cond,
         pc[t] \in {"run", "bcast"}, lock_of[c] \in held[t], PopWaiter(t, c),
         UNCHANGED <<sched_vars, holder, held, arg, waiting, bcast>>
  PROVE  TypeOK' /\ Clients'
<1> USE DEF Assumptions, IInv, Clients, WaiterSema
<1> DEFINE h == Head(cwaiters[c])
<1>1. /\ arg[t] = NULL /\ ~waiting[t] /\ asleep[t] = NULL /\ popped[t] = NULL
      /\ t # idle
  BY Zenon DEF Locals, LocalsOf
<1>2. /\ cwaiters[c] # <<>> /\ popped' = [popped EXCEPT ![t] = h]
      /\ cwaiters' = [cwaiters EXCEPT ![c] = Tail(cwaiters[c])]
      /\ pc' = [pc EXCEPT ![t] = "sig_up"]
      /\ UNCHANGED <<value, asleep>>
  BY Zenon DEF PopWaiter, Goto, sched_vars
<1>3. cwaiters[c] \in Seq(Thread) BY Zenon, QueueMembers
<1>4. NoDup(cwaiters[c]) BY Zenon DEF Queues, QueueOf
<1>5. /\ h \in Thread /\ Tail(cwaiters[c]) \in Seq(Thread) /\ NoDup(Tail(cwaiters[c]))
      /\ h \in InList(cwaiters[c])
      /\ InList(Tail(cwaiters[c])) = InList(cwaiters[c]) \ {h}
  BY Zenon, <1>2, <1>3, <1>4, PopFront
<1>6. /\ cwaiters'[c] = Tail(cwaiters[c])
      /\ \A d \in Cond : d # c => cwaiters'[d] = cwaiters[d]
  BY Zenon, <1>2 DEF TypeOK
<1>7. /\ pc[h] = "cw_down" /\ waiting[h] /\ value[h] = 0
      /\ \A d \in Cond : h \in InList(cwaiters[d]) => d = c
  BY Zenon, <1>1, <1>5, QueuedHaveReleased DEF Queues, QueueOf
<1> HIDE DEF h
<1>8. \A d \in Cond : InList(cwaiters'[d]) = InList(cwaiters[d]) \ {h}
  BY Zenon, <1>5, <1>6, <1>7
<1>9. /\ \A d \in Cond : t \notin InList(cwaiters[d])
      /\ \A u \in Thread : popped[u] # t
  <2>1. \A d \in Cond : t \notin InList(cwaiters[d])
    BY Zenon, <1>1 DEF Queues, QueueOf
  <2>2. t # NULL BY Zenon DEF ThreadAssumption
  <2>3. \A u \in Thread : popped[u] # NULL => pc[popped[u]] = "cw_down"
    BY Zenon DEF Signals, SignalOf
  <2>4. pc[t] # "cw_down" OBVIOUS
  <2>5. QED BY Zenon, <2>1, <2>2, <2>3, <2>4
<1>10. TypeOK'
  <2>1. cwaiters' \in [Cond -> Seq(Thread)] BY Zenon, <1>2, <1>5 DEF TypeOK
  <2>2. QED BY Zenon, <1>2, <1>5, <2>1 DEF TypeOK, PC, SchedInv
<1>11. Locals'
  <2>1. /\ pc'[t] = "sig_up" /\ popped'[t] = h /\ h # NULL
        /\ \A u \in Thread \ {t} : pc'[u] = pc[u] /\ popped'[u] = popped[u]
    BY Zenon, <1>2, <1>5 DEF TypeOK, ThreadAssumption
  <2>2. arg' = arg /\ waiting' = waiting /\ asleep' = asleep /\ bcast' = bcast
    BY Zenon, <1>2
  <2>3. ASSUME NEW u \in Thread, u # t PROVE LocalsOf(u)'
    <3>1. LocalsOf(u) BY Zenon DEF Locals
    <3>2. pc'[u] = pc[u] /\ popped'[u] = popped[u] BY Zenon, <2>1, <2>3
    <3>3. QED BY Zenon, <2>2, <3>1, <3>2 DEF LocalsOf
  <2>4. LocalsOf(t)' BY Zenon, <1>1, <2>1, <2>2 DEF LocalsOf
  <2>5. QED BY Zenon, <2>3, <2>4 DEF Locals, LocalsOf
<1>12. HeldLocks' BY Zenon, <1>2 DEF HeldLocks, HeldBy, TypeOK
<1>13. HolderExact' BY Zenon DEF HolderExact
<1>14. \A u \in Thread, k \in Lock : Owns(u, k)' <=> Owns(u, k)
  BY Zenon, <1>1, <1>2 DEF Owns, TypeOK
<1>15. OneOwner' BY Zenon, <1>2, <1>14, SameOwners
<1>16. /\ \A u \in Thread \ {t} : pc'[u] = pc[u] /\ popped'[u] = popped[u]
       /\ pc'[t] = "sig_up" /\ popped'[t] = h /\ h # t
  BY Zenon, <1>1, <1>2, <1>7 DEF TypeOK
<1>17. \A d \in Cond : \A u \in InList(cwaiters[d]) : u \in Thread \ {t}
  BY Zenon, <1>9, QueueMembers
<1>18. Queues'
  <2> SUFFICES ASSUME NEW d \in Cond PROVE QueueOf(d)'
    BY Zenon DEF Queues
  <2>1. NoDup(cwaiters'[d]) BY <1>5, <1>6 DEF Queues, QueueOf
  <2>2. ASSUME NEW u \in InList(cwaiters'[d])
        PROVE  /\ waiting'[u] /\ arg'[u] = lock_of[d]
               /\ pc'[u] \in {"rel_hold", "rel_up", "cw_down"}
               /\ value'[u] = 0
               /\ \A e \in Cond : u \in InList(cwaiters'[e]) => d = e
    <3>1. /\ u \in InList(cwaiters[d]) /\ u \in Thread \ {t}
          /\ \A e \in Cond : u \in InList(cwaiters'[e]) => u \in InList(cwaiters[e])
      BY Zenon, <1>8, <1>17
    <3>2. pc'[u] = pc[u] BY Zenon, <1>16, <3>1
    <3>3. QueueOf(d) BY DEF Queues
    <3>4. UNCHANGED <<waiting, arg, value>> BY <1>2
    <3>5. QED BY Zenon, <3>1, <3>2, <3>3, <3>4 DEF QueueOf
  <2>3. ASSUME NEW i \in 1..Len(cwaiters'[d]) - 1
        PROVE  pc'[cwaiters'[d][i]] = "cw_down"
    <3>1. PICK j \in 1..Len(cwaiters[d]) - 1 : cwaiters'[d][i] = cwaiters[d][j]
      <4>1. CASE d = c
        <5>1. i + 1 \in 1..Len(cwaiters[c]) - 1 /\ cwaiters'[d][i] = cwaiters[c][i + 1]
          <6>1. cwaiters'[d] = Tail(cwaiters[c]) BY Zenon, <1>6, <4>1
          <6>2. i \in 1..Len(Tail(cwaiters[c])) - 1 BY Zenon, <6>1
          <6>3. QED BY Zenon, <1>2, <1>3, <6>1, <6>2, TailIndex
        <5>2. QED BY Zenon, <4>1, <5>1
      <4>2. CASE d # c BY Zenon, <1>6, <4>2
      <4>3. QED BY Zenon, <4>1, <4>2
    <3>2. pc[cwaiters[d][j]] = "cw_down" BY Zenon DEF Queues, QueueOf
    <3>3. j \in 1..Len(cwaiters[d]) BY QueueMembers
    <3>4. QED BY Zenon, <1>16, <1>17, <3>1, <3>2, <3>3, QueueMembers
  <2>4. QED BY Zenon, <2>1, <2>2, <2>3 DEF QueueOf
<1>19. \A u \in Thread : InQueue(u)' <=> InQueue(u) /\ u # h
  BY Zenon, <1>8 DEF InQueue
<1>20. InQueue(h) BY Zenon, <1>5 DEF InQueue
<1>21. \A u \in Thread : popped[u] # h BY <1>5, <1>20 DEF ThreadAssumption, Signals, SignalOf
<1>22. Signals'
  <2> SUFFICES ASSUME NEW u \in Thread PROVE SignalOf(u)'
    BY Zenon DEF Signals
  <2>1. popped[u] \in (Thread \ {t, h}) \cup {NULL} BY Zenon, <1>9, <1>21 DEF TypeOK
  <2>2. SignalOf(u) BY ZenonT(60) DEF Signals
  <2>3. CASE u = t
    <3>1. /\ popped'[t] = h /\ pc'[t] = "sig_up" /\ ~waiting[t]
          /\ value' = value /\ waiting' = waiting
      BY Zenon, <1>1, <1>2, <1>16
    <3>2. \A v \in Thread : popped'[t] = popped'[v] => t = v BY Zenon, <1>16, <1>21, <3>1
    <3>3. pc'[h] = "cw_down" /\ value[h] = 0 BY Zenon, <1>5, <1>7, <1>16
    <3>4. ~InQueue(popped[t])' BY Zenon, <1>5, <1>19, <3>1
    <3>5. value[t] \in {0, 1} /\ value[t] # 1
      BY Zenon, <2>2, <2>3 DEF SignalOf
    <3> HIDE DEF InQueue
    <3>6. QED BY Zenon, <2>3, <3>1, <3>2, <3>3, <3>4, <3>5 DEF SignalOf
  <2>4. CASE u # t
    <3>1. /\ popped'[u] = popped[u] /\ pc'[u] = pc[u] /\ value' = value
          /\ waiting' = waiting
      BY Zenon, <1>2, <1>16, <2>4
    <3>2. \A v \in Thread : popped'[u] = popped'[v] /\ popped'[u] # NULL => u = v
      BY Zenon, <1>16, <2>1, <2>2, <2>4, <3>1 DEF SignalOf
    <3>3. popped'[u] # NULL => /\ pc'[popped'[u]] = "cw_down"
                               /\ ~InQueue(popped[u])'
                               /\ value'[popped'[u]] = 0
      BY Zenon, <1>16, <1>19, <2>1, <2>2, <3>1 DEF SignalOf
    <3>4. waiting'[u] /\ pc'[u] \in {"rel_hold", "rel_up"} => InQueue(u)'
      BY Zenon, <1>7, <1>19, <2>2, <3>1 DEF SignalOf
    <3>5. pc'[u] = "cw_down" => \/ InQueue(u)' \/ value'[u] = 1
                                \/ \E v \in Thread : popped'[v] = u
      <4> HAVE pc'[u] = "cw_down"
      <4>1. CASE u = h BY Zenon, <1>16, <4>1
      <4>2. CASE u # h /\ (InQueue(u) \/ value[u] = 1) BY Zenon, <1>19, <3>1, <4>2
      <4>3. CASE \E v \in Thread : popped[v] = u
        <5>1. PICK v \in Thread : popped[v] = u BY Zenon, <4>3
        <5>2. v # t BY Zenon, <1>1, <5>1 DEF ThreadAssumption
        <5>3. popped'[v] = u BY Zenon, <1>16, <5>1, <5>2
        <5>4. QED BY Zenon, <5>3
      <4>4. QED BY Zenon, <2>2, <3>1, <4>1, <4>2, <4>3 DEF SignalOf
    <3>6. QED BY Zenon, <2>2, <3>1, <3>2, <3>3, <3>4, <3>5 DEF SignalOf
  <2>5. QED BY Zenon, <2>3, <2>4
<1>23. QED BY Zenon, <1>10, <1>11, <1>12, <1>13, <1>15, <1>18, <1>22

LEMMA SignalStep ==
  ASSUME Assumptions, IInv, SchedInv', NEW t \in Thread,
         cond_signal(t) \/ BroadcastLoop(t)
  PROVE  TypeOK' /\ Clients'
<1> USE DEF Assumptions, IInv, Clients
<1>1. CASE cond_signal(t)
  <2>1. PICK c \in Cond : lock_of[c] \in held[t] /\ PopWaiter(t, c)
    BY Zenon, <1>1 DEF cond_signal
  <2>2. QED BY Zenon, <1>1, <2>1, PopStep DEF cond_signal, At
<1>2. CASE BroadcastLoop(t)
  <2>1. /\ pc[t] = "bcast" /\ bcast[t] \in Cond /\ lock_of[bcast[t]] \in held[t]
        /\ UNCHANGED <<sched_vars, holder, held, arg, waiting>>
    <3>1. pc[t] = "bcast" /\ UNCHANGED <<sched_vars, holder, held, arg, waiting>>
      BY Zenon, <1>2 DEF BroadcastLoop, At
    <3>2. bcast[t] # NULL /\ bcast[t] \in Cond \cup {NULL}
      BY Zenon, <3>1 DEF Locals, LocalsOf, TypeOK
    <3>3. lock_of[bcast[t]] \in held[t] BY Zenon, <3>2 DEF HeldLocks, HeldBy
    <3>4. QED BY Zenon, <3>1, <3>2, <3>3
  <2>2. CASE PopWaiter(t, bcast[t]) /\ UNCHANGED bcast
    BY Zenon, <2>1, <2>2, PopStep
  <2>3. CASE /\ bcast' = [bcast EXCEPT ![t] = NULL] /\ Goto(t, "run")
             /\ UNCHANGED <<cwaiters, popped>>
    <3>1. /\ pc' = [pc EXCEPT ![t] = "run"] /\ bcast' = [bcast EXCEPT ![t] = NULL]
          /\ UNCHANGED <<value, asleep, holder, cwaiters, held, arg, waiting, popped>>
      BY Zenon, <2>1, <2>3 DEF Goto, sched_vars
    <3>2. arg[t] = NULL /\ ~waiting[t] /\ popped[t] = NULL /\ t # idle
      BY Zenon, <2>1 DEF Locals, LocalsOf
    <3>3. TypeOK' BY Zenon, <3>1 DEF TypeOK, PC, SchedInv
    <3>4. Locals'
      <4>1. /\ pc'[t] = "run" /\ bcast'[t] = NULL
            /\ \A u \in Thread \ {t} : pc'[u] = pc[u] /\ bcast'[u] = bcast[u]
        BY Zenon, <3>1 DEF TypeOK
      <4>2. arg' = arg /\ waiting' = waiting /\ asleep' = asleep /\ popped' = popped
        BY Zenon, <2>1, <3>1
      <4>3. ASSUME NEW u \in Thread, u # t PROVE LocalsOf(u)'
        <5>1. LocalsOf(u) BY Zenon DEF Locals
        <5>2. pc'[u] = pc[u] /\ bcast'[u] = bcast[u] BY Zenon, <4>1, <4>3
        <5>3. QED BY Zenon, <4>2, <5>1, <5>2 DEF LocalsOf
      <4>4. LocalsOf(t)' BY Zenon, <2>1, <3>2, <4>1, <4>2 DEF Locals, LocalsOf
      <4>5. QED BY Zenon, <4>3, <4>4 DEF Locals, LocalsOf
    <3>5. HeldLocks' BY Zenon, <2>1, <3>1 DEF HeldLocks, HeldBy, TypeOK
    <3>6. HolderExact' BY Zenon, <3>1 DEF HolderExact
    <3>7. \A u \in Thread, k \in Lock : Owns(u, k)' <=> Owns(u, k)
      BY Zenon, <2>1, <3>1 DEF Owns, TypeOK
    <3>8. OneOwner' BY Zenon, <3>1, <3>7, SameOwners
    <3>9. Queues' /\ Signals'
      <4>1. /\ pc'[t] = "run" /\ ~waiting'[t]
            /\ \A u \in Thread \ {t} : pc'[u] = pc[u]
        BY Zenon, <3>1, <3>2 DEF TypeOK
      <4>2. QED BY Zenon, <3>1, <3>2, <4>1, NotInQueue
    <3>10. QED BY Zenon, <3>3, <3>4, <3>5, <3>6, <3>8, <3>9
  <2>4. QED BY Zenon, <1>2, <2>2, <2>3 DEF BroadcastLoop
<1>3. QED BY Zenon, <1>1, <1>2

(* cond_signal() raises the semaphore of the waiter it popped. *)
LEMMA SignalUpStep ==
  ASSUME Assumptions, IInv, SchedInv', NEW t \in Thread, SignalUp(t)
  PROVE  TypeOK' /\ Clients'
<1> USE DEF Assumptions, IInv, Clients, WaiterSema
<1> DEFINE h == popped[t]
<1>1. /\ pc[t] = "sig_up" /\ arg[t] = NULL /\ ~waiting[t] /\ asleep[t] = NULL
      /\ h \in Thread /\ t # idle
  BY DEF SignalUp, At, Running, Locals, LocalsOf, TypeOK
<1>2. /\ pc[h] = "cw_down" /\ ~InQueue(h) /\ value[h] = 0 /\ h # t
      /\ \A u \in Thread : popped[u] = h => u = t
  BY <1>1 DEF Signals, SignalOf, ThreadAssumption
<1>3. /\ value' = [value EXCEPT ![h] = value[h] + 1]
      /\ popped' = [popped EXCEPT ![t] = NULL]
      /\ pc' = [pc EXCEPT ![t] = IF bcast[t] = NULL THEN "run" ELSE "bcast"]
      /\ UNCHANGED <<asleep, holder, cwaiters, held, arg, waiting, bcast>>
  BY Zenon DEF SignalUp, sema_up, Goto
<1> HIDE DEF h
<1>4. h \in Sema /\ \A l \in Lock : l \in Sema /\ l # h
  BY Zenon, <1>1 DEF SynchAssumption
<1>5. value'[h] = 1 /\ \A s \in Sema : s # h => value'[s] = value[s]
  BY <1>2, <1>3, <1>4 DEF TypeOK, SchedTypeOK
<1>6. \A u \in Thread : u # h => value'[u] = value[u]
  BY Zenon, <1>5 DEF SynchAssumption
<1>7. /\ pc'[t] \in {"run", "bcast"} /\ popped'[t] = NULL
      /\ \A u \in Thread \ {t} : pc'[u] = pc[u] /\ popped'[u] = popped[u]
  BY Zenon, <1>3 DEF TypeOK
<1>8. TypeOK' BY Zenon, <1>3 DEF TypeOK, PC, SchedInv
<1>9. Locals'
  <2> SUFFICES ASSUME NEW u \in Thread PROVE LocalsOf(u)' BY Zenon DEF Locals
  <2>1. LocalsOf(u) BY Zenon DEF Locals
  <2>2. CASE u = t BY Zenon, <1>1, <1>3, <2>1, <2>2 DEF LocalsOf, TypeOK
  <2>3. CASE u # t BY Zenon, <1>3, <1>7, <2>1, <2>3 DEF LocalsOf
  <2>4. QED BY Zenon, <2>2, <2>3
<1>10. HeldLocks' BY Zenon, <1>1, <1>3, <1>7 DEF HeldLocks, HeldBy
<1>11. HolderExact' BY Zenon, <1>3 DEF HolderExact
<1>12. \A u \in Thread, k \in Lock : Owns(u, k)' <=> Owns(u, k)
  BY Zenon, <1>1, <1>3, <1>7 DEF Owns
<1>13. OneOwner' BY Zenon, <1>4, <1>5, <1>12, SameOwners
<1>14. /\ \A c \in Cond : t \notin InList(cwaiters[c]) /\ h \notin InList(cwaiters[c])
       /\ \A u \in Thread : popped[u] # t
  BY <1>1, <1>2 DEF Queues, QueueOf, Signals, SignalOf, InQueue, ThreadAssumption
<1>15. \A c \in Cond : \A u \in InList(cwaiters[c]) : u \in Thread \ {t, h}
  BY Zenon, <1>14, QueueMembers
<1>16. Queues'
  <2> SUFFICES ASSUME NEW c \in Cond PROVE QueueOf(c)'
    BY Zenon DEF Queues
  <2>1. ASSUME NEW i \in 1..Len(cwaiters[c]) - 1
        PROVE  pc'[cwaiters[c][i]] = "cw_down"
    <3>1. pc[cwaiters[c][i]] = "cw_down" BY Zenon DEF Queues, QueueOf
    <3>2. i \in 1..Len(cwaiters[c]) BY QueueMembers
    <3>3. QED BY Zenon, <1>7, <1>15, <3>1, <3>2, QueueMembers
  <2>2. ASSUME NEW u \in InList(cwaiters[c])
        PROVE  pc'[u] = pc[u] /\ value'[u] = value[u]
    BY Zenon, <1>6, <1>7, <1>15
  <2>3. QED BY <1>3, <2>1, <2>2 DEF Queues, QueueOf
<1>17. \A u \in Thread : InQueue(u)' <=> InQueue(u) BY Zenon, <1>3 DEF InQueue
<1>18. Signals'
  <2> SUFFICES ASSUME NEW u \in Thread PROVE SignalOf(u)'
    BY Zenon DEF Signals
  <2>1. SignalOf(u) BY Zenon DEF Signals
  <2>2. u # t => popped'[u] = popped[u] /\ popped[u] \in (Thread \ {t, h}) \cup {NULL}
    BY Zenon, <1>2, <1>7, <1>14 DEF TypeOK
  <2>3. \A v \in Thread : popped'[u] = popped'[v] /\ popped'[u] # NULL => u = v
    BY Zenon, <1>7, <2>1 DEF SignalOf
  <2>4. popped'[u] # NULL => /\ pc'[popped'[u]] = "cw_down"
                             /\ ~InQueue(popped[u])'
                             /\ value'[popped'[u]] = 0
    BY Zenon, <1>6, <1>7, <1>17, <2>1, <2>2 DEF SignalOf
  <2>5. value'[u] \in {0, 1} /\ (value'[u] = 1 => pc'[u] = "cw_down")
    BY <1>1, <1>2, <1>5, <1>6, <1>7, <2>1 DEF SignalOf
  <2>6. waiting'[u] /\ pc'[u] \in {"rel_hold", "rel_up"} => InQueue(u)'
    BY Zenon, <1>3, <1>7, <1>17, <2>1 DEF SignalOf
  <2>7. pc'[u] = "cw_down" => \/ InQueue(u)' \/ value'[u] = 1
                              \/ \E v \in Thread : popped'[v] = u
    <3> HAVE pc'[u] = "cw_down"
    <3>1. CASE u = h BY Zenon, <1>5, <3>1
    <3>2. CASE InQueue(u) BY Zenon, <1>17, <3>2
    <3>3. CASE u # h /\ value[u] = 1 BY Zenon, <1>6, <3>3
    <3>4. CASE u # h /\ \E v \in Thread : popped[v] = u
      <4>1. PICK v \in Thread : popped[v] = u BY Zenon, <3>4
      <4>2. v # t BY Zenon, <3>4, <4>1 DEF h
      <4>3. QED BY Zenon, <1>7, <4>1, <4>2
    <3>5. pc[u] = "cw_down" BY Zenon, <1>7
    <3>6. QED BY Zenon, <2>1, <3>1, <3>2, <3>3, <3>4, <3>5 DEF SignalOf
  <2>8. QED BY Zenon, <2>3, <2>4, <2>5, <2>6, <2>7 DEF SignalOf
<1>19. QED BY Zenon, <1>8, <1>9, <1>10, <1>11, <1>13, <1>16, <1>18

(* A step that only the scheduler takes. *)
LEMMA SchedulerStep ==
  ASSUME Assumptions, IInv, SchedInv', UNCHANGED <<client_vars, value, asleep>>
  PROVE  TypeOK' /\ Clients'
<1> USE DEF Assumptions, IInv, Clients
<1>1. TypeOK' BY Zenon DEF TypeOK, client_vars, SchedInv
<1>2. HeldLocks' /\ HolderExact' /\ OneOwner' /\ Queues' /\ Signals'
  BY Zenon, ClientsRest
<1>3. Locals' BY Zenon DEF Locals, LocalsOf, client_vars
<1>4. QED BY Zenon, <1>1, <1>2, <1>3

(* Every step preserves the inductive invariant. *)
LEMMA NextInv ==
  ASSUME Assumptions, IInv, [Next]_vars
  PROVE  IInv'
<1>1. SchedInv' /\ idle_thread' = idle BY Zenon, SchedKept
<1> SUFFICES TypeOK' /\ Clients' BY Zenon, <1>1 DEF IInv
<1>2. ASSUME NEW t \in Thread, ThreadStep(t) PROVE TypeOK' /\ Clients'
  <2>1. CASE lock_acquire(t) \/ lock_try_acquire(t)
    BY Zenon, <1>1, <2>1, AcquireStep
  <2>2. CASE AcquireDown(t) BY Zenon, <1>1, <2>2, AcquireDownStep
  <2>3. CASE AcquireHold(t) BY Zenon, <1>1, <2>3, AcquireHoldStep
  <2>4. CASE lock_release(t) \/ cond_broadcast(t) BY Zenon, <1>1, <2>4, CallStep
  <2>5. CASE ReleaseHold(t) BY Zenon, <1>1, <2>5, ReleaseHoldStep
  <2>6. CASE ReleaseUp(t) BY Zenon, <1>1, <2>6, ReleaseUpStep
  <2>7. CASE cond_wait(t) BY Zenon, <1>1, <2>7, WaitStep
  <2>8. CASE WaitDown(t) BY Zenon, <1>1, <2>8, WaitDownStep
  <2>9. CASE cond_signal(t) \/ BroadcastLoop(t) BY Zenon, <1>1, <2>9, SignalStep
  <2>10. CASE SignalUp(t) BY Zenon, <1>1, <2>10, SignalUpStep
  <2>11. QED
    BY Zenon, <1>2, <2>1, <2>2, <2>3, <2>4, <2>5, <2>6, <2>7, <2>8, <2>9, <2>10
       DEF ThreadStep
<1>3. CASE IdleBlock BY Zenon, <1>1, <1>3, SchedulerStep DEF IdleBlock
<1>4. CASE TimerInterrupt BY Zenon, <1>1, <1>4, SchedulerStep DEF TimerInterrupt, thread_tick
<1>5. CASE UNCHANGED vars BY Zenon, <1>1, <1>5, SchedulerStep DEF vars, sched_vars
<1>6. QED BY Zenon, <1>2, <1>3, <1>4, <1>5 DEF Next

-----------------------------------------------------------------------------
(* The refinement: what a step changes of the abstract monitor. *)

LEMMA OwnerExact ==
  ASSUME Assumptions, OneOwner
  PROVE  /\ owner = [l \in Lock |-> owner[l]]
         /\ \A l \in Lock : /\ owner[l] \in Thread \cup {NULL}
                            /\ \A t \in Thread : owner[l] = t <=> Owns(t, l)
<1>1. owner = [l \in Lock |-> owner[l]] BY Zenon DEF owner
<1>2. ASSUME NEW l \in Lock
      PROVE  /\ owner[l] \in Thread \cup {NULL}
             /\ \A t \in Thread : owner[l] = t <=> Owns(t, l)
  <2>1. owner[l] = IF \E t \in Thread : Owns(t, l)
                   THEN CHOOSE t \in Thread : Owns(t, l) ELSE NULL
    BY Zenon DEF owner
  <2>2. CASE \E t \in Thread : Owns(t, l)
    <3>1. owner[l] \in Thread /\ Owns(owner[l], l) BY Zenon, <2>1, <2>2
    <3>2. QED BY Zenon, <3>1 DEF OneOwner
  <2>3. CASE ~\E t \in Thread : Owns(t, l)
    BY Zenon, <2>1, <2>3 DEF Assumptions, ThreadAssumption
  <2>4. QED BY Zenon, <2>2, <2>3
<1>3. QED BY Zenon, <1>1, <1>2

LEMMA OwnerExactNext ==
  ASSUME Assumptions, OneOwner'
  PROVE  /\ owner' = [l \in Lock |-> owner'[l]]
         /\ \A l \in Lock : /\ owner'[l] \in Thread \cup {NULL}
                            /\ \A t \in Thread : owner'[l] = t <=> Owns(t, l)'
<1>1. owner' = [l \in Lock |-> owner'[l]] BY Zenon DEF owner
<1>2. ASSUME NEW l \in Lock
      PROVE  /\ owner'[l] \in Thread \cup {NULL}
             /\ \A t \in Thread : owner'[l] = t <=> Owns(t, l)'
  <2>1. owner'[l] = IF \E t \in Thread : Owns(t, l)'
                    THEN CHOOSE t \in Thread : Owns(t, l)' ELSE NULL
    BY Zenon DEF owner
  <2>2. CASE \E t \in Thread : Owns(t, l)'
    <3>1. PICK o \in Thread : Owns(o, l)' BY Zenon, <2>2
    <3>2. \A t \in Thread : Owns(t, l)' <=> t = o BY Zenon, <3>1 DEF OneOwner
    <3>3. owner'[l] = o BY Zenon, <2>1, <2>2, <3>2
    <3>4. QED BY Zenon, <3>2, <3>3
  <2>3. CASE ~\E t \in Thread : Owns(t, l)'
    BY Zenon, <2>1, <2>3 DEF Assumptions, ThreadAssumption
  <2>4. QED BY Zenon, <2>2, <2>3
<1>3. QED BY Zenon, <1>1, <1>2

LEMMA OwnerKept ==
  ASSUME Assumptions, OneOwner, OneOwner',
         \A u \in Thread, k \in Lock : Owns(u, k)' <=> Owns(u, k)
  PROVE  owner' = owner
<1>1. \A l \in Lock : owner'[l] = owner[l]
  BY Zenon, OwnerExact, OwnerExactNext DEF Assumptions, ThreadAssumption
<1>2. QED BY ZenonT(60), <1>1, OwnerExact, OwnerExactNext

(* T gets or gives up the lock L. *)
LEMMA OwnerSet ==
  ASSUME Assumptions, OneOwner, OneOwner', NEW l \in Lock, NEW x \in Thread \cup {NULL},
         \A u \in Thread : Owns(u, l)' <=> u = x,
         \A u \in Thread, k \in Lock \ {l} : Owns(u, k)' <=> Owns(u, k)
  PROVE  owner' = [owner EXCEPT ![l] = x]
<1>1. owner'[l] = x
  BY Zenon, OwnerExactNext DEF Assumptions, ThreadAssumption
<1>2. \A k \in Lock \ {l} : owner'[k] = owner[k]
  BY Zenon, OwnerExact, OwnerExactNext DEF Assumptions, ThreadAssumption
<1>3. QED BY Zenon, <1>1, <1>2, OwnerExact, OwnerExactNext

LEMMA AllButLast ==
  ASSUME NEW S, NEW s \in Seq(S), NEW n \in Nat, Len(s) = n + 1
  PROVE  /\ SubSeq(s, 1, n) \in Seq(S)
         /\ Len(SubSeq(s, 1, n)) = n
         /\ \A i \in 1..n : SubSeq(s, 1, n)[i] = s[i]
         /\ Append(SubSeq(s, 1, n), s[n + 1]) = s
<1>1. SubSeq(s, 1, n) = [i \in 1..n |-> s[i]] /\ Len(SubSeq(s, 1, n)) = n
  OBVIOUS
<1>2. SubSeq(s, 1, n) \in Seq(S)
  OBVIOUS
<1>3. \A i \in 1..n : SubSeq(s, 1, n)[i] = s[i]
  BY Zenon, <1>1
<1>4. Append(SubSeq(s, 1, n), s[n + 1]) = s
  BY <1>1, <1>2, <1>3
<1>5. QED BY Zenon, <1>1, <1>2, <1>3, <1>4

(* The threads in the abstract queue are the ones asleep, or about to be. *)
LEMMA QueueSleeps ==
  ASSUME Assumptions, IInv, NEW c \in Cond, NEW i \in 1..Len(queue[c])
  PROVE  queue[c][i] \in Thread /\ pc[queue[c][i]] = "cw_down"
<1> DEFINE s == cwaiters[c]
           n == Len(s)
<1>1. s \in Seq(Thread) /\ \A j \in 1..n - 1 : pc[s[j]] = "cw_down"
  BY Zenon, QueueMembers DEF IInv, Clients, Queues, QueueOf
<1>2. queue[c] = IF n > 0 /\ pc[s[n]] # "cw_down" THEN SubSeq(s, 1, n - 1) ELSE s
  BY Zenon DEF queue
<1> HIDE DEF s
<1>3. CASE n > 0 /\ pc[s[n]] # "cw_down"
  <2>1. queue[c] = SubSeq(s, 1, n - 1) BY Zenon, <1>2, <1>3
  <2>2. n - 1 \in Nat /\ Len(s) = n - 1 + 1 BY <1>1, <1>3
  <2>3. i \in 1..n - 1 /\ queue[c][i] = s[i] BY <1>1, <2>1, <2>2, AllButLast
  <2>4. i \in 1..n BY <2>2, <2>3
  <2>5. QED BY <1>1, <2>3, <2>4
<1>4. CASE ~(n > 0 /\ pc[s[n]] # "cw_down")
  <2>1. queue[c] = s BY Zenon, <1>2, <1>4
  <2>2. n \in Nat /\ i \in 1..n BY <1>1, <2>1
  <2>3. s[i] \in Thread BY <1>1, <2>2
  <2>4. pc[s[i]] = "cw_down"
    <3>1. CASE i = n BY <1>4, <2>2, <3>1
    <3>2. CASE i # n BY <1>1, <2>2, <3>2
    <3>3. QED BY Zenon, <3>1, <3>2
  <2>5. QED BY Zenon, <2>1, <2>3, <2>4
<1>5. QED BY Zenon, <1>3, <1>4

LEMMA NotInMonitor ==
  ASSUME Assumptions, IInv, NEW t \in Thread,
         ~waiting[t] \/ pc[t] \in {"rel_hold", "rel_up"}
  PROVE  ~Abstract!InMonitor(t)
<1> USE DEF IInv, Clients
<1>1. pc[t] # "cw_down" BY Zenon DEF Locals, LocalsOf
<1>2. signalled[t] = NULL BY Zenon DEF signalled, Signals, SignalOf
<1>3. ASSUME NEW c \in Cond, NEW i \in 1..Len(queue[c]), queue[c][i] = t
      PROVE  FALSE
  BY Zenon, <1>1, <1>3, QueueSleeps
<1>4. QED BY Zenon, <1>2, <1>3 DEF Abstract!InMonitor

LEMMA QueueKept ==
  ASSUME TypeOK, UNCHANGED cwaiters,
         \A c \in Cond : \A u \in InList(cwaiters[c]) :
           pc'[u] = "cw_down" <=> pc[u] = "cw_down"
  PROVE  queue' = queue
<1>1. ASSUME NEW c \in Cond PROVE queue'[c] = queue[c]
  <2> DEFINE s == cwaiters[c]
             n == Len(s)
  <2>1. n > 0 => (pc'[s[n]] = "cw_down" <=> pc[s[n]] = "cw_down")
    <3> HAVE n > 0
    <3>1. n \in 1..n BY QueueMembers
    <3>2. QED BY Zenon, <3>1, QueueMembers
  <2>2. /\ queue[c] = IF n > 0 /\ pc[s[n]] # "cw_down"
                      THEN SubSeq(s, 1, n - 1) ELSE s
        /\ queue'[c] = IF n > 0 /\ pc'[s[n]] # "cw_down"
                       THEN SubSeq(s, 1, n - 1) ELSE s
    BY Zenon DEF queue
  <2>3. QED BY Zenon, <2>1, <2>2
<1>2. queue = [c \in Cond |-> queue[c]] /\ queue' = [c \in Cond |-> queue'[c]]
  BY Zenon DEF queue
<1>3. QED BY Zenon, <1>1, <1>2

(* A step that the monitor does not see. *)
LEMMA Unseen ==
  ASSUME Assumptions, IInv, IInv', UNCHANGED <<cwaiters, waiting>>,
         \A c \in Cond : \A u \in InList(cwaiters[c]) :
           pc'[u] = "cw_down" <=> pc[u] = "cw_down",
         \A u \in Thread : waiting[u] => arg'[u] = arg[u],
         \A u \in Thread, k \in Lock : Owns(u, k)' <=> Owns(u, k)
  PROVE  UNCHANGED <<owner, queue, signalled>>
<1>1. owner' = owner BY Zenon, OwnerKept DEF IInv, Clients
<1>2. queue' = queue BY Zenon, QueueKept DEF IInv
<1>3. \A u \in Thread : InQueue(u)' <=> InQueue(u) BY Zenon DEF InQueue
<1>4. signalled' = signalled BY Zenon, <1>3 DEF signalled
<1>5. QED BY Zenon, <1>1, <1>2, <1>4

LEMMA UnseenStep ==
  ASSUME Assumptions, IInv, IInv', NEW t \in Thread,
         \/ lock_acquire(t) \/ AcquireHold(t) \/ lock_release(t) \/ ReleaseHold(t)
         \/ WaitDown(t) \/ SignalUp(t) \/ cond_broadcast(t)
  PROVE  UNCHANGED <<owner, queue, signalled>>
<1> USE DEF IInv, Clients
<1>1. CASE lock_acquire(t) \/ lock_release(t) \/ cond_broadcast(t) \/ SignalUp(t)
  <2>1. /\ pc[t] \in {"run", "sig_up"} /\ ~waiting[t]
        /\ \E x \in {"acq_down", "rel_hold", "bcast", "run"} :
             pc' = [pc EXCEPT ![t] = x]
        /\ \A u \in Thread : u # t => arg'[u] = arg[u]
        /\ UNCHANGED <<cwaiters, waiting, held>>
    BY ZenonT(30), <1>1 DEF lock_acquire, lock_release, cond_broadcast, SignalUp, At, Goto, Locals,
                LocalsOf, TypeOK
  <2>2. \A c \in Cond : t \notin InList(cwaiters[c]) BY Zenon, <2>1 DEF Queues, QueueOf
  <2>3. /\ \A u \in Thread : u # t => pc'[u] = pc[u]
        /\ pc'[t] \notin {"acq_hold", "rel_up", "cw_down"}
    BY Zenon, <2>1 DEF TypeOK
  <2>4. \A u \in Thread, k \in Lock : Owns(u, k)' <=> Owns(u, k)
    BY Zenon, <2>1, <2>3 DEF Owns
  <2>5. \A c \in Cond : \A u \in InList(cwaiters[c]) :
           pc'[u] = "cw_down" <=> pc[u] = "cw_down"
    BY Zenon, <2>1, <2>3, QueueMembers
  <2>6. \A u \in Thread : waiting[u] => arg'[u] = arg[u] BY Zenon, <2>1
  <2>7. QED BY Zenon, <2>1, <2>4, <2>5, <2>6, Unseen
<1>2. CASE AcquireHold(t)
  <2>1. /\ pc[t] = "acq_hold" /\ ~waiting[t] /\ arg[t] \in Lock
        /\ pc' = [pc EXCEPT ![t] = "run"] /\ arg' = [arg EXCEPT ![t] = NULL]
        /\ held' = [held EXCEPT ![t] = held[t] \cup {arg[t]}]
        /\ UNCHANGED <<cwaiters, waiting>>
    BY ZenonT(30), <1>2 DEF AcquireHold, At, Goto, Locals, LocalsOf, TypeOK
  <2>2. \A u \in Thread, k \in Lock : Owns(u, k)' <=> Owns(u, k)
    BY Zenon, <2>1 DEF Owns, TypeOK
  <2>3. \A c \in Cond : \A u \in InList(cwaiters[c]) :
           pc'[u] = "cw_down" <=> pc[u] = "cw_down"
    BY Zenon, <2>1, QueueMembers DEF TypeOK
  <2>4. \A u \in Thread : waiting[u] => arg'[u] = arg[u] BY Zenon, <2>1 DEF TypeOK
  <2>5. QED BY Zenon, <2>1, <2>2, <2>3, <2>4, Unseen
<1>3. CASE ReleaseHold(t)
  <2>1. /\ pc[t] = "rel_hold" /\ arg[t] \in Lock /\ arg[t] \in held[t]
        /\ pc' = [pc EXCEPT ![t] = "rel_up"]
        /\ held' = [held EXCEPT ![t] = held[t] \ {arg[t]}]
        /\ UNCHANGED <<cwaiters, waiting, arg>>
    BY Zenon, <1>3 DEF ReleaseHold, At, Goto, Locals, LocalsOf, TypeOK, HeldLocks, HeldBy
  <2>2. \A u \in Thread, k \in Lock : Owns(u, k)' <=> Owns(u, k)
    BY Zenon, <2>1 DEF Owns, TypeOK
  <2>3. \A c \in Cond : \A u \in InList(cwaiters[c]) :
           pc'[u] = "cw_down" <=> pc[u] = "cw_down"
    BY Zenon, <2>1, QueueMembers DEF TypeOK
  <2>4. QED BY Zenon, <2>1, <2>2, <2>3, Unseen
<1>4. CASE WaitDown(t)
  <2>1. /\ pc[t] = "cw_down" /\ UNCHANGED <<cwaiters, waiting, arg, held>>
        /\ \/ pc' = pc
           \/ value[t] > 0 /\ pc' = [pc EXCEPT ![t] = "acq_down"]
    BY Zenon, <1>4 DEF WaitDown, WaiterSema, sema_down_take, Goto
  <2>2. \A u \in Thread, k \in Lock : Owns(u, k)' <=> Owns(u, k)
    BY Zenon, <2>1 DEF Owns, TypeOK
  <2>3. value[t] > 0 => \A c \in Cond : t \notin InList(cwaiters[c])
    <3>1. ASSUME NEW c \in Cond, t \in InList(cwaiters[c]) PROVE value[t] = 0
      BY ZenonT(60), <3>1 DEF Queues, QueueOf, WaiterSema
    <3>2. ~ (0 > 0) OBVIOUS
    <3>3. QED BY Zenon, <3>1, <3>2
  <2>4. \A c \in Cond : \A u \in InList(cwaiters[c]) :
           pc'[u] = "cw_down" <=> pc[u] = "cw_down"
    <3> SUFFICES ASSUME NEW c \in Cond, NEW u \in InList(cwaiters[c]) PROVE pc'[u] = pc[u]
      BY Zenon
    <3>1. u \in Thread BY Zenon, QueueMembers
    <3>2. pc' = pc \/ u # t BY Zenon, <2>1, <2>3
    <3>3. QED BY Zenon, <2>1, <3>1, <3>2 DEF TypeOK
  <2>5. QED BY Zenon, <2>1, <2>2, <2>4, Unseen
<1>5. QED BY Zenon, <1>1, <1>2, <1>3, <1>4

(* The lock is taken: by lock_acquire(), or on the way out of cond_wait(). *)
LEMMA TakeRefines ==
  ASSUME Assumptions, IInv, IInv', NEW t \in Thread, NEW l \in Lock,
         value[l] > 0, pc[t] \in {"run", "acq_down"},
         pc[t] = "acq_down" => arg[t] = l,
         pc' = [pc EXCEPT ![t] = "acq_hold"], arg' = [arg EXCEPT ![t] = l],
         waiting' = [waiting EXCEPT ![t] = FALSE],
         UNCHANGED <<cwaiters, held>>
  PROVE  Abstract!Acquire(t, l) \/ Abstract!Return(t)
<1> USE DEF IInv, Clients
<1>1. \A u \in Thread : ~Owns(u, l)
  <2>1. value[l] = IF \E u \in Thread : Owns(u, l) THEN 0 ELSE 1 BY Zenon DEF OneOwner
  <2>2. value[l] # 0 OBVIOUS
  <2>3. QED BY Zenon, <2>1, <2>2
<1>2. owner[l] = NULL BY Zenon, <1>1, OwnerExact
<1>3. /\ \A u \in Thread : Owns(u, l)' <=> u = t
      /\ \A u \in Thread, k \in Lock \ {l} : Owns(u, k)' <=> Owns(u, k)
  BY Zenon, <1>1 DEF Owns, TypeOK
<1>4. owner' = [owner EXCEPT ![l] = t] BY Zenon, <1>3, OwnerSet
<1>5. \A c \in Cond : t \notin InList(cwaiters[c]) BY Zenon DEF Queues, QueueOf
<1>6. queue' = queue
  <2>1. \A c \in Cond : \A u \in InList(cwaiters[c]) :
           pc'[u] = "cw_down" <=> pc[u] = "cw_down"
    BY Zenon, <1>5, QueueMembers DEF TypeOK
  <2>2. QED BY Zenon, <2>1, QueueKept
<1>7. \A u \in Thread : InQueue(u)' <=> InQueue(u) BY Zenon DEF InQueue
<1>8. ~InQueue(t) BY Zenon, <1>5 DEF InQueue
<1>9. CASE ~waiting[t]
  <2>1. signalled' = signalled BY Zenon, <1>7, <1>9 DEF signalled, TypeOK
  <2>2. ~Abstract!InMonitor(t) BY Zenon, <1>9, NotInMonitor
  <2>3. QED BY Zenon, <1>2, <1>4, <1>6, <2>1, <2>2 DEF Abstract!Acquire
<1>10. CASE waiting[t]
  <2>1. pc[t] = "acq_down" /\ arg[t] = l BY Zenon, <1>10 DEF Locals, LocalsOf
  <2>2. signalled[t] = l BY Zenon, <1>8, <1>10, <2>1 DEF signalled
  <2>3. signalled' = [signalled EXCEPT ![t] = NULL]
    BY Zenon, <1>7, <2>1 DEF signalled, TypeOK
  <2>4. l # NULL BY Zenon DEF Assumptions, ThreadAssumption, SynchAssumption
  <2>5. QED BY Zenon, <1>2, <1>4, <1>6, <2>2, <2>3, <2>4 DEF Abstract!Return
<1>11. QED BY Zenon, <1>9, <1>10

(* sema_up() of the lock is where lock_release() and cond_wait() release   *)
(* it, and where the latter becomes a waiter that can be signalled.        *)
LEMMA ReleaseRefines ==
  ASSUME Assumptions, IInv, IInv', NEW t \in Thread, ReleaseUp(t)
  PROVE  \/ \E l \in Lock : Abstract!Release(t, l)
         \/ \E c \in Cond : Abstract!Wait(t, c)
<1> USE DEF IInv, Clients
<1>1. PICK l \in Lock : arg[t] = l
  BY Zenon DEF ReleaseUp, At, Locals, LocalsOf, TypeOK
<1>2. /\ pc[t] = "rel_up" /\ l \notin held[t]
      /\ pc' = [pc EXCEPT ![t] = IF waiting[t] THEN "cw_down" ELSE "run"]
      /\ arg' = [arg EXCEPT ![t] = IF waiting[t] THEN arg[t] ELSE NULL]
      /\ UNCHANGED <<cwaiters, held, waiting>>
  BY Zenon, <1>1 DEF ReleaseUp, At, Goto, HeldLocks, HeldBy
<1>3. owner[l] = t /\ Owns(t, l) BY Zenon, <1>1, <1>2, OwnerExact DEF Owns
<1>4. \A u \in Thread : Owns(u, l) => u = t BY Zenon, <1>3 DEF OneOwner
<1>5. /\ \A u \in Thread : ~Owns(u, l)'
      /\ \A u \in Thread, k \in Lock \ {l} : Owns(u, k)' <=> Owns(u, k)
  BY Zenon, <1>1, <1>2, <1>4 DEF Owns, TypeOK
<1>6. NULL \notin Thread BY Zenon DEF Assumptions, ThreadAssumption
<1>7. owner' = [owner EXCEPT ![l] = NULL] BY Zenon, <1>5, <1>6, OwnerSet
<1>8. ~Abstract!InMonitor(t) BY Zenon, <1>2, NotInMonitor
<1>9. \A u \in Thread : InQueue(u)' <=> InQueue(u) BY Zenon, <1>2 DEF InQueue
<1>10. signalled' = signalled
  <2>1. \A u \in Thread : waiting[u] => arg'[u] = arg[u] BY Zenon, <1>2 DEF TypeOK
  <2>2. QED BY Zenon, <1>2, <1>9, <2>1 DEF signalled
<1>11. CASE ~waiting[t]
  <2>1. \A c \in Cond : t \notin InList(cwaiters[c])
    BY Zenon, <1>11 DEF Queues, QueueOf
  <2>2. \A c \in Cond : \A u \in InList(cwaiters[c]) :
           pc'[u] = "cw_down" <=> pc[u] = "cw_down"
    BY <1>2, <2>1, QueueMembers DEF TypeOK
  <2>3. queue' = queue BY Zenon, <1>2, <2>2, QueueKept
  <2>4. QED BY Zenon, <1>3, <1>7, <1>8, <1>10, <2>3 DEF Abstract!Release
<1>12. CASE waiting[t]
  <2>1. PICK c \in Cond : t \in InList(cwaiters[c])
    BY Zenon, <1>2, <1>12 DEF Signals, SignalOf, InQueue
  <2>2. lock_of[c] = l BY Zenon, <1>1, <2>1 DEF Queues, QueueOf
  <2> DEFINE s == cwaiters[c]
             n == Len(s)
  <2>3. s \in Seq(Thread) /\ \A j \in 1..n - 1 : pc[s[j]] = "cw_down"
    BY Zenon, QueueMembers DEF Queues, QueueOf
  <2>4. PICK i \in 1..n : s[i] = t BY Zenon, <2>1 DEF InList
  <2>5. i = n
    <3>1. i \notin 1..n - 1 BY ZenonT(60), <1>2, <2>3, <2>4
    <3>2. n \in Nat BY <2>3
    <3>3. QED BY <3>1, <3>2
  <2>6. n > 0 /\ s[n] = t /\ n - 1 \in Nat /\ n = n - 1 + 1 BY <2>3, <2>4, <2>5
  <2>7. queue[c] = SubSeq(s, 1, n - 1)
    BY Zenon, <1>2, <2>6 DEF queue
  <2>8. pc'[t] = "cw_down" BY Zenon, <1>2, <1>12 DEF TypeOK
  <2>9. queue'[c] = s
    <3>1. queue'[c] = IF n > 0 /\ pc'[s[n]] # "cw_down"
                      THEN SubSeq(s, 1, n - 1) ELSE s
      BY Zenon, <1>2 DEF queue
    <3>2. QED BY Zenon, <2>6, <2>8, <3>1
  <2>10. queue'[c] = Append(queue[c], t)
    <3>1. Append(SubSeq(s, 1, n - 1), s[n - 1 + 1]) = s
      BY Zenon, <2>3, <2>6, AllButLast
    <3>2. QED BY Zenon, <2>6, <2>7, <2>9, <3>1
  <2> HIDE DEF s
  <2>11. ASSUME NEW d \in Cond, d # c PROVE queue'[d] = queue[d]
    <3> DEFINE r == cwaiters[d]
               m == Len(r)
    <3>1. m > 0 => pc'[r[m]] = pc[r[m]]
      <4> HAVE m > 0
      <4>1. m \in 1..m BY QueueMembers
      <4>2. r[m] \in Thread /\ r[m] \in InList(cwaiters[d]) BY Zenon, <4>1, QueueMembers
      <4>3. r[m] # t BY ZenonT(30), <2>1, <2>11, <4>2 DEF Queues, QueueOf
      <4>4. QED BY Zenon, <1>2, <4>2, <4>3 DEF TypeOK
    <3>2. /\ queue[d] = IF m > 0 /\ pc[r[m]] # "cw_down"
                        THEN SubSeq(r, 1, m - 1) ELSE r
          /\ queue'[d] = IF m > 0 /\ pc'[r[m]] # "cw_down"
                         THEN SubSeq(r, 1, m - 1) ELSE r
      BY Zenon, <1>2 DEF queue
    <3>3. QED BY Zenon, <3>1, <3>2
  <2>12. queue = [d \in Cond |-> queue[d]] /\ queue' = [d \in Cond |-> queue'[d]]
    BY Zenon DEF queue
  <2>13. queue' = [queue EXCEPT ![c] = Append(queue[c], t)]
    BY Zenon, <2>10, <2>11, <2>12
  <2>14. QED BY Zenon, <1>3, <1>7, <1>8, <1>10, <2>2, <2>13 DEF Abstract!Wait
<1>13. QED BY Zenon, <1>11, <1>12

(* cond_wait() queues its semaphore_elem before it releases the lock, but  *)
(* nobody can signal it until then.                                        *)
LEMMA WaitUnseen ==
  ASSUME Assumptions, IInv, IInv', NEW t \in Thread, cond_wait(t)
  PROVE  UNCHANGED <<owner, queue, signalled>>
<1> USE DEF IInv, Clients
<1>1. PICK c \in Cond : /\ lock_of[c] \in held[t]
                        /\ cwaiters' = [cwaiters EXCEPT ![c] = Append(cwaiters[c], t)]
                        /\ arg' = [arg EXCEPT ![t] = lock_of[c]]
  BY Zenon DEF cond_wait
<1>2. /\ pc[t] = "run" /\ ~waiting[t] /\ arg[t] = NULL
      /\ waiting' = [waiting EXCEPT ![t] = TRUE]
      /\ pc' = [pc EXCEPT ![t] = "rel_hold"] /\ held' = held
  BY Zenon DEF cond_wait, At, Goto, Locals, LocalsOf
<1>3. \A u \in Thread, k \in Lock : Owns(u, k)' <=> Owns(u, k)
  BY Zenon, <1>1, <1>2 DEF Owns, TypeOK
<1>4. owner' = owner BY Zenon, <1>3, OwnerKept
<1> DEFINE s == cwaiters[c]
           n == Len(s)
<1>5. /\ s \in Seq(Thread) /\ n \in Nat /\ cwaiters'[c] = Append(s, t)
      /\ \A d \in Cond : d # c => cwaiters'[d] = cwaiters[d]
  BY <1>1 DEF TypeOK
<1>6. \A d \in Cond : \A u \in InList(cwaiters[d]) : u \in Thread /\ u # t
  <2>1. \A d \in Cond : \A u \in InList(cwaiters[d]) : waiting[u]
    BY Zenon DEF Queues, QueueOf
  <2>2. QED BY Zenon, <1>2, <2>1, QueueMembers
<1>7. \A u \in Thread : u # t => pc'[u] = pc[u] BY Zenon, <1>2 DEF TypeOK
<1>8. pc'[t] = "rel_hold" BY Zenon, <1>2 DEF TypeOK
<1>9. queue'[c] = queue[c]
  <2>1. queue[c] = s
    <3>1. queue[c] = IF n > 0 /\ pc[s[n]] # "cw_down" THEN SubSeq(s, 1, n - 1) ELSE s
      BY Zenon DEF queue
    <3>2. n > 0 => pc[s[n]] = "cw_down"
      <4> HAVE n > 0
      <4>1. n \in 1..n BY <1>5
      <4>2. QED BY Zenon, <1>1, <1>2, <4>1, QueueMembers, QueuedHaveReleased
    <3>3. QED BY Zenon, <3>1, <3>2
  <2>2. Append(s, t) \in Seq(Thread) /\ Len(Append(s, t)) = n + 1
        /\ Append(s, t)[n + 1] = t
    BY <1>5
  <2>3. queue'[c] = SubSeq(Append(s, t), 1, n)
    <3> DEFINE q == Append(s, t)
               m == Len(q)
    <3>1. queue'[c] = IF m > 0 /\ pc'[q[m]] # "cw_down"
                      THEN SubSeq(q, 1, m - 1) ELSE q
      BY Zenon, <1>5 DEF queue
    <3>2. m > 0 /\ pc'[q[m]] # "cw_down" /\ m - 1 = n BY <1>5, <1>8, <2>2
    <3>3. QED BY Zenon, <3>1, <3>2
  <2>4. SubSeq(Append(s, t), 1, n) = s
    <3>1. /\ SubSeq(Append(s, t), 1, n) \in Seq(Thread)
          /\ Len(SubSeq(Append(s, t), 1, n)) = n
          /\ \A i \in 1..n : SubSeq(Append(s, t), 1, n)[i] = Append(s, t)[i]
      BY <1>5, <2>2, AllButLast
    <3>2. \A i \in 1..n : Append(s, t)[i] = s[i] BY <1>5
    <3>3. QED BY <1>5, <3>1, <3>2
  <2>5. QED BY Zenon, <2>1, <2>3, <2>4
<1>10. ASSUME NEW d \in Cond, d # c PROVE queue'[d] = queue[d]
  <2> DEFINE r == cwaiters[d]
             m == Len(r)
  <2>1. m > 0 => pc'[r[m]] = pc[r[m]]
    <3> HAVE m > 0
    <3>1. m \in 1..m BY QueueMembers
    <3>2. QED BY Zenon, <1>6, <1>7, <3>1, QueueMembers
  <2>2. /\ queue[d] = IF m > 0 /\ pc[r[m]] # "cw_down"
                      THEN SubSeq(r, 1, m - 1) ELSE r
        /\ queue'[d] = IF m > 0 /\ pc'[r[m]] # "cw_down"
                       THEN SubSeq(r, 1, m - 1) ELSE r
    BY Zenon, <1>5, <1>10 DEF queue
  <2>3. QED BY Zenon, <2>1, <2>2
<1>11. queue = [d \in Cond |-> queue[d]] /\ queue' = [d \in Cond |-> queue'[d]]
  BY Zenon DEF queue
<1>12. queue' = queue BY Zenon, <1>9, <1>10, <1>11
<1>13. signalled' = signalled
  <2>1. InList(cwaiters'[c]) = InList(cwaiters[c]) \cup {t}
    BY <1>5, PushBack
  <2>2. \A u \in Thread : InQueue(u)' <=> InQueue(u) \/ u = t
    BY Zenon, <1>5, <2>1 DEF InQueue
  <2>3. \A u \in Thread : u # t => waiting'[u] = waiting[u] /\ arg'[u] = arg[u]
    BY Zenon, <1>1, <1>2 DEF TypeOK
  <2>4. QED BY Zenon, <1>2, <2>2, <2>3 DEF signalled
<1>14. QED BY Zenon, <1>4, <1>12, <1>13

(* Whoever signals owns the lock, so that every waiter has released it and *)
(* the queue is the whole list.                                            *)
LEMMA WholeQueue ==
  ASSUME \A c \in Cond : cwaiters[c] \in Seq(Thread), NEW c \in Cond,
         \A u \in InList(cwaiters[c]) : pc[u] = "cw_down"
  PROVE  queue[c] = cwaiters[c]
<1> DEFINE s == cwaiters[c]
           n == Len(s)
<1>1. queue[c] = IF n > 0 /\ pc[s[n]] # "cw_down" THEN SubSeq(s, 1, n - 1) ELSE s
  BY Zenon DEF queue
<1>2. n > 0 => pc[s[n]] = "cw_down"
  <2> HAVE n > 0
  <2>1. n \in 1..n OBVIOUS
  <2>2. QED BY Zenon, <2>1 DEF InList
<1>3. QED BY Zenon, <1>1, <1>2

LEMMA WholeQueueNext ==
  ASSUME \A c \in Cond : cwaiters'[c] \in Seq(Thread), NEW c \in Cond,
         \A u \in InList(cwaiters'[c]) : pc'[u] = "cw_down"
  PROVE  queue'[c] = cwaiters'[c]
<1> DEFINE s == cwaiters'[c]
           n == Len(s)
<1>1. queue'[c] = IF n > 0 /\ pc'[s[n]] # "cw_down" THEN SubSeq(s, 1, n - 1) ELSE s
  BY Zenon DEF queue
<1>2. n > 0 => pc'[s[n]] = "cw_down"
  <2> HAVE n > 0
  <2>1. n \in 1..n OBVIOUS
  <2>2. QED BY Zenon, <2>1 DEF InList
<1>3. QED BY Zenon, <1>1, <1>2

(* The pop of a waiter is the signal. *)
LEMMA PopRefines ==
  ASSUME Assumptions, IInv, IInv', NEW t \in Thread, NEW c \in Cond,
         pc[t] \in {"run", "bcast"}, lock_of[c] \in held[t], PopWaiter(t, c),
         UNCHANGED <<held, arg, waiting>>
  PROVE  Abstract!Signal(t, c)
<1> USE DEF IInv, Clients
<1> DEFINE h == Head(cwaiters[c])
<1>1. arg[t] = NULL /\ ~waiting[t] BY Zenon DEF Locals, LocalsOf
<1>2. /\ cwaiters[c] # <<>>
      /\ cwaiters' = [cwaiters EXCEPT ![c] = Tail(cwaiters[c])]
      /\ pc' = [pc EXCEPT ![t] = "sig_up"]
  BY Zenon DEF PopWaiter, Goto
<1>3. lock_of[c] \in Lock BY Zenon DEF Assumptions, SynchAssumption
<1>4. owner[lock_of[c]] = t BY Zenon, <1>3, OwnerExact DEF Owns
<1>5. ~Abstract!InMonitor(t) BY Zenon, <1>1, NotInMonitor
<1>6. \A u \in Thread, k \in Lock : Owns(u, k)' <=> Owns(u, k)
  BY Zenon, <1>1, <1>2 DEF Owns, TypeOK
<1>7. owner' = owner BY Zenon, <1>6, OwnerKept
<1>8. /\ \A d \in Cond : cwaiters[d] \in Seq(Thread)
      /\ \A d \in Cond : cwaiters'[d] \in Seq(Thread)
      /\ \A d \in Cond : d # c => cwaiters'[d] = cwaiters[d]
      /\ cwaiters'[c] = Tail(cwaiters[c])
  BY Zenon, <1>2 DEF TypeOK
<1>9. /\ h \in Thread /\ h \in InList(cwaiters[c])
      /\ InList(Tail(cwaiters[c])) = InList(cwaiters[c]) \ {h}
  BY Zenon, <1>2, <1>8, PopFront DEF Queues, QueueOf
<1>10. \A u \in InList(cwaiters[c]) : pc[u] = "cw_down"
  BY Zenon, <1>1, QueuedHaveReleased
<1>11. \A d \in Cond : \A u \in InList(cwaiters[d]) : u \in Thread \ {t}
  <2>1. \A d \in Cond : \A u \in InList(cwaiters[d]) : waiting[u]
    BY Zenon DEF Queues, QueueOf
  <2>2. QED BY Zenon, <1>1, <2>1, QueueMembers
<1>12. \A u \in Thread \ {t} : pc'[u] = pc[u] BY Zenon, <1>2 DEF TypeOK
<1> HIDE DEF h
<1>13. queue[c] = cwaiters[c] BY Zenon, <1>8, <1>10, WholeQueue
<1>14. queue'[c] = Tail(cwaiters[c])
  <2>1. \A u \in InList(cwaiters'[c]) : pc'[u] = "cw_down"
    BY Zenon, <1>8, <1>9, <1>10, <1>11, <1>12
  <2>2. QED BY Zenon, <1>8, <2>1, WholeQueueNext
<1>15. ASSUME NEW d \in Cond, d # c PROVE queue'[d] = queue[d]
  <2> DEFINE r == cwaiters[d]
             m == Len(r)
  <2>1. m > 0 => pc'[r[m]] = pc[r[m]]
    <3> HAVE m > 0
    <3>1. r \in Seq(Thread) BY Zenon, <1>8
    <3>2. m \in 1..m
      <4> HIDE DEF r
      <4>1. QED BY <3>1
    <3>3. QED BY Zenon, <1>11, <1>12, <3>2 DEF InList
  <2>2. /\ queue[d] = IF m > 0 /\ pc[r[m]] # "cw_down"
                      THEN SubSeq(r, 1, m - 1) ELSE r
        /\ queue'[d] = IF m > 0 /\ pc'[r[m]] # "cw_down"
                       THEN SubSeq(r, 1, m - 1) ELSE r
    BY Zenon, <1>8, <1>15 DEF queue
  <2>3. QED BY Zenon, <2>1, <2>2
<1>16. queue = [d \in Cond |-> queue[d]] /\ queue' = [d \in Cond |-> queue'[d]]
  BY Zenon DEF queue
<1>17. queue' = [queue EXCEPT ![c] = Tail(queue[c])]
  BY Zenon, <1>13, <1>14, <1>15, <1>16
<1>18. \A d \in Cond : InList(cwaiters'[d]) = InList(cwaiters[d]) \ {h}
  <2>1. \A d \in Cond : h \in InList(cwaiters[d]) => d = c
    BY Zenon, <1>9 DEF Queues, QueueOf
  <2>2. QED BY Zenon, <1>8, <1>9, <2>1
<1>19. \A u \in Thread : InQueue(u)' <=> InQueue(u) /\ u # h
  BY ZenonT(60), <1>18 DEF InQueue
<1>20. waiting[h] /\ arg[h] = lock_of[c]
  <2>1. QueueOf(c) BY Zenon DEF Queues
  <2>2. QED BY Zenon, <1>9, <2>1 DEF QueueOf
<1>21. signalled' = [signalled EXCEPT ![h] = lock_of[c]]
  <2>1. \A u \in Thread : signalled'[u] = IF u = h THEN lock_of[c] ELSE signalled[u]
    BY Zenon, <1>9, <1>19, <1>20 DEF signalled
  <2>2. /\ signalled = [u \in Thread |-> signalled[u]]
        /\ signalled' = [u \in Thread |-> signalled'[u]]
    BY Zenon DEF signalled
  <2>3. QED BY Zenon, <1>9, <2>1, <2>2
<1>22. queue[c] # <<>> /\ h = Head(queue[c]) BY Zenon, <1>2, <1>13 DEF h
<1>23. QED BY Zenon, <1>4, <1>5, <1>7, <1>17, <1>21, <1>22 DEF Abstract!Signal

LEMMA ThreadRefines ==
  ASSUME Assumptions, IInv, IInv', NEW t \in Thread, ThreadStep(t)
  PROVE  [Abstract!Next]_(Abstract!vars)
<1> USE DEF IInv, Clients
<1>1. UNCHANGED <<owner, queue, signalled>> => [Abstract!Next]_(Abstract!vars)
  BY Zenon DEF Abstract!vars
<1>2. CASE AcquireDown(t)
  <2>1. /\ pc[t] = "acq_down" /\ arg[t] \in Lock
        /\ UNCHANGED <<cwaiters, held, arg>>
    BY Zenon, <1>2 DEF AcquireDown, Locals, LocalsOf, TypeOK
  <2>2. CASE UNCHANGED <<pc, waiting>>
    <3>1. \A u \in Thread, k \in Lock : Owns(u, k)' <=> Owns(u, k)
      BY Zenon, <2>1, <2>2 DEF Owns
    <3>2. UNCHANGED <<owner, queue, signalled>> BY Zenon, <2>1, <2>2, <3>1, Unseen
    <3>3. QED BY Zenon, <1>1, <3>2
  <2>3. CASE /\ sema_down_take(t, arg[t])
             /\ waiting' = [waiting EXCEPT ![t] = FALSE] /\ Goto(t, "acq_hold")
    <3>1. value[arg[t]] > 0 /\ pc' = [pc EXCEPT ![t] = "acq_hold"]
      BY Zenon, <2>3 DEF sema_down_take, Goto
    <3>2. arg' = [arg EXCEPT ![t] = arg[t]] BY Zenon, <2>1 DEF TypeOK
    <3>3. Abstract!Acquire(t, arg[t]) \/ Abstract!Return(t)
      BY Zenon, <2>1, <2>3, <3>1, <3>2, TakeRefines
    <3>4. QED BY Zenon, <2>1, <3>3 DEF Abstract!Next
  <2>4. QED BY Zenon, <1>2, <2>2, <2>3 DEF AcquireDown
<1>3. CASE lock_try_acquire(t)
  <2>1. /\ pc[t] = "run" /\ ~waiting[t] /\ UNCHANGED <<cwaiters, held, waiting>>
    BY Zenon, <1>3 DEF lock_try_acquire, At, Locals, LocalsOf
  <2>2. PICK l \in Lock :
          IF value[l] > 0
          THEN arg' = [arg EXCEPT ![t] = l] /\ pc' = [pc EXCEPT ![t] = "acq_hold"]
          ELSE UNCHANGED <<arg, pc>>
    BY Zenon, <1>3 DEF lock_try_acquire, Goto
  <2>3. CASE value[l] > 0
    <3>1. waiting' = [waiting EXCEPT ![t] = FALSE] BY Zenon, <2>1 DEF TypeOK
    <3>2. Abstract!Acquire(t, l) \/ Abstract!Return(t)
      BY Zenon, <2>1, <2>2, <2>3, <3>1, TakeRefines
    <3>3. QED BY Zenon, <3>2 DEF Abstract!Next
  <2>4. CASE ~(value[l] > 0)
    <3>1. UNCHANGED <<arg, pc>> BY Zenon, <2>2, <2>4
    <3>2. \A u \in Thread, k \in Lock : Owns(u, k)' <=> Owns(u, k)
      BY Zenon, <2>1, <3>1 DEF Owns
    <3>3. UNCHANGED <<owner, queue, signalled>> BY Zenon, <2>1, <3>1, <3>2, Unseen
    <3>4. QED BY Zenon, <1>1, <3>3
  <2>5. QED BY Zenon, <2>3, <2>4
<1>4. CASE ReleaseUp(t) BY Zenon, <1>4, ReleaseRefines DEF Abstract!Next
<1>5. CASE cond_wait(t) BY Zenon, <1>1, <1>5, WaitUnseen
<1>6. CASE cond_signal(t)
  <2>1. PICK c \in Cond : lock_of[c] \in held[t] /\ PopWaiter(t, c)
    BY Zenon, <1>6 DEF cond_signal
  <2>2. pc[t] = "run" /\ UNCHANGED <<held, arg, waiting>> BY Zenon, <1>6 DEF cond_signal, At
  <2>3. Abstract!Signal(t, c) BY Zenon, <2>1, <2>2, PopRefines
  <2>4. QED BY Zenon, <2>3 DEF Abstract!Next
<1>7. CASE BroadcastLoop(t)
  <2>1. /\ pc[t] = "bcast" /\ bcast[t] \in Cond /\ lock_of[bcast[t]] \in held[t]
        /\ UNCHANGED <<held, arg, waiting>> /\ ~waiting[t]
    BY Zenon, <1>7 DEF BroadcastLoop, At, Locals, LocalsOf, HeldLocks, HeldBy, TypeOK
  <2>2. CASE PopWaiter(t, bcast[t])
    <3>1. Abstract!Signal(t, bcast[t]) BY Zenon, <2>1, <2>2, PopRefines
    <3>2. QED BY Zenon, <2>1, <3>1 DEF Abstract!Next
  <2>3. CASE UNCHANGED cwaiters /\ pc' = [pc EXCEPT ![t] = "run"]
    <3>1. \A u \in Thread, k \in Lock : Owns(u, k)' <=> Owns(u, k)
      BY Zenon, <2>1, <2>3 DEF Owns, TypeOK
    <3>2. \A c \in Cond : \A u \in InList(cwaiters[c]) :
             pc'[u] = "cw_down" <=> pc[u] = "cw_down"
      BY Zenon, <2>1, <2>3, QueueMembers DEF TypeOK
    <3>3. UNCHANGED <<owner, queue, signalled>> BY Zenon, <2>1, <2>3, <3>1, <3>2, Unseen
    <3>4. QED BY Zenon, <1>1, <3>3
  <2>4. QED BY Zenon, <1>7, <2>2, <2>3 DEF BroadcastLoop, Goto
<1>8. CASE \/ lock_acquire(t) \/ AcquireHold(t) \/ lock_release(t) \/ ReleaseHold(t)
           \/ WaitDown(t) \/ SignalUp(t) \/ cond_broadcast(t)
  BY Zenon, <1>1, <1>8, UnseenStep
<1>9. QED BY Zenon, <1>2, <1>3, <1>4, <1>5, <1>6, <1>7, <1>8 DEF ThreadStep

LEMMA InitRefines ==
  ASSUME Init
  PROVE  Abstract!Init
<1>1. \A t \in Thread, l \in Lock : ~Owns(t, l) BY Zenon DEF Init, Owns
<1>2. owner = [l \in Lock |-> NULL] BY Zenon, <1>1 DEF owner
<1>3. \A c \in Cond : cwaiters[c] = <<>> BY Zenon DEF Init
<1>4. queue = [c \in Cond |-> <<>>] BY <1>3 DEF queue
<1>5. signalled = [t \in Thread |-> NULL] BY Zenon DEF Init, signalled
<1>6. QED BY Zenon, <1>2, <1>4, <1>5 DEF Abstract!Init

-----------------------------------------------------------------------------
(* Counting *)

LOCAL F == INSTANCE FiniteSetTheorems

(* The library's facts are about these operators. *)
LEMMA SameCounting ==
  ASSUME NEW S
  PROVE  Cardinality(S) = F!Cardinality(S) /\ (IsFiniteSet(S) <=> F!IsFiniteSet(S))
<1>1. Cardinality(S) = F!Cardinality(S)
  BY DEF Cardinality, F!Cardinality
<1>2. IsFiniteSet(S) <=> F!IsFiniteSet(S)
  BY DEF IsFiniteSet, F!IsFiniteSet
<1>3. QED BY Zenon, <1>1, <1>2

LEMMA FiniteSubset ==
  ASSUME NEW S, IsFiniteSet(S), NEW R \in SUBSET S
  PROVE  IsFiniteSet(R) /\ Cardinality(R) \in Nat
<1>1. F!IsFiniteSet(S) BY Zenon, SameCounting
<1>2. F!IsFiniteSet(R) BY Zenon, <1>1, F!FS_Subset
<1>3. F!Cardinality(R) \in Nat BY Zenon, <1>2, F!FS_CardinalityType
<1>4. QED BY Zenon, <1>2, <1>3, SameCounting

LEMMA SmallSets == Cardinality({}) = 0 /\ \A x : Cardinality({x}) = 1
<1>1. Cardinality({}) = 0 BY Zenon, F!FS_EmptySet, SameCounting
<1>2. ASSUME NEW x PROVE Cardinality({x}) = 1 BY Zenon, F!FS_Singleton, SameCounting
<1>3. QED BY Zenon, <1>1, <1>2

(* The threads are finitely many, so that any set of them can be counted. *)
LEMMA Counting == CountFacts
<1> SUFFICES ASSUME NEW S \in SUBSET Thread
             PROVE  /\ Cardinality(S) \in Nat
                    /\ \A t \in S : Cardinality(S \ {t}) = Cardinality(S) - 1
                    /\ \A t \in Thread \ S :
                         Cardinality(S \cup {t}) = Cardinality(S) + 1
  BY Zenon DEF CountFacts
<1>1. IsFiniteSet(S) /\ Cardinality(S) \in Nat
  BY Zenon, FiniteSubset, ThreadAssumption DEF ThreadAssumption
<1>2. F!IsFiniteSet(S) BY Zenon, <1>1, SameCounting
<1>3. ASSUME NEW t \in S PROVE Cardinality(S \ {t}) = Cardinality(S) - 1
  <2>1. F!Cardinality(S \ {t}) = F!Cardinality(S) - 1 BY Zenon, <1>2, F!FS_RemoveElement
  <2>2. QED BY Zenon, <2>1, SameCounting
<1>4. ASSUME NEW t \in Thread \ S PROVE Cardinality(S \cup {t}) = Cardinality(S) + 1
  <2>1. F!Cardinality(S \cup {t}) = F!Cardinality(S) + 1 BY Zenon, <1>2, F!FS_AddElement
  <2>2. QED BY Zenon, <2>1, SameCounting
<1>5. QED BY Zenon, <1>1, <1>3, <1>4

LEMMA AssumptionsHold == Assumptions
BY Zenon, ThreadAssumption, TimeSliceAssumption, SynchAssumption, Counting DEF Assumptions

(* A list without duplicates is no longer than there are threads, and has  *)
(* them all if it is as long.                                              *)
LEMMA DistinctThreads ==
  ASSUME NEW S, IsFiniteSet(S), NEW l \in Seq(S), NoDup(l)
  PROVE  /\ Len(l) <= Cardinality(S)
         /\ Len(l) = Cardinality(S) => InList(l) = S
<1>1. l \in [1..Len(l) -> S] /\ Len(l) \in Nat
  OBVIOUS
<1>2. l \in F!Injection(1..Len(l), S)
  BY Zenon, <1>1 DEF NoDup, F!Injection, F!IsInjective
<1>3. F!Cardinality(1..Len(l)) = Len(l)
  <2>1. F!Cardinality(1..Len(l)) = IF 1 > Len(l) THEN 0 ELSE Len(l) - 1 + 1
    BY <1>1, F!FS_Interval
  <2>2. QED BY <1>1, <2>1
<1>4. F!IsFiniteSet(S) BY Zenon, SameCounting
<1>5. /\ F!Cardinality(1..Len(l)) <= F!Cardinality(S)
      /\ F!Cardinality(1..Len(l)) = F!Cardinality(S) <=> l \in F!Surjection(1..Len(l), S)
  BY Zenon, <1>2, <1>4, F!FS_Injection
<1>6. ASSUME l \in F!Surjection(1..Len(l), S) PROVE InList(l) = S
  BY Zenon, <1>1, <1>6 DEF InList, F!Surjection
<1>7. QED BY Zenon, <1>3, <1>5, <1>6, SameCounting

-----------------------------------------------------------------------------
LEMMA InitInv ==
  ASSUME Assumptions, Init
  PROVE  IInv
<1> USE DEF Assumptions, WaiterSema
<1> DEFINE others == Thread \ {idle, initial_thread}
<1>1. /\ idle \in Thread /\ initial_thread \in Thread /\ idle # initial_thread
      /\ NULL \notin Thread /\ NULL \notin Sema /\ NULL \notin Lock
      /\ NULL \notin Cond /\ Sema = Lock \cup Thread /\ Lock \cap Thread = {}
      /\ IsFiniteSet(Thread) /\ TIME_SLICE \in Nat \ {0}
  BY Zenon DEF ThreadAssumption, TimeSliceAssumption, SynchAssumption
<1>2. /\ ready_list \in Seq(Thread) /\ NoDup(ready_list)
      /\ InList(ready_list) = others
  <2>1. IsFiniteSet(others) /\ Cardinality(others) \in Nat
    BY Zenon, <1>1, FiniteSubset
  <2>2. ready_list \in [1..Cardinality(others) -> others] /\ NoDup(ready_list)
    BY Zenon DEF Init
  <2>3. ready_list \in Seq(others) /\ Len(ready_list) = Cardinality(others)
    <3> DEFINE n == Cardinality(others)
    <3> HIDE DEF n, others
    <3>1. n \in Nat /\ ready_list \in [1..n -> others] BY Zenon, <2>1, <2>2 DEF n
    <3>2. ready_list \in Seq(others) BY <3>1
    <3>3. Len(ready_list) = n BY <3>1, <3>2
    <3>4. QED BY Zenon, <3>2, <3>3 DEF n
  <2>4. InList(ready_list) = others BY Zenon, <2>1, <2>2, <2>3, DistinctThreads
  <2>5. QED BY <2>2, <2>3, <2>4
<1>3. /\ status = [t \in Thread |-> IF t = initial_thread THEN "RUNNING"
                                    ELSE IF t = idle THEN "BLOCKED" ELSE "READY"]
      /\ current = initial_thread /\ idle_thread = idle /\ thread_ticks = 0
      /\ level = [t \in Thread |-> "ON"] /\ asleep = [t \in Thread |-> NULL]
      /\ value = [s \in Sema |-> IF s \in Lock THEN 1 ELSE 0]
      /\ waiters = [s \in Sema |-> <<>>]
      /\ holder = [l \in Lock |-> NULL] /\ cwaiters = [c \in Cond |-> <<>>]
      /\ pc = [t \in Thread |-> IF t = idle THEN "idle" ELSE "run"]
      /\ held = [t \in Thread |-> {}] /\ arg = [t \in Thread |-> NULL]
      /\ waiting = [t \in Thread |-> FALSE] /\ popped = [t \in Thread |-> NULL]
      /\ bcast = [t \in Thread |-> NULL]
  BY Zenon DEF Init
<1>4. InList(<<>>) = {} /\ NoDup(<<>>) BY DEF InList, NoDup
<1>5. SchedInv
  <2>1. SchedTypeOK BY <1>1, <1>2, <1>3 DEF SchedTypeOK, Status, Level
  <2>2. OneRunning BY Zenon, <1>1, <1>3 DEF OneRunning
  <2>3. ReadyListExact BY Zenon, <1>1, <1>2, <1>3 DEF ReadyListExact
  <2>4. WaitersBlocked BY Zenon, <1>1, <1>3, <1>4 DEF WaitersBlocked
  <2>5. NoLostWakeup BY Zenon, <1>3 DEF NoLostWakeup
  <2>6. QED BY Zenon, <1>1, <1>3, <2>1, <2>2, <2>3, <2>4, <2>5 DEF SchedInv
<1>6. TypeOK
  <2>1. cwaiters \in [Cond -> Seq(Thread)] BY <1>3
  <2>2. QED BY Zenon, <1>1, <1>3, <1>5, <2>1 DEF TypeOK, SchedInv, PC
<1>7. Locals BY Zenon, <1>1, <1>3 DEF Locals, LocalsOf
<1>8. HeldLocks BY Zenon, <1>1, <1>3 DEF HeldLocks, HeldBy
<1>9. HolderExact BY Zenon, <1>1, <1>3 DEF HolderExact
<1>10. \A t \in Thread, l \in Lock : ~Owns(t, l) BY Zenon, <1>1, <1>3 DEF Owns
<1>11. OneOwner BY Zenon, <1>1, <1>3, <1>10 DEF OneOwner
<1>12. Queues
  <2> SUFFICES ASSUME NEW c \in Cond PROVE QueueOf(c) BY Zenon DEF Queues
  <2>1. cwaiters[c] = <<>> BY Zenon, <1>3
  <2>2. QED BY <1>4, <2>1 DEF QueueOf
<1>13. Signals BY <1>1, <1>3 DEF Signals, SignalOf
<1>14. QED
  BY Zenon, <1>3, <1>5, <1>6, <1>7, <1>8, <1>9, <1>11, <1>12, <1>13 DEF IInv, Clients

(* The inductive invariant of locks and condition variables. *)
THEOREM Invariant == Spec => []IInv
<1>1. Init => IInv BY Zenon, InitInv, AssumptionsHold
<1>2. IInv /\ [Next]_vars => IInv' BY Zenon, NextInv, AssumptionsHold
<1>3. QED BY <1>1, <1>2, PTL DEF Spec

-----------------------------------------------------------------------------
(* The places where a thread's semaphore_elem is. *)

LEMMA PoppedOnce ==
  ASSUME ThreadAssumption, Locals, Signals, NEW t \in Thread, NEW u \in Thread, popped[u] = t
  PROVE  /\ pc[t] = "cw_down" /\ waiting[t] /\ value[t] = 0 /\ ~InQueue(t)
         /\ \A v \in Thread : popped[v] = t => v = u
<1>1. popped[u] # NULL BY Zenon DEF ThreadAssumption
<1>2. SignalOf(u) /\ LocalsOf(t) BY Zenon DEF Signals, Locals
<1>3. pc[t] = "cw_down" /\ value[t] = 0 /\ ~InQueue(t)
  BY Zenon, <1>1, <1>2 DEF SignalOf, WaiterSema
<1>4. \A v \in Thread : popped[v] = t => v = u BY Zenon, <1>1, <1>2 DEF SignalOf
<1>5. waiting[t] BY Zenon, <1>2, <1>3 DEF LocalsOf
<1>6. QED BY Zenon, <1>3, <1>4, <1>5

(* The positions of a list that is not longer than N. *)
LEMMA Positions ==
  ASSUME NEW S, NEW l \in Seq(S), NEW n \in Nat, Len(l) <= n, NEW i
  PROVE  i \in 1..Len(l) <=> i \in 1..n /\ i <= Len(l)
  OBVIOUS

(* A pair is the pair of its members. *)
LEMMA PairIs ==
  ASSUME NEW A, NEW B, NEW p \in A \X B
  PROVE  p = <<p[1], p[2]>>
  OBVIOUS

LEMMA OnePlace ==
  ASSUME Assumptions, IInv, NEW t \in Thread
  PROVE  /\ Cardinality(Queued(t)) = IF InQueue(t) THEN 1 ELSE 0
         /\ Cardinality(Poppers(t)) = IF \E u \in Thread : popped[u] = t THEN 1 ELSE 0
         /\ Poppers(t) # {} <=> \E u \in Thread : popped[u] = t
<1> USE DEF Assumptions, IInv, Clients
<1>1. \A c \in Cond : /\ cwaiters[c] \in Seq(Thread) /\ NoDup(cwaiters[c])
                      /\ Len(cwaiters[c]) <= Cardinality(Thread)
  BY Zenon, DistinctThreads, QueueMembers DEF Queues, QueueOf, ThreadAssumption
<1>2. Cardinality(Thread) \in Nat BY Zenon, FiniteSubset DEF ThreadAssumption
<1>3. Cardinality(Queued(t)) = IF InQueue(t) THEN 1 ELSE 0
  <2>1. CASE ~InQueue(t)
    <3>1. ASSUME NEW p \in Queued(t) PROVE FALSE
      <4>1. /\ p[1] \in Cond /\ p[2] \in 1..Cardinality(Thread)
            /\ p[2] <= Len(cwaiters[p[1]]) /\ cwaiters[p[1]][p[2]] = t
        BY Zenon, <3>1 DEF Queued
      <4>2. p[2] \in 1..Len(cwaiters[p[1]]) BY Zenon, <1>1, <1>2, <4>1, Positions
      <4>3. t \in InList(cwaiters[p[1]]) BY Zenon, <4>1, <4>2 DEF InList
      <4>4. QED BY Zenon, <2>1, <4>1, <4>3 DEF InQueue
    <3>2. Queued(t) = {} BY Zenon, <3>1
    <3>3. QED BY Zenon, <2>1, <3>2, SmallSets
  <2>2. CASE InQueue(t)
    <3>1. PICK c \in Cond : t \in InList(cwaiters[c]) BY Zenon, <2>2 DEF InQueue
    <3>2. PICK i \in 1..Len(cwaiters[c]) : cwaiters[c][i] = t BY Zenon, <3>1 DEF InList
    <3>3. /\ i \in 1..Cardinality(Thread) /\ i <= Len(cwaiters[c])
      BY Zenon, <1>1, <1>2, <3>2, Positions
    <3>4. <<c, i>> \in Queued(t) BY Zenon, <3>2, <3>3 DEF Queued
    <3>5. ASSUME NEW p \in Queued(t) PROVE p = <<c, i>>
      <4>1. /\ p[1] \in Cond /\ p[2] \in 1..Cardinality(Thread)
            /\ p[2] <= Len(cwaiters[p[1]]) /\ cwaiters[p[1]][p[2]] = t
            /\ p = <<p[1], p[2]>>
        BY Zenon, <3>5, PairIs DEF Queued
      <4>2. p[2] \in 1..Len(cwaiters[p[1]]) BY Zenon, <1>1, <1>2, <4>1, Positions
      <4>3. t \in InList(cwaiters[p[1]]) BY Zenon, <4>1, <4>2 DEF InList
      <4>4. p[1] = c
        <5>1. \A d \in Cond : t \in InList(cwaiters[d]) => d = c
          BY Zenon, <3>1 DEF Queues, QueueOf
        <5>2. QED BY Zenon, <4>1, <4>3, <5>1
      <4>5. NoDup(cwaiters[c]) BY Zenon, <1>1
      <4>6. p[2] = i BY Zenon, <3>2, <4>1, <4>2, <4>4, <4>5 DEF NoDup
      <4>7. QED BY ZenonT(60), <4>1, <4>4, <4>6
    <3>6. Queued(t) = {<<c, i>>} BY Zenon, <3>4, <3>5
    <3>7. QED BY Zenon, <2>2, <3>6, SmallSets
  <2>3. QED BY Zenon, <2>1, <2>2
<1>4. /\ Cardinality(Poppers(t)) = IF \E u \in Thread : popped[u] = t THEN 1 ELSE 0
      /\ Poppers(t) # {} <=> \E u \in Thread : popped[u] = t
  <2>1. CASE \A u \in Thread : popped[u] # t
    <3>1. Poppers(t) = {} BY Zenon, <2>1 DEF Poppers
    <3>2. QED BY Zenon, <2>1, <3>1, SmallSets
  <2>2. CASE \E u \in Thread : popped[u] = t
    <3>1. PICK u \in Thread : popped[u] = t BY Zenon, <2>2
    <3>2. \A v \in Thread : popped[v] = t => v = u
      BY Zenon, <3>1, PoppedOnce
    <3>3. Poppers(t) = {u} BY ZenonT(60), <3>1, <3>2 DEF Poppers
    <3>4. QED BY Zenon, <2>2, <3>3, SmallSets
  <2>3. QED BY Zenon, <2>1, <2>2
<1>5. QED BY Zenon, <1>3, <1>4

LEMMA InvLocksExact ==
  ASSUME Assumptions, IInv
  PROVE  LocksExact
<1> USE DEF Assumptions, IInv, Clients, WaiterSema
<1> SUFFICES ASSUME NEW t \in Thread
             PROVE  LET places == Cardinality(Queued(t)) + Cardinality(Poppers(t))
                    IN  /\ places + value[t] <= 1
                        /\ places > 0 => /\ waiting[t]
                                         /\ pc[t] \in {"rel_hold", "rel_up", "cw_down"}
                        /\ pc[t] = "cw_down" => places + value[t] = 1
                        /\ Poppers(t) # {} => pc[t] = "cw_down"
  BY Zenon DEF LocksExact, WaiterInScope
<1>1. /\ Cardinality(Queued(t)) = IF InQueue(t) THEN 1 ELSE 0
      /\ Cardinality(Poppers(t)) = IF \E u \in Thread : popped[u] = t THEN 1 ELSE 0
      /\ Poppers(t) # {} <=> \E u \in Thread : popped[u] = t
  BY Zenon, OnePlace
<1>2. InQueue(t) => /\ waiting[t] /\ pc[t] \in {"rel_hold", "rel_up", "cw_down"}
                    /\ value[t] = 0 /\ \A u \in Thread : popped[u] # t
  <2> HAVE InQueue(t)
  <2>1. PICK c \in Cond : t \in InList(cwaiters[c]) BY Zenon DEF InQueue
  <2>2. waiting[t] /\ pc[t] \in {"rel_hold", "rel_up", "cw_down"} /\ value[t] = 0
    BY Zenon, <2>1 DEF Queues, QueueOf
  <2>3. \A u \in Thread : popped[u] # t BY Zenon, PoppedOnce
  <2>4. QED BY Zenon, <2>2, <2>3
<1>3. (\E u \in Thread : popped[u] = t) =>
         pc[t] = "cw_down" /\ waiting[t] /\ value[t] = 0
  BY Zenon, PoppedOnce
<1>4. /\ value[t] \in {0, 1}
      /\ pc[t] = "cw_down" => \/ InQueue(t) \/ value[t] = 1
                              \/ \E u \in Thread : popped[u] = t
  BY Zenon DEF Signals, SignalOf
<1>5. QED BY <1>1, <1>2, <1>3, <1>4

(* What lock_acquire(), lock_release(), cond_wait() and cond_signal()      *)
(* assert: a lock has one holder, which knows it, and a waiter's           *)
(* semaphore_elem is reachable only while its cond_wait() is in progress.  *)
THEOREM LocksSafe == Spec => []LocksExact
<1>1. IInv => LocksExact BY Zenon, InvLocksExact, AssumptionsHold
<1>2. QED BY <1>1, Invariant, PTL

(* Locks and condition variables implement the monitor, for any number of  *)
(* threads, locks and conditions: in particular cond_wait(), with its four *)
(* preemptible calls, releases the lock and waits "atomically", and the    *)
(* longest waiting thread is the one that cond_signal() wakes.             *)
THEOREM MonitorImplemented == Spec => ImplementsMonitor
<1>1. Assumptions BY Zenon, AssumptionsHold
<1>2. Init => Abstract!Init BY Zenon, InitRefines
<1>3. IInv /\ IInv' /\ [Next]_vars => [Abstract!Next]_(Abstract!vars)
  <2> SUFFICES ASSUME IInv, IInv', [Next]_vars PROVE [Abstract!Next]_(Abstract!vars)
    BY Zenon
  <2>1. CASE UNCHANGED client_vars
    <3>1. UNCHANGED <<cwaiters, pc, held, arg, waiting>> BY Zenon, <2>1 DEF client_vars
    <3>2. \A u \in Thread, k \in Lock : Owns(u, k)' <=> Owns(u, k)
      BY Zenon, <3>1 DEF Owns
    <3>3. UNCHANGED <<owner, queue, signalled>> BY Zenon, <1>1, <3>1, <3>2, Unseen
    <3>4. QED BY Zenon, <3>3 DEF Abstract!vars
  <2>2. CASE \E t \in Thread : ThreadStep(t) BY Zenon, <1>1, <2>2, ThreadRefines
  <2>3. QED BY Zenon, <2>1, <2>2 DEF Next, IdleBlock, TimerInterrupt, vars
<1>4. QED BY <1>2, <1>3, Invariant, PTL DEF Spec, ImplementsMonitor, Abstract!Spec
=============================================================================
