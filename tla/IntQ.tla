-------------------------------- MODULE IntQ --------------------------------
(***************************************************************************)
(* Interrupt queues (devices/intq.c): circular byte buffers shared by      *)
(* threads, which sleep while a queue is empty or full, and interrupt      *)
(* handlers, which never do.  The thread side is one action per stretch    *)
(* between two points at which the thread can lose the CPU; callers keep   *)
(* interrupts off throughout, so only sleeping lets anything else run.     *)
(***************************************************************************)
EXTENDS Sched

CONSTANTS Queue,          \* the queues; each names the semaphore of its lock
          Byte,
          INTQ_BUFSIZE

ASSUME IntQAssumption == /\ Queue \subseteq Sema
                         /\ NULL \notin Byte
                         /\ INTQ_BUFSIZE \in Nat \ {0, 1}

VARIABLES
  queue,   \* [Queue -> [buf, head, tail, not_full, not_empty]]
  pc,      \* [Thread -> label]
  op,      \* [Thread -> {"getc", "putc"}]: the intq operation T is in
  arg,     \* [Thread -> Queue]: its queue
  byte     \* [Thread -> Byte or NULL]: the byte to put, or got

intq_vars == <<queue, op, arg, byte>>

Slot == 0..INTQ_BUFSIZE - 1

QueueType == [buf : [Slot -> Byte \cup {NULL}], head : Slot, tail : Slot,
              not_full : Thread \cup {NULL}, not_empty : Thread \cup {NULL}]

At(t, l) == Running(t) /\ pc[t] = l
Goto(t, l) == pc' = [pc EXCEPT ![t] = l]

intq_init == [buf |-> [i \in Slot |-> NULL], head |-> 0, tail |-> 0,
              not_full |-> NULL, not_empty |-> NULL]

(* Mutant: no wrap-around. *)
next_runs_off(pos) == pos + 1

next(pos) == (pos + 1) % INTQ_BUFSIZE

intq_empty(q) == queue[q].head = queue[q].tail

(* Mutant: a full queue is not noticed. *)
intq_full_never(q) == FALSE

intq_full(q) == next(queue[q].head) = queue[q].tail

(* Queue record R once its oldest byte, FirstByte(R), has been removed and *)
(* the thread waiting in R.not_full signalled.                             *)
FirstByte(r) == r.buf[r.tail]

(* Mutant: the waiter is signalled but stays registered. *)
Removed_registered(r) == [r EXCEPT !.tail = next(@)]

Removed(r) == [r EXCEPT !.tail = next(@), !.not_full = NULL]

(* Queue record R once B has been added and the thread waiting in          *)
(* R.not_empty signalled.                                                  *)
Added(r, b) == [r EXCEPT !.buf[r.head] = b, !.head = next(@), !.not_empty = NULL]

(* Mutant: nobody is woken. *)
signal_nobody(v, w) == UNCHANGED sched_vars

(* The ready list RL once waiter W, unless it is NULL, is unblocked. *)
Unblocked(rl, w) == IF w = NULL THEN rl ELSE Append(rl, w)

(* signal() of waiter V and then of waiter W, each of which may be NULL. *)
signal(v, w) ==
  /\ ready_list' = Unblocked(Unblocked(ready_list, v), w)
  /\ status' = [t \in Thread |-> IF t \in {v, w} THEN "READY" ELSE status[t]]
  /\ UNCHANGED <<current, idle_thread, thread_ticks, level, asleep, value, waiters>>

(* The condition under which T's operation must wait. *)
MustWait(t) == IF op[t] = "getc" THEN intq_empty(arg[t]) ELSE intq_full(arg[t])

(* The test of the loop. *)
IntqTest(t) ==
  /\ At(t, "test")
  /\ Goto(t, IF MustWait(t) THEN "lock" ELSE "move")
  /\ UNCHANGED <<sched_vars, intq_vars>>

(* lock_acquire (&q->lock) *)
IntqLock(t) ==
  /\ pc[t] = "lock"
  /\ InSemaDown(t, arg[t])
  /\ \/ sema_down_wait(t, arg[t]) /\ UNCHANGED pc
     \/ sema_down_take(t, arg[t]) /\ Goto(t, "wait")
  /\ UNCHANGED intq_vars

(* Mutant: every waiter registers in not_full. *)
IntqWait_wrong(t) ==
  /\ At(t, "wait")
  /\ MustWait(t)
  /\ queue' = [queue EXCEPT ![arg[t]].not_full = t]
  /\ thread_block
  /\ Goto(t, "unlock")
  /\ UNCHANGED <<idle_thread, level, asleep, value, waiters, op, arg, byte>>

(* wait(), if its assertion holds; otherwise the kernel panics. *)
IntqWait(t) ==
  /\ At(t, "wait")
  /\ MustWait(t)
  /\ queue' = IF op[t] = "getc" THEN [queue EXCEPT ![arg[t]].not_empty = t]
                                ELSE [queue EXCEPT ![arg[t]].not_full = t]
  /\ thread_block
  /\ Goto(t, "unlock")
  /\ UNCHANGED <<idle_thread, level, asleep, value, waiters, op, arg, byte>>

(* lock_release (&q->lock) once woken *)
IntqUnlock(t) ==
  /\ At(t, "unlock")
  /\ sema_up(arg[t])
  /\ Goto(t, "test")
  /\ UNCHANGED intq_vars

(* After the loop: move the byte and signal. *)
IntqMove(t) ==
  /\ At(t, "move")
  /\ LET q == arg[t]
         r == queue[q]
     IN  IF op[t] = "getc"
         THEN /\ byte' = [byte EXCEPT ![t] = FirstByte(r)]
              /\ queue' = [queue EXCEPT ![q] = Removed(r)]
              /\ signal(r.not_full, NULL)
         ELSE /\ queue' = [queue EXCEPT ![q] = Added(r, byte[t])]
              /\ signal(r.not_empty, NULL)
              /\ UNCHANGED byte
  /\ Goto(t, "done")
  /\ UNCHANGED <<op, arg>>

IntqStep(t) == IntqTest(t) \/ IntqLock(t) \/ IntqWait(t) \/ IntqUnlock(t)
               \/ IntqMove(t)

-----------------------------------------------------------------------------
(* Properties *)

IntQTypeOK ==
  /\ queue \in [Queue -> QueueType]
  /\ op \in [Thread -> {"getc", "putc"}]
  /\ arg \in [Thread -> Queue]
  /\ byte \in [Thread -> Byte \cup {NULL}]

(* wait()'s assertion: a thread about to sleep in it still has reason to,  *)
(* although it may have slept for the lock since it looked.                *)
WaitAssertion == \A t \in Thread : pc[t] = "wait" => MustWait(t)

(* A sleeper is registered where signal() looks for it, and is asleep only *)
(* while its condition is false: no byte goes by without waking it.        *)
SleeperWillBeWoken ==
  \A t \in Thread :
    LET r == queue[arg[t]]
        registered == t = IF op[t] = "getc" THEN r.not_empty ELSE r.not_full
    IN  pc[t] = "unlock" /\ status[t] = "BLOCKED" => registered /\ MustWait(t)

(* Every registered waiter is a blocked thread, as thread_unblock()        *)
(* asserts when an interrupt handler or another thread signals it.         *)
WaitersAsleep ==
  \A q \in Queue : \A w \in {queue[q].not_full, queue[q].not_empty} \ {NULL} :
    status[w] = "BLOCKED" /\ pc[w] = "unlock" /\ arg[w] = q

(* The bytes in queue Q, oldest first. *)
Contents(q) ==
  LET r == queue[q]
      n == (r.head + INTQ_BUFSIZE - r.tail) % INTQ_BUFSIZE
  IN  [i \in 1..n |-> r.buf[(r.tail + i - 1) % INTQ_BUFSIZE]]
=============================================================================
