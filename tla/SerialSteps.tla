---------------------------- MODULE SerialSteps -----------------------------
(***************************************************************************)
(* The interrupt queues and the serial port: the inductive invariant, what *)
(* the circular buffer holds, and the steps of threads and of interrupt    *)
(* handlers.                                                               *)
(***************************************************************************)
EXTENDS Serial, SchedProofs

(* Where a thread is in its code: who it is, whether it has interrupts     *)
(* off, which queue it works on and with what, and that it has the CPU     *)
(* where it cannot lose it.                                                *)
Quiet == {"boot", "boot_ier", "run", "idle"}
Working == {"test", "lock", "wait", "unlock", "move", "poll"}
Pinned == {"test", "wait", "move", "done", "poll", "flush"}

Gets(t) == op[t] = "getc" /\ arg[t] = buffer /\ t \in Reader
Puts(t) == op[t] = "putc" /\ arg[t] = txq /\ t \in Writer /\ byte[t] \in Byte

ProgramOf(t) ==
  /\ pc[t] = "idle" <=> t = idle
  /\ pc[t] \in {"boot", "boot_ier"} => t = initial_thread
  /\ level[t] = IF pc[t] \in Quiet THEN "ON" ELSE "OFF"
  /\ asleep[t] # NULL => pc[t] = "lock" /\ asleep[t] = arg[t]
  /\ pc[t] \in Working => Gets(t) \/ Puts(t)
  /\ pc[t] \in Pinned => current = t
  /\ pc[t] = "lock" => current = t \/ asleep[t] # NULL
Programs == \A t \in Thread : ProgramOf(t)

(* What the thread that has interrupts off has seen of the queues still    *)
(* holds.                                                                  *)
SeenBy(t) ==
  /\ pc[t] = "poll" => Puts(t) /\ intq_full(txq)
  /\ pc[t] = "lock" /\ asleep[t] = NULL => MustWait(t)
  /\ pc[t] = "move" => ~MustWait(t)
Seen == \A t \in Thread : SeenBy(t)

(* The lock of a queue has one unit, which the thread in wait() has. *)
HasLock(t, q) == pc[t] \in {"wait", "unlock"} /\ arg[t] = q
LockOf(q) ==
  /\ \A t, u \in Thread : HasLock(t, q) /\ HasLock(u, q) => t = u
  /\ value[q] = IF \E t \in Thread : HasLock(t, q) THEN 0 ELSE 1
QueueLocks == \A q \in Queue : LockOf(q)

(* A registered waiter W of queue Q sleeps in operation O. *)
WaitsIn(w, o, q) ==
  w # NULL => op[w] = o /\ arg[w] = q /\ status[w] = "BLOCKED" /\ pc[w] = "unlock"
WaitersOf(q) == /\ WaitsIn(queue[q].not_full, "putc", q)
                /\ WaitsIn(queue[q].not_empty, "getc", q)
Waiters == \A q \in Queue : WaitersOf(q)

(* A sleeper is registered, for as long as it must wait. *)
SleepOf(t) ==
  pc[t] = "unlock" /\ status[t] = "BLOCKED" =>
    /\ MustWait(t)
    /\ op[t] = "getc" => queue[arg[t]].not_empty = t
    /\ op[t] = "putc" => queue[arg[t]].not_full = t
Sleepers == \A t \in Thread : SleepOf(t)

(* Until serial_init_queue() returns main() is alone, and nothing has been *)
(* queued for the UART.                                                    *)
Alone == /\ current = initial_thread /\ ready_list = <<>>
         /\ \A t \in Thread \ {initial_thread} :
              status[t] = "BLOCKED" /\ pc[t] \in {"run", "idle"}
Booting ==
  /\ pc[initial_thread] = "boot" <=> mode # "QUEUE"
  /\ mode # "QUEUE" => intq_empty(txq)
  /\ pc[initial_thread] \in {"boot", "boot_ier"} => Alone

(* write_ier() has been called since the queues changed, or is about to. *)
IerRight ==
  mode = "QUEUE" /\ pc[initial_thread] # "boot_ier" /\ pc[current] # "done" =>
    ier \in {ier_for(queue), ier_for(queue) \cup {"XMIT"}}

Clients == /\ Programs /\ Seen /\ QueueLocks /\ Waiters /\ Sleepers
           /\ Booting /\ IerRight

IInv == TypeOK /\ SchedInv /\ idle_thread = idle /\ Clients

Assumptions == /\ ThreadAssumption /\ TimeSliceAssumption /\ IntQAssumption
               /\ SerialAssumption /\ CountFacts

-----------------------------------------------------------------------------
(* The circular buffer *)

LEMMA NextSlot ==
  ASSUME IntQAssumption, NEW p \in Slot
  PROVE  next(p) \in Slot /\ next(p) # p
         /\ next(p) = IF p = INTQ_BUFSIZE - 1 THEN 0 ELSE p + 1
BY DEF IntQAssumption, Slot, next

LEMMA RemovedFields ==
  ASSUME IntQAssumption, ThreadAssumption, NEW r \in QueueType
  PROVE  /\ Removed(r) \in QueueType
         /\ Removed(r).buf = r.buf /\ Removed(r).head = r.head
         /\ Removed(r).tail = next(r.tail)
         /\ Removed(r).not_full = NULL /\ Removed(r).not_empty = r.not_empty
<1>1. r.tail \in Slot /\ next(r.tail) \in Slot BY Zenon, NextSlot DEF QueueType
<1>2. QED BY Zenon, <1>1 DEF Removed, QueueType

LEMMA AddedFields ==
  ASSUME IntQAssumption, ThreadAssumption, NEW r \in QueueType, NEW b \in Byte
  PROVE  /\ Added(r, b) \in QueueType
         /\ Added(r, b).buf = [r.buf EXCEPT ![r.head] = b]
         /\ Added(r, b).head = next(r.head) /\ Added(r, b).tail = r.tail
         /\ Added(r, b).not_empty = NULL /\ Added(r, b).not_full = r.not_full
<1>1. r.head \in Slot /\ next(r.head) \in Slot BY Zenon, NextSlot DEF QueueType
<1>2. QED BY Zenon, <1>1 DEF Added, QueueType

(* The contents of a queue with record R. *)
Count(r) == (r.head + INTQ_BUFSIZE - r.tail) % INTQ_BUFSIZE
Place(r, i) == (r.tail + i - 1) % INTQ_BUFSIZE
Items(r) == [i \in 1..Count(r) |-> r.buf[Place(r, i)]]

LEMMA WrapAround ==
  ASSUME IntQAssumption, NEW x \in Nat, x < 2 * INTQ_BUFSIZE
  PROVE  x % INTQ_BUFSIZE = IF x < INTQ_BUFSIZE THEN x ELSE x - INTQ_BUFSIZE
BY DEF IntQAssumption

LEMMA CountIs ==
  ASSUME IntQAssumption, NEW r \in QueueType
  PROVE  /\ r.head \in Slot /\ r.tail \in Slot
         /\ Count(r) = IF r.head >= r.tail THEN r.head - r.tail
                       ELSE r.head + INTQ_BUFSIZE - r.tail
         /\ Count(r) \in 0..INTQ_BUFSIZE - 1
<1>1. r.head \in Slot /\ r.tail \in Slot BY Zenon DEF QueueType
<1>2. INTQ_BUFSIZE \in Nat /\ INTQ_BUFSIZE > 1 BY DEF IntQAssumption
<1>3. /\ r.head + INTQ_BUFSIZE - r.tail \in Nat
      /\ r.head + INTQ_BUFSIZE - r.tail < 2 * INTQ_BUFSIZE
  BY <1>1, <1>2 DEF Slot
<1>4. QED BY <1>1, <1>2, <1>3, WrapAround DEF Slot, Count

LEMMA PlaceIs ==
  ASSUME IntQAssumption, NEW r \in QueueType, NEW i \in 1..INTQ_BUFSIZE
  PROVE  /\ Place(r, i) = IF r.tail + i - 1 < INTQ_BUFSIZE THEN r.tail + i - 1
                          ELSE r.tail + i - 1 - INTQ_BUFSIZE
         /\ Place(r, i) \in Slot
<1>1. r.tail \in Slot /\ INTQ_BUFSIZE \in Nat /\ INTQ_BUFSIZE > 1
  BY DEF QueueType, IntQAssumption
<1>2. r.tail + i - 1 \in Nat /\ r.tail + i - 1 < 2 * INTQ_BUFSIZE BY <1>1 DEF Slot
<1>3. QED BY <1>1, <1>2, WrapAround DEF Slot, Place

LEMMA ItemsAre ==
  ASSUME IntQAssumption, NEW r \in QueueType
  PROVE  /\ Items(r) \in Seq(Byte \cup {NULL}) /\ Len(Items(r)) = Count(r)
         /\ \A i \in 1..Count(r) : Items(r)[i] = r.buf[Place(r, i)]
         /\ Items(r) = <<>> <=> r.head = r.tail
<1>1. Count(r) \in Nat /\ Count(r) <= INTQ_BUFSIZE BY CountIs DEF IntQAssumption
<1>2. INTQ_BUFSIZE \in Nat BY Zenon DEF IntQAssumption
<1>3. \A i \in 1..Count(r) : i \in 1..INTQ_BUFSIZE BY <1>1, <1>2
<1>4. \A i \in 1..Count(r) : r.buf[Place(r, i)] \in Byte \cup {NULL}
  BY Zenon, <1>3, PlaceIs DEF QueueType
<1>5. Items(r) \in Seq(Byte \cup {NULL}) /\ Len(Items(r)) = Count(r)
  BY <1>1, <1>4 DEF Items
<1>6. Count(r) = 0 <=> r.head = r.tail BY CountIs DEF Slot, IntQAssumption
<1>7. Items(r) = <<>> <=> Len(Items(r)) = 0 BY <1>5
<1>8. QED BY Zenon, <1>5, <1>6, <1>7 DEF Items

(* A byte is added at the end. *)
LEMMA AddedItems ==
  ASSUME IntQAssumption, ThreadAssumption, NEW r \in QueueType, NEW b \in Byte,
         next(r.head) # r.tail
  PROVE  Items(Added(r, b)) = Append(Items(r), b)
<1> DEFINE a == Added(r, b)
           n == Count(r)
<1>1. /\ a \in QueueType /\ a.buf = [r.buf EXCEPT ![r.head] = b]
      /\ a.head = next(r.head) /\ a.tail = r.tail
  BY Zenon, AddedFields
<1>2. /\ r.head \in Slot /\ r.tail \in Slot /\ INTQ_BUFSIZE \in Nat
      /\ INTQ_BUFSIZE > 1 /\ n \in Nat /\ n < INTQ_BUFSIZE
      /\ n = IF r.head >= r.tail THEN r.head - r.tail
             ELSE r.head + INTQ_BUFSIZE - r.tail
  BY CountIs DEF IntQAssumption
<1>3. next(r.head) = IF r.head = INTQ_BUFSIZE - 1 THEN 0 ELSE r.head + 1
  BY Zenon, <1>2, NextSlot
<1> HIDE DEF a, n
<1>4. Count(a) = n + 1
  <2>1. Count(a) = IF a.head >= a.tail THEN a.head - a.tail
                   ELSE a.head + INTQ_BUFSIZE - a.tail
    BY Zenon, <1>1, CountIs
  <2>2. QED BY <1>1, <1>2, <1>3, <2>1 DEF Slot
<1>5. \A i \in 1..n + 1 : Place(a, i) = Place(r, i) BY Zenon, <1>1 DEF Place
<1>6. Place(r, n + 1) = r.head
  <2>1. n + 1 \in 1..INTQ_BUFSIZE BY <1>2
  <2>2. Place(r, n + 1) = IF r.tail + n < INTQ_BUFSIZE THEN r.tail + n
                          ELSE r.tail + n - INTQ_BUFSIZE
    BY <1>2, <2>1, PlaceIs DEF Slot
  <2>3. QED BY <1>2, <2>2 DEF Slot
<1>7. ASSUME NEW i \in 1..n PROVE Place(r, i) \in Slot /\ Place(r, i) # r.head
  <2>1. i \in 1..INTQ_BUFSIZE BY <1>2
  <2>2. Place(r, i) = IF r.tail + i - 1 < INTQ_BUFSIZE THEN r.tail + i - 1
                          ELSE r.tail + i - 1 - INTQ_BUFSIZE
    BY Zenon, <2>1, PlaceIs
  <2>3. Place(r, i) \in Slot BY Zenon, <2>1, PlaceIs
  <2>4. QED BY <1>2, <2>2, <2>3 DEF Slot
<1>8. r.buf \in [Slot -> Byte \cup {NULL}] BY Zenon DEF QueueType
<1>9. /\ \A i \in 1..n : a.buf[Place(a, i)] = r.buf[Place(r, i)]
      /\ a.buf[Place(a, n + 1)] = b
  <2>1. n + 1 \in 1..n + 1 /\ \A i \in 1..n : i \in 1..n + 1 BY <1>2
  <2>2. QED BY <1>1, <1>2, <1>5, <1>6, <1>7, <1>8, <2>1
<1>10. /\ Items(a) \in Seq(Byte \cup {NULL}) /\ Len(Items(a)) = n + 1
       /\ \A i \in 1..n + 1 : Items(a)[i] = a.buf[Place(a, i)]
  BY Zenon, <1>1, <1>4, ItemsAre
<1>11. /\ Items(r) \in Seq(Byte \cup {NULL}) /\ Len(Items(r)) = n
       /\ \A i \in 1..n : Items(r)[i] = r.buf[Place(r, i)]
  BY Zenon, ItemsAre DEF n
<1>12. \A i \in 1..n : Items(a)[i] = Items(r)[i]
  <2>1. \A i \in 1..n : i \in 1..n + 1 BY <1>2
  <2>2. QED BY Zenon, <1>9, <1>10, <1>11, <2>1
<1>13. Items(a)[n + 1] = b
  <2>1. n + 1 \in 1..n + 1 BY <1>2
  <2>2. QED BY Zenon, <1>9, <1>10, <2>1
<1>14. Append(Items(r), b) \in Seq(Byte \cup {NULL})
       /\ Len(Append(Items(r), b)) = n + 1
       /\ \A i \in 1..n : Append(Items(r), b)[i] = Items(r)[i]
       /\ Append(Items(r), b)[n + 1] = b
  BY <1>2, <1>11
<1>15. \A i \in 1..n + 1 : Items(a)[i] = Append(Items(r), b)[i]
  <2>1. \A i \in 1..n + 1 : i \in 1..n \/ i = n + 1 BY <1>2
  <2>2. QED BY <1>12, <1>13, <1>14, <2>1
<1>16. Items(a) = Append(Items(r), b) BY <1>10, <1>14, <1>15
<1>17. QED BY Zenon, <1>16 DEF a

(* The oldest byte is removed. *)
LEMMA RemovedItems ==
  ASSUME IntQAssumption, ThreadAssumption, NEW r \in QueueType, r.head # r.tail
  PROVE  /\ Items(r) # <<>> /\ FirstByte(r) = Head(Items(r))
         /\ Items(Removed(r)) = Tail(Items(r))
         /\ next(Removed(r).head) # Removed(r).tail
<1> DEFINE a == Removed(r)
           n == Count(r)
<1>1. /\ a \in QueueType /\ a.buf = r.buf
      /\ a.head = r.head /\ a.tail = next(r.tail)
  BY Zenon, RemovedFields
<1>2. /\ r.head \in Slot /\ r.tail \in Slot /\ INTQ_BUFSIZE \in Nat
      /\ INTQ_BUFSIZE > 1 /\ n \in Nat /\ n < INTQ_BUFSIZE
      /\ n = IF r.head >= r.tail THEN r.head - r.tail
             ELSE r.head + INTQ_BUFSIZE - r.tail
  BY CountIs DEF IntQAssumption
<1>3. /\ next(r.tail) = IF r.tail = INTQ_BUFSIZE - 1 THEN 0 ELSE r.tail + 1
      /\ next(r.head) = IF r.head = INTQ_BUFSIZE - 1 THEN 0 ELSE r.head + 1
  BY Zenon, <1>2, NextSlot
<1> HIDE DEF a, n
<1>4. n > 0 /\ Count(a) = n - 1
  <2>1. Count(a) = IF a.head >= a.tail THEN a.head - a.tail
                   ELSE a.head + INTQ_BUFSIZE - a.tail
    BY Zenon, <1>1, CountIs
  <2>2. n > 0 BY <1>2 DEF Slot
  <2>3. CASE r.tail = INTQ_BUFSIZE - 1
    BY <1>1, <1>2, <1>3, <2>1, <2>3 DEF Slot
  <2>4. CASE r.tail # INTQ_BUFSIZE - 1
    BY <1>1, <1>2, <1>3, <2>1, <2>4 DEF Slot
  <2>5. QED BY Zenon, <2>2, <2>3, <2>4
<1>5. ASSUME NEW i \in 1..n - 1 PROVE Place(a, i) = Place(r, i + 1)
  <2>1. i \in 1..INTQ_BUFSIZE /\ i + 1 \in 1..INTQ_BUFSIZE BY <1>2
  <2>2. Place(a, i) = IF a.tail + i - 1 < INTQ_BUFSIZE THEN a.tail + i - 1
                      ELSE a.tail + i - 1 - INTQ_BUFSIZE
    BY Zenon, <1>1, <2>1, PlaceIs
  <2>3. Place(r, i + 1) = IF r.tail + i < INTQ_BUFSIZE THEN r.tail + i
                          ELSE r.tail + i - INTQ_BUFSIZE
    <3>1. r.tail + (i + 1) - 1 = r.tail + i BY <1>2 DEF Slot
    <3>2. QED BY <2>1, <3>1, PlaceIs
  <2>4. QED BY <1>1, <1>2, <1>3, <2>2, <2>3 DEF Slot
<1>6. Place(r, 1) = r.tail
  <2>1. 1 \in 1..INTQ_BUFSIZE BY <1>2
  <2>2. QED BY <1>2, <2>1, PlaceIs DEF Slot
<1>7. /\ Items(r) \in Seq(Byte \cup {NULL}) /\ Len(Items(r)) = n
      /\ \A i \in 1..n : Items(r)[i] = r.buf[Place(r, i)]
  BY Zenon, ItemsAre DEF n
<1>8. /\ Items(a) \in Seq(Byte \cup {NULL}) /\ Len(Items(a)) = n - 1
      /\ \A i \in 1..n - 1 : Items(a)[i] = a.buf[Place(a, i)]
  BY Zenon, <1>1, <1>4, ItemsAre
<1>9. Items(r) # <<>> /\ Head(Items(r)) = r.buf[r.tail]
  <2>1. Items(r) # <<>> BY <1>4, <1>7
  <2>2. 1 \in 1..n BY <1>2, <1>4
  <2>3. Head(Items(r)) = Items(r)[1] BY <1>7, <2>1
  <2>4. QED BY Zenon, <1>6, <1>7, <2>1, <2>2, <2>3
<1>10. /\ Tail(Items(r)) \in Seq(Byte \cup {NULL}) /\ Len(Tail(Items(r))) = n - 1
       /\ \A i \in 1..n - 1 : Tail(Items(r))[i] = Items(r)[i + 1]
  BY <1>7, <1>9
<1>11. ASSUME NEW i \in 1..n - 1 PROVE Items(a)[i] = Tail(Items(r))[i]
  <2>1. i + 1 \in 1..n BY <1>2
  <2>2. Items(r)[i + 1] = r.buf[Place(r, i + 1)] BY Zenon, <1>7, <2>1
  <2>3. Items(a)[i] = r.buf[Place(r, i + 1)] BY Zenon, <1>1, <1>5, <1>8
  <2>4. QED BY Zenon, <1>10, <2>2, <2>3
<1>12. Items(a) = Tail(Items(r)) BY <1>8, <1>10, <1>11
<1>13. next(a.head) # a.tail BY <1>1, <1>2, <1>3 DEF Slot
<1>14. QED BY Zenon, <1>9, <1>12, <1>13 DEF FirstByte, a

-----------------------------------------------------------------------------
(* The scheduler *)

LEMMA LevelStep ==
  ASSUME SchedInv, UNCHANGED sched_but_level, level' \in [Thread -> Level]
  PROVE  SchedInv'
BY DEF SchedInv, SchedTypeOK, OneRunning, ReadyListExact, WaitersBlocked,
       NoLostWakeup, Woken, sched_but_level

(* signal() of waiters that sleep, but not in a sema_down(). *)
LEMMA SignalStep ==
  ASSUME ThreadAssumption, SchedInv, NEW v \in Thread \cup {NULL},
         NEW w \in Thread \cup {NULL}, v # NULL => v # w,
         \A t \in Thread : t \in {v, w} =>
           status[t] = "BLOCKED" /\ asleep[t] = NULL /\ t # idle_thread,
         signal(v, w)
  PROVE  /\ SchedInv'
         /\ \A t \in Thread : status'[t] = IF t \in {v, w} THEN "READY" ELSE status[t]
<1> USE DEF SchedInv
<1> DEFINE l == Unblocked(ready_list, v)
<1>1. /\ ready_list' = Unblocked(l, w)
      /\ status' = [t \in Thread |-> IF t \in {v, w} THEN "READY" ELSE status[t]]
      /\ UNCHANGED <<current, idle_thread, thread_ticks, level, asleep, value, waiters>>
  BY Zenon DEF signal
<1>2. /\ status' \in [Thread -> Status]
      /\ \A t \in Thread : status'[t] = IF t \in {v, w} THEN "READY" ELSE status[t]
  BY Zenon, <1>1 DEF SchedTypeOK, Status
<1>3. v \notin InList(ready_list) /\ w \notin InList(ready_list)
  BY Zenon DEF ReadyListExact, ThreadAssumption
<1>4. /\ l \in Seq(Thread) /\ NoDup(l)
      /\ InList(l) = InList(ready_list) \cup ({v} \ {NULL})
  BY <1>3, PushBack DEF Unblocked, SchedTypeOK, ReadyListExact
<1>5. w # NULL => w \notin InList(l) BY Zenon, <1>3, <1>4
<1> HIDE DEF l
<1>6. /\ ready_list' \in Seq(Thread) /\ NoDup(ready_list')
      /\ InList(ready_list') = InList(l) \cup ({w} \ {NULL})
  BY <1>1, <1>4, <1>5, PushBack DEF Unblocked
<1>7. InList(ready_list') = {t \in Thread : status'[t] = "READY" /\ t # idle_thread}
  <2>1. InList(ready_list') = InList(ready_list) \cup ({v, w} \ {NULL})
    BY Zenon, <1>4, <1>6
  <2>2. QED BY <1>2, <2>1 DEF ReadyListExact, ThreadAssumption
<1>8. SchedTypeOK' BY Zenon, <1>1, <1>2, <1>6 DEF SchedTypeOK
<1>9. OneRunning' BY Zenon, <1>1, <1>2 DEF OneRunning
<1>10. ReadyListExact' BY Zenon, <1>1, <1>6, <1>7 DEF ReadyListExact
<1>11. \A t \in Thread : asleep[t] # NULL =>
                            (status'[t] = "BLOCKED" <=> status[t] = "BLOCKED")
  BY Zenon, <1>2
<1>12. WaitersBlocked' BY Zenon, <1>1, <1>11 DEF WaitersBlocked, ThreadAssumption
<1>13. NoLostWakeup' BY Zenon, <1>1, <1>11, WokenUnchanged
<1>14. QED BY Zenon, <1>1, <1>2, <1>8, <1>9, <1>10, <1>12, <1>13

LEMMA HeadReady ==
  ASSUME SchedInv, ready_list # <<>>
  PROVE  Head(ready_list) \in Thread /\ status[Head(ready_list)] = "READY"
<1>1. Head(ready_list) \in InList(ready_list)
  BY Zenon, PopFront DEF SchedInv, SchedTypeOK, ReadyListExact
<1>2. QED BY Zenon, <1>1 DEF SchedInv, ReadyListExact

(* Who is blocked after a thread has blocked. *)
LEMMA BlockSwitch ==
  ASSUME SchedInv, idle_thread = idle, thread_block
  PROVE  \A t \in Thread \ {idle} :
           status'[t] = "BLOCKED" <=> status[t] = "BLOCKED" \/ t = current
<1> USE DEF SchedInv
<1> DEFINE st == [status EXCEPT ![current] = "BLOCKED"]
           nxt == next_thread_to_run(ready_list)
<1>1. status' = thread_schedule_tail(st, nxt) BY Zenon DEF thread_block, schedule
<1>2. \A t \in Thread : st[t] = IF t = current THEN "BLOCKED" ELSE status[t]
  BY Zenon DEF SchedTypeOK
<1>3. nxt = idle \/ (nxt \in Thread /\ status[nxt] = "READY")
  BY Zenon, HeadReady DEF next_thread_to_run
<1>4. nxt = idle \/ (nxt # current /\ status[nxt] = "READY") BY Zenon, <1>3 DEF OneRunning
<1> HIDE DEF st, nxt
<1>5. \A t \in Thread : status'[t] =
         IF t = nxt THEN "RUNNING"
         ELSE IF t = current /\ st[t] = "DYING" /\ t # initial_thread THEN "FREE"
         ELSE st[t]
  BY Zenon, <1>1 DEF thread_schedule_tail
<1>6. QED BY Zenon, <1>2, <1>4, <1>5

(* Who is blocked after a tick; a thread that is alone goes on. *)
LEMMA TickSwitch ==
  ASSUME SchedInv, idle_thread = idle, thread_tick
  PROVE  /\ \A t \in Thread \ {idle} : status'[t] = "BLOCKED" <=> status[t] = "BLOCKED"
         /\ ready_list = <<>> /\ current # idle =>
              /\ current' = current /\ ready_list' = <<>>
              /\ \A t \in Thread : status'[t] = status[t]
<1> USE DEF SchedInv
<1>1. CASE UNCHANGED <<status, ready_list, current>> BY Zenon, <1>1
<1>2. CASE thread_yield
  <2> DEFINE st == [status EXCEPT ![current] = "READY"]
             rl == IF current # idle THEN Append(ready_list, current) ELSE ready_list
             nxt == next_thread_to_run(rl)
  <2>1. /\ status' = thread_schedule_tail(st, nxt) /\ current' = nxt
        /\ ready_list' = IF rl = <<>> THEN rl ELSE Tail(rl)
    BY Zenon, <1>2 DEF thread_yield, schedule
  <2>2. \A t \in Thread : st[t] = IF t = current THEN "READY" ELSE status[t]
    BY Zenon DEF SchedTypeOK
  <2>3. nxt = idle \/ nxt = current \/ (nxt \in Thread /\ status[nxt] = "READY")
    <3>1. CASE current # idle
      <4>1. rl \in Seq(Thread) /\ rl # <<>> /\ NoDup(rl)
            /\ InList(rl) = InList(ready_list) \cup {current}
        <5>1. /\ ready_list \in Seq(Thread) /\ current \in Thread
              /\ NoDup(ready_list) /\ current \notin InList(ready_list)
          BY Zenon DEF SchedTypeOK, ReadyListExact, OneRunning
        <5>2. rl = Append(ready_list, current) BY Zenon, <3>1
        <5> HIDE DEF rl
        <5>3. QED BY <5>1, <5>2, PushBack
      <4>2. Head(rl) \in InList(ready_list) \cup {current} BY Zenon, <4>1, PopFront
      <4>3. QED BY Zenon, <4>1, <4>2 DEF next_thread_to_run, ReadyListExact
    <3>2. CASE current = idle BY Zenon, <3>2, HeadReady DEF next_thread_to_run
    <3>3. QED BY Zenon, <3>1, <3>2
  <2>4. ready_list = <<>> /\ current # idle => rl = <<current>> /\ nxt = current
    BY DEF next_thread_to_run
  <2>5. ready_list = <<>> /\ current # idle => ready_list' = <<>>
    BY <2>1, <2>4
  <2> HIDE DEF st, nxt, rl
  <2>6. \A t \in Thread : status'[t] =
           IF t = nxt THEN "RUNNING"
           ELSE IF t = current /\ st[t] = "DYING" /\ t # initial_thread THEN "FREE"
           ELSE st[t]
    BY Zenon, <2>1 DEF thread_schedule_tail
  <2>7. \A t \in Thread \ {idle} : status'[t] = "BLOCKED" <=> status[t] = "BLOCKED"
    BY Zenon, <2>2, <2>3, <2>6 DEF OneRunning
  <2>8. ready_list = <<>> /\ current # idle =>
              current' = current /\ \A t \in Thread : status'[t] = status[t]
    BY Zenon, <2>1, <2>2, <2>4, <2>6 DEF OneRunning
  <2>9. QED BY Zenon, <2>5, <2>7, <2>8
<1>3. QED BY Zenon, <1>1, <1>2 DEF thread_tick

-----------------------------------------------------------------------------
(* Steps of threads that leave the queues alone *)

LEMMA LocksKept ==
  ASSUME QueueLocks, value' = value,
         \A t \in Thread, q \in Queue : HasLock(t, q)' <=> HasLock(t, q)
  PROVE  QueueLocks'
<1> SUFFICES ASSUME NEW q \in Queue PROVE LockOf(q)' BY Zenon DEF QueueLocks
<1>1. LockOf(q) BY Zenon DEF QueueLocks
<1>2. (\E t \in Thread : HasLock(t, q)') <=> (\E t \in Thread : HasLock(t, q))
  BY Zenon
<1>3. \A t, u \in Thread : HasLock(t, q)' /\ HasLock(u, q)' => t = u
  BY Zenon, <1>1 DEF LockOf
<1>4. QED BY Zenon, <1>1, <1>2, <1>3 DEF LockOf

(* Once main() has left serial_init_queue() it does not come back. *)
LEMMA Booted ==
  ASSUME Assumptions, TypeOK, Booting, NEW t \in Thread, current = t,
         pc[t] \notin {"boot", "boot_ier"}
  PROVE  pc[initial_thread] \notin {"boot", "boot_ier"} /\ mode = "QUEUE"
BY Zenon DEF Booting, Alone

LEMMA BootKept ==
  ASSUME Assumptions, TypeOK, Booting, NEW t \in Thread, current = t,
         pc[t] \notin {"boot", "boot_ier"},
         NEW x \in PC \ {"boot", "boot_ier"}, pc' = [pc EXCEPT ![t] = x],
         UNCHANGED mode
  PROVE  Booting'
<1>1. pc[initial_thread] \notin {"boot", "boot_ier"} /\ mode = "QUEUE" BY Zenon, Booted
<1>2. pc'[initial_thread] \notin {"boot", "boot_ier"}
  BY Zenon, <1>1 DEF TypeOK, Assumptions, ThreadAssumption
<1>3. QED BY Zenon, <1>1, <1>2 DEF Booting

LEMMA IerKept ==
  ASSUME IerRight, UNCHANGED <<mode, ier, queue>>, pc[current] # "done",
         pc'[initial_thread] # "boot_ier" => pc[initial_thread] # "boot_ier"
  PROVE  IerRight'
BY Zenon DEF IerRight, ier_for, next

(* A registered waiter is a sleeping thread, and in one register only. *)
LEMMA Registers ==
  ASSUME Assumptions, TypeOK, Waiters, NEW q \in Queue
  PROVE  /\ queue[q].not_full \in Thread \cup {NULL}
         /\ queue[q].not_empty \in Thread \cup {NULL}
         /\ WaitsIn(queue[q].not_full, "putc", q)
         /\ WaitsIn(queue[q].not_empty, "getc", q)
         /\ queue[q].not_full # NULL => queue[q].not_full # queue[q].not_empty
         /\ \A p \in Queue : p # q =>
              /\ queue[q].not_full # NULL =>
                   queue[q].not_full \notin {queue[p].not_full, queue[p].not_empty}
              /\ queue[q].not_empty # NULL =>
                   queue[q].not_empty \notin {queue[p].not_full, queue[p].not_empty}
<1>1. \A p \in Queue : /\ WaitsIn(queue[p].not_full, "putc", p)
                       /\ WaitsIn(queue[p].not_empty, "getc", p)
  BY Zenon DEF Waiters, WaitersOf
<1>2. queue[q] \in QueueType BY Zenon DEF TypeOK, IntQTypeOK
<1>3. /\ queue[q].not_full \in Thread \cup {NULL}
      /\ queue[q].not_empty \in Thread \cup {NULL}
  BY Zenon, <1>2 DEF QueueType
<1>4. QED BY <1>1, <1>3 DEF WaitsIn

(* So a registered thread is blocked in intq_wait(). *)
LEMMA WaiterBlocked ==
  ASSUME Assumptions, TypeOK, Waiters, NEW q \in Queue,
         NEW w \in {queue[q].not_full, queue[q].not_empty}, w # NULL
  PROVE  w \in Thread /\ pc[w] = "unlock" /\ status[w] = "BLOCKED"
<1>1. /\ queue[q].not_full \in Thread \cup {NULL}
      /\ queue[q].not_empty \in Thread \cup {NULL}
      /\ WaitsIn(queue[q].not_full, "putc", q)
      /\ WaitsIn(queue[q].not_empty, "getc", q)
  BY Zenon, Registers
<1>2. QED BY Zenon, <1>1 DEF WaitsIn

LEMMA LocalStep ==
  ASSUME Assumptions, IInv, TypeOK', NEW t \in Thread, Running(t),
         pc[t] \notin {"boot", "boot_ier", "idle", "wait", "unlock"},
         NEW x \in {"run", "test", "lock", "move", "done", "poll", "flush"},
         pc' = [pc EXCEPT ![t] = x],
         UNCHANGED <<sched_but_level, queue, mode>>,
         level'[t] = IF x = "run" THEN "ON" ELSE "OFF",
         \A u \in Thread \ {t} : /\ level'[u] = level[u] /\ op'[u] = op[u]
                                 /\ arg'[u] = arg[u] /\ byte'[u] = byte[u],
         x \in Working => (Gets(t) \/ Puts(t))',
         SeenBy(t)'
  PROVE  /\ SchedInv' /\ Programs' /\ Seen' /\ QueueLocks' /\ Waiters' /\ Sleepers'
         /\ Booting'
<1> USE DEF IInv, Clients
<1>1. /\ current = t /\ asleep[t] = NULL /\ status[t] = "RUNNING"
      /\ UNCHANGED <<status, current, asleep, value>>
  BY Zenon DEF Running, SchedInv, OneRunning, sched_but_level
<1>2. pc'[t] = x /\ \A u \in Thread \ {t} : pc'[u] = pc[u] BY Zenon DEF TypeOK
<1>3. SchedInv'
  <2>1. level' \in [Thread -> Level] BY Zenon DEF TypeOK, SchedTypeOK
  <2>2. QED BY Zenon, <2>1, LevelStep
<1>4. ASSUME NEW u \in Thread PROVE ProgramOf(u)'
  <2>1. ProgramOf(u) BY Zenon DEF Programs
  <2>2. CASE u = t
    <3>1. t # idle /\ x # "idle" BY Zenon, <2>1, <2>2 DEF ProgramOf
    <3>2. QED BY Zenon, <1>1, <1>2, <2>2, <3>1 DEF ProgramOf, Quiet, Working
  <2>3. CASE u # t
    BY Zenon, <1>1, <1>2, <2>1, <2>3 DEF ProgramOf, Gets, Puts
  <2>4. QED BY Zenon, <2>2, <2>3
<1>5. ASSUME NEW u \in Thread PROVE SeenBy(u)'
  <2>1. CASE u = t BY ZenonT(60), <2>1
  <2>2. CASE u # t
    <3>1. SeenBy(u) BY Zenon DEF Seen
    <3>2. QED BY ZenonT(60), <1>1, <1>2, <2>2, <3>1 DEF SeenBy, Puts, MustWait, intq_full, intq_empty
  <2>3. QED BY Zenon, <2>1, <2>2
<1>6. \A u \in Thread, q \in Queue : HasLock(u, q)' <=> HasLock(u, q)
  BY Zenon, <1>2 DEF HasLock
<1>7. QueueLocks' BY ZenonT(60), <1>1, <1>6, LocksKept
<1>8. ASSUME NEW q \in Queue PROVE WaitersOf(q)'
  <2>1. \A w \in {queue[q].not_full, queue[q].not_empty} : w # NULL =>
           w \in Thread \ {t}
    BY Zenon, <1>1, WaiterBlocked
  <2>2. WaitersOf(q) BY Zenon DEF Waiters
  <2>3. QED BY ZenonT(60), <1>1, <1>2, <2>1, <2>2 DEF WaitersOf, WaitsIn
<1>9. ASSUME NEW u \in Thread PROVE SleepOf(u)'
  <2>1. SleepOf(u) BY Zenon DEF Sleepers
  <2>2. CASE u = t BY Zenon, <1>2, <2>2 DEF SleepOf
  <2>3. CASE u # t
    BY Zenon, <1>1, <1>2, <2>1, <2>3 DEF SleepOf, MustWait, intq_full, intq_empty
  <2>4. QED BY Zenon, <2>2, <2>3
<1>10. Booting'
  <2>1. x \in PC \ {"boot", "boot_ier"} BY Zenon DEF PC
  <2>2. QED BY Zenon, <1>1, <2>1, BootKept
<1>11. QED BY Zenon, <1>3, <1>4, <1>5, <1>7, <1>8, <1>9, <1>10
           DEF Programs, Seen, Waiters, Sleepers

(* The calls, the test of the loop, and the returns. *)
LEMMA CallStep ==
  ASSUME Assumptions, IInv, NEW t \in Thread,
         input_getc(t) \/ serial_putc(t) \/ serial_flush(t)
  PROVE  TypeOK' /\ SchedInv' /\ Clients'
<1> USE DEF IInv, Clients
<1>1. /\ Running(t) /\ pc[t] = "run" /\ current = t /\ asleep[t] = NULL
      /\ level' = [level EXCEPT ![t] = "OFF"]
      /\ UNCHANGED <<sched_but_level, queue, uart_vars>>
  BY Zenon DEF input_getc, serial_putc, serial_flush, At, Running, intr_disable, intq_vars
<1>2. PICK x \in {"test", "poll", "flush"} :
        /\ pc' = [pc EXCEPT ![t] = x]
        /\ \/ /\ x = "test" /\ t \in Reader /\ op' = [op EXCEPT ![t] = "getc"]
              /\ arg' = [arg EXCEPT ![t] = buffer] /\ byte' = byte
           \/ /\ x \in {"test", "poll"} /\ t \in Writer
              /\ op' = [op EXCEPT ![t] = "putc"] /\ arg' = [arg EXCEPT ![t] = txq]
              /\ \E b \in Byte : byte' = [byte EXCEPT ![t] = b]
              /\ x = "poll" => intq_full(txq)
           \/ x = "flush" /\ UNCHANGED <<op, arg, byte>>
  <2>1. CASE input_getc(t) BY Zenon, <2>1 DEF input_getc, Goto
  <2>2. CASE serial_putc(t) BY Zenon, <2>2 DEF serial_putc, Goto
  <2>3. CASE serial_flush(t) BY Zenon, <2>3 DEF serial_flush, Goto, intq_vars
  <2>4. QED BY Zenon, <2>1, <2>2, <2>3
<1>3. buffer \in Queue /\ txq \in Queue BY Zenon DEF Assumptions, SerialAssumption
<1>4. /\ level' \in [Thread -> Level] /\ level'[t] = "OFF"
      /\ \A u \in Thread \ {t} : level'[u] = level[u]
  BY Zenon, <1>1 DEF TypeOK, SchedTypeOK, Level
<1>5. /\ op' \in [Thread -> {"getc", "putc"}] /\ arg' \in [Thread -> Queue]
      /\ byte' \in [Thread -> Byte \cup {NULL}]
      /\ \A u \in Thread \ {t} : op'[u] = op[u] /\ arg'[u] = arg[u] /\ byte'[u] = byte[u]
      /\ x \in Working => (Gets(t) \/ Puts(t))'
      /\ x = "poll" => Puts(t)' /\ intq_full(txq)
  BY <1>2, <1>3 DEF TypeOK, IntQTypeOK, Gets, Puts, Working
<1>6. pc' \in [Thread -> PC] /\ pc'[t] = x BY Zenon, <1>2 DEF TypeOK, PC
<1>7. TypeOK'
  <2>1. SchedTypeOK' BY Zenon, <1>1, <1>4 DEF TypeOK, SchedTypeOK, sched_but_level
  <2>2. IntQTypeOK' BY Zenon, <1>1, <1>5 DEF TypeOK, IntQTypeOK
  <2>3. QED BY Zenon, <1>1, <1>6, <2>1, <2>2 DEF TypeOK, uart_vars
<1>8. SeenBy(t)'
  <2>1. intq_full(txq)' <=> intq_full(txq) BY Zenon, <1>1 DEF intq_full
  <2>2. QED BY Zenon, <1>5, <1>6, <2>1 DEF SeenBy
<1>9. UNCHANGED mode BY Zenon, <1>1 DEF uart_vars
<1>10. /\ SchedInv' /\ Programs' /\ Seen' /\ QueueLocks' /\ Waiters' /\ Sleepers'
       /\ Booting'
  <2>1. /\ x \in {"run", "test", "lock", "move", "done", "poll", "flush"}
        /\ pc[t] \notin {"boot", "boot_ier", "idle", "wait", "unlock"}
        /\ level'[t] = IF x = "run" THEN "ON" ELSE "OFF"
    BY Zenon, <1>1, <1>4
  <2>2. /\ Running(t) /\ pc' = [pc EXCEPT ![t] = x]
        /\ UNCHANGED <<sched_but_level, queue, mode>>
        /\ \A u \in Thread \ {t} : /\ level'[u] = level[u] /\ op'[u] = op[u]
                                   /\ arg'[u] = arg[u] /\ byte'[u] = byte[u]
        /\ x \in Working => (Gets(t) \/ Puts(t))'
    BY Zenon, <1>1, <1>2, <1>4, <1>5, <1>9
  <2>3. QED BY Zenon, <1>7, <1>8, <2>1, <2>2, LocalStep
<1>11. IerRight'
  <2>1. pc'[initial_thread] # "boot_ier" => pc[initial_thread] # "boot_ier"
    BY <1>1, <1>2 DEF TypeOK
  <2>2. UNCHANGED <<mode, ier, queue>> /\ pc[current] # "done" BY Zenon, <1>1 DEF uart_vars
  <2>3. QED BY Zenon, <2>1, <2>2, IerKept
<1>12. QED BY Zenon, <1>7, <1>10, <1>11

LEMMA TestStep ==
  ASSUME Assumptions, IInv, NEW t \in Thread, IntqTest(t), UNCHANGED uart_vars
  PROVE  TypeOK' /\ SchedInv' /\ Clients'
<1> USE DEF IInv, Clients
<1> DEFINE x == IF MustWait(t) THEN "lock" ELSE "move"
<1>1. /\ Running(t) /\ pc[t] = "test" /\ current = t /\ asleep[t] = NULL
      /\ pc' = [pc EXCEPT ![t] = x]
      /\ UNCHANGED <<sched_but_level, level, queue, op, arg, byte, mode, ier, rbr, thr>>
  BY Zenon DEF IntqTest, At, Running, Goto, sched_vars, sched_but_level, intq_vars, uart_vars
<1>2. MustWait(t)' <=> MustWait(t)
  BY Zenon, <1>1 DEF MustWait, intq_empty, intq_full
<1>3. x \in {"lock", "move"} /\ (x = "lock" <=> MustWait(t)) BY Zenon
<1> HIDE DEF x
<1>4. pc' \in [Thread -> PC] /\ pc'[t] = x BY Zenon, <1>1, <1>3 DEF TypeOK, PC
<1>5. ProgramOf(t) BY Zenon DEF Programs
<1>6. level[t] = "OFF" /\ (Gets(t) \/ Puts(t))'
  BY Zenon, <1>1, <1>5 DEF ProgramOf, Quiet, Working, Gets, Puts
<1>7. TypeOK'
  <2>1. SchedTypeOK' BY Zenon, <1>1 DEF TypeOK, SchedTypeOK, sched_but_level
  <2>2. IntQTypeOK' BY Zenon, <1>1 DEF TypeOK, IntQTypeOK
  <2>3. QED BY Zenon, <1>1, <1>4, <2>1, <2>2 DEF TypeOK
<1>8. SeenBy(t)' BY Zenon, <1>2, <1>3, <1>4 DEF SeenBy
<1>9. /\ SchedInv' /\ Programs' /\ Seen' /\ QueueLocks' /\ Waiters' /\ Sleepers'
      /\ Booting'
  <2>1. /\ x \in {"run", "test", "lock", "move", "done", "poll", "flush"}
        /\ pc[t] \notin {"boot", "boot_ier", "idle", "wait", "unlock"}
        /\ level'[t] = IF x = "run" THEN "ON" ELSE "OFF"
    BY Zenon, <1>1, <1>3, <1>6
  <2>2. QED BY Zenon, <1>1, <1>6, <1>7, <1>8, <2>1, LocalStep
<1>10. IerRight'
  <2>1. pc'[initial_thread] # "boot_ier" => pc[initial_thread] # "boot_ier"
    BY <1>1 DEF TypeOK
  <2>2. QED BY Zenon, <1>1, <2>1, IerKept
<1>11. QED BY Zenon, <1>7, <1>9, <1>10

LEMMA ReturnStep ==
  ASSUME Assumptions, IInv, NEW t \in Thread,
         Done(t) \/ (FlushLoop(t) /\ intq_empty(txq))
  PROVE  TypeOK' /\ SchedInv' /\ Clients'
<1> USE DEF IInv, Clients
<1>1. /\ Running(t) /\ pc[t] \in {"done", "flush"} /\ current = t /\ asleep[t] = NULL
      /\ pc' = [pc EXCEPT ![t] = "run"] /\ level' = [level EXCEPT ![t] = "ON"]
      /\ byte' \in {byte, [byte EXCEPT ![t] = NULL]}
      /\ UNCHANGED <<sched_but_level, queue, op, arg, mode, rbr, thr>>
  BY Zenon DEF Done, FlushLoop, At, Running, Goto
<1>2. ier' \in {ier, ier_for(queue)} /\ (ier' = ier => mode # "QUEUE" \/ pc[t] = "flush"
                                                    \/ ier' = ier_for(queue))
  BY Zenon DEF Done, FlushLoop, serial_notify, At
<1>3. /\ level' \in [Thread -> Level] /\ level'[t] = "ON"
      /\ \A u \in Thread \ {t} : level'[u] = level[u] /\ byte'[u] = byte[u]
      /\ byte' \in [Thread -> Byte \cup {NULL}]
  BY Zenon, <1>1 DEF TypeOK, SchedTypeOK, Level, IntQTypeOK
<1>4. pc' \in [Thread -> PC] /\ pc'[t] = "run" BY Zenon, <1>1 DEF TypeOK, PC
<1>5. TypeOK'
  <2>1. SchedTypeOK' BY Zenon, <1>1, <1>3 DEF TypeOK, SchedTypeOK, sched_but_level
  <2>2. IntQTypeOK' BY Zenon, <1>1, <1>3 DEF TypeOK, IntQTypeOK
  <2>3. ier' \subseteq {"RECV", "XMIT"} BY Zenon, <1>2 DEF TypeOK, ier_for
  <2>4. QED BY Zenon, <1>1, <1>4, <2>1, <2>2, <2>3 DEF TypeOK
<1>6. SeenBy(t)' BY Zenon, <1>4 DEF SeenBy
<1>7. /\ SchedInv' /\ Programs' /\ Seen' /\ QueueLocks' /\ Waiters' /\ Sleepers'
      /\ Booting'
  <2>1. "run" \notin Working /\ pc[t] \notin {"boot", "boot_ier", "idle", "wait", "unlock"}
    BY Zenon, <1>1 DEF Working
  <2>2. QED BY Zenon, <1>1, <1>3, <1>5, <1>6, <2>1, LocalStep
<1>8. IerRight'
  <2>1. ier_for(queue)' = ier_for(queue) BY Zenon, <1>1 DEF ier_for
  <2>2. pc[initial_thread] \notin {"boot", "boot_ier"} /\ mode = "QUEUE"
    BY Zenon, <1>1, Booted
  <2>3. CASE ier' = ier_for(queue) BY Zenon, <2>1, <2>3 DEF IerRight
  <2>4. CASE ier' = ier /\ pc[t] = "flush" BY Zenon, <1>1, <2>1, <2>2, <2>4 DEF IerRight
  <2>5. QED BY Zenon, <1>2, <2>2, <2>3, <2>4
<1>9. QED BY Zenon, <1>5, <1>7, <1>8

-----------------------------------------------------------------------------
(* Sleeping *)

(* The CPU is taken from a thread that has interrupts on. *)
LEMMA QuietSwitch ==
  ASSUME Assumptions, IInv, SchedInv', pc[current] \in Quiet,
         UNCHANGED <<idle_thread, level, asleep, value, intq_vars, pc, uart_vars>>,
         \A t \in Thread \ {idle} : status'[t] = "BLOCKED" <=> status[t] = "BLOCKED",
         pc[initial_thread] \in {"boot", "boot_ier"} => Alone'
  PROVE  TypeOK' /\ Clients'
<1> USE DEF IInv, Clients
<1>1. UNCHANGED <<queue, op, arg, byte, mode, ier, rbr, thr>>
  BY Zenon DEF intq_vars, uart_vars
<1>2. TypeOK' BY Zenon, <1>1 DEF TypeOK, IntQTypeOK, SchedInv
<1>3. ASSUME NEW t \in Thread PROVE ProgramOf(t)' /\ SeenBy(t)' /\ SleepOf(t)'
  <2>1. ProgramOf(t) /\ SeenBy(t) /\ SleepOf(t) BY Zenon DEF Programs, Seen, Sleepers
  <2>2. pc[t] \notin Pinned BY Zenon, <2>1 DEF ProgramOf, Quiet, Pinned
  <2>3. pc[t] = "lock" => asleep[t] # NULL BY Zenon, <2>1 DEF ProgramOf, Quiet
  <2>4. ProgramOf(t)' BY Zenon, <1>1, <2>1, <2>2, <2>3 DEF ProgramOf, Gets, Puts
  <2>5. SeenBy(t)' BY Zenon, <2>2, <2>3 DEF SeenBy, Pinned
  <2>6. MustWait(t)' <=> MustWait(t) BY Zenon, <1>1 DEF MustWait, intq_empty, intq_full
  <2>7. pc[t] = "unlock" => t # idle BY Zenon, <2>1 DEF ProgramOf
  <2>8. SleepOf(t)' BY Zenon, <1>1, <2>1, <2>6, <2>7 DEF SleepOf
  <2>9. QED BY Zenon, <2>4, <2>5, <2>8
<1>4. \A u \in Thread, q \in Queue : HasLock(u, q)' <=> HasLock(u, q)
  BY Zenon, <1>1 DEF HasLock
<1>5. QueueLocks' BY Zenon, <1>4, LocksKept
<1>6. ASSUME NEW q \in Queue PROVE WaitersOf(q)'
  <2>1. WaitersOf(q) BY Zenon DEF Waiters
  <2>2. \A w \in Thread : pc[w] = "unlock" => w # idle BY Zenon DEF Programs, ProgramOf
  <2>3. \A w \in {queue[q].not_full, queue[q].not_empty} : w # NULL =>
           w \in Thread \ {idle}
    BY Zenon, <2>2, WaiterBlocked
  <2>4. QED BY Zenon, <1>1, <2>1, <2>3 DEF WaitersOf, WaitsIn
<1>7. Booting' BY Zenon, <1>1 DEF Booting, intq_empty
<1>8. IerRight'
  <2>1. pc[current] # "done" BY Zenon DEF Quiet
  <2>2. QED BY Zenon, <1>1, <2>1, IerKept
<1>9. QED BY Zenon, <1>2, <1>3, <1>5, <1>6, <1>7, <1>8 DEF Programs, Seen, Waiters, Sleepers

LEMMA IdleStep ==
  ASSUME Assumptions, IInv, IdleBlock
  PROVE  TypeOK' /\ SchedInv' /\ Clients'
<1> USE DEF IInv, Clients
<1>1. /\ current = idle /\ asleep[current] = NULL /\ pc[current] = "idle" /\ thread_block
      /\ UNCHANGED <<idle_thread, level, asleep, value, waiters, intq_vars, pc, uart_vars>>
  BY Zenon DEF IdleBlock, At, Running
<1>2. SchedInv'
  <2>1. CanSwitch BY Zenon DEF CanSwitch, Assumptions, SerialAssumption, ThreadAssumption
  <2>2. QED BY Zenon, <1>1, <2>1, LeaveAwakeStep DEF Assumptions, thread_block
<1>3. \A t \in Thread \ {idle} : status'[t] = "BLOCKED" <=> status[t] = "BLOCKED"
  BY Zenon, <1>1, BlockSwitch
<1>4. pc[initial_thread] \notin {"boot", "boot_ier"}
  BY Zenon, <1>1 DEF Booting, Alone, Assumptions, SerialAssumption
<1>5. pc[current] \in Quiet BY Zenon, <1>1 DEF Quiet
<1>6. QED BY Zenon, <1>1, <1>2, <1>3, <1>4, <1>5, QuietSwitch

LEMMA TimerStep ==
  ASSUME Assumptions, IInv, TimerInterrupt
  PROVE  TypeOK' /\ SchedInv' /\ Clients'
<1> USE DEF IInv, Clients
<1>1. /\ thread_tick /\ level[current] = "ON" /\ current \in Thread
      /\ UNCHANGED <<idle_thread, level, asleep, value, waiters, intq_vars, pc, uart_vars>>
  BY Zenon DEF TimerInterrupt, thread_tick, InterruptsOn, TypeOK, SchedTypeOK
<1>2. SchedInv' BY Zenon, <1>1, TickStep DEF Assumptions
<1>3. /\ \A t \in Thread \ {idle} : status'[t] = "BLOCKED" <=> status[t] = "BLOCKED"
      /\ ready_list = <<>> /\ current # idle =>
           /\ current' = current /\ ready_list' = <<>>
           /\ \A t \in Thread : status'[t] = status[t]
  BY Zenon, <1>1, TickSwitch
<1>4. pc[current] \in Quiet BY Zenon, <1>1 DEF Programs, ProgramOf
<1>5. pc[initial_thread] \in {"boot", "boot_ier"} => Alone'
  BY Zenon, <1>1, <1>3 DEF Booting, Alone, Assumptions, SerialAssumption
<1>6. QED BY Zenon, <1>1, <1>2, <1>3, <1>4, <1>5, QuietSwitch

LEMMA LockWaitStep ==
  ASSUME Assumptions, IInv, NEW t \in Thread, IntqLock(t), sema_down_wait(t, arg[t]),
         UNCHANGED <<pc, uart_vars>>
  PROVE  TypeOK' /\ SchedInv' /\ Clients'
<1> USE DEF IInv, Clients
<1>1. /\ pc[t] = "lock" /\ current = t /\ InSemaDown(t, arg[t]) /\ thread_block
      /\ asleep' = [asleep EXCEPT ![t] = arg[t]]
      /\ UNCHANGED <<idle_thread, level, value, queue, op, arg, byte, mode, ier, rbr, thr>>
  BY Zenon DEF IntqLock, InSemaDown, sema_down_wait, intq_vars, uart_vars
<1>2. arg[t] \in Sema /\ arg[t] # NULL /\ t # idle
  <2>1. arg[t] \in Queue BY Zenon DEF TypeOK, IntQTypeOK
  <2>2. Queue \subseteq Sema /\ NULL \notin Sema
    BY Zenon DEF Assumptions, IntQAssumption, ThreadAssumption
  <2>3. t # idle BY Zenon, <1>1 DEF Programs, ProgramOf
  <2>4. QED BY Zenon, <2>1, <2>2, <2>3
<1>3. SchedInv'
  <2>1. CanSwitch BY Zenon DEF CanSwitch, Assumptions, SerialAssumption, ThreadAssumption
  <2>2. QED BY Zenon, <1>1, <1>2, <2>1, DownWaitStep DEF Assumptions
<1>4. \A u \in Thread \ {idle} :
         status'[u] = "BLOCKED" <=> status[u] = "BLOCKED" \/ u = t
  BY Zenon, <1>1, BlockSwitch
<1>5. asleep'[t] = arg[t] /\ \A u \in Thread \ {t} : asleep'[u] = asleep[u]
  BY Zenon, <1>1 DEF TypeOK, SchedTypeOK
<1>6. TypeOK' BY Zenon, <1>1, <1>3 DEF TypeOK, IntQTypeOK, SchedInv
<1>7. ASSUME NEW u \in Thread PROVE ProgramOf(u)' /\ SeenBy(u)' /\ SleepOf(u)'
  <2>1. ProgramOf(u) /\ SeenBy(u) /\ SleepOf(u) BY Zenon DEF Programs, Seen, Sleepers
  <2>2. pc[u] \notin Pinned BY Zenon, <1>1, <2>1 DEF ProgramOf, Pinned
  <2>3. pc[u] = "lock" => asleep'[u] # NULL BY Zenon, <1>1, <1>2, <1>5, <2>1 DEF ProgramOf
  <2>4. ProgramOf(u)'
    <3>1. asleep'[u] # NULL => pc[u] = "lock" /\ asleep'[u] = arg[u]
      BY Zenon, <1>1, <1>5, <2>1 DEF ProgramOf
    <3>2. QED BY Zenon, <1>1, <2>1, <2>2, <2>3, <3>1 DEF ProgramOf, Gets, Puts
  <2>5. SeenBy(u)' BY Zenon, <2>2, <2>3 DEF SeenBy, Pinned
  <2>6. MustWait(u)' <=> MustWait(u) BY Zenon, <1>1 DEF MustWait, intq_empty, intq_full
  <2>7. pc[u] = "unlock" => u # idle /\ u # t BY Zenon, <1>1, <2>1 DEF ProgramOf
  <2>8. SleepOf(u)' BY Zenon, <1>1, <1>4, <2>1, <2>6, <2>7 DEF SleepOf
  <2>9. QED BY Zenon, <2>4, <2>5, <2>8
<1>8. \A u \in Thread, q \in Queue : HasLock(u, q)' <=> HasLock(u, q)
  BY Zenon, <1>1 DEF HasLock
<1>9. QueueLocks' BY Zenon, <1>1, <1>8, LocksKept
<1>10. ASSUME NEW q \in Queue PROVE WaitersOf(q)'
  <2>1. WaitersOf(q) BY Zenon DEF Waiters
  <2>2. \A w \in Thread : pc[w] = "unlock" => w # idle BY Zenon DEF Programs, ProgramOf
  <2>3. \A w \in {queue[q].not_full, queue[q].not_empty} : w # NULL =>
           w \in Thread \ {idle}
    BY Zenon, <2>2, WaiterBlocked
  <2>4. QED BY Zenon, <1>1, <1>4, <2>1, <2>3 DEF WaitersOf, WaitsIn
<1>11. Booting'
  <2>1. pc[initial_thread] \notin {"boot", "boot_ier"} /\ mode = "QUEUE"
    BY Zenon, <1>1, Booted
  <2>2. QED BY Zenon, <1>1, <2>1 DEF Booting
<1>12. IerRight' BY Zenon, <1>1, IerKept
<1>13. QED BY Zenon, <1>3, <1>6, <1>7, <1>9, <1>10, <1>11, <1>12
           DEF Programs, Seen, Waiters, Sleepers

(* A lock's semaphore that is up. *)
LEMMA UpIsOne == ASSUME NEW v \in {0, 1}, v > 0 PROVE v = 1 /\ v # 0 /\ v - 1 = 0
  OBVIOUS

LEMMA LockTakeStep ==
  ASSUME Assumptions, IInv, NEW t \in Thread, IntqLock(t), sema_down_take(t, arg[t]),
         Goto(t, "wait"), UNCHANGED uart_vars
  PROVE  TypeOK' /\ SchedInv' /\ Clients'
<1> USE DEF IInv, Clients
<1> DEFINE q == arg[t]
<1>1. /\ pc[t] = "lock" /\ current = t /\ InSemaDown(t, q) /\ value[q] > 0
      /\ value' = [value EXCEPT ![q] = value[q] - 1]
      /\ asleep' = [asleep EXCEPT ![t] = NULL] /\ pc' = [pc EXCEPT ![t] = "wait"]
      /\ UNCHANGED <<status, ready_list, current, level, queue, op, arg, byte, mode, ier,
                     rbr, thr>>
  BY Zenon DEF IntqLock, InSemaDown, sema_down_take, intq_vars, uart_vars, Goto
<1>2. q \in Sema /\ q \in Queue
  BY Zenon DEF TypeOK, IntQTypeOK, Assumptions, IntQAssumption
<1>3. SchedInv' BY Zenon, <1>1, <1>2, DownTakeStep DEF Assumptions
<1>4. /\ asleep'[t] = NULL /\ pc'[t] = "wait"
      /\ \A u \in Thread \ {t} : asleep'[u] = asleep[u] /\ pc'[u] = pc[u]
      /\ pc' \in [Thread -> PC]
  BY Zenon, <1>1 DEF TypeOK, SchedTypeOK, PC
<1>5. TypeOK' BY Zenon, <1>1, <1>3, <1>4 DEF TypeOK, IntQTypeOK, SchedInv
<1>6. ASSUME NEW u \in Thread PROVE ProgramOf(u)' /\ SeenBy(u)' /\ SleepOf(u)'
  <2>1. ProgramOf(u) /\ SeenBy(u) /\ SleepOf(u) BY Zenon DEF Programs, Seen, Sleepers
  <2>2. CASE u = t
    BY Zenon, <1>1, <1>4, <2>1, <2>2
       DEF ProgramOf, SeenBy, SleepOf, Quiet, Working, Pinned, Gets, Puts
  <2>3. CASE u # t
    <3>1. MustWait(u)' <=> MustWait(u) BY Zenon, <1>1 DEF MustWait, intq_empty, intq_full
    <3>2. ProgramOf(u)' BY Zenon, <1>1, <1>4, <2>1, <2>3 DEF ProgramOf, Gets, Puts
    <3>3. SeenBy(u)'
      BY Zenon, <1>1, <1>4, <2>1, <2>3, <3>1 DEF SeenBy, Puts, intq_full
    <3>4. SleepOf(u)' BY Zenon, <1>1, <1>4, <2>1, <2>3, <3>1 DEF SleepOf
    <3>5. QED BY Zenon, <3>2, <3>3, <3>4
  <2>4. QED BY Zenon, <2>2, <2>3
<1>7. ASSUME NEW p \in Queue PROVE LockOf(p)'
  <2>1. LockOf(p) /\ LockOf(q) BY Zenon, <1>2 DEF QueueLocks
  <2>2. \A u \in Thread : HasLock(u, p)' <=> HasLock(u, p) \/ (u = t /\ p = q)
    BY Zenon, <1>1, <1>4 DEF HasLock
  <2>3. p \in Sema BY Zenon DEF Assumptions, IntQAssumption
  <2>4. value'[p] = IF p = q THEN value[q] - 1 ELSE value[p]
    BY Zenon, <1>1, <1>2, <2>3 DEF TypeOK, SchedTypeOK
  <2>5. value[q] - 1 = 0 /\ \A u \in Thread : ~HasLock(u, q)
    <3>1. value[q] \in {0, 1} BY Zenon, <2>1 DEF LockOf
    <3>2. value[q] # 0 /\ value[q] - 1 = 0 BY Zenon, <1>1, <3>1, UpIsOne
    <3>3. QED BY Zenon, <2>1, <3>2 DEF LockOf
  <2>6. CASE p = q
    <3>1. value'[p] = 0 BY Zenon, <2>4, <2>5, <2>6
    <3>2. QED BY Zenon, <2>2, <2>5, <2>6, <3>1 DEF LockOf
  <2>7. CASE p # q BY Zenon, <2>1, <2>2, <2>4, <2>7 DEF LockOf
  <2>8. QED BY Zenon, <2>6, <2>7
<1>8. ASSUME NEW p \in Queue PROVE WaitersOf(p)'
  <2>1. WaitersOf(p) BY Zenon DEF Waiters
  <2>2. \A w \in {queue[p].not_full, queue[p].not_empty} : w # NULL =>
           w \in Thread \ {t}
    BY Zenon, <1>1, WaiterBlocked
  <2>3. QED BY Zenon, <1>1, <1>4, <2>1, <2>2 DEF WaitersOf, WaitsIn
<1>9. Booting'
  <2>1. "wait" \in PC \ {"boot", "boot_ier"} BY Zenon DEF PC
  <2>2. QED BY Zenon, <1>1, <2>1, BootKept
<1>10. IerRight'
  <2>1. pc'[initial_thread] # "boot_ier" => pc[initial_thread] # "boot_ier"
    BY <1>1 DEF TypeOK
  <2>2. QED BY Zenon, <1>1, <2>1, IerKept
<1>11. QED BY Zenon, <1>3, <1>5, <1>6, <1>7, <1>8, <1>9, <1>10
           DEF Programs, Seen, QueueLocks, Waiters, Sleepers

LEMMA WaitStep ==
  ASSUME Assumptions, IInv, NEW t \in Thread, IntqWait(t), UNCHANGED uart_vars
  PROVE  TypeOK' /\ SchedInv' /\ Clients'
<1> USE DEF IInv, Clients
<1> DEFINE q == arg[t]
<1>1. /\ pc[t] = "wait" /\ current = t /\ asleep[t] = NULL /\ MustWait(t) /\ thread_block
      /\ queue' = IF op[t] = "getc" THEN [queue EXCEPT ![q].not_empty = t]
                                    ELSE [queue EXCEPT ![q].not_full = t]
      /\ pc' = [pc EXCEPT ![t] = "unlock"]
      /\ UNCHANGED <<idle_thread, level, asleep, value, waiters, op, arg, byte, mode, ier,
                     rbr, thr>>
  BY Zenon DEF IntqWait, At, Running, uart_vars, Goto
<1>2. ProgramOf(t) /\ q \in Queue BY Zenon DEF Programs, TypeOK, IntQTypeOK
<1>3. t # idle /\ op[t] \in {"getc", "putc"} BY Zenon, <1>1, <1>2 DEF ProgramOf, Working, Gets, Puts
<1>4. SchedInv'
  <2>1. CanSwitch BY Zenon DEF CanSwitch, Assumptions, SerialAssumption, ThreadAssumption
  <2>2. QED BY Zenon, <1>1, <2>1, LeaveAwakeStep DEF Assumptions, thread_block
<1>5. \A u \in Thread \ {idle} :
         status'[u] = "BLOCKED" <=> status[u] = "BLOCKED" \/ u = t
  BY Zenon, <1>1, BlockSwitch
<1>6. /\ pc'[t] = "unlock" /\ \A u \in Thread \ {t} : pc'[u] = pc[u]
      /\ pc' \in [Thread -> PC]
  BY Zenon, <1>1 DEF TypeOK, PC
<1>7. queue \in [Queue -> QueueType] /\ queue[q] \in QueueType
  BY Zenon, <1>2 DEF TypeOK, IntQTypeOK
<1>8. /\ queue' \in [Queue -> QueueType]
      /\ \A p \in Queue : p # q => queue'[p] = queue[p]
      /\ queue'[q].head = queue[q].head /\ queue'[q].tail = queue[q].tail
      /\ queue'[q].not_empty = IF op[t] = "getc" THEN t ELSE queue[q].not_empty
      /\ queue'[q].not_full = IF op[t] = "getc" THEN queue[q].not_full ELSE t
  <2>1. CASE op[t] = "getc" BY Zenon, <1>1, <1>2, <1>7, <2>1 DEF QueueType
  <2>2. CASE op[t] # "getc" BY Zenon, <1>1, <1>2, <1>7, <2>2 DEF QueueType
  <2>3. QED BY Zenon, <2>1, <2>2
<1>9. TypeOK' BY Zenon, <1>1, <1>4, <1>6, <1>8 DEF TypeOK, IntQTypeOK, SchedInv
<1>10. \A u \in Thread \ {t} : ~HasLock(u, q)
  BY Zenon, <1>1, <1>2 DEF QueueLocks, LockOf, HasLock
<1>11. \A u \in Thread : MustWait(u)' <=> MustWait(u)
  <2>1. \A p \in Queue : queue'[p].head = queue[p].head /\ queue'[p].tail = queue[p].tail
    BY Zenon, <1>8
  <2>2. QED BY Zenon, <1>1, <2>1 DEF MustWait, intq_empty, intq_full, TypeOK, IntQTypeOK
<1>12. ASSUME NEW u \in Thread PROVE ProgramOf(u)' /\ SeenBy(u)' /\ SleepOf(u)'
  <2>1. ProgramOf(u) /\ SeenBy(u) /\ SleepOf(u) BY Zenon DEF Programs, Seen, Sleepers
  <2>2. CASE u = t
    <3>1. ProgramOf(t)'
      BY Zenon, <1>1, <1>2, <1>3, <1>6 DEF ProgramOf, Quiet, Working, Pinned, Gets, Puts
    <3>2. SeenBy(t)' BY Zenon, <1>6 DEF SeenBy
    <3>3. SleepOf(t)' BY Zenon, <1>1, <1>8, <1>11 DEF SleepOf
    <3>4. QED BY Zenon, <2>2, <3>1, <3>2, <3>3
  <2>3. CASE u # t
    <3>1. pc[u] \notin Pinned BY Zenon, <1>1, <2>1, <2>3 DEF ProgramOf
    <3>2. pc[u] = "lock" => asleep[u] # NULL BY Zenon, <1>1, <2>1, <2>3 DEF ProgramOf
    <3>3. ProgramOf(u)' BY Zenon, <1>1, <1>6, <2>1, <2>3, <3>1, <3>2 DEF ProgramOf, Gets, Puts
    <3>4. SeenBy(u)' BY Zenon, <1>1, <1>6, <2>3, <3>1, <3>2 DEF SeenBy, Pinned
    <3>5. pc[u] = "unlock" => u # idle /\ arg[u] # q /\ arg[u] \in Queue
      BY Zenon, <1>10, <2>1, <2>3 DEF ProgramOf, HasLock, TypeOK, IntQTypeOK
    <3>6. SleepOf(u)' BY Zenon, <1>1, <1>5, <1>6, <1>8, <1>11, <2>1, <2>3, <3>5 DEF SleepOf
    <3>7. QED BY Zenon, <3>3, <3>4, <3>6
  <2>4. QED BY Zenon, <2>2, <2>3
<1>13. \A u \in Thread, p \in Queue : HasLock(u, p)' <=> HasLock(u, p)
  BY Zenon, <1>1, <1>6 DEF HasLock
<1>14. QueueLocks' BY Zenon, <1>1, <1>13, LocksKept
<1>15. ASSUME NEW p \in Queue PROVE WaitersOf(p)'
  <2>1. WaitersOf(p) BY Zenon DEF Waiters
  <2>2. \A w \in Thread : pc[w] = "unlock" => w # idle BY Zenon DEF Programs, ProgramOf
  <2>3. \A w \in {queue[p].not_full, queue[p].not_empty} : w # NULL =>
           w \in Thread \ {idle, t}
    BY Zenon, <1>1, <2>2, WaiterBlocked
  <2>4. CASE p # q BY Zenon, <1>1, <1>5, <1>6, <1>8, <2>1, <2>3, <2>4 DEF WaitersOf, WaitsIn
  <2>5. CASE p = q
    <3>1. status'[t] = "BLOCKED" BY Zenon, <1>3, <1>5
    <3>2. queue[q].not_full = NULL /\ queue[q].not_empty = NULL
      BY Zenon, <1>10, <2>1, <2>3, <2>5 DEF WaitersOf, WaitsIn, HasLock
    <3>3. CASE op[t] = "getc"
      <4>1. queue'[q].not_empty = t /\ queue'[q].not_full = NULL BY Zenon, <1>8, <3>2, <3>3
      <4>2. QED BY Zenon, <1>1, <1>6, <2>5, <3>1, <3>3, <4>1 DEF WaitersOf, WaitsIn
    <3>4. CASE op[t] = "putc"
      <4>1. queue'[q].not_empty = NULL /\ queue'[q].not_full = t BY Zenon, <1>8, <3>2, <3>4
      <4>2. QED BY Zenon, <1>1, <1>6, <2>5, <3>1, <3>4, <4>1 DEF WaitersOf, WaitsIn
    <3>5. QED BY Zenon, <1>3, <3>3, <3>4
  <2>6. QED BY Zenon, <2>4, <2>5
<1>16. pc[initial_thread] \notin {"boot", "boot_ier"} /\ mode = "QUEUE"
  BY Zenon, <1>1, Booted
<1>17. Booting'
  <2>1. pc'[initial_thread] \notin {"boot", "boot_ier"} BY <1>1, <1>16 DEF TypeOK
  <2>2. QED BY Zenon, <1>1, <1>16, <2>1 DEF Booting
<1>18. IerRight'
  <2>1. ier_for(queue)' = ier_for(queue)
    <3>1. /\ buffer \in Queue /\ txq \in Queue
          /\ \A p \in Queue : queue'[p].head = queue[p].head /\ queue'[p].tail = queue[p].tail
      BY Zenon, <1>8 DEF Assumptions, SerialAssumption
    <3>2. QED BY Zenon, <3>1 DEF ier_for
  <2>2. QED BY Zenon, <1>1, <1>16, <2>1 DEF IerRight
<1>19. QED BY Zenon, <1>4, <1>9, <1>12, <1>14, <1>15, <1>17, <1>18
           DEF Programs, Seen, Waiters, Sleepers

LEMMA UnlockStep ==
  ASSUME Assumptions, IInv, NEW t \in Thread, IntqUnlock(t), UNCHANGED uart_vars
  PROVE  TypeOK' /\ SchedInv' /\ Clients'
<1> USE DEF IInv, Clients
<1> DEFINE q == arg[t]
<1>1. /\ pc[t] = "unlock" /\ current = t /\ asleep[t] = NULL /\ sema_up(q)
      /\ value' = [value EXCEPT ![q] = value[q] + 1]
      /\ pc' = [pc EXCEPT ![t] = "test"]
      /\ UNCHANGED <<current, level, asleep, queue, op, arg, byte, mode, ier, rbr, thr>>
  BY Zenon DEF IntqUnlock, At, Running, sema_up, uart_vars, intq_vars, Goto
<1>2. q \in Sema /\ q \in Queue /\ q # NULL
  BY Zenon DEF TypeOK, IntQTypeOK, Assumptions, IntQAssumption, ThreadAssumption
<1>3. SchedInv' BY Zenon, <1>1, <1>2, UpStep DEF Assumptions
<1>4. /\ pc'[t] = "test" /\ \A u \in Thread \ {t} : pc'[u] = pc[u]
      /\ pc' \in [Thread -> PC]
  BY Zenon, <1>1 DEF TypeOK, PC
<1>5. TypeOK' BY Zenon, <1>1, <1>3, <1>4 DEF TypeOK, IntQTypeOK, SchedInv
<1>6. \A u \in Thread : pc[u] = "unlock" => status'[u] = status[u]
  <2>1. CASE waiters[q] = <<>> BY Zenon, <1>1, <2>1 DEF sema_up
  <2>2. CASE waiters[q] # <<>>
    <3> DEFINE h == Head(waiters[q])
    <3>1. status' = [status EXCEPT ![h] = "READY"] BY Zenon, <1>1, <2>2 DEF sema_up, thread_unblock
    <3>2. h \in InList(waiters[q])
      BY Zenon, <1>2, <2>2, PopFront DEF SchedInv, WaitersBlocked, SchedTypeOK
    <3>3. h \in Thread /\ asleep[h] = q BY Zenon, <1>2, <3>2 DEF SchedInv, WaitersBlocked
    <3>4. pc[h] = "lock" BY Zenon, <1>2, <3>3 DEF Programs, ProgramOf
    <3>5. QED BY Zenon, <3>1, <3>4 DEF TypeOK, SchedTypeOK
  <2>3. QED BY Zenon, <2>1, <2>2
<1>7. ASSUME NEW u \in Thread PROVE ProgramOf(u)' /\ SeenBy(u)' /\ SleepOf(u)'
  <2>1. ProgramOf(u) /\ SeenBy(u) /\ SleepOf(u) BY Zenon DEF Programs, Seen, Sleepers
  <2>2. CASE u = t
    BY Zenon, <1>1, <1>4, <2>1, <2>2
       DEF ProgramOf, SeenBy, SleepOf, Quiet, Working, Pinned, Gets, Puts
  <2>3. CASE u # t
    <3>1. MustWait(u)' <=> MustWait(u) BY Zenon, <1>1 DEF MustWait, intq_empty, intq_full
    <3>2. ProgramOf(u)' BY Zenon, <1>1, <1>4, <2>1, <2>3 DEF ProgramOf, Gets, Puts
    <3>3. SeenBy(u)'
      BY Zenon, <1>1, <1>4, <2>1, <2>3, <3>1 DEF SeenBy, Puts, intq_full
    <3>4. SleepOf(u)' BY Zenon, <1>1, <1>4, <1>6, <2>1, <2>3, <3>1 DEF SleepOf
    <3>5. QED BY Zenon, <3>2, <3>3, <3>4
  <2>4. QED BY Zenon, <2>2, <2>3
<1>8. ASSUME NEW p \in Queue PROVE LockOf(p)'
  <2>1. LockOf(p) /\ LockOf(q) BY Zenon, <1>2 DEF QueueLocks
  <2>2. HasLock(t, q) BY Zenon, <1>1 DEF HasLock
  <2>3. \A u \in Thread : HasLock(u, p)' <=> HasLock(u, p) /\ u # t
    BY Zenon, <1>1, <1>4 DEF HasLock
  <2>4. p \in Sema BY Zenon DEF Assumptions, IntQAssumption
  <2>5. value'[p] = IF p = q THEN value[q] + 1 ELSE value[p]
    BY Zenon, <1>1, <1>2, <2>4 DEF TypeOK, SchedTypeOK
  <2>6. value[q] = 0 /\ \A u \in Thread \ {t} : ~HasLock(u, q)
    BY Zenon, <2>1, <2>2 DEF LockOf
  <2>7. CASE p = q BY <2>3, <2>5, <2>6, <2>7 DEF LockOf
  <2>8. CASE p # q
    <3>1. ~HasLock(t, p) BY Zenon, <2>8 DEF HasLock
    <3>2. QED BY Zenon, <2>1, <2>3, <2>5, <2>8, <3>1 DEF LockOf
  <2>9. QED BY Zenon, <2>7, <2>8
<1>9. ASSUME NEW p \in Queue PROVE WaitersOf(p)'
  <2>1. WaitersOf(p) BY Zenon DEF Waiters
  <2>2. status[t] = "RUNNING" BY Zenon, <1>1 DEF SchedInv, OneRunning
  <2>3. \A w \in {queue[p].not_full, queue[p].not_empty} : w # NULL =>
           w \in Thread \ {t}
    BY Zenon, <2>2, WaiterBlocked
  <2>4. QED BY Zenon, <1>1, <1>4, <1>6, <2>1, <2>3 DEF WaitersOf, WaitsIn
<1>10. Booting'
  <2>1. "test" \in PC \ {"boot", "boot_ier"} BY Zenon DEF PC
  <2>2. QED BY Zenon, <1>1, <2>1, BootKept
<1>11. IerRight'
  <2>1. pc'[initial_thread] # "boot_ier" => pc[initial_thread] # "boot_ier"
    BY <1>1 DEF TypeOK
  <2>2. QED BY Zenon, <1>1, <2>1, IerKept
<1>12. QED BY Zenon, <1>3, <1>5, <1>7, <1>8, <1>9, <1>10, <1>11
           DEF Programs, Seen, QueueLocks, Waiters, Sleepers

-----------------------------------------------------------------------------
(* Steps that move bytes *)

(* What became of queue Q in a step that signals V and W: the registers of *)
(* the threads signalled are cleared and no other, and a queue that was    *)
(* full (empty) still is if its waiter was not signalled.                  *)
Moved(q, v, w) ==
  /\ queue'[q].not_full = IF queue[q].not_full \in {v, w} THEN NULL
                                                          ELSE queue[q].not_full
  /\ queue'[q].not_empty = IF queue[q].not_empty \in {v, w} THEN NULL
                                                            ELSE queue[q].not_empty
  /\ queue[q].not_full \notin {v, w, NULL} /\ intq_full(q) => intq_full(q)'
  /\ queue[q].not_empty \notin {v, w, NULL} /\ intq_empty(q) => intq_empty(q)'

Registered(w) ==
  w = NULL \/ \E q \in Queue : w \in {queue[q].not_full, queue[q].not_empty}

LEMMA RegisteredSleeps ==
  ASSUME Assumptions, TypeOK, Programs, Waiters, NEW w, Registered(w), w # NULL
  PROVE  /\ w \in Thread /\ status[w] = "BLOCKED" /\ pc[w] = "unlock"
         /\ asleep[w] = NULL /\ w # idle
<1>1. w \in Thread /\ status[w] = "BLOCKED" /\ pc[w] = "unlock"
  BY Registers DEF Registered, WaitsIn
<1>2. QED BY Zenon, <1>1 DEF Programs, ProgramOf

LEMMA QueueStep ==
  ASSUME Assumptions, IInv, NEW v, NEW w, Registered(v), Registered(w),
         v # NULL => v # w, signal(v, w), UNCHANGED <<op, arg>>,
         queue' \in [Queue -> QueueType], \A q \in Queue : Moved(q, v, w),
         \A u \in Thread \ {current} : pc'[u] = pc[u],
         pc'[current] = pc[current] \/ pc[current] \notin {"wait", "unlock"},
         pc'[current] = pc[current] \/ pc'[current] \notin {"wait", "unlock"}
  PROVE  /\ SchedInv' /\ QueueLocks' /\ Waiters' /\ Sleepers'
         /\ \A t \in Thread : status'[t] = IF t \in {v, w} THEN "READY" ELSE status[t]
<1> USE DEF IInv, Clients
<1>1. /\ v \in Thread \cup {NULL} /\ w \in Thread \cup {NULL} /\ NULL \notin Thread
      /\ \A t \in Thread : t \in {v, w} => /\ status[t] = "BLOCKED" /\ asleep[t] = NULL
                                           /\ pc[t] = "unlock" /\ t # idle
  BY Zenon, RegisteredSleeps DEF Assumptions, ThreadAssumption
<1>2. /\ SchedInv'
      /\ \A t \in Thread : status'[t] = IF t \in {v, w} THEN "READY" ELSE status[t]
  BY <1>1, SignalStep DEF Assumptions
<1>3. current \in Thread /\ status[current] = "RUNNING"
      /\ UNCHANGED <<current, asleep, value>>
  BY Zenon DEF SchedInv, OneRunning, SchedTypeOK, signal
<1>4. \A u \in Thread, q \in Queue : HasLock(u, q)' <=> HasLock(u, q)
  BY Zenon DEF HasLock
<1>5. QueueLocks' BY Zenon, <1>3, <1>4, LocksKept
<1>6. ASSUME NEW q \in Queue PROVE WaitersOf(q)'
  <2>1. WaitersOf(q) /\ Moved(q, v, w) BY Zenon DEF Waiters
  <2>3. queue[q].not_full \in Thread \cup {NULL} /\ queue[q].not_empty \in Thread \cup {NULL}
    BY Zenon, Registers
  <2>4. WaitsIn(queue[q].not_full, "putc", q)'
    <3>1. CASE queue[q].not_full \in {v, w} BY Zenon, <2>1, <3>1 DEF Moved, WaitsIn
    <3>2. CASE queue[q].not_full \notin {v, w}
      <4>1. queue'[q].not_full = queue[q].not_full BY Zenon, <2>1, <3>2 DEF Moved
      <4>2. QED BY Zenon, <1>2, <1>3, <2>1, <2>3, <3>2, <4>1 DEF WaitersOf, WaitsIn
    <3>3. QED BY Zenon, <3>1, <3>2
  <2>5. WaitsIn(queue[q].not_empty, "getc", q)'
    <3>1. CASE queue[q].not_empty \in {v, w} BY Zenon, <2>1, <3>1 DEF Moved, WaitsIn
    <3>2. CASE queue[q].not_empty \notin {v, w}
      <4>1. queue'[q].not_empty = queue[q].not_empty BY Zenon, <2>1, <3>2 DEF Moved
      <4>2. QED BY Zenon, <1>2, <1>3, <2>1, <2>3, <3>2, <4>1 DEF WaitersOf, WaitsIn
    <3>3. QED BY Zenon, <3>1, <3>2
  <2>6. QED BY Zenon, <2>4, <2>5 DEF WaitersOf
<1>7. ASSUME NEW u \in Thread PROVE SleepOf(u)'
  <2> SUFFICES ASSUME pc'[u] = "unlock", status'[u] = "BLOCKED"
               PROVE  /\ MustWait(u)'
                      /\ op'[u] = "getc" => queue'[arg'[u]].not_empty = u
                      /\ op'[u] = "putc" => queue'[arg'[u]].not_full = u
    BY Zenon DEF SleepOf
  <2>1. u \notin {v, w} /\ status[u] = "BLOCKED" /\ u # current BY Zenon, <1>2, <1>3
  <2>2. SleepOf(u) /\ pc[u] = "unlock" BY Zenon, <2>1 DEF Sleepers
  <2>3. arg[u] \in Queue /\ op[u] \in {"getc", "putc"} BY Zenon DEF TypeOK, IntQTypeOK
  <2>4. Moved(arg[u], v, w) BY Zenon, <2>3
  <2>5. CASE op[u] = "getc"
    <3>1. queue[arg[u]].not_empty = u /\ intq_empty(arg[u])
      BY Zenon, <2>1, <2>2, <2>5 DEF SleepOf, MustWait
    <3>2. queue'[arg[u]].not_empty = u /\ intq_empty(arg[u])'
      BY Zenon, <1>1, <2>1, <2>4, <3>1 DEF Moved
    <3>3. QED BY Zenon, <2>5, <3>2 DEF MustWait
  <2>6. CASE op[u] = "putc"
    <3>1. queue[arg[u]].not_full = u /\ intq_full(arg[u])
      BY Zenon, <2>1, <2>2, <2>6 DEF SleepOf, MustWait
    <3>2. queue'[arg[u]].not_full = u /\ intq_full(arg[u])'
      BY Zenon, <1>1, <2>1, <2>4, <3>1 DEF Moved
    <3>3. QED BY Zenon, <2>6, <3>2 DEF MustWait
  <2>7. QED BY Zenon, <2>3, <2>5, <2>6
<1>8. QED BY Zenon, <1>2, <1>5, <1>6, <1>7 DEF Waiters, Sleepers

(* The four things that happen to a queue. *)
LEMMA MovedKept ==
  ASSUME NEW q \in Queue, NEW v, NEW w, queue'[q] = queue[q],
         queue[q].not_full \in {v, w} => queue[q].not_full = NULL,
         queue[q].not_empty \in {v, w} => queue[q].not_empty = NULL
  PROVE  Moved(q, v, w)
BY Zenon DEF Moved, intq_full, intq_empty

LEMMA MovedRemoved ==
  ASSUME Assumptions, TypeOK, NEW q \in Queue, NEW v, NEW w,
         queue'[q] = Removed(queue[q]), ~intq_empty(q),
         queue[q].not_full \in {v, w},
         queue[q].not_empty \in {v, w} => queue[q].not_empty = NULL
  PROVE  Moved(q, v, w)
<1>1. queue[q] \in QueueType BY Zenon DEF TypeOK, IntQTypeOK
<1>2. queue'[q].not_full = NULL /\ queue'[q].not_empty = queue[q].not_empty
  <2>1. IntQAssumption /\ ThreadAssumption BY Zenon DEF Assumptions
  <2>2. QED BY <1>1, <2>1, RemovedFields
<1>3. QED BY Zenon, <1>2 DEF Moved

LEMMA MovedAdded ==
  ASSUME Assumptions, TypeOK, NEW q \in Queue, NEW v, NEW w, NEW b \in Byte,
         queue'[q] = Added(queue[q], b), ~intq_full(q),
         queue[q].not_empty \in {v, w},
         queue[q].not_full \in {v, w} => queue[q].not_full = NULL
  PROVE  Moved(q, v, w)
<1>1. queue[q] \in QueueType BY Zenon DEF TypeOK, IntQTypeOK
<1>2. queue'[q].not_empty = NULL /\ queue'[q].not_full = queue[q].not_full
  <2>1. IntQAssumption /\ ThreadAssumption BY Zenon DEF Assumptions
  <2>2. /\ Added(queue[q], b).not_empty = NULL
        /\ Added(queue[q], b).not_full = queue[q].not_full
    BY Zenon, <1>1, <2>1, AddedFields
  <2>3. QED BY Zenon, <2>2
<1>3. QED BY Zenon, <1>2 DEF Moved

LEMMA MovedBoth ==
  ASSUME Assumptions, TypeOK, NEW q \in Queue, NEW v, NEW w, NEW b \in Byte,
         queue'[q] = Added(Removed(queue[q]), b),
         queue[q].not_full \in {v, w}, queue[q].not_empty \in {v, w}
  PROVE  Moved(q, v, w)
<1>1. queue[q] \in QueueType BY Zenon DEF TypeOK, IntQTypeOK
<1>2. Removed(queue[q]) \in QueueType /\ Removed(queue[q]).not_full = NULL
  BY Zenon, <1>1, RemovedFields DEF Assumptions
<1>3. queue'[q].not_empty = NULL /\ queue'[q].not_full = NULL
  <2>1. IntQAssumption /\ ThreadAssumption BY Zenon DEF Assumptions
  <2>2. /\ Added(Removed(queue[q]), b).not_empty = NULL
        /\ Added(Removed(queue[q]), b).not_full = Removed(queue[q]).not_full
    BY Zenon, <1>2, <2>1, AddedFields
  <2>3. QED BY Zenon, <1>2, <2>2
<1>4. QED BY Zenon, <1>3 DEF Moved

(* An interrupt handler runs when no thread has interrupts off. *)
LEMMA HandlerStep ==
  ASSUME Assumptions, IInv, InterruptsOn,
         NEW v, NEW w, Registered(v), Registered(w), v # NULL => v # w, signal(v, w),
         queue' \in [Queue -> QueueType], \A q \in Queue : Moved(q, v, w),
         UNCHANGED <<pc, op, arg, byte, mode>>,
         thr' \in Byte \cup {NULL}, rbr' \in Byte \cup {NULL},
         ier' \subseteq {"RECV", "XMIT"}, mode = "QUEUE" => ier' = ier_for(queue'),
         mode # "QUEUE" => intq_empty(txq)'
  PROVE  TypeOK' /\ SchedInv' /\ Clients'
<1> USE DEF IInv, Clients
<1>1. /\ SchedInv' /\ QueueLocks' /\ Waiters' /\ Sleepers'
      /\ \A t \in Thread : status'[t] = IF t \in {v, w} THEN "READY" ELSE status[t]
  BY Zenon, QueueStep
<1>2. UNCHANGED <<current, level, asleep>> /\ current \in Thread /\ level[current] = "ON"
  BY Zenon DEF signal, TypeOK, SchedTypeOK, InterruptsOn
<1>3. TypeOK' BY Zenon, <1>1 DEF TypeOK, IntQTypeOK, SchedInv
<1>4. ASSUME NEW t \in Thread PROVE ProgramOf(t)' /\ SeenBy(t)'
  <2>1. ProgramOf(t) /\ ProgramOf(current) BY Zenon, <1>2 DEF Programs
  <2>2. pc[t] \notin Pinned BY Zenon, <1>2, <2>1 DEF ProgramOf, Pinned, Quiet
  <2>3. pc[t] = "lock" => asleep[t] # NULL BY Zenon, <1>2, <2>1 DEF ProgramOf, Quiet
  <2>4. ProgramOf(t)' BY Zenon, <1>2, <2>1 DEF ProgramOf, Gets, Puts
  <2>5. SeenBy(t)' BY Zenon, <1>2, <2>2, <2>3 DEF SeenBy, Pinned
  <2>6. QED BY Zenon, <2>4, <2>5
<1>5. pc[initial_thread] \in {"boot", "boot_ier"} => Alone'
  <2> HAVE pc[initial_thread] \in {"boot", "boot_ier"}
  <2>1. Alone BY Zenon DEF Booting
  <2>2. \A t \in Thread : pc[t] # "unlock" BY Zenon, <2>1 DEF Alone
  <2>3. v = NULL /\ w = NULL BY Zenon, <2>2, RegisteredSleeps
  <2>4. ready_list' = ready_list BY Zenon, <2>3 DEF signal, Unblocked
  <2>5. \A t \in Thread : status'[t] = status[t]
    BY Zenon, <1>1, <2>3 DEF Assumptions, ThreadAssumption
  <2>6. QED BY Zenon, <1>2, <2>1, <2>4, <2>5 DEF Alone
<1>6. Booting' BY Zenon, <1>5 DEF Booting
<1>7. IerRight'
  <2>1. ier_for(queue)' = ier_for(queue') BY Zenon DEF ier_for
  <2>2. QED BY Zenon, <2>1 DEF IerRight
<1>8. QED BY Zenon, <1>1, <1>3, <1>4, <1>6, <1>7 DEF Programs, Seen

LEMMA KeyboardStep ==
  ASSUME Assumptions, IInv, keyboard_interrupt
  PROVE  TypeOK' /\ SchedInv' /\ Clients'
<1> USE DEF IInv, Clients
<1> DEFINE v == queue[buffer].not_empty
<1>1. PICK b \in Byte : queue' = [queue EXCEPT ![buffer] = Added(queue[buffer], b)]
  BY Zenon DEF keyboard_interrupt
<1>2. /\ InterruptsOn /\ ~intq_full(buffer) /\ signal(v, NULL)
      /\ ier' = IF mode = "QUEUE" THEN ier_for(queue') ELSE ier
      /\ UNCHANGED <<pc, op, arg, byte, mode, rbr, thr>>
  BY Zenon DEF keyboard_interrupt, serial_notify
<1>3. buffer \in Queue /\ txq \in Queue /\ buffer # txq /\ Queue = {buffer, txq}
  BY Zenon DEF Assumptions, SerialAssumption
<1>4. queue \in [Queue -> QueueType] /\ queue[buffer] \in QueueType
  BY Zenon, <1>3 DEF TypeOK, IntQTypeOK
<1>5. Added(queue[buffer], b) \in QueueType BY Zenon, <1>4, AddedFields DEF Assumptions
<1>6. /\ queue' \in [Queue -> QueueType] /\ queue'[buffer] = Added(queue[buffer], b)
      /\ queue'[txq] = queue[txq]
  BY Zenon, <1>1, <1>3, <1>4, <1>5
<1>7. Registered(v) /\ Registered(NULL) BY Zenon, <1>3 DEF Registered
<1>8. ASSUME NEW q \in Queue PROVE Moved(q, v, NULL)
  <2>1. CASE q = buffer
    <3>1. queue[q].not_full \in {v, NULL} => queue[q].not_full = NULL
      BY Zenon, <2>1, Registers
    <3>2. QED BY Zenon, <1>2, <1>6, <2>1, <3>1, MovedAdded
  <2>2. CASE q = txq
    <3>1. /\ queue[q].not_full \in {v, NULL} => queue[q].not_full = NULL
          /\ queue[q].not_empty \in {v, NULL} => queue[q].not_empty = NULL
      BY Zenon, <1>3, <2>2, Registers
    <3>2. QED BY Zenon, <1>6, <2>2, <3>1, MovedKept
  <2>3. QED BY Zenon, <1>3, <2>1, <2>2
<1>9. mode # "QUEUE" => intq_empty(txq)' BY Zenon, <1>6 DEF Booting, intq_empty
<1>10. thr' \in Byte \cup {NULL} /\ rbr' \in Byte \cup {NULL} BY Zenon, <1>2 DEF TypeOK
<1> HIDE DEF v
<1>11. ier' \subseteq {"RECV", "XMIT"} /\ (mode = "QUEUE" => ier' = ier_for(queue'))
  BY Zenon, <1>2 DEF ier_for, TypeOK
<1>12. QED BY Zenon, <1>2, <1>6, <1>7, <1>8, <1>9, <1>10, <1>11, HandlerStep

(* Typing of a queue record and its first byte, for the steps below. *)
LEMMA QueueFacts ==
  ASSUME Assumptions, TypeOK
  PROVE  /\ buffer \in Queue /\ txq \in Queue /\ buffer # txq
         /\ \A q \in Queue : q = buffer \/ q = txq
         /\ queue \in [Queue -> QueueType]
         /\ \A q \in Queue : /\ queue[q] \in QueueType
                             /\ Removed(queue[q]) \in QueueType
                             /\ FirstByte(queue[q]) \in Byte \cup {NULL}
                             /\ \A b \in Byte : /\ Added(queue[q], b) \in QueueType
                                                /\ Added(Removed(queue[q]), b) \in QueueType
<1>1. IntQAssumption /\ ThreadAssumption /\ SerialAssumption BY Zenon DEF Assumptions
<1>2. queue \in [Queue -> QueueType] BY Zenon DEF TypeOK, IntQTypeOK
<1>3. ASSUME NEW q \in Queue
      PROVE  /\ queue[q] \in QueueType /\ Removed(queue[q]) \in QueueType
             /\ FirstByte(queue[q]) \in Byte \cup {NULL}
             /\ \A b \in Byte : /\ Added(queue[q], b) \in QueueType
                                /\ Added(Removed(queue[q]), b) \in QueueType
  <2>1. queue[q] \in QueueType BY Zenon, <1>2
  <2>2. Removed(queue[q]) \in QueueType BY Zenon, <1>1, <2>1, RemovedFields
  <2>3. FirstByte(queue[q]) \in Byte \cup {NULL} BY Zenon, <2>1 DEF FirstByte, QueueType
  <2>4. QED BY Zenon, <1>1, <2>1, <2>2, <2>3, AddedFields
<1>4. QED BY Zenon, <1>1, <1>2, <1>3 DEF SerialAssumption

LEMMA SerialInterruptStep ==
  ASSUME Assumptions, IInv, serial_interrupt
  PROVE  TypeOK' /\ SchedInv' /\ Clients'
<1> USE DEF IInv, Clients
<1> DEFINE in == queue[buffer]
           out == queue[txq]
           receive == ~intq_full(buffer) /\ rbr # NULL
           transmit == ~intq_empty(txq) /\ thr = NULL
           v == IF receive THEN in.not_empty ELSE NULL
           w == IF transmit THEN out.not_full ELSE NULL
<1>1. /\ InterruptsOn /\ signal(v, w)
      /\ queue' = [queue EXCEPT ![buffer] = IF receive THEN Added(in, rbr) ELSE in,
                                ![txq] = IF transmit THEN Removed(out) ELSE out]
      /\ rbr' = (IF receive THEN NULL ELSE rbr)
      /\ thr' = (IF transmit THEN FirstByte(out) ELSE thr)
      /\ ier' = ier_for(queue') /\ UNCHANGED <<pc, op, arg, byte, mode>>
      /\ ier # {}
  BY Zenon DEF serial_interrupt
<1>2. rbr \in Byte \cup {NULL} /\ thr \in Byte \cup {NULL} BY Zenon DEF TypeOK
<1>3. /\ buffer \in Queue /\ txq \in Queue /\ buffer # txq
      /\ \A q \in Queue : q = buffer \/ q = txq
      /\ queue \in [Queue -> QueueType] /\ in \in QueueType /\ out \in QueueType
      /\ Removed(out) \in QueueType /\ FirstByte(out) \in Byte \cup {NULL}
      /\ \A b \in Byte : Added(in, b) \in QueueType
  BY Zenon, QueueFacts
<1>4. (IF receive THEN Added(in, rbr) ELSE in) \in QueueType
  BY Zenon, <1>2, <1>3
<1>5. (IF transmit THEN Removed(out) ELSE out) \in QueueType BY Zenon, <1>3
<1>6. /\ queue' \in [Queue -> QueueType]
      /\ queue'[buffer] = IF receive THEN Added(in, rbr) ELSE in
      /\ queue'[txq] = IF transmit THEN Removed(out) ELSE out
  BY Zenon, <1>1, <1>3, <1>4, <1>5
<1>7. Registered(v) /\ Registered(w) BY Zenon, <1>3 DEF Registered
<1>8. v # NULL => v # w BY Zenon, <1>3, Registers
<1>9. Moved(buffer, v, w)
  <2>1. /\ in.not_full \in {v, w} => in.not_full = NULL
        /\ ~receive => (in.not_empty \in {v, w} => in.not_empty = NULL)
    BY Zenon, <1>3, Registers
  <2>2. CASE receive
    <3>1. /\ queue'[buffer] = Added(queue[buffer], rbr) /\ rbr \in Byte
          /\ ~intq_full(buffer) /\ queue[buffer].not_empty \in {v, w}
      BY Zenon, <1>2, <1>6, <2>2
    <3>2. QED BY Zenon, <1>3, <2>1, <3>1, MovedAdded
  <2>3. CASE ~receive
    <3>1. queue'[buffer] = queue[buffer] BY Zenon, <1>6, <2>3
    <3>2. QED BY Zenon, <1>3, <2>1, <2>3, <3>1, MovedKept
  <2>4. QED BY Zenon, <2>2, <2>3
<1>10. Moved(txq, v, w)
  <2>1. /\ out.not_empty \in {v, w} => out.not_empty = NULL
        /\ ~transmit => (out.not_full \in {v, w} => out.not_full = NULL)
    BY Zenon, <1>3, Registers
  <2>2. CASE transmit
    <3>1. /\ queue'[txq] = Removed(queue[txq]) /\ ~intq_empty(txq)
          /\ queue[txq].not_full \in {v, w}
      BY Zenon, <1>6, <2>2
    <3>2. QED BY Zenon, <1>3, <2>1, <3>1, MovedRemoved
  <2>3. CASE ~transmit
    <3>1. queue'[txq] = queue[txq] BY Zenon, <1>6, <2>3
    <3>2. QED BY Zenon, <1>3, <2>1, <2>3, <3>1, MovedKept
  <2>4. QED BY Zenon, <2>2, <2>3
<1>11. mode # "QUEUE" => intq_empty(txq)'
  <2> HAVE mode # "QUEUE"
  <2>1. intq_empty(txq) BY Zenon DEF Booting
  <2>2. queue'[txq] = queue[txq] BY Zenon, <1>6, <2>1
  <2>3. QED BY Zenon, <2>1, <2>2 DEF intq_empty
<1>12. thr' \in Byte \cup {NULL} /\ rbr' \in Byte \cup {NULL} BY Zenon, <1>1, <1>2, <1>3
<1> HIDE DEF v, w, receive, transmit, in, out
<1>13. \A q \in Queue : Moved(q, v, w) BY Zenon, <1>3, <1>9, <1>10
<1>14. ier' \subseteq {"RECV", "XMIT"} BY Zenon, <1>1 DEF ier_for
<1>15. QED BY Zenon, <1>1, <1>6, <1>7, <1>8, <1>11, <1>12, <1>13, <1>14, HandlerStep

LEMMA HandlerPutcStep ==
  ASSUME Assumptions, IInv, HandlerPutc
  PROVE  TypeOK' /\ SchedInv' /\ Clients'
<1> USE DEF IInv, Clients
<1> DEFINE out == queue[txq]
           full == intq_full(txq)
           v == IF full THEN out.not_full ELSE NULL
           w == out.not_empty
<1>1. /\ InterruptsOn /\ mode = "QUEUE" /\ signal(v, w)
      /\ thr' = (IF full THEN FirstByte(out) ELSE thr)
      /\ ier' = ier_for(queue') /\ UNCHANGED <<pc, op, arg, byte, mode, rbr>>
  BY Zenon DEF HandlerPutc
<1>2. PICK b \in Byte :
        queue' = [queue EXCEPT ![txq] = IF full THEN Added(Removed(out), b)
                                                ELSE Added(out, b)]
  BY Zenon DEF HandlerPutc
<1>3. /\ buffer \in Queue /\ txq \in Queue /\ buffer # txq
      /\ \A q \in Queue : q = buffer \/ q = txq
      /\ queue \in [Queue -> QueueType] /\ FirstByte(out) \in Byte \cup {NULL}
      /\ Added(out, b) \in QueueType /\ Added(Removed(out), b) \in QueueType
  BY Zenon, QueueFacts
<1>4. (IF full THEN Added(Removed(out), b) ELSE Added(out, b)) \in QueueType
  BY Zenon, <1>3
<1>5. /\ queue' \in [Queue -> QueueType]
      /\ queue'[buffer] = queue[buffer]
      /\ queue'[txq] = IF full THEN Added(Removed(out), b) ELSE Added(out, b)
  BY Zenon, <1>2, <1>3, <1>4
<1>6. Registered(v) /\ Registered(w) BY Zenon, <1>3 DEF Registered
<1>7. v # NULL => v # w BY Zenon, <1>3, Registers
<1>8. Moved(buffer, v, w)
  <2>1. /\ queue[buffer].not_full \in {v, w} => queue[buffer].not_full = NULL
        /\ queue[buffer].not_empty \in {v, w} => queue[buffer].not_empty = NULL
    BY Zenon, <1>3, Registers
  <2>2. QED BY Zenon, <1>3, <1>5, <2>1, MovedKept
<1>9. Moved(txq, v, w)
  <2>1. CASE full
    <3>1. /\ queue'[txq] = Added(Removed(queue[txq]), b)
          /\ queue[txq].not_full \in {v, w} /\ queue[txq].not_empty \in {v, w}
      BY Zenon, <1>5, <2>1
    <3>2. QED BY Zenon, <1>3, <3>1, MovedBoth
  <2>2. CASE ~full
    <3>1. /\ queue'[txq] = Added(queue[txq], b) /\ queue[txq].not_empty \in {v, w}
      BY Zenon, <1>5, <2>2
    <3>2. queue[txq].not_full \in {v, w} => queue[txq].not_full = NULL
      BY Zenon, <1>3, <2>2, Registers
    <3>3. QED BY Zenon, <1>3, <2>2, <3>1, <3>2, MovedAdded
  <2>3. QED BY Zenon, <2>1, <2>2
<1>10. thr' \in Byte \cup {NULL} /\ rbr' \in Byte \cup {NULL} BY Zenon, <1>1, <1>3 DEF TypeOK
<1> HIDE DEF v, w, full, out
<1>11. \A q \in Queue : Moved(q, v, w) BY Zenon, <1>3, <1>8, <1>9
<1>12. ier' \subseteq {"RECV", "XMIT"} BY Zenon, <1>1 DEF ier_for
<1>13. QED BY Zenon, <1>1, <1>5, <1>6, <1>7, <1>10, <1>11, <1>12, HandlerStep

(* A thread that has interrupts off moves a byte. *)
LEMMA MoveStep ==
  ASSUME Assumptions, IInv, NEW t \in Thread, Running(t),
         pc[t] \in {"poll", "move", "flush"}, NEW x \in {"test", "done", "flush"},
         pc' = [pc EXCEPT ![t] = x],
         x = "test" => pc[t] = "poll" /\ UNCHANGED byte,
         NEW w, Registered(w), signal(w, NULL),
         queue' \in [Queue -> QueueType], \A q \in Queue : Moved(q, w, NULL),
         UNCHANGED <<op, arg, mode, ier, rbr>>, thr' \in Byte \cup {NULL},
         byte' \in [Thread -> Byte \cup {NULL}],
         \A u \in Thread \ {t} : byte'[u] = byte[u],
         x # "done" => ier \in {ier_for(queue'), ier_for(queue') \cup {"XMIT"}}
  PROVE  TypeOK' /\ SchedInv' /\ Clients'
<1> USE DEF IInv, Clients
<1>1. current = t /\ asleep[t] = NULL BY Zenon DEF Running
<1>2. /\ pc'[t] = x /\ \A u \in Thread \ {t} : pc'[u] = pc[u]
      /\ pc' \in [Thread -> PC] /\ x \in PC
  BY Zenon DEF TypeOK, PC
<1>3. /\ SchedInv' /\ QueueLocks' /\ Waiters' /\ Sleepers'
  <2>1. Registered(NULL) /\ (w # NULL => w # NULL) BY Zenon DEF Registered
  <2>2. QED BY Zenon, <1>1, <1>2, <2>1, QueueStep
<1>4. UNCHANGED <<current, level, asleep>> BY Zenon DEF signal
<1>5. TypeOK' BY Zenon, <1>2, <1>3 DEF TypeOK, IntQTypeOK, SchedInv
<1>6. ASSUME NEW u \in Thread PROVE ProgramOf(u)' /\ SeenBy(u)'
  <2>1. ProgramOf(u) BY Zenon DEF Programs
  <2>2. CASE u = t
    <3>1. ProgramOf(t) /\ t # idle BY Zenon, <2>1, <2>2 DEF ProgramOf
    <3>2. x = "test" => (Gets(t) \/ Puts(t))'
      BY Zenon, <3>1 DEF ProgramOf, Working, Gets, Puts
    <3>3. QED
      BY Zenon, <1>1, <1>2, <1>4, <2>2, <3>1, <3>2 DEF ProgramOf, SeenBy, Quiet, Working
  <2>3. CASE u # t
    <3>1. pc[u] \notin Pinned /\ (pc[u] = "lock" => asleep[u] # NULL)
      BY Zenon, <1>1, <2>1, <2>3 DEF ProgramOf
    <3>2. ProgramOf(u)' BY Zenon, <1>1, <1>2, <1>4, <2>1, <2>3 DEF ProgramOf, Gets, Puts
    <3>3. SeenBy(u)' BY Zenon, <1>2, <1>4, <2>3, <3>1 DEF SeenBy, Pinned
    <3>4. QED BY Zenon, <3>2, <3>3
  <2>4. QED BY Zenon, <2>2, <2>3
<1>7. Booting'
  <2>1. x \in PC \ {"boot", "boot_ier"} BY Zenon DEF PC
  <2>2. QED BY Zenon, <1>1, <2>1, BootKept
<1>8. IerRight'
  <2>1. ier_for(queue)' = ier_for(queue') BY Zenon DEF ier_for
  <2>2. QED BY Zenon, <1>1, <1>2, <1>4, <2>1 DEF IerRight
<1>9. QED BY Zenon, <1>3, <1>5, <1>6, <1>7, <1>8 DEF Programs, Seen

LEMMA PollStep ==
  ASSUME Assumptions, IInv, NEW t \in Thread,
         PutcMakesRoom(t) \/ (FlushLoop(t) /\ ~intq_empty(txq))
  PROVE  TypeOK' /\ SchedInv' /\ Clients'
<1> USE DEF IInv, Clients
<1> DEFINE w == queue[txq].not_full
           x == IF pc[t] = "poll" THEN "test" ELSE "flush"
<1>1. /\ Running(t) /\ pc[t] \in {"poll", "flush"} /\ PollOne
      /\ pc' = [pc EXCEPT ![t] = x] /\ UNCHANGED <<op, arg, byte, mode, ier, rbr>>
      /\ pc[t] = "flush" => ~intq_empty(txq)
  <2>1. CASE PutcMakesRoom(t) BY Zenon, <2>1 DEF PutcMakesRoom, At, Goto
  <2>2. CASE FlushLoop(t) /\ ~intq_empty(txq)
    <3>1. pc[t] = "flush" /\ pc' = pc BY Zenon, <2>2 DEF FlushLoop, At
    <3>2. pc = [pc EXCEPT ![t] = "flush"] BY Zenon, <3>1 DEF TypeOK
    <3>3. QED BY Zenon, <2>2, <3>1, <3>2 DEF FlushLoop, At
  <2>3. QED BY Zenon, <2>1, <2>2
<1>2. /\ thr' = FirstByte(queue[txq]) /\ signal(w, NULL)
      /\ queue' = [queue EXCEPT ![txq] = Removed(queue[txq])]
  BY Zenon, <1>1 DEF PollOne
<1>3. /\ buffer \in Queue /\ txq \in Queue /\ buffer # txq
      /\ \A q \in Queue : q = buffer \/ q = txq
      /\ queue \in [Queue -> QueueType] /\ queue[txq] \in QueueType
      /\ Removed(queue[txq]) \in QueueType
      /\ FirstByte(queue[txq]) \in Byte \cup {NULL}
  BY Zenon, QueueFacts
<1>4. /\ queue' \in [Queue -> QueueType] /\ queue'[buffer] = queue[buffer]
      /\ queue'[txq] = Removed(queue[txq])
  BY Zenon, <1>2, <1>3
<1>5. ~intq_empty(txq)
  <2>1. SeenBy(t) BY Zenon DEF Seen
  <2>2. queue[txq].head \in Slot /\ IntQAssumption
    BY Zenon, <1>3 DEF QueueType, Assumptions
  <2>3. QED BY Zenon, <1>1, <2>1, <2>2, NextSlot DEF SeenBy, intq_full, intq_empty
<1>6. Registered(w) BY Zenon, <1>3 DEF Registered
<1>7. Moved(buffer, w, NULL)
  <2>1. /\ queue[buffer].not_full \in {w, NULL} => queue[buffer].not_full = NULL
        /\ queue[buffer].not_empty \in {w, NULL} => queue[buffer].not_empty = NULL
    BY Zenon, <1>3, Registers
  <2>2. QED BY Zenon, <1>3, <1>4, <2>1, MovedKept
<1>8. Moved(txq, w, NULL)
  <2>1. queue[txq].not_empty \in {w, NULL} => queue[txq].not_empty = NULL
    BY Zenon, <1>3, Registers
  <2>2. QED BY Zenon, <1>3, <1>4, <1>5, <2>1, MovedRemoved
<1>9. ier \in {ier_for(queue'), ier_for(queue') \cup {"XMIT"}}
  <2>1. pc[initial_thread] # "boot_ier" /\ mode = "QUEUE" /\ pc[current] # "done"
    BY Zenon, <1>1, Booted DEF Running
  <2>2. ier \in {ier_for(queue), ier_for(queue) \cup {"XMIT"}} BY Zenon, <2>1 DEF IerRight
  <2>3. ier_for(queue) = ier_for(queue') \cup {"XMIT"}
    BY Zenon, <1>4, <1>5 DEF ier_for, intq_empty
  <2>4. QED BY Zenon, <2>2, <2>3
<1>10. thr' \in Byte \cup {NULL} BY Zenon, <1>2, <1>3
<1>11. /\ x \in {"test", "done", "flush"} /\ (x = "test" => pc[t] = "poll")
       /\ pc[t] \in {"poll", "move", "flush"}
  BY Zenon, <1>1
<1>12. byte' \in [Thread -> Byte \cup {NULL}] /\ byte' = byte
  BY Zenon, <1>1 DEF TypeOK, IntQTypeOK
<1> HIDE DEF w, x
<1>13. \A q \in Queue : Moved(q, w, NULL) BY Zenon, <1>3, <1>7, <1>8
<1>14. QED
  BY Zenon, <1>1, <1>2, <1>4, <1>6, <1>9, <1>10, <1>11, <1>12, <1>13, MoveStep

LEMMA IntqMoveStep ==
  ASSUME Assumptions, IInv, NEW t \in Thread, IntqMove(t), UNCHANGED uart_vars
  PROVE  TypeOK' /\ SchedInv' /\ Clients'
<1> USE DEF IInv, Clients
<1>1. /\ Running(t) /\ pc[t] = "move" /\ pc' = [pc EXCEPT ![t] = "done"]
      /\ UNCHANGED <<op, arg, mode, ier, rbr, thr>>
  BY Zenon DEF IntqMove, At, Goto, uart_vars
<1>2. (Gets(t) \/ Puts(t)) /\ ~MustWait(t)
  BY Zenon, <1>1 DEF Programs, ProgramOf, Working, Seen, SeenBy
<1>3. /\ buffer \in Queue /\ txq \in Queue /\ buffer # txq
      /\ \A q \in Queue : q = buffer \/ q = txq
      /\ queue \in [Queue -> QueueType]
      /\ \A q \in Queue : /\ Removed(queue[q]) \in QueueType
                          /\ FirstByte(queue[q]) \in Byte \cup {NULL}
                          /\ \A b \in Byte : Added(queue[q], b) \in QueueType
  BY Zenon, QueueFacts
<1>4. thr' \in Byte \cup {NULL} BY Zenon, <1>1 DEF TypeOK
<1>5. /\ "done" \in {"test", "done", "flush"} /\ "move" \in {"poll", "move", "flush"}
      /\ "done" # "test"
  BY Zenon
<1>6. CASE Gets(t)
  <2> DEFINE w == queue[buffer].not_full
  <2>1. /\ byte' = [byte EXCEPT ![t] = FirstByte(queue[buffer])]
        /\ queue' = [queue EXCEPT ![buffer] = Removed(queue[buffer])]
        /\ signal(w, NULL) /\ ~intq_empty(buffer)
    BY Zenon, <1>2, <1>6 DEF IntqMove, Gets, MustWait
  <2>2. /\ queue' \in [Queue -> QueueType] /\ queue'[txq] = queue[txq]
        /\ queue'[buffer] = Removed(queue[buffer])
    BY Zenon, <1>3, <2>1
  <2>3. /\ byte' \in [Thread -> Byte \cup {NULL}]
        /\ \A u \in Thread \ {t} : byte'[u] = byte[u]
    BY Zenon, <1>3, <2>1 DEF TypeOK, IntQTypeOK
  <2>4. Registered(w) BY Zenon, <1>3 DEF Registered
  <2>5. Moved(txq, w, NULL)
    <3>1. /\ queue[txq].not_full \in {w, NULL} => queue[txq].not_full = NULL
          /\ queue[txq].not_empty \in {w, NULL} => queue[txq].not_empty = NULL
      BY Zenon, <1>3, Registers
    <3>2. QED BY Zenon, <1>3, <2>2, <3>1, MovedKept
  <2>6. Moved(buffer, w, NULL)
    <3>1. queue[buffer].not_empty \in {w, NULL} => queue[buffer].not_empty = NULL
      BY Zenon, <1>3, Registers
    <3>2. QED BY Zenon, <1>3, <2>1, <2>2, <3>1, MovedRemoved
  <2> HIDE DEF w
  <2>7. \A q \in Queue : Moved(q, w, NULL) BY Zenon, <1>3, <2>5, <2>6
  <2>8. QED BY Zenon, <1>1, <1>4, <1>5, <2>1, <2>2, <2>3, <2>4, <2>7, MoveStep
<1>7. CASE Puts(t) /\ ~Gets(t)
  <2> DEFINE w == queue[txq].not_empty
  <2>1. /\ queue' = [queue EXCEPT ![txq] = Added(queue[txq], byte[t])]
        /\ signal(w, NULL) /\ ~intq_full(txq) /\ byte' = byte /\ byte[t] \in Byte
    BY Zenon, <1>2, <1>7 DEF IntqMove, Puts, MustWait
  <2>2. /\ queue' \in [Queue -> QueueType] /\ queue'[buffer] = queue[buffer]
        /\ queue'[txq] = Added(queue[txq], byte[t])
    BY Zenon, <1>3, <2>1
  <2>3. /\ byte' \in [Thread -> Byte \cup {NULL}]
        /\ \A u \in Thread \ {t} : byte'[u] = byte[u]
    BY Zenon, <2>1 DEF TypeOK, IntQTypeOK
  <2>4. Registered(w) BY Zenon, <1>3 DEF Registered
  <2>5. Moved(buffer, w, NULL)
    <3>1. /\ queue[buffer].not_full \in {w, NULL} => queue[buffer].not_full = NULL
          /\ queue[buffer].not_empty \in {w, NULL} => queue[buffer].not_empty = NULL
      BY Zenon, <1>3, Registers
    <3>2. QED BY Zenon, <1>3, <2>2, <3>1, MovedKept
  <2>6. Moved(txq, w, NULL)
    <3>1. queue[txq].not_full \in {w, NULL} => queue[txq].not_full = NULL
      BY Zenon, <1>3, Registers
    <3>2. QED BY Zenon, <1>3, <2>1, <2>2, <3>1, MovedAdded
  <2> HIDE DEF w
  <2>7. \A q \in Queue : Moved(q, w, NULL) BY Zenon, <1>3, <2>5, <2>6
  <2>8. QED BY Zenon, <1>1, <1>4, <1>5, <2>1, <2>2, <2>3, <2>4, <2>7, MoveStep
<1>8. QED BY Zenon, <1>2, <1>6, <1>7
=============================================================================
