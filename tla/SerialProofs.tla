---------------------------- MODULE SerialProofs ----------------------------
(***************************************************************************)
(* The interrupt queues and the serial port: the boot, and what the        *)
(* invariant says of the threads that sleep on a queue and of the bytes    *)
(* that go through it, for any finite set of threads, any readers and      *)
(* writers, any bytes and any queue size.                                  *)
(***************************************************************************)
EXTENDS SerialSteps

-----------------------------------------------------------------------------
(* The boot *)

(* Before the other threads are started nobody sleeps or waits. *)
LEMMA AloneFacts ==
  ASSUME Assumptions, IInv, pc[initial_thread] \in {"boot", "boot_ier"}
  PROVE  /\ Alone /\ initial_thread \in Thread
         /\ \A t \in Thread : /\ pc[t] \in {"boot", "boot_ier", "run", "idle"}
                              /\ asleep[t] = NULL
         /\ \A q \in Queue : queue[q].not_full = NULL /\ queue[q].not_empty = NULL
<1> USE DEF IInv, Clients
<1>1. Alone /\ initial_thread \in Thread
  BY Zenon DEF Booting, Assumptions, ThreadAssumption
<1>2. ASSUME NEW t \in Thread PROVE pc[t] \in {"boot", "boot_ier", "run", "idle"}
  <2>1. CASE t = initial_thread BY Zenon, <2>1
  <2>2. CASE t # initial_thread BY Zenon, <1>1, <2>2 DEF Alone
  <2>3. QED BY Zenon, <2>1, <2>2
<1>3. \A t \in Thread : asleep[t] = NULL BY Zenon, <1>2 DEF Programs, ProgramOf
<1>4. ASSUME NEW q \in Queue PROVE queue[q].not_full = NULL /\ queue[q].not_empty = NULL
  <2>1. /\ queue[q].not_full \in Thread \cup {NULL}
        /\ queue[q].not_empty \in Thread \cup {NULL}
        /\ WaitsIn(queue[q].not_full, "putc", q) /\ WaitsIn(queue[q].not_empty, "getc", q)
    BY Zenon, Registers
  <2>2. QED BY Zenon, <1>2, <2>1 DEF WaitsIn
<1>5. QED BY Zenon, <1>1, <1>2, <1>3, <1>4

(* What is the same for every step of main() up to the start of the other  *)
(* threads.                                                                *)
LEMMA BootStep ==
  ASSUME Assumptions, IInv, pc[initial_thread] \in {"boot", "boot_ier"},
         TypeOK', NEW x \in {"boot", "boot_ier", "run"},
         pc' = [pc EXCEPT ![initial_thread] = x],
         UNCHANGED <<current, level, asleep, value, op, arg, byte>>,
         \A q \in Queue : queue'[q].not_full = NULL /\ queue'[q].not_empty = NULL
  PROVE  Programs' /\ Seen' /\ QueueLocks' /\ Waiters' /\ Sleepers'
<1> USE DEF IInv, Clients
<1>1. /\ Alone /\ initial_thread \in Thread
      /\ \A t \in Thread : /\ pc[t] \in {"boot", "boot_ier", "run", "idle"}
                           /\ asleep[t] = NULL
  BY Zenon, AloneFacts
<1>2. /\ pc'[initial_thread] = x
      /\ \A t \in Thread \ {initial_thread} : pc'[t] = pc[t]
  BY DEF TypeOK
<1>3. \A t \in Thread : pc'[t] \in {"boot", "boot_ier", "run", "idle"}
  BY Zenon, <1>1, <1>2
<1>4. ASSUME NEW t \in Thread PROVE ProgramOf(t)' /\ SeenBy(t)' /\ SleepOf(t)'
  <2>1. ProgramOf(t) BY Zenon DEF Programs
  <2>2. ProgramOf(t)'
    BY ZenonT(60), <1>1, <1>2, <1>3, <2>1 DEF ProgramOf, Quiet, Working, Pinned, Gets, Puts
  <2>3. QED BY Zenon, <1>3, <2>2 DEF SeenBy, SleepOf
<1>5. QueueLocks'
  <2>1. \A t \in Thread, q \in Queue : HasLock(t, q)' <=> HasLock(t, q)
    BY Zenon, <1>1, <1>3 DEF HasLock
  <2>2. QED BY Zenon, <2>1, LocksKept
<1>6. Waiters' BY Zenon DEF Waiters, WaitersOf, WaitsIn
<1>7. QED BY Zenon, <1>4, <1>5, <1>6 DEF Programs, Seen, Sleepers

LEMMA InitPollStep ==
  ASSUME Assumptions, IInv, PutcPolled \/ serial_init_queue
  PROVE  TypeOK' /\ SchedInv' /\ Clients'
<1> USE DEF IInv, Clients
<1> DEFINE x == IF mode' = "QUEUE" THEN "boot_ier" ELSE "boot"
<1>1. /\ queue' = init_poll /\ mode' \in {"POLL", "QUEUE"}
      /\ pc[initial_thread] = "boot" /\ pc' = [pc EXCEPT ![initial_thread] = x]
      /\ UNCHANGED <<sched_vars, op, arg, byte, ier, rbr>>
      /\ thr' \in Byte \cup {NULL}
  <2>1. CASE PutcPolled
    <3>1. pc[initial_thread] = "boot" /\ pc' = pc /\ mode' = "POLL"
      BY Zenon, <2>1 DEF PutcPolled, Booting
    <3>2. pc = [pc EXCEPT ![initial_thread] = "boot"]
      BY Zenon, <3>1 DEF TypeOK
    <3>3. QED BY Zenon, <2>1, <3>1, <3>2 DEF PutcPolled
  <2>2. CASE serial_init_queue
    BY Zenon, <2>2 DEF serial_init_queue, At, Goto, TypeOK
  <2>3. QED BY Zenon, <2>1, <2>2
<1>2. UNCHANGED <<current, ready_list, status, level, asleep, value>>
  BY Zenon, <1>1 DEF sched_vars
<1>3. SchedInv' BY Zenon, <1>1, SchedStutter
<1>4. /\ Alone /\ initial_thread \in Thread
      /\ \A q \in Queue : queue[q].not_full = NULL /\ queue[q].not_empty = NULL
  BY Zenon, <1>1, AloneFacts
<1>5. /\ intq_init \in QueueType /\ intq_init.head = intq_init.tail
      /\ intq_init.not_full = NULL /\ intq_init.not_empty = NULL
  BY DEF intq_init, QueueType, Assumptions, IntQAssumption, Slot
<1>6. /\ queue' \in [Queue -> QueueType]
      /\ \A q \in Queue : queue'[q] = queue[q] \/ queue'[q] = intq_init
      /\ queue'[txq] = queue[txq] \/ queue'[txq] = intq_init
  <2> HIDE DEF x
  <2>1. queue \in [Queue -> QueueType] /\ txq \in Queue BY Zenon, QueueFacts
  <2>2. CASE mode = "UNINIT"
    <3>1. queue' = [queue EXCEPT ![txq] = intq_init] BY Zenon, <1>1, <2>2 DEF init_poll
    <3>2. QED BY Zenon, <1>5, <2>1, <3>1
  <2>3. CASE mode # "UNINIT"
    <3>1. queue' = queue BY Zenon, <1>1, <2>3 DEF init_poll
    <3>2. QED BY Zenon, <2>1, <3>1
  <2>4. QED BY Zenon, <2>2, <2>3
<1>7. pc' \in [Thread -> PC] /\ pc'[initial_thread] = x
      /\ \A t \in Thread \ {initial_thread} : pc'[t] = pc[t]
  BY Zenon, <1>1, <1>4 DEF TypeOK, PC
<1>8. TypeOK' BY Zenon, <1>1, <1>3, <1>6, <1>7 DEF TypeOK, IntQTypeOK, SchedInv
<1>9. \A q \in Queue : queue'[q].not_full = NULL /\ queue'[q].not_empty = NULL
  BY Zenon, <1>4, <1>5, <1>6
<1>10. Programs' /\ Seen' /\ QueueLocks' /\ Waiters' /\ Sleepers'
  BY Zenon, <1>1, <1>2, <1>8, <1>9, BootStep
<1>11. Booting'
  <2>1. intq_empty(txq) BY Zenon, <1>1 DEF Booting
  <2>2. intq_empty(txq)' BY Zenon, <1>5, <1>6, <2>1 DEF intq_empty
  <2>3. Alone' BY Zenon, <1>2, <1>4, <1>7 DEF Alone
  <2>4. QED BY <1>1, <1>7, <2>2, <2>3 DEF Booting
<1>12. IerRight' BY Zenon, <1>7 DEF IerRight
<1>13. QED BY Zenon, <1>3, <1>8, <1>10, <1>11, <1>12

(* The UART's own steps. *)
LEMMA UartStep ==
  ASSUME Assumptions, IInv, UNCHANGED <<sched_vars, intq_vars, pc, mode, ier>>,
         rbr' \in Byte \cup {NULL}, thr' \in Byte \cup {NULL}
  PROVE  TypeOK' /\ SchedInv' /\ Clients'
<1> USE DEF IInv, Clients, sched_vars, intq_vars
<1>1. SchedInv' BY Zenon, SchedStutter
<1>2. TypeOK' BY Zenon, <1>1 DEF TypeOK, IntQTypeOK, SchedInv
<1>3. Programs' BY Zenon DEF Programs, ProgramOf, Gets, Puts
<1>4. Seen' BY Zenon DEF Seen, SeenBy, Puts, MustWait, intq_empty, intq_full
<1>5. QueueLocks' BY ZenonT(60) DEF QueueLocks, LockOf, HasLock
<1>6. Waiters' BY Zenon DEF Waiters, WaitersOf, WaitsIn
<1>7. Sleepers' BY Zenon DEF Sleepers, SleepOf, MustWait, intq_empty, intq_full
<1>8. Booting' BY Zenon DEF Booting, Alone, intq_empty
<1>9. IerRight' BY Zenon DEF IerRight, ier_for, next
<1>10. QED BY Zenon, <1>1, <1>2, <1>3, <1>4, <1>5, <1>6, <1>7, <1>8, <1>9

LEMMA ThreadInv ==
  ASSUME Assumptions, IInv, NEW t \in Thread, ThreadStep(t)
  PROVE  TypeOK' /\ SchedInv' /\ Clients'
<1>1. CASE IntqStep(t) /\ UNCHANGED uart_vars
  <2>1. CASE IntqTest(t) BY Zenon, <1>1, <2>1, TestStep
  <2>2. CASE IntqLock(t)
    <3>1. \/ sema_down_wait(t, arg[t]) /\ UNCHANGED pc
          \/ sema_down_take(t, arg[t]) /\ Goto(t, "wait")
      BY Zenon, <2>2 DEF IntqLock
    <3>2. CASE sema_down_wait(t, arg[t]) /\ UNCHANGED pc
      BY Zenon, <1>1, <2>2, <3>2, LockWaitStep
    <3>3. CASE sema_down_take(t, arg[t]) /\ Goto(t, "wait")
      BY Zenon, <1>1, <2>2, <3>3, LockTakeStep
    <3>4. QED BY Zenon, <3>1, <3>2, <3>3
  <2>3. CASE IntqWait(t) BY Zenon, <1>1, <2>3, WaitStep
  <2>4. CASE IntqUnlock(t) BY Zenon, <1>1, <2>4, UnlockStep
  <2>5. CASE IntqMove(t) BY Zenon, <1>1, <2>5, IntqMoveStep
  <2>6. QED BY Zenon, <1>1, <2>1, <2>2, <2>3, <2>4, <2>5 DEF IntqStep
<1>2. CASE input_getc(t) \/ serial_putc(t) \/ serial_flush(t)
  BY Zenon, <1>2, CallStep
<1>3. CASE PutcMakesRoom(t) \/ (FlushLoop(t) /\ ~intq_empty(txq))
  BY Zenon, <1>3, PollStep
<1>4. CASE Done(t) \/ (FlushLoop(t) /\ intq_empty(txq)) BY Zenon, <1>4, ReturnStep
<1>5. QED BY Zenon, <1>1, <1>2, <1>3, <1>4 DEF ThreadStep

-----------------------------------------------------------------------------
(* The assertion of wait() *)

(* At most one thread reads the keyboard and at most one writes the port. *)
OneUser == (\A t, u \in Reader : t = u) /\ (\A t, u \in Writer : t = u)

(* Then nobody sleeps for a queue's lock between the test and wait(). *)
NoneQueues == (\A t \in Thread : asleep[t] = NULL) /\ WaitAssertion

LEMMA LockFree ==
  ASSUME Assumptions, IInv, OneUser, NEW t \in Thread, pc[t] = "lock"
  PROVE  value[arg[t]] # 0
<1> USE DEF IInv, Clients
<1>1. arg[t] \in Queue BY Zenon DEF TypeOK, IntQTypeOK
<1>2. LockOf(arg[t]) /\ (Gets(t) \/ Puts(t))
  BY Zenon, <1>1 DEF QueueLocks, Programs, ProgramOf, Working
<1>3. ASSUME NEW u \in Thread, HasLock(u, arg[t]) PROVE FALSE
  <2>1. /\ arg[u] = arg[t] /\ pc[u] \in {"wait", "unlock"} BY Zenon, <1>3 DEF HasLock
  <2>2. Gets(u) \/ Puts(u) BY Zenon, <2>1 DEF Programs, ProgramOf, Working
  <2>3. buffer # txq BY Zenon DEF Assumptions, SerialAssumption
  <2>4. u = t BY Zenon, <1>2, <2>1, <2>2, <2>3 DEF Gets, Puts, OneUser
  <2>5. QED BY Zenon, <2>1, <2>4
<1>4. QED BY <1>2, <1>3 DEF LockOf

LEMMA NoneQueuesStep ==
  ASSUME Assumptions, OneUser, IInv, NoneQueues, [Next]_vars
  PROVE  NoneQueues'
<1> USE DEF IInv, Clients
<1>1. \A t \in Thread : asleep[t] = NULL BY Zenon DEF NoneQueues
<1>2. ASSUME NEW t \in Thread, IntqLock(t)
      PROVE  /\ sema_down_take(t, arg[t]) /\ pc' = [pc EXCEPT ![t] = "wait"]
             /\ pc[t] = "lock" /\ UNCHANGED intq_vars
  <2>1. value[arg[t]] # 0 BY Zenon, <1>2, LockFree DEF IntqLock
  <2>2. QED BY Zenon, <1>2, <2>1 DEF IntqLock, sema_down_wait, Goto
<1>3. \A t \in Thread : asleep'[t] = NULL
  <2>1. CASE \E t \in Thread : IntqLock(t)
    <3>1. PICK t \in Thread : IntqLock(t) BY Zenon, <2>1
    <3>2. asleep' = [asleep EXCEPT ![t] = NULL]
      BY Zenon, <1>2, <3>1 DEF sema_down_take
    <3>3. QED BY Zenon, <1>1, <3>2 DEF TypeOK, SchedTypeOK
  <2>2. CASE ~\E t \in Thread : IntqLock(t)
    <3>1. ASSUME NEW t \in Thread, ThreadStep(t) PROVE asleep' = asleep
      <4>1. CASE IntqStep(t)
        BY Zenon, <2>2, <4>1 DEF IntqStep, IntqTest, IntqWait, IntqUnlock, IntqMove,
                                 sched_vars, sema_up, signal
      <4>2. CASE ~IntqStep(t)
        BY Zenon, <3>1, <4>2 DEF ThreadStep, input_getc, serial_putc, PutcMakesRoom,
           Done, serial_flush, FlushLoop, PollOne, signal, sched_but_level
      <4>3. QED BY Zenon, <4>1, <4>2
    <3>2. ASSUME ~\E t \in Thread : ThreadStep(t) PROVE asleep' = asleep
      BY Zenon, <3>2 DEF Next, vars, sched_vars, PutcPolled, serial_init_queue,
         InitWriteIer, IdleBlock, TimerInterrupt, thread_tick, serial_interrupt,
         keyboard_interrupt, HandlerPutc, UartReceives, UartTransmits, signal
    <3>3. asleep' = asleep BY Zenon, <3>1, <3>2
    <3>4. QED BY Zenon, <1>1, <3>3
  <2>3. QED BY Zenon, <2>1, <2>2
<1>4. ASSUME NEW u \in Thread, UNCHANGED intq_vars, MustWait(u) PROVE MustWait(u)'
  BY Zenon, <1>4 DEF intq_vars, MustWait, intq_empty, intq_full
<1>5. ASSUME NEW u \in Thread, pc[u] = "wait", pc'[u] = "wait" PROVE MustWait(u)'
  <2>1. current = u /\ level[u] = "OFF"
    BY Zenon, <1>5 DEF Programs, ProgramOf, Pinned, Quiet
  <2>2. ~InterruptsOn /\ mode = "QUEUE"
    BY Zenon, <1>5, <2>1, Booted DEF InterruptsOn
  <2>3. ASSUME NEW t \in Thread, ThreadStep(t) PROVE FALSE
    <3>1. t = u
      BY Zenon, <2>1, <2>3 DEF ThreadStep, IntqStep, IntqTest, IntqLock, IntqWait,
         IntqUnlock, IntqMove, input_getc, serial_putc, PutcMakesRoom, Done,
         serial_flush, FlushLoop, At, Running, InSemaDown
    <3>2. IntqWait(u)
      BY Zenon, <1>5, <2>3, <3>1 DEF ThreadStep, IntqStep, IntqTest, IntqLock,
         IntqUnlock, IntqMove, input_getc, serial_putc, PutcMakesRoom, Done,
         serial_flush, FlushLoop, At
    <3>3. pc'[u] = "unlock" BY Zenon, <3>2 DEF IntqWait, Goto, TypeOK
    <3>4. QED BY Zenon, <1>5, <3>3
  <2>4. UNCHANGED intq_vars
    <3>1. ~(PutcPolled \/ TimerInterrupt \/ serial_interrupt \/ keyboard_interrupt
            \/ HandlerPutc)
      BY Zenon, <2>2 DEF PutcPolled, TimerInterrupt, thread_tick, serial_interrupt,
         keyboard_interrupt, HandlerPutc
    <3>2. ~(serial_init_queue \/ InitWriteIer \/ IdleBlock)
      BY Zenon, <1>5, <2>1 DEF serial_init_queue, InitWriteIer, IdleBlock, At, Running
    <3>3. UartReceives \/ UartTransmits \/ UNCHANGED vars
      BY Zenon, <2>3, <3>1, <3>2 DEF Next
    <3>4. QED BY Zenon, <3>3 DEF UartReceives, UartTransmits, vars
  <2>5. QED BY Zenon, <1>4, <1>5, <2>4 DEF NoneQueues, WaitAssertion
<1>6. ASSUME NEW u \in Thread, pc[u] # "wait", pc'[u] = "wait" PROVE MustWait(u)'
  <2>1. \E t \in Thread : IntqLock(t)
    <3> SUFFICES ASSUME \A t \in Thread : ~IntqLock(t) PROVE FALSE BY Zenon
    <3>1. \/ pc' = pc
          \/ \E t \in Thread, x \in PC \ {"wait"} : pc' = [pc EXCEPT ![t] = x]
      <4>1. ASSUME NEW t \in Thread, ThreadStep(t)
            PROVE  \/ pc' = pc
                   \/ \E x \in PC \ {"wait"} : pc' = [pc EXCEPT ![t] = x]
        BY Zenon, <4>1 DEF ThreadStep, IntqStep, IntqTest, IntqWait, IntqUnlock, IntqMove,
           input_getc, serial_putc, PutcMakesRoom, Done, serial_flush, FlushLoop,
           Goto, PC
      <4>2. initial_thread \in Thread BY Zenon DEF Assumptions, ThreadAssumption
      <4>3. CASE serial_init_queue \/ InitWriteIer
        BY Zenon, <4>2, <4>3 DEF serial_init_queue, InitWriteIer, Goto, PC
      <4>4. CASE ~(\E t \in Thread : ThreadStep(t)) /\ ~(serial_init_queue \/ InitWriteIer)
        BY Zenon, <4>4 DEF Next, vars, PutcPolled, IdleBlock, TimerInterrupt,
           serial_interrupt, keyboard_interrupt, HandlerPutc, UartReceives, UartTransmits
      <4>5. QED BY Zenon, <4>1, <4>3, <4>4
    <3>2. QED BY Zenon, <1>6, <3>1 DEF TypeOK
  <2>2. PICK t \in Thread : IntqLock(t) BY Zenon, <2>1
  <2>3. /\ pc' = [pc EXCEPT ![t] = "wait"] /\ pc[t] = "lock" /\ UNCHANGED intq_vars
    BY Zenon, <1>2, <2>2
  <2>4. u = t BY Zenon, <1>6, <2>3 DEF TypeOK
  <2>5. MustWait(u) BY Zenon, <1>1, <2>3, <2>4 DEF Seen, SeenBy
  <2>6. QED BY Zenon, <1>4, <2>3, <2>5
<1>7. QED BY Zenon, <1>3, <1>5, <1>6 DEF NoneQueues, WaitAssertion

-----------------------------------------------------------------------------
(* The bytes *)

LEMMA ContentsAre ==
  ASSUME NEW q \in Queue
  PROVE  Contents(q) = Items(queue[q]) /\ Contents(q)' = Items(queue'[q])
BY Zenon DEF Contents, Items, Count, Place

(* Queue Q keeps its bytes, perhaps not its waiters. *)
Kept(q) == /\ queue'[q].buf = queue[q].buf /\ queue'[q].head = queue[q].head
           /\ queue'[q].tail = queue[q].tail

LEMMA BytesKept ==
  ASSUME NEW q \in Queue, Kept(q)
  PROVE  Contents(q)' = Contents(q)
<1>1. Items(queue'[q]) = Items(queue[q]) BY Zenon DEF Kept, Items, Count, Place
<1>2. QED BY Zenon, <1>1, ContentsAre

LEMMA BytePut ==
  ASSUME Assumptions, TypeOK, NEW q \in Queue, NEW b \in Byte, ~intq_full(q),
         queue'[q] = Added(queue[q], b)
  PROVE  Contents(q)' = Append(Contents(q), b)
<1>1. queue[q] \in QueueType BY Zenon, QueueFacts
<1>2. Items(Added(queue[q], b)) = Append(Items(queue[q]), b)
  BY Zenon, <1>1, AddedItems DEF Assumptions, intq_full
<1>3. QED BY Zenon, <1>2, ContentsAre

LEMMA ByteGot ==
  ASSUME Assumptions, TypeOK, NEW q \in Queue, ~intq_empty(q)
  PROVE  /\ Contents(q) # <<>> /\ FirstByte(queue[q]) = Head(Contents(q))
         /\ queue'[q] = Removed(queue[q]) => Contents(q)' = Tail(Contents(q))
         /\ \A b \in Byte : queue'[q] = Added(Removed(queue[q]), b) =>
                             Contents(q)' = Append(Tail(Contents(q)), b)
<1>1. queue[q] \in QueueType /\ Removed(queue[q]) \in QueueType BY Zenon, QueueFacts
<1>2. /\ Items(queue[q]) # <<>> /\ FirstByte(queue[q]) = Head(Items(queue[q]))
      /\ Items(Removed(queue[q])) = Tail(Items(queue[q]))
      /\ next(Removed(queue[q]).head) # Removed(queue[q]).tail
  BY Zenon, <1>1, RemovedItems DEF Assumptions, intq_empty
<1>3. \A b \in Byte :
         Items(Added(Removed(queue[q]), b)) = Append(Tail(Items(queue[q])), b)
  BY Zenon, <1>1, <1>2, AddedItems DEF Assumptions
<1>4. QED BY Zenon, <1>2, <1>3, ContentsAre

LEMMA FullNotEmpty ==
  ASSUME Assumptions, TypeOK, NEW q \in Queue, intq_full(q)
  PROVE  ~intq_empty(q)
<1>1. queue[q].head \in Slot BY Zenon DEF TypeOK, IntQTypeOK, QueueType
<1>2. next(queue[q].head) # queue[q].head BY Zenon, <1>1, NextSlot DEF Assumptions
<1>3. QED BY Zenon, <1>2 DEF intq_full, intq_empty

LEMMA KeptBytes ==
  ASSUME Assumptions, TypeOK
  PROVE  /\ Kept(txq) => SendStep
         /\ Kept(buffer) /\ rbr \in {NULL, rbr'} => ReceiveStep
<1>1. buffer \in Queue /\ txq \in Queue BY Zenon, QueueFacts
<1>2. Kept(txq) => Contents(txq)' = Contents(txq) BY Zenon, <1>1, BytesKept
<1>3. Kept(buffer) => Contents(buffer)' = Contents(buffer) BY Zenon, <1>1, BytesKept
<1>4. QED BY Zenon, <1>2, <1>3 DEF SendStep, ReceiveStep

LEMMA PutBytes ==
  ASSUME Assumptions, TypeOK, NEW b \in Byte
  PROVE  /\ ~intq_full(txq) /\ queue'[txq] = Added(queue[txq], b) => SendStep
         /\ /\ ~intq_full(buffer) /\ queue'[buffer] = Added(queue[buffer], b)
            /\ rbr \in {NULL, rbr', b}
            => ReceiveStep
<1>1. buffer \in Queue /\ txq \in Queue BY Zenon, QueueFacts
<1>2. ASSUME ~intq_full(txq), queue'[txq] = Added(queue[txq], b) PROVE SendStep
  <2>1. Contents(txq)' = Append(Contents(txq), b) BY Zenon, <1>1, <1>2, BytePut
  <2>2. QED BY Zenon, <2>1 DEF SendStep
<1>3. ASSUME ~intq_full(buffer), queue'[buffer] = Added(queue[buffer], b),
             rbr \in {NULL, rbr', b}
      PROVE  ReceiveStep
  <2>1. Contents(buffer)' = Append(Contents(buffer), b) BY Zenon, <1>1, <1>3, BytePut
  <2>2. QED BY Zenon, <1>3, <2>1 DEF ReceiveStep
<1>4. QED BY Zenon, <1>2, <1>3

LEMMA SentByte ==
  ASSUME Assumptions, TypeOK, ~intq_empty(txq), thr = NULL,
         thr' = FirstByte(queue[txq]),
         \/ queue'[txq] = Removed(queue[txq])
         \/ \E b \in Byte : queue'[txq] = Added(Removed(queue[txq]), b)
  PROVE  SendStep
<1>1. txq \in Queue BY Zenon, QueueFacts
<1>2. /\ Contents(txq) # <<>> /\ thr' = Head(Contents(txq))
      /\ \/ Contents(txq)' = Tail(Contents(txq))
         \/ \E b \in Byte : Contents(txq)' = Append(Tail(Contents(txq)), b)
  BY Zenon, <1>1, ByteGot
<1>3. QED BY Zenon, <1>2 DEF SendStep

LEMMA ThreadBytes ==
  ASSUME Assumptions, IInv, NEW t \in Thread, ThreadStep(t)
  PROVE  SendStep /\ ReceiveStep
<1> USE DEF IInv, Clients
<1>1. /\ buffer \in Queue /\ txq \in Queue /\ buffer # txq
      /\ queue \in [Queue -> QueueType] /\ (\A q \in Queue : queue[q] \in QueueType)
  BY Zenon, QueueFacts
<1>2. rbr' = rbr
  BY Zenon DEF ThreadStep, uart_vars, input_getc, serial_putc, PutcMakesRoom, Done,
               serial_flush, FlushLoop
<1>3. CASE queue' = queue
  <2>1. Kept(buffer) /\ Kept(txq) BY Zenon, <1>3 DEF Kept
  <2>2. QED BY Zenon, <1>2, <2>1, KeptBytes
<1>4. CASE IntqWait(t)
  <2>1. arg[t] \in Queue BY Zenon DEF TypeOK, IntQTypeOK
  <2>2. ASSUME NEW q \in Queue PROVE Kept(q)
    <3>1. queue' = IF op[t] = "getc" THEN [queue EXCEPT ![arg[t]].not_empty = t]
                                     ELSE [queue EXCEPT ![arg[t]].not_full = t]
      BY Zenon, <1>4 DEF IntqWait
    <3>2. queue[arg[t]] \in QueueType BY Zenon, <1>1, <2>1
    <3>3. CASE op[t] = "getc" BY Zenon, <1>1, <2>1, <3>1, <3>2, <3>3 DEF Kept, QueueType
    <3>4. CASE op[t] # "getc" BY Zenon, <1>1, <2>1, <3>1, <3>2, <3>4 DEF Kept, QueueType
    <3>5. QED BY Zenon, <3>3, <3>4
  <2>3. QED BY Zenon, <1>1, <1>2, <2>2, KeptBytes
<1>5. CASE IntqMove(t)
  <2>1. /\ pc[t] = "move" /\ (Gets(t) \/ Puts(t)) /\ ~MustWait(t)
    BY Zenon, <1>5 DEF IntqMove, At, Programs, ProgramOf, Working, Seen, SeenBy
  <2>2. CASE Gets(t)
    <3>1. /\ byte' = [byte EXCEPT ![t] = FirstByte(queue[buffer])]
          /\ queue' = [queue EXCEPT ![buffer] = Removed(queue[buffer])]
          /\ ~intq_empty(buffer) /\ t \in Reader
      BY Zenon, <1>5, <2>1, <2>2 DEF IntqMove, Gets, MustWait
    <3>2. queue'[buffer] = Removed(queue[buffer]) /\ queue'[txq] = queue[txq]
      BY Zenon, <1>1, <3>1
    <3>3. byte'[t] = FirstByte(queue[buffer]) BY Zenon, <3>1 DEF TypeOK, IntQTypeOK
    <3>4. /\ Contents(buffer) # <<>> /\ Contents(buffer)' = Tail(Contents(buffer))
          /\ byte'[t] = Head(Contents(buffer))
      BY Zenon, <1>1, <3>1, <3>2, <3>3, ByteGot
    <3>5. ReceiveStep BY Zenon, <1>2, <2>1, <3>1, <3>4 DEF ReceiveStep
    <3>6. Kept(txq) BY Zenon, <3>2 DEF Kept
    <3>7. QED BY Zenon, <3>5, <3>6, KeptBytes
  <2>3. CASE Puts(t) /\ ~Gets(t)
    <3>1. /\ queue' = [queue EXCEPT ![txq] = Added(queue[txq], byte[t])]
          /\ ~intq_full(txq) /\ byte[t] \in Byte
      BY Zenon, <1>5, <2>1, <2>3 DEF IntqMove, Puts, MustWait
    <3>2. queue'[txq] = Added(queue[txq], byte[t]) /\ queue'[buffer] = queue[buffer]
      BY Zenon, <1>1, <3>1
    <3>3. SendStep BY Zenon, <3>1, <3>2, PutBytes
    <3>4. Kept(buffer) BY Zenon, <3>2 DEF Kept
    <3>5. QED BY Zenon, <1>2, <3>3, <3>4, KeptBytes
  <2>4. QED BY Zenon, <2>1, <2>2, <2>3
<1>6. CASE PutcMakesRoom(t) \/ (FlushLoop(t) /\ ~intq_empty(txq))
  <2>1. PollOne BY Zenon, <1>6 DEF PutcMakesRoom, FlushLoop
  <2>2. ~intq_empty(txq)
    <3>1. CASE PutcMakesRoom(t)
      <4>1. intq_full(txq) BY Zenon, <3>1 DEF PutcMakesRoom, At, Seen, SeenBy
      <4>2. QED BY Zenon, <1>1, <4>1, FullNotEmpty
    <3>2. QED BY Zenon, <1>6, <3>1
  <2>3. /\ thr = NULL /\ thr' = FirstByte(queue[txq])
        /\ queue' = [queue EXCEPT ![txq] = Removed(queue[txq])]
    BY Zenon, <2>1 DEF PollOne
  <2>4. queue'[txq] = Removed(queue[txq]) /\ queue'[buffer] = queue[buffer]
    BY Zenon, <1>1, <2>3
  <2>5. SendStep BY Zenon, <2>2, <2>3, <2>4, SentByte
  <2>6. Kept(buffer) BY Zenon, <2>4 DEF Kept
  <2>7. QED BY Zenon, <1>2, <2>5, <2>6, KeptBytes
<1>7. queue' = queue \/ IntqWait(t) \/ IntqMove(t) \/ PutcMakesRoom(t)
      \/ (FlushLoop(t) /\ ~intq_empty(txq))
  BY Zenon DEF ThreadStep, IntqStep, IntqTest, IntqLock, IntqUnlock, intq_vars,
               input_getc, serial_putc, Done, serial_flush, FlushLoop
<1>8. QED BY Zenon, <1>3, <1>4, <1>5, <1>6, <1>7

LEMMA HandlerBytes ==
  ASSUME Assumptions, IInv, serial_interrupt \/ keyboard_interrupt \/ HandlerPutc
  PROVE  SendStep /\ ReceiveStep
<1> USE DEF IInv, Clients
<1>1. /\ buffer \in Queue /\ txq \in Queue /\ buffer # txq
      /\ queue \in [Queue -> QueueType]
  BY Zenon, QueueFacts
<1>2. rbr \in Byte \cup {NULL} /\ NULL \notin Byte
  BY Zenon DEF TypeOK, Assumptions, IntQAssumption
<1>3. CASE serial_interrupt
  <2> DEFINE receive == ~intq_full(buffer) /\ rbr # NULL
             transmit == ~intq_empty(txq) /\ thr = NULL
  <2>1. /\ queue' = [queue EXCEPT
                     ![buffer] = IF receive THEN Added(queue[buffer], rbr)
                                            ELSE queue[buffer],
                     ![txq] = IF transmit THEN Removed(queue[txq]) ELSE queue[txq]]
        /\ rbr' = (IF receive THEN NULL ELSE rbr)
        /\ thr' = (IF transmit THEN FirstByte(queue[txq]) ELSE thr)
    BY Zenon, <1>3 DEF serial_interrupt
  <2>2. /\ queue'[buffer] = IF receive THEN Added(queue[buffer], rbr) ELSE queue[buffer]
        /\ queue'[txq] = IF transmit THEN Removed(queue[txq]) ELSE queue[txq]
    BY Zenon, <1>1, <2>1
  <2>3. SendStep
    <3>1. CASE transmit BY Zenon, <2>1, <2>2, <3>1, SentByte
    <3>2. CASE ~transmit
      <4>1. Kept(txq) BY Zenon, <2>2, <3>2 DEF Kept
      <4>2. QED BY Zenon, <4>1, KeptBytes
    <3>3. QED BY Zenon, <3>1, <3>2
  <2>4. ReceiveStep
    <3>1. CASE receive
      <4>1. rbr \in Byte /\ rbr \in {NULL, rbr', rbr} BY Zenon, <1>2, <3>1
      <4>2. QED BY Zenon, <2>2, <3>1, <4>1, PutBytes
    <3>2. CASE ~receive
      <4>1. Kept(buffer) /\ rbr \in {NULL, rbr'} BY Zenon, <2>1, <2>2, <3>2 DEF Kept
      <4>2. QED BY Zenon, <4>1, KeptBytes
    <3>3. QED BY Zenon, <3>1, <3>2
  <2>5. QED BY Zenon, <2>3, <2>4
<1>4. CASE keyboard_interrupt
  <2>1. PICK b \in Byte : queue' = [queue EXCEPT ![buffer] = Added(queue[buffer], b)]
    BY Zenon, <1>4 DEF keyboard_interrupt
  <2>2. queue'[buffer] = Added(queue[buffer], b) /\ queue'[txq] = queue[txq]
    BY Zenon, <1>1, <2>1
  <2>3. ~intq_full(buffer) /\ rbr \in {NULL, rbr', b} BY Zenon, <1>4 DEF keyboard_interrupt
  <2>4. ReceiveStep BY Zenon, <2>2, <2>3, PutBytes
  <2>5. Kept(txq) BY Zenon, <2>2 DEF Kept
  <2>6. QED BY Zenon, <2>4, <2>5, KeptBytes
<1>5. CASE HandlerPutc
  <2>1. PICK b \in Byte :
          queue' = [queue EXCEPT ![txq] = IF intq_full(txq)
                                          THEN Added(Removed(queue[txq]), b)
                                          ELSE Added(queue[txq], b)]
    BY Zenon, <1>5 DEF HandlerPutc
  <2>2. /\ queue'[txq] = IF intq_full(txq) THEN Added(Removed(queue[txq]), b)
                                           ELSE Added(queue[txq], b)
        /\ queue'[buffer] = queue[buffer]
    BY Zenon, <1>1, <2>1
  <2>3. /\ rbr' = rbr /\ (intq_full(txq) => thr = NULL)
        /\ thr' = (IF intq_full(txq) THEN FirstByte(queue[txq]) ELSE thr)
    BY Zenon, <1>5 DEF HandlerPutc
  <2>4. Kept(buffer) BY Zenon, <2>2 DEF Kept
  <2>5. ReceiveStep BY Zenon, <2>3, <2>4, KeptBytes
  <2>6. SendStep
    <3>1. CASE intq_full(txq)
      <4>1. ~intq_empty(txq) BY Zenon, <1>1, <3>1, FullNotEmpty
      <4>2. QED BY Zenon, <2>2, <2>3, <3>1, <4>1, SentByte
    <3>2. CASE ~intq_full(txq) BY Zenon, <2>2, <3>2, PutBytes
    <3>3. QED BY Zenon, <3>1, <3>2
  <2>7. QED BY Zenon, <2>5, <2>6
<1>6. QED BY Zenon, <1>3, <1>4, <1>5

LEMMA BootBytes ==
  ASSUME Assumptions, IInv, PutcPolled \/ serial_init_queue
  PROVE  SendStep /\ ReceiveStep
<1> USE DEF IInv, Clients
<1>1. /\ buffer \in Queue /\ txq \in Queue /\ buffer # txq
      /\ queue \in [Queue -> QueueType] /\ queue[txq] \in QueueType
  BY Zenon, QueueFacts
<1>2. /\ queue' = init_poll /\ rbr' = rbr /\ mode # "QUEUE"
  BY Zenon DEF PutcPolled, serial_init_queue, At, Booting
<1>3. CASE mode = "UNINIT"
  <2>1. queue' = [queue EXCEPT ![txq] = intq_init] BY Zenon, <1>2, <1>3 DEF init_poll
  <2>2. queue'[txq] = intq_init /\ queue'[buffer] = queue[buffer] BY Zenon, <1>1, <2>1
  <2>3. Kept(buffer) BY Zenon, <2>2 DEF Kept
  <2>4. Items(queue[txq]) = <<>>
    BY Zenon, <1>1, <1>2, ItemsAre DEF Booting, intq_empty, Assumptions
  <2>5. Items(intq_init) = <<>>
    <3>1. intq_init \in QueueType /\ intq_init.head = intq_init.tail
      BY DEF intq_init, QueueType, Assumptions, IntQAssumption, Slot
    <3>2. QED BY Zenon, <3>1, ItemsAre DEF Assumptions
  <2>6. Contents(txq)' = Contents(txq) BY Zenon, <1>1, <2>2, <2>4, <2>5, ContentsAre
  <2>7. SendStep BY Zenon, <2>6 DEF SendStep
  <2>8. QED BY Zenon, <1>2, <2>3, <2>7, KeptBytes
<1>4. CASE mode # "UNINIT"
  <2>1. Kept(buffer) /\ Kept(txq) BY Zenon, <1>2, <1>4 DEF init_poll, Kept
  <2>2. QED BY Zenon, <1>2, <2>1, KeptBytes
<1>5. QED BY Zenon, <1>3, <1>4

-----------------------------------------------------------------------------
(* Counting *)

LOCAL F == INSTANCE FiniteSetTheorems

(* The library's facts are about these operators. *)
LEMMA SameCounting ==
  ASSUME NEW S
  PROVE  Cardinality(S) = F!Cardinality(S) /\ (IsFiniteSet(S) <=> F!IsFiniteSet(S))
<1>1. Cardinality(S) = F!Cardinality(S)
  BY DEF Cardinality, F!Cardinality
<1>2. IsFiniteSet(S) <=> F!IsFiniteSet(S)
  BY DEF IsFiniteSet, F!IsFiniteSet
<1>3. QED BY Zenon, <1>1, <1>2

LEMMA FiniteSubset ==
  ASSUME NEW S, IsFiniteSet(S), NEW R \in SUBSET S
  PROVE  IsFiniteSet(R) /\ Cardinality(R) \in Nat
<1>1. F!IsFiniteSet(S) BY Zenon, SameCounting
<1>2. F!IsFiniteSet(R) BY Zenon, <1>1, F!FS_Subset
<1>3. F!Cardinality(R) \in Nat BY Zenon, <1>2, F!FS_CardinalityType
<1>4. QED BY Zenon, <1>2, <1>3, SameCounting

(* The threads are finitely many, so that any set of them can be counted. *)
LEMMA Counting == CountFacts
<1> SUFFICES ASSUME NEW S \in SUBSET Thread
             PROVE  /\ Cardinality(S) \in Nat
                    /\ \A t \in S : Cardinality(S \ {t}) = Cardinality(S) - 1
                    /\ \A t \in Thread \ S :
                         Cardinality(S \cup {t}) = Cardinality(S) + 1
  BY Zenon DEF CountFacts
<1>1. IsFiniteSet(S) /\ Cardinality(S) \in Nat
  BY Zenon, FiniteSubset, ThreadAssumption DEF ThreadAssumption
<1>2. F!IsFiniteSet(S) BY Zenon, <1>1, SameCounting
<1>3. ASSUME NEW t \in S PROVE Cardinality(S \ {t}) = Cardinality(S) - 1
  <2>1. F!Cardinality(S \ {t}) = F!Cardinality(S) - 1 BY Zenon, <1>2, F!FS_RemoveElement
  <2>2. QED BY Zenon, <2>1, SameCounting
<1>4. ASSUME NEW t \in Thread \ S PROVE Cardinality(S \cup {t}) = Cardinality(S) + 1
  <2>1. F!Cardinality(S \cup {t}) = F!Cardinality(S) + 1 BY Zenon, <1>2, F!FS_AddElement
  <2>2. QED BY Zenon, <2>1, SameCounting
<1>5. QED BY Zenon, <1>1, <1>3, <1>4

LEMMA AssumptionsHold == Assumptions
BY Zenon, ThreadAssumption, TimeSliceAssumption, IntQAssumption, SerialAssumption,
   Counting DEF Assumptions

(* A list without duplicates is no longer than there are threads, and has  *)
(* them all if it is as long.                                              *)
LEMMA DistinctThreads ==
  ASSUME NEW S, IsFiniteSet(S), NEW l \in Seq(S), NoDup(l)
  PROVE  /\ Len(l) <= Cardinality(S)
         /\ Len(l) = Cardinality(S) => InList(l) = S
<1>1. l \in [1..Len(l) -> S] /\ Len(l) \in Nat
  OBVIOUS
<1>2. l \in F!Injection(1..Len(l), S)
  BY Zenon, <1>1 DEF NoDup, F!Injection, F!IsInjective
<1>3. F!Cardinality(1..Len(l)) = Len(l)
  <2>1. F!Cardinality(1..Len(l)) = IF 1 > Len(l) THEN 0 ELSE Len(l) - 1 + 1
    <3>1. 1 \in Int /\ Len(l) \in Int BY <1>1
    <3>2. QED BY Zenon, <3>1, F!FS_Interval
  <2>2. QED BY <1>1, <2>1
<1>4. F!IsFiniteSet(S) BY Zenon, SameCounting
<1>5. /\ F!Cardinality(1..Len(l)) <= F!Cardinality(S)
      /\ F!Cardinality(1..Len(l)) = F!Cardinality(S) <=> l \in F!Surjection(1..Len(l), S)
  BY Zenon, <1>2, <1>4, F!FS_Injection
<1>6. ASSUME l \in F!Surjection(1..Len(l), S) PROVE InList(l) = S
  BY Zenon, <1>1, <1>6 DEF InList, F!Surjection
<1>7. QED BY Zenon, <1>3, <1>5, <1>6, SameCounting

-----------------------------------------------------------------------------
(* The invariant *)

LEMMA StartStep ==
  ASSUME Assumptions, IInv, InitWriteIer
  PROVE  TypeOK' /\ SchedInv' /\ Clients'
<1> USE DEF IInv, Clients
<1> DEFINE others == Thread \ {idle, initial_thread}
<1>1. /\ pc[initial_thread] = "boot_ier" /\ ier' = ier_for(queue)
      /\ status' = [t \in Thread |-> IF t \in others THEN "READY" ELSE status[t]]
      /\ pc' = [pc EXCEPT ![initial_thread] = "run"]
      /\ UNCHANGED <<current, idle_thread, thread_ticks, level, asleep, value,
                     waiters, queue, op, arg, byte, mode, rbr, thr>>
  BY Zenon DEF InitWriteIer, At, Goto, intq_vars
<1>2. /\ Alone /\ initial_thread \in Thread
      /\ \A t \in Thread : asleep[t] = NULL
      /\ \A q \in Queue : queue[q].not_full = NULL /\ queue[q].not_empty = NULL
  BY Zenon, <1>1, AloneFacts
<1>3. idle \in Thread /\ idle # initial_thread /\ NULL \notin Sema /\ IsFiniteSet(Thread)
  BY Zenon DEF Assumptions, SerialAssumption, ThreadAssumption
<1>4. /\ ready_list' \in Seq(Thread) /\ NoDup(ready_list') /\ InList(ready_list') = others
  <2>1. IsFiniteSet(others) /\ Cardinality(others) \in Nat
    BY Zenon, <1>3, FiniteSubset
  <2>2. PICK s \in {o \in [1..Cardinality(others) -> others] : NoDup(o)} :
          ready_list' = ready_list \o s
    BY Zenon DEF InitWriteIer
  <2>3. s \in Seq(others) /\ Len(s) = Cardinality(others) /\ NoDup(s)
    <3> DEFINE n == Cardinality(others)
    <3> HIDE DEF n, others
    <3>1. n \in Nat /\ s \in [1..n -> others] /\ NoDup(s) BY Zenon, <2>1, <2>2 DEF n
    <3>2. s \in Seq(others) BY <3>1
    <3>3. Len(s) = n BY <3>1, <3>2
    <3>4. QED BY Zenon, <3>1, <3>2, <3>3 DEF n
  <2>4. InList(s) = others BY Zenon, <2>1, <2>3, DistinctThreads
  <2>5. ready_list' = s
    <3>1. ready_list = <<>> BY Zenon, <1>2 DEF Alone
    <3> HIDE DEF others
    <3>2. QED BY <2>2, <2>3, <3>1
  <2>6. s \in Seq(Thread)
    <3>1. \A t \in others : t \in Thread BY Zenon
    <3> HIDE DEF others
    <3>2. QED BY <2>3, <3>1
  <2>7. QED BY Zenon, <2>3, <2>4, <2>5, <2>6
<1>5. \A t \in Thread : status[t] = IF t = initial_thread THEN "RUNNING" ELSE "BLOCKED"
  BY Zenon, <1>2 DEF Alone, SchedInv, OneRunning
<1>6. \A t \in Thread : status'[t] = IF t = initial_thread THEN "RUNNING"
                                  ELSE IF t = idle THEN "BLOCKED" ELSE "READY"
  BY Zenon, <1>1, <1>3, <1>5
<1>7. SchedInv'
  <2>1. SchedTypeOK'
    <3>1. status' \in [Thread -> Status] BY Zenon, <1>1 DEF SchedInv, SchedTypeOK, Status
    <3>2. QED BY Zenon, <1>1, <1>4, <3>1 DEF SchedInv, SchedTypeOK
  <2>2. OneRunning' BY Zenon, <1>1, <1>2, <1>6 DEF OneRunning, Alone
  <2>3. ReadyListExact' BY Zenon, <1>1, <1>3, <1>4, <1>6 DEF ReadyListExact
  <2>4. WaitersBlocked' BY Zenon, <1>1, <1>2, <1>3 DEF WaitersBlocked, SchedInv
  <2>5. NoLostWakeup'
    <3>1. ASSUME NEW s \in Sema PROVE waiters[s] = <<>>
      <4>1. InList(waiters[s]) = {} BY Zenon, <1>2, <1>3 DEF SchedInv, WaitersBlocked
      <4>2. waiters[s] \in Seq(Thread) BY Zenon DEF SchedInv, SchedTypeOK
      <4>3. QED BY Zenon, <4>1, <4>2, EmptyList
    <3>2. QED BY Zenon, <1>1, <3>1 DEF NoLostWakeup
  <2>6. QED BY Zenon, <1>1, <2>1, <2>2, <2>3, <2>4, <2>5 DEF SchedInv
<1>8. pc' \in [Thread -> PC] /\ pc'[initial_thread] = "run"
      /\ \A t \in Thread \ {initial_thread} : pc'[t] = pc[t]
  BY Zenon, <1>1, <1>2 DEF TypeOK, PC
<1>9. TypeOK'
  <2>1. ier' \subseteq {"RECV", "XMIT"} BY Zenon, <1>1 DEF ier_for
  <2>2. QED BY Zenon, <1>1, <1>7, <1>8, <2>1 DEF TypeOK, IntQTypeOK, SchedInv
<1>10. Programs' /\ Seen' /\ QueueLocks' /\ Waiters' /\ Sleepers'
  BY Zenon, <1>1, <1>2, <1>9, BootStep
<1>11. Booting' BY Zenon, <1>1, <1>8 DEF Booting
<1>12. IerRight'
  <2>1. ier_for(queue)' = ier_for(queue) BY Zenon, <1>1 DEF ier_for
  <2>2. QED BY Zenon, <1>1, <2>1 DEF IerRight
<1>13. QED BY Zenon, <1>7, <1>9, <1>10, <1>11, <1>12

LEMMA InitInv ==
  ASSUME Assumptions, Init
  PROVE  IInv
<1>1. /\ idle \in Thread /\ initial_thread \in Thread /\ idle # initial_thread
      /\ NULL \notin Thread /\ NULL \notin Sema /\ TIME_SLICE \in Nat \ {0}
      /\ Queue = {buffer, txq} /\ Queue \subseteq Sema /\ INTQ_BUFSIZE \in Nat \ {0, 1}
  BY Zenon DEF Assumptions, ThreadAssumption, TimeSliceAssumption, SerialAssumption,
         IntQAssumption
<1>2. /\ ready_list = <<>> /\ current = initial_thread /\ idle_thread = idle
      /\ status = [t \in Thread |-> IF t = initial_thread THEN "RUNNING" ELSE "BLOCKED"]
      /\ thread_ticks = 0 /\ level = [t \in Thread |-> "ON"]
      /\ asleep = [t \in Thread |-> NULL] /\ value = [s \in Sema |-> 1]
      /\ waiters = [s \in Sema |-> <<>>] /\ queue = [q \in Queue |-> intq_init]
      /\ pc = [t \in Thread |-> IF t = initial_thread THEN "boot"
                                ELSE IF t = idle THEN "idle" ELSE "run"]
      /\ op = [t \in Thread |-> "getc"] /\ arg = [t \in Thread |-> buffer]
      /\ byte = [t \in Thread |-> NULL]
      /\ mode = "UNINIT" /\ ier = {} /\ rbr = NULL /\ thr = NULL
  BY Zenon DEF Init
<1>3. InList(<<>>) = {} /\ NoDup(<<>>) BY DEF InList, NoDup
<1>4. SchedInv
  <2>1. SchedTypeOK BY <1>1, <1>2 DEF SchedTypeOK, Status, Level
  <2>2. OneRunning BY Zenon, <1>1, <1>2 DEF OneRunning
  <2>3. ReadyListExact BY Zenon, <1>1, <1>2, <1>3 DEF ReadyListExact
  <2>4. WaitersBlocked BY Zenon, <1>1, <1>2, <1>3 DEF WaitersBlocked
  <2>5. NoLostWakeup BY Zenon, <1>2 DEF NoLostWakeup
  <2>6. QED BY Zenon, <1>1, <1>2, <2>1, <2>2, <2>3, <2>4, <2>5 DEF SchedInv
<1>5. /\ intq_init \in QueueType /\ intq_init.head = intq_init.tail
      /\ intq_init.not_full = NULL /\ intq_init.not_empty = NULL
  BY <1>1 DEF intq_init, QueueType, Slot
<1> HIDE DEF intq_init
<1>6. TypeOK
  <2>1. IntQTypeOK BY Zenon, <1>1, <1>2, <1>5 DEF IntQTypeOK
  <2>2. pc \in [Thread -> PC] BY Zenon, <1>2 DEF PC
  <2>3. QED BY Zenon, <1>2, <1>4, <2>1, <2>2 DEF TypeOK, SchedInv
<1>7. \A t \in Thread : /\ pc[t] \in {"boot", "run", "idle"}
                        /\ asleep[t] = NULL /\ level[t] = "ON"
  BY Zenon, <1>2
<1>8. Programs
  BY Zenon, <1>1, <1>2, <1>7 DEF Programs, ProgramOf, Quiet, Working, Pinned
<1>9. Seen /\ Sleepers BY Zenon, <1>7 DEF Seen, SeenBy, Sleepers, SleepOf
<1>10. QueueLocks
  <2>1. \A t \in Thread, q \in Queue : ~HasLock(t, q) BY Zenon, <1>7 DEF HasLock
  <2>2. \A q \in Queue : value[q] = 1 BY Zenon, <1>1, <1>2
  <2>3. QED BY Zenon, <2>1, <2>2 DEF QueueLocks, LockOf
<1>11. \A q \in Queue : queue[q] = intq_init BY Zenon, <1>2
<1>12. Waiters BY Zenon, <1>5, <1>11 DEF Waiters, WaitersOf, WaitsIn
<1>13. Booting
  <2>1. intq_empty(txq) BY Zenon, <1>1, <1>5, <1>11 DEF intq_empty
  <2>2. Alone BY Zenon, <1>1, <1>2 DEF Alone
  <2>3. QED BY Zenon, <1>1, <1>2, <2>1, <2>2 DEF Booting
<1>14. IerRight BY Zenon, <1>2 DEF IerRight
<1>15. QED BY Zenon, <1>2, <1>4, <1>6, <1>8, <1>9, <1>10, <1>12, <1>13, <1>14 DEF IInv, Clients

LEMMA NextInv ==
  ASSUME Assumptions, IInv, [Next]_vars
  PROVE  IInv'
<1>1. TypeOK' /\ SchedInv' /\ Clients'
  <2>1. CASE \E t \in Thread : ThreadStep(t) BY Zenon, <2>1, ThreadInv
  <2>2. CASE PutcPolled \/ serial_init_queue BY Zenon, <2>2, InitPollStep
  <2>3. CASE InitWriteIer BY Zenon, <2>3, StartStep
  <2>4. CASE IdleBlock BY Zenon, <2>4, IdleStep
  <2>5. CASE TimerInterrupt BY Zenon, <2>5, TimerStep
  <2>6. CASE serial_interrupt BY Zenon, <2>6, SerialInterruptStep
  <2>7. CASE keyboard_interrupt BY Zenon, <2>7, KeyboardStep
  <2>8. CASE HandlerPutc BY Zenon, <2>8, HandlerPutcStep
  <2>9. CASE UartReceives \/ UartTransmits \/ UNCHANGED vars
    <3>1. /\ UNCHANGED <<sched_vars, intq_vars, pc, mode, ier>>
          /\ rbr' \in Byte \cup {NULL} /\ thr' \in Byte \cup {NULL}
      BY Zenon, <2>9 DEF UartReceives, UartTransmits, vars, uart_vars, IInv, TypeOK
    <3>2. QED BY Zenon, <3>1, UartStep
  <2>10. QED
    BY Zenon, <2>1, <2>2, <2>3, <2>4, <2>5, <2>6, <2>7, <2>8, <2>9 DEF Next
<1>2. idle_thread' = idle_thread
  <2>1. ASSUME NEW t \in Thread, ThreadStep(t) PROVE idle_thread' = idle_thread
    <3>1. CASE IntqStep(t)
      BY Zenon, <3>1 DEF IntqStep, IntqTest, IntqLock, IntqWait, IntqUnlock, IntqMove,
                         sched_vars, sema_down_wait, sema_down_take, sema_up, signal
    <3>2. CASE ~IntqStep(t)
      BY Zenon, <2>1, <3>2 DEF ThreadStep, input_getc, serial_putc, PutcMakesRoom,
         Done, serial_flush, FlushLoop, PollOne, signal, sched_but_level
    <3>3. QED BY Zenon, <3>1, <3>2
  <2>2. thread_tick => idle_thread' = idle_thread
    BY Zenon DEF thread_tick, thread_yield
  <2>3. CASE ~\E t \in Thread : ThreadStep(t)
    BY Zenon, <2>2, <2>3 DEF Next, vars, sched_vars, PutcPolled, serial_init_queue,
       InitWriteIer, IdleBlock, TimerInterrupt, serial_interrupt, keyboard_interrupt,
       HandlerPutc, UartReceives, UartTransmits, signal
  <2>4. QED BY Zenon, <2>1, <2>3
<1>3. QED BY Zenon, <1>1, <1>2 DEF IInv

(* The inductive invariant of the interrupt queues and the serial port. *)
THEOREM Invariant == Spec => []IInv
<1>1. Init => IInv BY Zenon, InitInv, AssumptionsHold
<1>2. IInv /\ [Next]_vars => IInv' BY Zenon, NextInv, AssumptionsHold
<1>3. QED BY <1>1, <1>2, PTL DEF Spec

(* Whoever sleeps in intq_getc() or intq_putc() is registered where the    *)
(* interrupt handlers look, is asleep only while it must be, and the       *)
(* interrupt that will wake it is enabled.                                 *)
THEOREM SleepersWoken == Spec => []SleepersSafe
<1>1. ASSUME IInv PROVE SleepersSafe
  <2> USE DEF IInv, Clients
  <2>1. Assumptions BY Zenon, AssumptionsHold
  <2>2. WaitersAsleep
    <3> SUFFICES ASSUME NEW q \in Queue,
                        NEW w \in {queue[q].not_full, queue[q].not_empty} \ {NULL}
                 PROVE  status[w] = "BLOCKED" /\ pc[w] = "unlock" /\ arg[w] = q
      BY Zenon, <1>1 DEF WaitersAsleep
    <3>1. WaitersOf(q) BY Zenon, <1>1 DEF Waiters
    <3>2. QED BY Zenon, <3>1 DEF WaitersOf, WaitsIn
  <2>3. SleeperWillBeWoken
    <3> SUFFICES ASSUME NEW t \in Thread, pc[t] = "unlock", status[t] = "BLOCKED"
                 PROVE  /\ MustWait(t)
                        /\ t = IF op[t] = "getc" THEN queue[arg[t]].not_empty
                                                 ELSE queue[arg[t]].not_full
      BY Zenon DEF SleeperWillBeWoken
    <3>1. SleepOf(t) BY Zenon, <1>1 DEF Sleepers
    <3>2. op[t] \in {"getc", "putc"} BY Zenon, <1>1 DEF TypeOK, IntQTypeOK
    <3>3. QED BY Zenon, <3>1, <3>2 DEF SleepOf
  <2>4. InterruptsEnabled
    <3>1. InterruptsOn => pc[current] # "done"
      <4>1. ProgramOf(current) /\ current \in Thread
        BY Zenon, <1>1 DEF Programs, TypeOK, SchedTypeOK
      <4>2. QED BY Zenon, <4>1 DEF ProgramOf, InterruptsOn, Quiet
    <3>2. QED BY Zenon, <1>1, <3>1 DEF InterruptsEnabled, IerRight
  <2>5. QED BY Zenon, <1>1, <2>2, <2>3, <2>4 DEF SleepersSafe
<1>2. QED BY <1>1, Invariant, PTL

(* The assertion of wait() holds when at most one thread calls             *)
(* input_getc() and at most one serial_putc().  (With two readers it does  *)
(* not: the second may sleep for the lock after its test.)                 *)
THEOREM WaitersHaveReason ==
  ASSUME OneUser
  PROVE  Spec => []WaitAssertion
<1>1. Init => NoneQueues
  <2> SUFFICES ASSUME Init PROVE NoneQueues BY Zenon
  <2>1. \A t \in Thread : asleep[t] = NULL /\ pc[t] # "wait" BY Zenon DEF Init
  <2>2. QED BY Zenon, <2>1 DEF NoneQueues, WaitAssertion
<1>2. IInv /\ NoneQueues /\ [Next]_vars => NoneQueues'
  BY Zenon, NoneQueuesStep, AssumptionsHold
<1>3. NoneQueues => WaitAssertion BY Zenon DEF NoneQueues
<1>4. QED BY <1>1, <1>2, <1>3, Invariant, PTL DEF Spec

(* No byte is lost, doubled or overtaken between serial_putc() and the     *)
(* UART, nor between the UART or the keyboard and input_getc(), whichever  *)
(* threads and handlers put and get at the same time.                      *)
THEOREM BytesArriveInOrder == Spec => BytesInOrder
<1>1. Assumptions BY Zenon, AssumptionsHold
<1>2. IInv /\ [Next]_vars => [SendStep /\ ReceiveStep]_vars
  <2> SUFFICES ASSUME IInv, Next PROVE SendStep /\ ReceiveStep BY Zenon
  <2>1. CASE \E t \in Thread : ThreadStep(t) BY Zenon, <1>1, <2>1, ThreadBytes
  <2>2. CASE serial_interrupt \/ keyboard_interrupt \/ HandlerPutc
    BY Zenon, <1>1, <2>2, HandlerBytes
  <2>3. CASE PutcPolled \/ serial_init_queue BY Zenon, <1>1, <2>3, BootBytes
  <2>4. CASE InitWriteIer \/ IdleBlock \/ TimerInterrupt \/ UartReceives \/ UartTransmits
    <3>1. queue' = queue /\ rbr \in {NULL, rbr'}
      BY Zenon, <2>4 DEF InitWriteIer, IdleBlock, TimerInterrupt, UartReceives,
                         UartTransmits, intq_vars, uart_vars
    <3>2. Kept(buffer) /\ Kept(txq) BY Zenon, <3>1 DEF Kept
    <3>3. QED BY Zenon, <1>1, <3>1, <3>2, KeptBytes DEF IInv
  <2>5. QED BY Zenon, <2>1, <2>2, <2>3, <2>4 DEF Next
<1>3. QED BY <1>2, Invariant, PTL DEF Spec, BytesInOrder
=============================================================================
