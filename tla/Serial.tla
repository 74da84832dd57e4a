------------------------------- MODULE Serial -------------------------------
(***************************************************************************)
(* The console devices: the serial port driver (devices/serial.c), the     *)
(* input buffer (devices/input.c) that it shares with the keyboard, and    *)
(* the interrupt queues both are made of.  The UART is external.           *)
(***************************************************************************)
EXTENDS IntQ

CONSTANTS buffer, txq,      \* the two queues
          idle,             \* the idle thread
          Reader,           \* threads that call input_getc()
          Writer,           \* threads that call serial_putc()
          HandlerPrints     \* interrupt handlers print too

ASSUME SerialAssumption ==
  /\ Queue = {buffer, txq} /\ buffer # txq
  /\ idle \in Thread \ {initial_thread}
  /\ Reader \cup Writer \subseteq Thread \ {idle}
  /\ HandlerPrints \in BOOLEAN

VARIABLES
  mode,   \* "UNINIT", "POLL" or "QUEUE"
  ier,    \* interrupt enable register: a set of "RECV", "XMIT"
  rbr,    \* receive buffer: a byte, or NULL when LSR_DR is clear
  thr     \* transmit holding register: a byte, or NULL when LSR_THRE is set

uart_vars == <<mode, ier, rbr, thr>>
vars == <<sched_vars, intq_vars, pc, uart_vars>>

PC == {"boot", "boot_ier", "run", "test", "lock", "wait", "unlock", "move", "done",
       "poll", "flush", "idle"}

(* main() after thread_start(): only it and the idle thread exist.  The    *)
(* other threads wait to be started.                                       *)
Init ==
  /\ ready_list = <<>>
  /\ status = [t \in Thread |-> IF t = initial_thread THEN "RUNNING"
                                ELSE "BLOCKED"]
  /\ current = initial_thread
  /\ idle_thread = idle
  /\ thread_ticks = 0
  /\ level = [t \in Thread |-> "ON"]
  /\ asleep = [t \in Thread |-> NULL]
  /\ value = [s \in Sema |-> 1]
  /\ waiters = [s \in Sema |-> <<>>]
  /\ queue = [q \in Queue |-> intq_init]
  /\ pc = [t \in Thread |-> IF t = initial_thread THEN "boot"
                            ELSE IF t = idle THEN "idle" ELSE "run"]
  /\ op = [t \in Thread |-> "getc"]
  /\ arg = [t \in Thread |-> buffer]
  /\ byte = [t \in Thread |-> NULL]
  /\ mode = "UNINIT" /\ ier = {} /\ rbr = NULL /\ thr = NULL

(* Mutant: the transmit interrupt is never enabled. *)
ier_for_receive(qs) ==
  IF next(qs[buffer].head) # qs[buffer].tail THEN {"RECV"} ELSE {}

(* What write_ier() writes when the queues are QS. *)
ier_for(qs) ==
  (IF qs[txq].head # qs[txq].tail THEN {"XMIT"} ELSE {})
    \cup (IF next(qs[buffer].head) # qs[buffer].tail THEN {"RECV"} ELSE {})

-----------------------------------------------------------------------------
(* Before the port is interrupt driven *)

(* serial_init_queue() and serial_putc() call init_poll() the first time:  *)
(* no UART interrupts, an empty queue.                                     *)
init_poll == IF mode = "UNINIT" THEN [queue EXCEPT ![txq] = intq_init] ELSE queue

(* serial_putc() by main() or by a handler: polls. *)
PutcPolled ==
  /\ mode # "QUEUE"
  /\ At(initial_thread, "boot") \/ (HandlerPrints /\ InterruptsOn)
  /\ thr = NULL
  /\ \E b \in Byte : thr' = b
  /\ mode' = "POLL"
  /\ queue' = init_poll
  /\ UNCHANGED <<sched_vars, pc, op, arg, byte, ier, rbr>>

serial_init_queue ==
  /\ At(initial_thread, "boot")
  /\ queue' = init_poll
  /\ mode' = "QUEUE"
  /\ Goto(initial_thread, "boot_ier")
  /\ UNCHANGED <<sched_vars, op, arg, byte, ier, rbr, thr>>

(* Its call of write_ier(); afterwards main() starts the other threads. *)
InitWriteIer ==
  LET others == Thread \ {idle, initial_thread}
  IN  /\ At(initial_thread, "boot_ier")
      /\ ier' = ier_for(queue)
      /\ ready_list' \in {ready_list \o s : s \in
             {o \in [1..Cardinality(others) -> others] : NoDup(o)}}
      /\ status' = [t \in Thread |-> IF t \in others THEN "READY" ELSE status[t]]
      /\ Goto(initial_thread, "run")
      /\ UNCHANGED <<current, idle_thread, thread_ticks, level, asleep, value,
                     waiters, intq_vars, mode, rbr, thr>>

(* serial_notify(): the fullness of the input buffer may have changed. *)
serial_notify == ier' = IF mode = "QUEUE" THEN ier_for(queue') ELSE ier

-----------------------------------------------------------------------------
(* Threads *)

intr_disable(t) == level' = [level EXCEPT ![t] = "OFF"]
sched_but_level == <<status, ready_list, current, idle_thread, thread_ticks,
                     asleep, value, waiters>>

input_getc(t) ==
  /\ At(t, "run") /\ t \in Reader
  /\ intr_disable(t)
  /\ op' = [op EXCEPT ![t] = "getc"]
  /\ arg' = [arg EXCEPT ![t] = buffer]
  /\ Goto(t, "test")
  /\ UNCHANGED <<sched_but_level, queue, byte, uart_vars>>

(* Called with interrupts on, or by a caller that had turned them off and  *)
(* turns them on afterwards: that one sends a byte by polling rather than  *)
(* wait for a full queue.                                                  *)
serial_putc(t) ==
  /\ At(t, "run") /\ t \in Writer
  /\ intr_disable(t)
  /\ op' = [op EXCEPT ![t] = "putc"]
  /\ arg' = [arg EXCEPT ![t] = txq]
  /\ \E b \in Byte : byte' = [byte EXCEPT ![t] = b]
  /\ \E old_level \in Level :
       Goto(t, IF old_level = "OFF" /\ intq_full(txq) THEN "poll" ELSE "test")
  /\ UNCHANGED <<sched_but_level, queue, uart_vars>>

(* putc_poll (intq_getc (&txq)), which waits for the UART with interrupts  *)
(* off; the queue is not empty.                                            *)
PollOne ==
  /\ thr = NULL
  /\ thr' = FirstByte(queue[txq])
  /\ queue' = [queue EXCEPT ![txq] = Removed(@)]
  /\ signal(queue[txq].not_full, NULL)

PutcMakesRoom(t) ==
  /\ At(t, "poll")
  /\ PollOne
  /\ Goto(t, "test")
  /\ UNCHANGED <<op, arg, byte, mode, ier, rbr>>

(* Mutant: the interrupt enable register is not updated. *)
Done_stale(t) ==
  /\ At(t, "done")
  /\ byte' = [byte EXCEPT ![t] = NULL]
  /\ level' = [level EXCEPT ![t] = "ON"]
  /\ Goto(t, "run")
  /\ UNCHANGED <<sched_but_level, queue, op, arg, uart_vars>>

(* The end of input_getc() and of serial_putc(): write_ier(), directly or  *)
(* through serial_notify(), and the old interrupt level.  The caller keeps *)
(* the byte.                                                               *)
Done(t) ==
  /\ At(t, "done")
  /\ byte' = [byte EXCEPT ![t] = NULL]
  /\ UNCHANGED queue
  /\ serial_notify
  /\ level' = [level EXCEPT ![t] = "ON"]
  /\ Goto(t, "run")
  /\ UNCHANGED <<sched_but_level, op, arg, mode, rbr, thr>>

serial_flush(t) ==
  /\ At(t, "run") /\ t \in Writer
  /\ intr_disable(t)
  /\ Goto(t, "flush")
  /\ UNCHANGED <<sched_but_level, intq_vars, uart_vars>>

(* The loop of serial_flush(), which leaves the interrupt enable register  *)
(* alone.                                                                  *)
FlushLoop(t) ==
  /\ At(t, "flush")
  /\ IF intq_empty(txq)
     THEN /\ level' = [level EXCEPT ![t] = "ON"]
          /\ Goto(t, "run")
          /\ UNCHANGED <<sched_but_level, queue, thr>>
     ELSE PollOne /\ UNCHANGED pc
  /\ UNCHANGED <<op, arg, byte, mode, ier, rbr>>

-----------------------------------------------------------------------------
(* Interrupt handlers *)

(* Receives the byte that the UART holds if there is room, then hands it   *)
(* the next byte to transmit if it is ready.                               *)
serial_interrupt ==
  /\ InterruptsOn
  /\ (rbr # NULL /\ "RECV" \in ier) \/ (thr = NULL /\ "XMIT" \in ier)
  /\ LET receive == ~intq_full(buffer) /\ rbr # NULL
         transmit == ~intq_empty(txq) /\ thr = NULL
         in == queue[buffer]
         out == queue[txq]
     IN  /\ queue' = [queue EXCEPT
                        ![buffer] = IF receive THEN Added(in, rbr) ELSE in,
                        ![txq] = IF transmit THEN Removed(out) ELSE out]
         /\ rbr' = IF receive THEN NULL ELSE rbr
         /\ thr' = IF transmit THEN FirstByte(out) ELSE thr
         /\ signal(IF receive THEN in.not_empty ELSE NULL,
                   IF transmit THEN out.not_full ELSE NULL)
  /\ ier' = ier_for(queue')
  /\ UNCHANGED <<pc, op, arg, byte, mode>>

(* Mutant: the key is stored although the buffer is full. *)
keyboard_interrupt_full ==
  /\ InterruptsOn
  /\ \E b \in Byte : queue' = [queue EXCEPT ![buffer] = Added(@, b)]
  /\ signal(queue[buffer].not_empty, NULL)
  /\ serial_notify
  /\ UNCHANGED <<pc, op, arg, byte, mode, rbr, thr>>

(* A key that produces a character: dropped when the buffer is full. *)
keyboard_interrupt ==
  /\ InterruptsOn
  /\ ~intq_full(buffer)
  /\ \E b \in Byte : queue' = [queue EXCEPT ![buffer] = Added(@, b)]
  /\ signal(queue[buffer].not_empty, NULL)
  /\ serial_notify
  /\ UNCHANGED <<pc, op, arg, byte, mode, rbr, thr>>

(* serial_putc() called by a handler, with interrupts off. *)
HandlerPutc ==
  /\ HandlerPrints
  /\ mode = "QUEUE"
  /\ InterruptsOn
  /\ LET out == queue[txq]
         full == intq_full(txq)
     IN  /\ full => thr = NULL
         /\ thr' = IF full THEN FirstByte(out) ELSE thr
         /\ \E b \in Byte :
              queue' = [queue EXCEPT ![txq] = IF full THEN Added(Removed(@), b)
                                                      ELSE Added(@, b)]
         /\ signal(IF full THEN out.not_full ELSE NULL, out.not_empty)
  /\ ier' = ier_for(queue')
  /\ UNCHANGED <<pc, op, arg, byte, mode, rbr>>

IdleBlock ==
  /\ At(idle, "idle")
  /\ thread_block
  /\ UNCHANGED <<idle_thread, level, asleep, value, waiters, intq_vars, pc,
                 uart_vars>>

TimerInterrupt == thread_tick /\ UNCHANGED <<intq_vars, pc, uart_vars>>

-----------------------------------------------------------------------------
(* The UART *)

UartReceives ==
  /\ rbr = NULL
  /\ \E b \in Byte : rbr' = b
  /\ UNCHANGED <<sched_vars, intq_vars, pc, mode, ier, thr>>

UartTransmits ==
  /\ thr # NULL
  /\ thr' = NULL
  /\ UNCHANGED <<sched_vars, intq_vars, pc, mode, ier, rbr>>

-----------------------------------------------------------------------------
ThreadStep(t) ==
  \/ IntqStep(t) /\ UNCHANGED uart_vars
  \/ input_getc(t) \/ serial_putc(t) \/ PutcMakesRoom(t) \/ Done(t)
  \/ serial_flush(t) \/ FlushLoop(t)

Next ==
  \/ \E t \in Thread : ThreadStep(t)
  \/ PutcPolled \/ serial_init_queue \/ InitWriteIer \/ IdleBlock
  \/ TimerInterrupt \/ serial_interrupt \/ keyboard_interrupt \/ HandlerPutc
  \/ UartReceives \/ UartTransmits

Spec == Init /\ [][Next]_vars

(* Pending interrupts are delivered once interrupts are on, the UART sends *)
(* what it is given, and threads that are scheduled again and again take   *)
(* steps.                                                                  *)
FairSpec ==
  /\ Spec
  /\ SF_vars(TimerInterrupt) /\ SF_vars(serial_interrupt)
  /\ WF_vars(UartTransmits)
  /\ WF_vars(IdleBlock)
  /\ SF_vars(serial_init_queue) /\ SF_vars(InitWriteIer)
  /\ \A t \in Thread : SF_vars(ThreadStep(t))

-----------------------------------------------------------------------------
(* Properties *)

TypeOK ==
  /\ SchedTypeOK
  /\ IntQTypeOK
  /\ pc \in [Thread -> PC]
  /\ mode \in {"UNINIT", "POLL", "QUEUE"}
  /\ ier \subseteq {"RECV", "XMIT"}
  /\ rbr \in Byte \cup {NULL}
  /\ thr \in Byte \cup {NULL}

(* Whenever an interrupt can be delivered, the interrupts that are needed  *)
(* are enabled: transmit while bytes are queued, and receive exactly while *)
(* there is room (write_ier(), serial_notify()).                           *)
InterruptsEnabled ==
  mode = "QUEUE" /\ pc[initial_thread] # "boot_ier" /\ InterruptsOn =>
    ier \in {ier_for(queue), ier_for(queue) \cup {"XMIT"}}

(* A thread that wait() put to sleep in intq_getc() or intq_putc() will be *)
(* woken: it is the queue's waiter, the condition it waits for is not      *)
(* lost, and the interrupt that brings it about is enabled.                *)
SleepersSafe == TypeOK /\ WaitersAsleep /\ SleeperWillBeWoken /\ InterruptsEnabled

(* What a step may do to the bytes that wait for the UART: nothing, queue  *)
(* one at the end, or hand the oldest to a UART that is not busy.          *)
SendStep ==
  LET was == Contents(txq)
      is == Contents(txq)'
  IN  \/ is = was
      \/ \E b \in Byte : is = Append(was, b)
      \/ /\ was # <<>> /\ thr = NULL /\ thr' = Head(was)
         /\ is = Tail(was) \/ \E b \in Byte : is = Append(Tail(was), b)

(* What a step may do to the input buffer: nothing, add a byte at the end, *)
(* or hand the oldest to a reader; and what the UART received enters the   *)
(* buffer before it is forgotten.                                          *)
ReceiveStep ==
  LET was == Contents(buffer)
      is == Contents(buffer)'
  IN  /\ \/ is = was
         \/ \E b \in Byte : is = Append(was, b)
         \/ /\ was # <<>> /\ is = Tail(was)
            /\ \E t \in Reader : pc[t] = "move" /\ byte'[t] = Head(was)
      /\ rbr # NULL /\ rbr' = NULL => is = Append(was, rbr)

(* No byte is lost, doubled or overtaken in serial.c and input.c, whoever  *)
(* puts and gets at the same time, in either direction.                    *)
BytesInOrder == [][SendStep /\ ReceiveStep]_vars

(* serial_putc() returns: a writer that sleeps on a full queue gets in.    *)
PutcReturns == \A t \in Writer : pc[t] # "run" ~> pc[t] = "run"

(* A reader in input_getc() gets a byte once there is one. *)
GetcReturns ==
  \A t \in Reader : (op[t] = "getc" /\ pc[t] # "run" /\ ~intq_empty(buffer))
                      ~> pc[t] = "run"
-----------------------------------------------------------------------------
(* The view of the runs: states that differ only in buffer slots outside   *)
(* the queues' contents, which are written before they are read, are       *)
(* explored once.                                                          *)
LiveBytes == <<sched_vars, op, arg, byte, pc, uart_vars,
               [q \in Queue |-> <<Contents(q), queue[q].head,
                                 queue[q].not_full, queue[q].not_empty>>]>>
=============================================================================
