----------------------------- MODULE Interrupt -----------------------------
(***************************************************************************)
(* threads/interrupt.c: intr_handler() with the interrupt controllers, and *)
(* the interrupts of several threads.  A thread is the stack of what it    *)
(* has been stopped in: external interrupts, traps, and thread_yield() of  *)
(* its own.  The two 8259A controllers are external, as pic_init() sets    *)
(* them up: a line is in service from delivery to its end-of-interrupt,    *)
(* and holds back the lines after it.  Vectors have the code's numbers.    *)
(***************************************************************************)
EXTENDS Integers, Sequences

CONSTANTS Thread,
          External,   \* the vectors of devices, from 0x20 to 0x2f (32 to 47)
          Internal,   \* the vectors of traps
          Handlers    \* the vectors with a handler

\* What intr_register_ext() and intr_register_int() assert of the vectors.
ASSUME InterruptAssumption ==
  /\ External \subseteq 32 .. 47
  /\ Internal \subseteq (0 .. 255) \ (32 .. 47) /\ Handlers \subseteq External \cup Internal

VARIABLES stack,   \* for each thread, innermost first
          cur,     \* the running thread
          on,      \* interrupts are on
          in_external_intr, yield_on_return,
          cr2,     \* the processor's fault address: whose fault was last
          irr,     \* the vectors devices have raised
          isr      \* the lines in service at the two controllers

vars == <<stack, cur, on, in_external_intr, yield_on_return, cr2, irr, isr>>

\* Something a thread is stopped in: stage is "handler" or, once only the
\* return is left, "return"; level is the interrupt status it returns to;
\* asked: its handler called intr_yield_on_return(); addr: the fault address
\* page_fault() has read, as the set of it.
Frame(vec, stage, level) ==
  [vec |-> vec, stage |-> stage, level |-> level, asked |-> FALSE, addr |-> {}]
YIELD == -1  \* the vec of a thread_yield() of the thread's own: no vector

\* A thread that has not run begins by turning interrupts on.
Fresh == <<Frame(YIELD, "return", TRUE)>>

Init == /\ cur \in Thread /\ on = FALSE
        /\ stack = [t \in Thread |-> Fresh]
        /\ in_external_intr = FALSE /\ yield_on_return = FALSE
        /\ cr2 \in Thread /\ irr = {} /\ isr = [master |-> {}, slave |-> {}]

-----------------------------------------------------------------------------
Top == Head(stack[cur])
Running == IF stack[cur] = <<>> THEN TRUE ELSE Top.stage = "handler"
InExternal == stack[cur] # <<>> /\ Top.vec \in External /\ Top.stage = "handler"
Faulting == stack[cur] # <<>> /\ Top.vec = 14 /\ Top.addr = {}

\* The running thread executes code outside external interrupts.
Plain == Running /\ ~InExternal /\ ~Faulting

\* Code outside external interrupts turns interrupts off and on again.
intr_disable == Plain /\ on /\ on' = FALSE
                /\ UNCHANGED <<stack, cur, in_external_intr, yield_on_return, cr2, irr, isr>>
intr_enable == Plain /\ ~in_external_intr /\ ~on /\ on' = TRUE
               /\ UNCHANGED <<stack, cur, in_external_intr, yield_on_return, cr2, irr, isr>>

\* thread_yield() or sleeping, which external interrupts may not.
thread_yield ==
  /\ Plain
  /\ stack' = [stack EXCEPT ![cur] = <<Frame(YIELD, "return", on)>> \o @]
  /\ cur' \in Thread /\ on' = FALSE
  /\ UNCHANGED <<in_external_intr, yield_on_return, cr2, irr, isr>>

-----------------------------------------------------------------------------
\* The line of a vector at the master; the slave is on line 2.
Line(vec) == IF vec < 40 THEN vec - 32 ELSE 2
InService(vec) == [master |-> isr.master \cup {Line(vec)},
                   slave |-> isr.slave \cup (IF vec < 40 THEN {} ELSE {vec - 40})]
Held(vec) == \/ \E l \in isr.master : l <= Line(vec)
             \/ vec >= 40 /\ \E l \in isr.slave : l <= vec - 40

\* A device raises its line (external).
Raise(vec) == /\ vec \notin {39, 47} /\ vec \notin irr /\ irr' = irr \cup {vec}
              /\ UNCHANGED <<stack, cur, on, in_external_intr, yield_on_return, cr2, isr>>

(* Mutant of make_gate: the gate of every vector leaves interrupts on. *)
make_gate_trap(vec) == TRUE

(* Mutant of make_gate: page faults as the other exceptions. *)
make_gate_fault(vec) == vec \in Internal \cap Handlers

\* Whether the gate of a vector leaves interrupts on: those registered with
\* INTR_ON; all others, and page faults (14), have an interrupt gate.
make_gate(vec) == vec \in (Internal \cap Handlers) \ {14}

(* Mutant of Enter: an earlier request to yield is not forgotten. *)
Enter_keeping(vec) ==
  /\ stack' = [stack EXCEPT ![cur] = <<Frame(vec, "handler", on)>> \o @]
  /\ on' = (on /\ make_gate(vec))
  /\ in_external_intr' = (in_external_intr \/ vec \in External)
  /\ UNCHANGED <<cur, yield_on_return>>

\* intr_handler() up to the call of the handler.
Enter(vec) ==
  /\ stack' = [stack EXCEPT ![cur] = <<Frame(vec, "handler", on)>> \o @]
  /\ on' = (on /\ make_gate(vec))
  /\ in_external_intr' = (in_external_intr \/ vec \in External)
  /\ yield_on_return' = (yield_on_return /\ vec \notin External)
  /\ UNCHANGED cur

\* The processor takes the first line that is raised and not held back.
Deliver(vec) ==
  /\ Running /\ on
  /\ vec \in irr /\ ~Held(vec) /\ \A other \in irr : Line(other) >= Line(vec)
  /\ irr' = irr \ {vec} /\ isr' = InService(vec)
  /\ Enter(vec)
  /\ UNCHANGED cr2

\* A line was withdrawn: its controller delivers its last line, and the
\* slave's last line leaves only line 2 in service.
DeliverSpurious(vec) ==
  /\ Running /\ on /\ vec \in {39, 47} \cap External
  /\ isr' = IF vec = 47 THEN [isr EXCEPT !.master = @ \cup {2}] ELSE isr
  /\ Enter(vec)
  /\ UNCHANGED <<irr, cr2>>

\* A user program traps.
Trap(vec) ==
  /\ stack[cur] = <<>> /\ on /\ vec \in Internal
  /\ Enter(vec)
  /\ cr2' = IF vec = 14 THEN cur ELSE cr2
  /\ UNCHANGED <<irr, isr>>

intr_yield_on_return ==
  /\ InExternal /\ Top.vec \in Handlers
  /\ yield_on_return' = TRUE
  /\ stack' = [stack EXCEPT ![cur][1].asked = TRUE]
  /\ UNCHANGED <<cur, on, in_external_intr, cr2, irr, isr>>

-----------------------------------------------------------------------------
First(lines) == {l \in lines : \A m \in lines : l <= m}

(* Mutant of pic_end_of_interrupt: the slave is not told. *)
pic_end_of_interrupt_master(vec) == [isr EXCEPT !.master = @ \ First(@)]

\* An end-of-interrupt ends the first line in service.
pic_end_of_interrupt(vec) ==
  [master |-> isr.master \ First(isr.master),
   slave |-> IF vec >= 40 THEN isr.slave \ First(isr.slave) ELSE isr.slave]

(* Mutant of Leave: who yields does not acknowledge. *)
Leave_yielding ==
  /\ InExternal /\ ~on
  /\ in_external_intr' = FALSE
  /\ isr' = IF yield_on_return THEN isr ELSE pic_end_of_interrupt(Top.vec)
  /\ stack' = [stack EXCEPT ![cur][1].stage = "return"]
  /\ IF yield_on_return THEN cur' \in Thread ELSE cur' = cur
  /\ UNCHANGED <<on, yield_on_return, cr2, irr>>

\* intr_handler() after the handler of an external interrupt: thread_yield()
\* runs any ready thread, this one included.
Leave ==
  /\ InExternal /\ ~on
  /\ in_external_intr' = FALSE
  /\ isr' = pic_end_of_interrupt(Top.vec)
  /\ stack' = [stack EXCEPT ![cur][1].stage = "return"]
  /\ IF yield_on_return THEN cur' \in Thread ELSE cur' = cur
  /\ UNCHANGED <<on, yield_on_return, cr2, irr>>

\* page_fault() up to intr_enable().
page_fault ==
  /\ Faulting
  /\ stack' = [stack EXCEPT ![cur][1].addr = {cr2}] /\ on' = TRUE
  /\ UNCHANGED <<cur, in_external_intr, yield_on_return, cr2, irr, isr>>

\* The handler of a trap: all that are registered end the thread, with
\* interrupts on, and a new one takes its place; unexpected_interrupt() only counts.
HandleTrap ==
  /\ Plain /\ stack[cur] # <<>> /\ Top.vec \in Internal
  /\ IF Top.vec \in Handlers
     THEN on /\ stack' = [stack EXCEPT ![cur] = Fresh] /\ cur' \in Thread /\ on' = FALSE
     ELSE stack' = [stack EXCEPT ![cur][1].stage = "return"] /\ UNCHANGED <<cur, on>>
  /\ UNCHANGED <<in_external_intr, yield_on_return, cr2, irr, isr>>

\* iret, or the end of thread_yield(): the interrupt status is as before.
Return ==
  /\ ~Running
  /\ on' = Top.level /\ stack' = [stack EXCEPT ![cur] = Tail(@)]
  /\ UNCHANGED <<cur, in_external_intr, yield_on_return, cr2, irr, isr>>

Next == \/ intr_disable \/ intr_enable \/ thread_yield \/ intr_yield_on_return
        \/ Leave \/ page_fault \/ HandleTrap \/ Return
        \/ \E vec \in External : Raise(vec) \/ Deliver(vec) \/ DeliverSpurious(vec)
        \/ \E vec \in Internal : Trap(vec)

\* Code turns interrupts on again and handlers end; the processor takes a
\* timer interrupt when they are on again and again.
Fairness == /\ WF_vars(Leave) /\ WF_vars(Return) /\ WF_vars(page_fault)
            /\ SF_vars(intr_enable) /\ SF_vars(Deliver(32))

Spec == Init /\ [][Next]_vars
FairSpec == Spec /\ Fairness

-----------------------------------------------------------------------------
(* "External interrupts run with interrupts turned off, so they never      *)
(* nest, nor are they ever pre-empted." (interrupt.c): among all threads   *)
(* at most one is in an external interrupt, the running one, innermost,    *)
(* with interrupts off, and intr_context() says so.                        *)
NeverNest ==
  LET handling == UNION {{<<t, k>> : k \in {k \in DOMAIN stack[t] :
                            stack[t][k].vec \in External /\ stack[t][k].stage = "handler"}} : t \in Thread}
  IN /\ handling \subseteq {<<cur, 1>>}
     /\ in_external_intr = (handling # {})
     /\ in_external_intr => ~on

(* "If we don't acknowledge the IRQ, it will never be delivered to us      *)
(* again" (interrupt.c): outside external interrupts no line is left in    *)
(* service, whoever runs, also after a yield and a spurious interrupt.     *)
Acknowledged == ~in_external_intr => isr = [master |-> {}, slave |-> {}]

(* yield_on_return is shared by all interrupts, but one yields only when   *)
(* its own handler asked for it: intr_handler() forgets earlier requests.  *)
YieldIsOwn == in_external_intr => yield_on_return = Top.asked

(* "We need to disable interrupts for page faults because the fault        *)
(* address is stored in CR2 and needs to be preserved." (exception.c): the *)
(* address page_fault() reads is that of its own thread's fault.           *)
FaultAddressOwn ==
  \A t \in Thread : \A k \in DOMAIN stack[t] : stack[t][k].addr \subseteq {t}

(* External interrupts never nest and leave no line in service; an         *)
(* interrupt yields on return only when its own handler asked for it; and  *)
(* page_fault() reads the address of its own fault, although interrupts    *)
(* are turned on again after that.                                         *)
InterruptsRight == NeverNest /\ Acknowledged /\ YieldIsOwn /\ FaultAddressOwn

(* The timer's interrupt, once raised, is delivered.                       *)
TimerDelivered == (32 \in irr) ~> (32 \notin irr)
=============================================================================
