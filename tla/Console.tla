------------------------------- MODULE Console -------------------------------
(***************************************************************************)
(* lib/kernel/console.c with debug_panic(): threads print messages         *)
(* character by character under a lock that a depth counter makes          *)
(* recursive, interrupt handlers print without it, and a panic turns it    *)
(* off and stops the machine after its message.  A printing thread may be  *)
(* made to print again at any character, as when it frees a dying thread's *)
(* page on a timer interrupt.                                              *)
(***************************************************************************)
EXTENDS Integers, Sequences

CONSTANTS Thread, NULL, intr,
          Length,        \* characters of a message
          MaxNest,       \* bound on prints within prints
          MaxPrints      \* bound on messages of a thread

\* What the constants satisfy.
ConsoleAssumption == intr \notin Thread /\ {Length, MaxNest, MaxPrints} \subseteq Nat \ {0}

VARIABLES holder,        \* of console_lock
          console_lock_depth, use_console_lock,
          stk,           \* [thread -> its prints, the innermost first: [id, left]]
          waiting,       \* [thread -> whether it is in lock_acquire()]
          count,         \* [thread -> messages begun]
          out,           \* <<thread, message>> of each character written
          panicked       \* the thread in debug_panic(), or NULL

vars == <<holder, console_lock_depth, use_console_lock, stk, waiting, count, out, panicked>>

Init ==
  /\ holder = NULL /\ console_lock_depth = 0 /\ use_console_lock = TRUE
  /\ stk = [t \in Thread |-> << >>] /\ waiting = [t \in Thread |-> FALSE]
  /\ count = [t \in Thread |-> 0]
  /\ out = << >> /\ panicked = NULL

\* debug_panic() turns interrupts off: no other thread runs.
Runs(t) == panicked \in {NULL, t} /\ ~ waiting[t]

Enter(t) == stk' = [stk EXCEPT ![t] = <<[id |-> count[t] + 1, left |-> Length]>> \o @]

(* Mutant of acquire_console: prints although another thread does. *)
acquire_console_nowait(t) ==
  IF use_console_lock /\ holder = NULL THEN holder' = t /\ UNCHANGED <<console_lock_depth, waiting>>
  ELSE IF use_console_lock /\ holder = t THEN console_lock_depth' = console_lock_depth + 1 /\ UNCHANGED <<holder, waiting>>
  ELSE UNCHANGED <<holder, console_lock_depth, waiting>>

acquire_console(t) ==
  IF ~ use_console_lock THEN UNCHANGED <<holder, console_lock_depth, waiting>>
  ELSE IF holder = t THEN console_lock_depth' = console_lock_depth + 1 /\ UNCHANGED <<holder, waiting>>
  ELSE IF holder = NULL THEN holder' = t /\ UNCHANGED <<console_lock_depth, waiting>>
  ELSE waiting' = [waiting EXCEPT ![t] = TRUE] /\ UNCHANGED <<holder, console_lock_depth>>

\* The beginning of vprintf(), puts(), putbuf() or putchar().
vprintf(t) ==
  /\ Runs(t) /\ panicked = NULL /\ Len(stk[t]) < MaxNest /\ count[t] < MaxPrints
  /\ acquire_console(t)
  /\ Enter(t)
  /\ count' = [count EXCEPT ![t] = @ + 1]
  /\ UNCHANGED <<use_console_lock, out, panicked>>

\* lock_acquire() returns.
Acquired(t) ==
  /\ panicked = NULL /\ waiting[t] /\ holder = NULL
  /\ holder' = t /\ waiting' = [waiting EXCEPT ![t] = FALSE]
  /\ UNCHANGED <<console_lock_depth, use_console_lock, stk, count, out, panicked>>

putchar_have_lock(t) ==
  /\ Runs(t) /\ stk[t] # << >> /\ Head(stk[t]).left > 0
  /\ out' = Append(out, <<t, Head(stk[t]).id>>)
  /\ stk' = [stk EXCEPT ![t][1].left = @ - 1]
  /\ UNCHANGED <<holder, console_lock_depth, use_console_lock, waiting, count, panicked>>

(* Mutant of release_console: the depth is not counted down. *)
release_console_stuck(t) ==
  IF ~ use_console_lock \/ console_lock_depth > 0 THEN UNCHANGED <<holder, console_lock_depth>>
  ELSE holder' = NULL /\ UNCHANGED console_lock_depth

release_console(t) ==
  IF ~ use_console_lock THEN UNCHANGED <<holder, console_lock_depth>>
  ELSE IF console_lock_depth > 0 THEN console_lock_depth' = console_lock_depth - 1 /\ UNCHANGED holder
  ELSE holder' = NULL /\ UNCHANGED console_lock_depth

\* debug_panic() does not return: after its message the thread shuts the machine down or loops.
Finish(t) ==
  /\ Runs(t) /\ panicked = NULL /\ stk[t] # << >> /\ Head(stk[t]).left = 0
  /\ release_console(t)
  /\ stk' = [stk EXCEPT ![t] = Tail(@)]
  /\ UNCHANGED <<use_console_lock, waiting, count, out, panicked>>

\* An interrupt handler prints a message in one go and takes no lock.
InterruptPrints ==
  /\ panicked = NULL /\ Len(SelectSeq(out, LAMBDA c : c[1] = intr)) < Length
  /\ out' = out \o [i \in 1 .. Length |-> <<intr, 1>>]
  /\ UNCHANGED <<holder, console_lock_depth, use_console_lock, stk, waiting, count, panicked>>

(* Mutant of debug_panic: console_panic() is not called. *)
debug_panic_locked(t) ==
  /\ Runs(t) /\ panicked = NULL
  /\ panicked' = t
  /\ acquire_console(t)
  /\ Enter(t)
  /\ UNCHANGED <<use_console_lock, count, out>>

\* With interrupts off, console_panic() and the message of the panic.
debug_panic(t) ==
  /\ Runs(t) /\ panicked = NULL
  /\ panicked' = t /\ use_console_lock' = FALSE
  /\ Enter(t)
  /\ UNCHANGED <<holder, console_lock_depth, waiting, count, out>>

Step(t) == putchar_have_lock(t) \/ Finish(t)

Next == InterruptPrints \/ \E t \in Thread : vprintf(t) \/ Acquired(t) \/ Step(t) \/ debug_panic(t)

\* A thread that can run goes on, and some thread takes a free lock; which one is left open.
Fairness == /\ \A t \in Thread : WF_vars(Step(t))
            /\ WF_vars(\E t \in Thread : Acquired(t))
Spec == Init /\ [][Next]_vars /\ Fairness

-----------------------------------------------------------------------------
(* Properties *)

(* The lock is held exactly while its holder prints, and the counter is    *)
(* the depth of its prints within prints: no release is missing and none   *)
(* is made for a lock not held.                                            *)
LockExact ==
  panicked = NULL =>
    /\ \A t \in Thread : holder = t <=> stk[t] # << >> /\ ~ waiting[t]
    /\ console_lock_depth = (IF holder = NULL THEN 0 ELSE Len(stk[holder]) - 1)

(* console.c: the lock is there "to prevent simultaneous printf() calls    *)
(* from mixing their output": between two characters of one message there  *)
(* are only characters of the same thread, or of an interrupt handler.     *)
NoMixing ==
  \A i, j, k \in DOMAIN out :
    i < j /\ j < k /\ out[i] = out[k] => out[j][1] \in {out[i][1], intr}

\* A print has begun to write; a panic's message is written.
Writing(t) == stk[t] # << >> /\ ~ waiting[t]
Halted(t) == panicked = t /\ Head(stk[t]).left = 0

(* A message that is being printed is printed to its end unless a panic    *)
(* stops it, the message of a panic always, also while another thread      *)
(* holds the lock; and while threads wait for the lock, some thread prints. *)
PrintsEnd ==
  /\ \A t \in Thread : Writing(t) ~> stk[t] = << >> \/ panicked # NULL
  /\ \A t \in Thread : panicked = t ~> Halted(t)
  /\ (\E t \in Thread : waiting[t]) ~> (\E t \in Thread : Writing(t)) \/ panicked # NULL
==============================================================================
