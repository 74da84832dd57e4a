-------------------------------- MODULE Timer --------------------------------
(***************************************************************************)
(* devices/timer.c: the calibration of the delay loop, sleeping by         *)
(* yielding and delaying by looping, against real time.  Time passes in    *)
(* units of which there are Units to a tick, and a processor runs `speed'  *)
(* turns of busy_wait()'s loop in a tick.                                  *)
(***************************************************************************)
EXTENDS Integers, Functions

CONSTANTS Thread,
          Freq,          \* TIMER_FREQ
          Units,         \* units of real time in a tick
          Speed,         \* speeds of the processor
          Request,       \* pairs <<num, denom>>: seconds to sleep
          MaxBit,        \* largest power of two tried, 31 in the code
          MaxTime        \* bound on real time

\* What the constants satisfy.
TimerAssumption == Freq \in Nat \ {0} /\ Units \in Nat \ {0} /\ MaxTime \in Nat

VARIABLES now, ticks,
          speed, loops_per_tick,
          th             \* [pc, start, want, began, num, denom]

vars == <<now, ticks, speed, loops_per_tick, th>>

Idle == [pc |-> "idle", start |-> 0, want |-> 0, began |-> 0, num |-> 0, denom |-> 1]

\* Waits for a tick, loops, and sees whether another tick came.
too_many_loops(loops) == loops > speed

(* Mutant of FirstBit: takes the first power of two that is too many. *)
FirstBit_over == CHOOSE h \in {2^i : i \in 10 .. MaxBit} : too_many_loops(h) /\ \A i \in 10 .. MaxBit : 2^i < h => ~ too_many_loops(2^i)

\* Doubles from 2^10 while twice as many is not too many.
FirstBit == CHOOSE h \in {2^i : i \in 10 .. MaxBit} :
              too_many_loops(2 * h) /\ \A i \in 10 .. MaxBit : 2^i < h => ~ too_many_loops(2 * 2^i)

\* Tries the bits below the first one, down to the ninth.
Refine[n \in 0 .. 9] ==
  IF n = 0 THEN FirstBit
  ELSE LET l == Refine[n - 1]
           bit == FirstBit \div 2^n
       IN  IF too_many_loops(l + bit) THEN l ELSE l + bit

timer_calibrate ==
  /\ loops_per_tick = 0
  /\ loops_per_tick' = Refine[9]
  /\ UNCHANGED <<now, ticks, speed, th>>

Init ==
  /\ now = 0 /\ ticks = 0
  /\ speed \in Speed /\ loops_per_tick = 0
  /\ th = [t \in Thread |-> Idle]

\* Real time passes; the timer interrupts at the end of each tick.
timer_interrupt ==
  /\ loops_per_tick # 0 /\ now < MaxTime
  /\ now' = now + 1
  /\ ticks' = IF now' % Units = 0 THEN ticks + 1 ELSE ticks
  /\ UNCHANGED <<speed, loops_per_tick, th>>

(* Mutant of real_time_delay: the numerator is scaled down first. *)
real_time_delay_early(num, denom) == (((num \div 1000) * loops_per_tick) * Freq) \div (denom \div 1000)

\* The number of loops to run; num and denom are scaled down by 1000.
real_time_delay(num, denom) == (((loops_per_tick * num) \div 1000) * Freq) \div (denom \div 1000)

\* Whole ticks are slept, rounded down; less than a tick is looped, which
\* takes no thread switch and is abstracted to its length.
real_time_sleep(t, num, denom) ==
  /\ loops_per_tick # 0 /\ th[t].pc = "idle"
  /\ LET n == (num * Freq) \div denom
     IN  IF n > 0
         THEN th' = [th EXCEPT ![t] = [pc |-> "sleep", start |-> ticks, want |-> n, began |-> now,
                                       num |-> num, denom |-> denom]]
         ELSE th' = [th EXCEPT ![t] = [pc |-> "delay", start |-> ticks, want |-> real_time_delay(num, denom),
                                       began |-> now, num |-> num, denom |-> denom]]
  /\ UNCHANGED <<now, ticks, speed, loops_per_tick>>

timer_elapsed(then) == ticks - then

(* Mutant of Wake: counts the tick that is under way. *)
Wake_early(t) ==
  /\ th[t].pc = "sleep" /\ timer_elapsed(th[t].start) + 2 > th[t].want
  /\ th' = [th EXCEPT ![t].pc = "woken"]
  /\ UNCHANGED <<now, ticks, speed, loops_per_tick>>

(* Mutant of Wake: a sleeper that misses its tick waits for it to recur. *)
Wake_exact(t) ==
  /\ th[t].pc = "sleep" /\ timer_elapsed(th[t].start) = th[t].want
  /\ th' = [th EXCEPT ![t].pc = "woken"]
  /\ UNCHANGED <<now, ticks, speed, loops_per_tick>>

\* timer_sleep()'s loop ends when it finds enough ticks elapsed; until then
\* each turn yields, which changes nothing here.
Wake(t) ==
  /\ th[t].pc = "sleep" /\ ~ (timer_elapsed(th[t].start) < th[t].want)
  /\ th' = [th EXCEPT ![t].pc = "woken"]
  /\ UNCHANGED <<now, ticks, speed, loops_per_tick>>

Return(t) ==
  /\ th[t].pc \in {"woken", "delay"}
  /\ th' = [th EXCEPT ![t] = Idle]
  /\ UNCHANGED <<now, ticks, speed, loops_per_tick>>

Next ==
  \/ timer_calibrate \/ timer_interrupt
  \/ \E t \in Thread : Wake(t) \/ Return(t) \/ \E r \in Request : real_time_sleep(t, r[1], r[2])

\* A sleeper is ready all the time and gets the processor again and again,
\* but not at any given tick.
Fairness ==
  /\ WF_vars(timer_calibrate) /\ WF_vars(timer_interrupt)
  /\ \A t \in Thread : WF_vars(Wake(t))

Spec == Init /\ [][Next]_vars /\ Fairness

-----------------------------------------------------------------------------
(* Properties *)

(* timer_calibrate() never exceeds what fits a tick and stays below it by  *)
(* less than one part in 2^9, on a processor with at least 2^10 loops to a *)
(* tick.                                                                   *)
CalibrationRight ==
  loops_per_tick # 0 /\ speed >= 2^10 => loops_per_tick <= speed /\ (speed - loops_per_tick) * 2^9 < speed

(* A sleeping thread wakes no earlier than two ticks before NUM/DENOM      *)
(* seconds have passed: one tick is lost to rounding down, one to starting *)
(* within a tick.                                                          *)
SleepLongEnough ==
  \A t \in Thread : th[t].pc = "woken" =>
    (now - th[t].began + 2 * Units) * th[t].denom > th[t].num * Freq * Units

(* A delay's loops take no longer than asked for, and less by no more than *)
(* what the calibration and the two divisions leave off.                   *)
DelayApprox ==
  \A t \in Thread : th[t].pc = "delay" /\ speed >= 2^10 =>
    LET asked == speed * th[t].num * Freq
        lost  == speed \div 2^9 + 1
    IN  /\ th[t].want * th[t].denom <= asked
        /\ (th[t].want + 1) * th[t].denom + lost * th[t].num * Freq + Freq * 1000 > asked

(* Every thread whose ticks have passed wakes up, though it may not have   *)
(* run at the very tick it waited for.                                     *)
Due(t) == th[t].pc = "sleep" /\ timer_elapsed(th[t].start) >= th[t].want
SleepersWake == \A t \in Thread : Due(t) ~> th[t].pc # "sleep"
==============================================================================
