----------------------------- MODULE MCMachine ------------------------------
(* The devices, the start of the kernel and the shell side by side: a      *)
(* behaviour is one of a single component of Components.  Interrupt is     *)
(* extended, the others are instances.                                     *)
EXTENDS Interrupt

CONSTANTS Components, NULL, intr, boot,
          TimerThread, Speed, TimerRequest, MaxTime,
          IdeSector, IdeValue,
          Symbols, MaxLen, Modes

VARIABLES component,  \* whose behaviour it is
          now, ticks, speed, loops_per_tick, timer_th,
          holder, console_lock_depth, use_console_lock, stk, waiting, count, out,
          console_panicked,
          kind, data, is_ata, registered, booting, selected, lba, ctl, intrq,
          expecting_interrupt, completion_wait, lock, ide_th, panic,
          down, state_var, caps_lock, queued, last, rebooted,
          fb, cx, cy, inited, cursor, beeping, gate, page, printed,
          command_line, argv, argv_end, pos, machine, how, option, random, done, boot_panicked,
          pc, mode, input, p_input, saveptr, pp_paths, cwd, children, status, line, paths0, log

\* Timer: sleeps of 0 to 3 ticks of 1/100 s and a bit; delays in us and ms.
Sleeps == {<<15, 1000>>, <<39, 1000>>, <<0, 1000>>}
Delays == {<<n, 1000000>> : n \in {1, 7, 400, 999, 1000}} \cup {<<5, 1000>>, <<9, 1000>>}
OneSpeed == {1500}
Speeds == (1000 .. 1100) \cup (2040 .. 2060) \cup (4090 .. 4110) \cup {7777, 12345}

\* Ide: a small and a large disk, a CD-ROM, no device, and disks that fail a self-test.
Kind(error, ready, signature, capacity) ==
  [error |-> error, ready |-> ready, signature |-> signature, capacity |-> capacity]
Disks == {Kind(1, TRUE, "ata", 1)}
Kinds == Disks \cup {Kind(1, TRUE, "sata", 9), Kind(1, TRUE, "atapi", 0), Kind(0, FALSE, "none", 0),
                     Kind(129, TRUE, "ata", 1), Kind(129, FALSE, "ata", 1)}

\* Kbd: a letter, a bracket, Delete, Caps Lock and the shift keys.
SomeKeys == {16, 26, 83, 58, 42, 54, 56, 57400, 29, 57373}

\* Boot: up to two options, then up to three other words.
Option(name, value) == [name |-> name, value |-> value, option |-> TRUE, len |-> 1]
Word(name) == [name |-> name, value |-> NULL, option |-> FALSE, len |-> 1]
Options == {Option("-h", NULL), Option("-q", NULL), Option("-r", NULL), Option("-f", NULL), Option("-rs", 1),
            Option("-rs", 2), Option("-rs", NULL), Option("-filesys", "hda2"), Option("-scratch", "hdz"), Option("-x", NULL)}
Words == {Word("run"), Word("ls"), Word("x"), Option("-q", NULL)}
SeqsOf(S, n) == UNION {[1 .. m -> S] : m \in 0 .. n}
CommandLines == {o \o a : o \in SeqsOf(Options, 2), a \in SeqsOf(Words, 3)}

\* Wish: any line, then one that uses the path it may have set, with and without a new-line before
\* the end of the file.
Inputs == Seq(Seq(Symbols \cup {"\n"}))
AnyThenLs == \E k \in 0 .. MaxLen : \E s \in [1 .. k -> Symbols] :
               input = <<s \o <<"\n">>, IF k = MaxLen THEN <<"ls">> ELSE <<"ls", "\n">>>>

-----------------------------------------------------------------------------
TIMER == INSTANCE Timer WITH
  Thread <- TimerThread, Request <- TimerRequest, Freq <- 100, Units <- 3, MaxBit <- 16,
  th <- timer_th
timer_vars == <<now, ticks, speed, loops_per_tick, timer_th>>

CONSOLE == INSTANCE Console WITH
  Length <- 2, MaxNest <- 2, MaxPrints <- 2, panicked <- console_panicked
console_vars == <<holder, console_lock_depth, use_console_lock, stk, waiting, count, out,
                    console_panicked>>

IDE == INSTANCE Ide WITH
  Sector <- IdeSector, Value <- IdeValue, DeviceKind <- Kinds, Limit <- 8,
  Spurious <- 0, th <- ide_th
NOISY == INSTANCE Ide WITH
  Sector <- IdeSector, Value <- {}, DeviceKind <- Disks, Limit <- 8,
  Spurious <- 2, th <- ide_th
ide_vars == <<kind, data, is_ata, registered, booting, selected, lba, ctl, intrq,
                expecting_interrupt, completion_wait, lock, ide_th, panic>>

KBD == INSTANCE Kbd WITH
  Keys <- SomeKeys, Room <- 1
kbd_vars == <<down, state_var, caps_lock, queued, last, rebooted>>

VGA == INSTANCE Vga WITH
  COL_CNT <- 4, ROW_CNT <- 3, Tab <- 2, Byte <- 4, Letter <- {"a"}, Blank <- " ", MaxChars <- 7
vga_vars == <<fb, cx, cy, inited, cursor, beeping, gate, page, printed>>

BOOT == INSTANCE Boot WITH
  CommandLines <- CommandLines, BlockDevices <- {"hda1", "hda2"}, Clock <- 9,
  LOADER_ARGS_LEN <- 10, line <- command_line, p <- argv_end, panicked <- boot_panicked
boot_vars == <<command_line, argv, argv_end, pos, machine, how, option, random, done,
                 boot_panicked>>

WISH == INSTANCE Wish WITH
  Inputs <- Inputs, Modes <- Modes,
  Programs <- {<<<<"/bin">>, <<"ls">>>>, <<<<"d">>, <<"ls">>>>}, Dirs <- {<<"d">>},
  MAX_ARGS <- 8, NUL <- "NUL"
wish_vars == <<pc, mode, input, p_input, saveptr, pp_paths, cwd, children, status, line, paths0,
                 log>>

ASSUME Assumptions == TIMER!TimerAssumption /\ CONSOLE!ConsoleAssumption /\ IDE!IdeAssumption /\
         WISH!WishAssumption

-----------------------------------------------------------------------------
(* A variable of a component that is not running has the value Off, those  *)
(* of Interrupt one of their initial values.                               *)
Off == 0

MCInit ==
  /\ component \in Components
  /\ IF component = "timer" THEN TIMER!Init
     ELSE now = Off /\ ticks = Off /\ speed = Off /\ loops_per_tick = Off /\ timer_th = Off
  /\ IF component = "console" THEN CONSOLE!Init
     ELSE holder = Off /\ console_lock_depth = Off /\ use_console_lock = Off /\ stk = Off /\
          waiting = Off /\ count = Off /\ out = Off /\ console_panicked = Off
  /\ IF component = "ide" THEN IDE!Init
     ELSE IF component = "noisy_ide" THEN NOISY!Init
     ELSE kind = Off /\ data = Off /\ is_ata = Off /\ registered = Off /\ booting = Off /\
          selected = Off /\ lba = Off /\ ctl = Off /\ intrq = Off /\
          expecting_interrupt = Off /\ completion_wait = Off /\ lock = Off /\ ide_th = Off /\
          panic = Off
  /\ Init /\ (component # "interrupt" => cur = 1 /\ cr2 = 1)
  /\ IF component = "kbd" THEN KBD!Init
     ELSE down = Off /\ state_var = Off /\ caps_lock = Off /\ queued = Off /\ last = Off /\
          rebooted = Off
  /\ IF component = "vga" THEN VGA!Init
     ELSE fb = Off /\ cx = Off /\ cy = Off /\ inited = Off /\ cursor = Off /\ beeping = Off /\
          gate = Off /\ page = Off /\ printed = Off
  /\ IF component = "boot" THEN BOOT!Init
     ELSE command_line = Off /\ argv = Off /\ argv_end = Off /\ pos = Off /\ machine = Off /\
          how = Off /\ option = Off /\ random = Off /\ done = Off /\ boot_panicked = Off
  /\ IF component = "wish" THEN AnyThenLs /\ WISH!Init
     ELSE pc = Off /\ mode = Off /\ input = Off /\ p_input = Off /\ saveptr = Off /\
          pp_paths = Off /\ cwd = Off /\ children = Off /\ status = Off /\ line = Off /\
          paths0 = Off /\ log = Off

OnlyTimers == UNCHANGED <<component, console_vars, ide_vars, vars, kbd_vars, vga_vars,
                           boot_vars, wish_vars>>
Timers == component = "timer" /\ TIMER!Next /\ OnlyTimers

OnlyConsoles == UNCHANGED <<component, timer_vars, ide_vars, vars, kbd_vars, vga_vars,
                             boot_vars, wish_vars>>
Consoles == component = "console" /\ CONSOLE!Next /\ OnlyConsoles

OnlyIdes == UNCHANGED <<component, timer_vars, console_vars, vars, kbd_vars, vga_vars,
                         boot_vars, wish_vars>>
Ides == component = "ide" /\ IDE!Next /\ OnlyIdes
NoisyIdes == component = "noisy_ide" /\ NOISY!Next /\ OnlyIdes

OnlyInterrupts == UNCHANGED <<component, timer_vars, console_vars, ide_vars, kbd_vars, vga_vars,
                               boot_vars, wish_vars>>
Interrupts == component = "interrupt" /\ Next /\ OnlyInterrupts

OnlyKeyboards == UNCHANGED <<component, timer_vars, console_vars, ide_vars, vars,
                              vga_vars, boot_vars, wish_vars>>
Keyboards == component = "kbd" /\ KBD!Next /\ OnlyKeyboards

OnlyVgas == UNCHANGED <<component, timer_vars, console_vars, ide_vars, vars, kbd_vars,
                         boot_vars, wish_vars>>
Vgas == component = "vga" /\ VGA!Next /\ OnlyVgas

OnlyBoots == UNCHANGED <<component, timer_vars, console_vars, ide_vars, vars,
                          kbd_vars, vga_vars, wish_vars>>
Boots == component = "boot" /\ BOOT!Next /\ OnlyBoots

OnlyWishes == UNCHANGED <<component, timer_vars, console_vars, ide_vars, vars,
                           kbd_vars, vga_vars, boot_vars>>
Wishes == component = "wish" /\ WISH!Next /\ OnlyWishes

\* The calls have returned, or the component has stopped.
Stopped ==
  /\ CASE component = "timer" -> now = MaxTime
       [] component = "console" -> console_panicked # NULL \/ \A t \in Thread : stk[t] = <<>>
       [] component = "ide" -> panic \/ IDE!Booted
       [] component = "kbd" -> rebooted
       [] component = "boot" -> machine \in {"off", "rebooting", "stuck", "exited"}
       [] component = "wish" -> pc = "exited"
       [] component = "noisy_ide" -> panic \/ NOISY!Booted
       [] OTHER -> FALSE
  /\ UNCHANGED <<component, timer_vars, console_vars, ide_vars, vars, kbd_vars,
                  vga_vars, boot_vars, wish_vars>>

MCNext == Timers \/ Consoles \/ Ides \/ NoisyIdes \/ Interrupts \/ Keyboards \/ Vgas \/ Boots \/
          Wishes \/ Stopped

MCvars == <<component, timer_vars, console_vars, ide_vars, vars, kbd_vars, vga_vars,
            boot_vars, wish_vars>>

\* What the components' own fairness assumes.  A step of another component is never enabled, so one
\* condition can speak of several of them.
TimerStep(t) == component = "timer" /\ TIMER!Wake(t) /\ OnlyTimers
DiskStep(t) == component = "ide" /\ IDE!Step(t) /\ OnlyIdes
PrintStep(t) == component = "console" /\ CONSOLE!Step(t) /\ OnlyConsoles
Progress ==
  \/ component = "timer" /\ (TIMER!timer_calibrate \/ TIMER!timer_interrupt) /\ OnlyTimers
  \/ component = "ide" /\ (IDE!Boot \/ IDE!identify_ata_device \/ \E t \in Thread : IDE!Acquire(t)) /\ OnlyIdes
  \/ component = "console" /\ (\E t \in Thread : CONSOLE!Acquired(t)) /\ OnlyConsoles
  \/ component = "interrupt" /\ (Leave \/ Return \/ page_fault) /\ OnlyInterrupts
  \/ component = "wish" /\ WISH!Main /\ OnlyWishes
Service ==
  \/ component = "ide" /\ IDE!DeviceStep /\ OnlyIdes
  \/ component = "wish" /\ (\E i \in DOMAIN children : WISH!ChildStep(i)) /\ OnlyWishes
DiskInterrupt == component = "ide" /\ IDE!interrupt_handler /\ OnlyIdes
Enabling == component = "interrupt" /\ intr_enable /\ OnlyInterrupts
Delivery == component = "interrupt" /\ Deliver(32) /\ OnlyInterrupts
MCFairness ==
  /\ WF_MCvars(Progress) /\ WF_MCvars(Service) /\ WF_MCvars(DiskInterrupt) /\ WF_MCvars(DiskStep(boot))
  /\ \A t \in Thread : WF_MCvars(TimerStep(t)) /\ WF_MCvars(DiskStep(t) \/ PrintStep(t))
  /\ SF_MCvars(Enabling) /\ SF_MCvars(Delivery)

MCSpec == MCInit /\ [][MCNext]_MCvars
MCFairSpec == MCSpec /\ MCFairness

-----------------------------------------------------------------------------
(* A thread that calls timer_sleep() through real_time_sleep() wakes no    *)
(* earlier than two ticks before the time it asked for, and it does wake   *)
(* once its ticks have passed.                                             *)
SleepsRight ==
  /\ [](component = "timer" => TIMER!SleepLongEnough)
  /\ \A t \in TimerThread :
       component = "timer" /\ TIMER!Due(t) ~> (component = "timer" => timer_th[t].pc # "sleep")

(* The output of two printf() calls never mixes, as the comment on         *)
(* console_lock in console.c says, interrupt handlers printing in between; *)
(* console_lock is held exactly while its holder prints, to the depth      *)
(* console_lock_depth says.                                                *)
NoMixing == component = "console" => CONSOLE!NoMixing /\ CONSOLE!LockExact

\* A thread is busy while it has the console or the channel of its disk, and done when its call has
\* returned or the kernel has panicked.
Busy(t) ==
  CASE component = "console" -> CONSOLE!Writing(t)
    [] component = "ide" -> IDE!Served(t)
    [] OTHER -> FALSE
Done(t) ==
  CASE component = "console" -> stk[t] = <<>> \/ console_panicked # NULL
    [] component = "ide" -> ide_th[t].pc = "idle" \/ panic
    [] OTHER -> TRUE

\* Some thread waits for the console or the channel; and then some thread has it.
Wanted ==
  CASE component = "console" -> \E t \in Thread : waiting[t]
    [] component = "ide" -> \E t \in Thread : ide_th[t].pc = "want"
    [] OTHER -> FALSE
Taken ==
  CASE component = "console" -> (\E t \in Thread : CONSOLE!Writing(t)) \/ console_panicked # NULL
    [] component = "ide" -> (\E t \in Thread : IDE!Served(t)) \/ panic
    [] OTHER -> TRUE

\* What nothing may hold up: the message of a panic, and the timer's interrupt.
Urgent ==
  CASE component = "console" -> console_panicked # NULL
    [] component = "interrupt" -> 32 \in irr
    [] OTHER -> FALSE
Attended ==
  CASE component = "console" -> \E t \in Thread : CONSOLE!Halted(t)
    [] component = "interrupt" -> 32 \notin irr
    [] OTHER -> TRUE

\* The search for disks is over, or the shell has ended.
Finished ==
  CASE component = "ide" -> IDE!Booted \/ panic
    [] component = "wish" -> pc = "exited"
    [] OTHER -> TRUE

(* What has what it needs comes to its end: a print that has the console,  *)
(* unless a thread panics; the message of a panic, whoever has the         *)
(* console; a request that has the channel of its disk and the search for  *)
(* disks, unless the kernel panics; the delivery of a timer interrupt,     *)
(* through any number of traps, other interrupts and disabled sections;    *)
(* and the shell, when its input ends.  While threads wait for the console *)
(* or the channel, some thread has it again.                               *)
CallsEnd ==
  /\ \A t \in Thread : Busy(t) ~> Done(t)
  /\ Wanted ~> Taken
  /\ Urgent ~> Attended
  /\ <>Finished

(* ide_read() and ide_write() transfer the sector asked for while two      *)
(* threads share the registers of the channel, reads also when interrupts  *)
(* come unasked; every command consumes its own completion, so that none   *)
(* is pending when the lock is free; and only working disks of less than 1 *)
(* GB are registered.                                                      *)
DisksRight ==
  /\ component = "ide" => IDE!TransfersRight /\ IDE!CompletionsBalanced /\ IDE!OnlySmallDisks
  /\ component = "noisy_ide" => NOISY!TransfersRight

(* What a letter key types follows from the keys held down, both keys of a *)
(* pair pressed and released in any order; the screen shows the end of     *)
(* what was printed, through wrapping and scrolling, and the cursor is     *)
(* where the next character goes, also after others wrote while the        *)
(* speaker beeped.                                                         *)
TypedAndShown ==
  /\ component = "kbd" => KBD!LettersRight
  /\ component = "vga" => VGA!ScreenShowsPage /\ VGA!CursorShown

(* At its start the kernel takes from the command line what its options    *)
(* say: argv[] is large enough, the actions run in order with the words    *)
(* they take, the end is one that -q or -r asks for, and the clock's seed  *)
(* never replaces one of an -rs option.  Where options contradict each     *)
(* other (-q with -r, two seeds) it is left open which one holds.          *)
(* timer_calibrate() stays just below what fits a tick, so that            *)
(* real_time_delay() loops for the time asked for, up to the error of its  *)
(* divisions.                                                              *)
StartRight ==
  /\ component = "boot" => BOOT!ArgvFits /\ BOOT!ActionsRight /\ BOOT!EndsRight /\ BOOT!SeedRight
  /\ component = "timer" => TIMER!CalibrationRight /\ TIMER!DelayApprox

(* The shell does for a line what its README says of its commands,         *)
(* redirections and built-ins, except where it does not: cd with several   *)
(* arguments and a second '>' for a file name, of which nothing is said    *)
(* here (CdTakesOne, OneRedirection).  No program of a line is left        *)
(* unwaited when the next is read.  The shell ends on a line that is exit  *)
(* and on no line whose first command is not exit; exit after white space, *)
(* with arguments or before '&' is left open (ExitWithSpace).              *)
LinesRight ==
  /\ [](component = "wish" => WISH!LineMeaning /\ WISH!NoChildLeft)
  /\ [][component = "wish" => WISH!ExitAsked]_wish_vars
=============================================================================
