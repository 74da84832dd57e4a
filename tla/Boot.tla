-------------------------------- MODULE Boot --------------------------------
(***************************************************************************)
(* threads/init.c: main() reads the command line, parses the options,      *)
(* starts the parts of the kernel and runs the actions; devices/shutdown.c *)
(* and lib/kernel/debug.c: how a run of the kernel ends; lib/random.c: who *)
(* seeds the generator.  A word of the command line is its name, the value *)
(* after "=" (NULL without one) and its length in bytes.  MACHINE is where *)
(* main() is, or how the run ended.  Starting the parts is one step.       *)
(***************************************************************************)
EXTENDS Naturals, Sequences, SequencesExt, FiniteSetsExt

CONSTANTS CommandLines,     \* the command lines the loader may leave
          BlockDevices,     \* the block devices there are
          Clock,            \* what rtc_get_time() returns
          LOADER_ARGS_LEN,  \* 128
          NULL

VARIABLES line,      \* the words the loader left
          argv, p,   \* the words read so far, and the bytes they take
          pos,       \* the next word to parse, from 1
          machine,   \* "reading", "options", "starting", "actions"; "off", "rebooting", "stuck", "exited"
          how,       \* how to shut down
          option,    \* format_filesys and the names of block devices
          random,    \* the generator: inited, its seed, and the seed of the last random_init()
          done,      \* the actions run, as sequences of words
          panicked   \* debug_panic() was called

vars == <<line, argv, p, pos, machine, how, option, random, done, panicked>>

Bytes(words) == FoldSeq(LAMBDA word, n : n + word.len + 1, 0, words)

\* The loader leaves words that fit, each with its null byte, none of them empty.
Init == /\ line \in {l \in CommandLines : Bytes(l) <= LOADER_ARGS_LEN}
        /\ argv = <<>> /\ p = 0 /\ pos = 1 /\ machine = "reading"
        /\ how = "NONE" /\ option = [format |-> FALSE, filesys |-> NULL, scratch |-> NULL]
        /\ random = [inited |-> FALSE, seed |-> NULL, asked |-> NULL]
        /\ done = <<>> /\ panicked = FALSE

-----------------------------------------------------------------------------
(* The ends of a run *)

shutdown_configure(type) == how' = type

\* What shutdown() makes of the machine; OTHERWISE when it returns.
shutdown(otherwise) == CASE how = "POWER_OFF" -> "off" [] how = "REBOOT" -> "rebooting" [] OTHER -> otherwise

\* debug_panic(): shuts down as configured so far, or loops.
PANIC == machine' = shutdown("stuck") /\ panicked' = TRUE

(* Mutant of random_init: a later seed replaces an earlier one. *)
random_init_again(seed) == random' = [inited |-> TRUE, seed |-> seed, asked |-> seed]

random_init(seed) ==
  random' = IF random.inited THEN [random EXCEPT !.asked = seed]
            ELSE [inited |-> TRUE, seed |-> seed, asked |-> seed]

-----------------------------------------------------------------------------
(* Mutant of read_command_line: the check comes after the advance. *)
read_command_line_late ==
  /\ machine = "reading"
  /\ IF Len(argv) = Len(line) THEN machine' = "options" /\ UNCHANGED <<argv, p, panicked>>
     ELSE IF p + line[Len(argv) + 1].len + 1 >= LOADER_ARGS_LEN THEN PANIC /\ UNCHANGED <<argv, p>>
     ELSE /\ argv' = Append(argv, line[Len(argv) + 1])
          /\ p' = p + line[Len(argv) + 1].len + 1
          /\ UNCHANGED <<machine, panicked>>
  /\ UNCHANGED <<line, pos, how, option, random, done>>

\* One round of the loop, which finds the next word after the null byte of the last.
read_command_line ==
  /\ machine = "reading"
  /\ IF Len(argv) = Len(line) THEN machine' = "options" /\ UNCHANGED <<argv, p, panicked>>
     ELSE IF p >= LOADER_ARGS_LEN THEN PANIC /\ UNCHANGED <<argv, p>>
     ELSE /\ argv' = Append(argv, line[Len(argv) + 1])
          /\ p' = p + line[Len(argv) + 1].len + 1
          /\ UNCHANGED <<machine, panicked>>
  /\ UNCHANGED <<line, pos, how, option, random, done>>

More == pos <= Len(argv)
Word == argv[pos]
IsOption(word) == word.option

(* Mutant of usage: -h does not end the run. *)
usage_goes_on == UNCHANGED <<machine, how, option, random, panicked>>

\* -h prints the usage and powers off at once.
usage == machine' = "off" /\ UNCHANGED <<how, option, random, panicked>>

ParseOption(name, value) ==
  CASE name = "-h" -> usage
    [] name = "-q" -> shutdown_configure("POWER_OFF") /\ UNCHANGED <<machine, option, random, panicked>>
    [] name = "-r" -> shutdown_configure("REBOOT") /\ UNCHANGED <<machine, option, random, panicked>>
    [] name = "-f" -> option' = [option EXCEPT !.format = TRUE] /\ UNCHANGED <<machine, how, random, panicked>>
    [] name = "-filesys" -> option' = [option EXCEPT !.filesys = value] /\ UNCHANGED <<machine, how, random, panicked>>
    [] name = "-scratch" -> option' = [option EXCEPT !.scratch = value] /\ UNCHANGED <<machine, how, random, panicked>>
    [] name = "-rs" -> /\ IF value = NULL THEN PANIC /\ UNCHANGED random
                          ELSE random_init(value) /\ UNCHANGED <<machine, panicked>>
                       /\ UNCHANGED <<how, option>>
    [] OTHER -> PANIC /\ UNCHANGED <<how, option, random>>

parse_options ==
  /\ machine = "options"
  /\ IF More /\ IsOption(Word)
     THEN pos' = pos + 1 /\ ParseOption(Word.name, Word.value)
     ELSE /\ machine' = "starting" /\ random_init(Clock)
          /\ UNCHANGED <<pos, how, option, panicked>>
  /\ UNCHANGED <<line, argv, p, done>>

\* locate_block_device() insists on a name it is given.
StartKernel ==
  /\ machine = "starting"
  /\ IF {option.filesys, option.scratch} \subseteq BlockDevices \cup {NULL}
     THEN machine' = "actions" /\ UNCHANGED panicked ELSE PANIC
  /\ UNCHANGED <<line, argv, p, pos, how, option, random, done>>

-----------------------------------------------------------------------------
argc == [name \in {"run", "ls", "cat", "rm", "extract", "append"} |->
           IF name \in {"ls", "extract"} THEN 1 ELSE 2]

(* Mutant of run_actions: it advances by the arguments, not the name. *)
run_actions_short ==
  /\ machine = "actions" /\ More
  /\ IF Word.name \notin DOMAIN argc \/ pos + argc[Word.name] - 1 > Len(argv)
     THEN PANIC /\ UNCHANGED <<pos, done>>
     ELSE /\ done' = Append(done, SubSeq(argv, pos, pos + argc[Word.name] - 1))
          /\ pos' = pos + (IF argc[Word.name] > 1 THEN argc[Word.name] - 1 ELSE 1)
          /\ UNCHANGED <<machine, panicked>>
  /\ UNCHANGED <<line, argv, p, how, option, random>>

\* One action; it may panic instead of returning.
run_actions ==
  /\ machine = "actions" /\ More
  /\ IF Word.name \notin DOMAIN argc THEN PANIC /\ UNCHANGED <<pos, done>>
     ELSE IF pos + argc[Word.name] - 1 > Len(argv) THEN PANIC /\ UNCHANGED <<pos, done>>
     ELSE /\ done' = Append(done, SubSeq(argv, pos, pos + argc[Word.name] - 1))
          /\ pos' = pos + argc[Word.name]
          /\ PANIC \/ UNCHANGED <<machine, panicked>>
  /\ UNCHANGED <<line, argv, p, how, option, random>>

\* Without -q or -r, main()'s thread exits and the machine goes on.
Finish ==
  /\ machine = "actions" /\ ~More
  /\ machine' = shutdown("exited")
  /\ UNCHANGED <<line, argv, p, pos, how, option, random, done, panicked>>

Next == read_command_line \/ parse_options \/ StartKernel \/ run_actions \/ Finish

Spec == Init /\ [][Next]_vars

-----------------------------------------------------------------------------
\* The words before the first that is no option.
Options == LET rest == {i \in DOMAIN line : ~IsOption(line[i])}
           IN SubSeq(line, 1, IF rest = {} THEN Len(line) ELSE Min(rest) - 1)
Names(words) == {words[i].name : i \in DOMAIN words}
Given(names) == {i \in DOMAIN Options : Options[i].name \in names}

(* The static argv[] of read_command_line() has LOADER_ARGS_LEN / 2 + 1    *)
(* places, the last for the null pointer: words that are not empty never   *)
(* need more, and fitting words never meet the overflow panic.             *)
ArgvFits == /\ Len(argv) + 1 <= LOADER_ARGS_LEN \div 2 + 1
            /\ machine # "reading" => argv = line

(* run_actions() runs the words after the options, each word once and in   *)
(* order, as actions with all their arguments; a run that ends without a   *)
(* panic or -h has run them all.                                           *)
ActionsRight ==
  /\ IsPrefix(Options \o FlattenSeq(done), line)
  /\ \A i \in DOMAIN done : done[i] # <<>> /\ done[i][1].name \in DOMAIN argc /\ Len(done[i]) = argc[done[i][1].name]
  /\ machine \in {"off", "rebooting", "exited"} /\ ~panicked /\ "-h" \notin Names(Options)
       => Options \o FlattenSeq(done) = line

(* A run without a panic powers off, reboots or goes on as -q and -r say,  *)
(* -h apart, which powers off before anything was started.  Nothing says   *)
(* which of -q and -r holds when both are given: the code takes the last.  *)
EndsRight ==
  machine \in {"off", "rebooting", "exited"} /\ ~panicked =>
    IF Given({"-h"}) # {} THEN machine = "off" /\ done = <<>>
    ELSE /\ machine = "off" => Given({"-q"}) # {}
         /\ machine = "rebooting" => Given({"-r"}) # {}
         /\ machine = "exited" => Given({"-q", "-r"}) = {}

(* Once the kernel starts, the generator has the seed of an -rs option,    *)
(* and the clock's only if there was none: random_init() with the time     *)
(* "has no effect if an -rs option was specified" (init.c).  Which of two  *)
(* -rs options holds is left open: see Reinitializes.                      *)
SeedRight ==
  machine \in {"starting", "actions", "exited"} =>
    random.seed \in IF Given({"-rs"}) = {} THEN {Clock} ELSE {Options[i].value : i \in Given({"-rs"})}

(* "-q  Power off VM after actions or on panic." (usage of init.c): with   *)
(* -q among the options, no run leaves the machine on.                     *)
PowersOff == machine \in {"stuck", "exited"} => Given({"-q"}) = {}

(* "Initializes or reinitializes the PRNG with the given SEED." (random.c) *)
Reinitializes == random.seed = random.asked
=============================================================================
