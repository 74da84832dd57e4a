-------------------------------- MODULE Wish --------------------------------
(***************************************************************************)
(* aos_wish_shell/wish.c: the shell's main loop, its parser and built-in   *)
(* commands, and the processes it starts.  A line is a sequence of         *)
(* symbols: words of the input ("exit", "ls", ...) and the characters the  *)
(* parser tells apart.  Words side by side form one longer word.           *)
(***************************************************************************)
EXTENDS Naturals, Sequences, SequencesExt, FiniteSets, FiniteSetsExt

CONSTANTS Inputs,    \* what may be read: sequences of lines
          Modes,     \* ways the shell is invoked
          Programs,  \* <<directory, word>> pairs access() finds executable
          Dirs,      \* words chdir() accepts
          MAX_ARGS, NUL

\* What the constants satisfy.
WishAssumption == MAX_ARGS \in Nat \ {0}

VARIABLES pc, mode,
          input,     \* lines not yet read
          p_input,   \* the line being processed, as strtok_r() leaves it
          saveptr,   \* of process_line()'s strtok_r()
          pp_paths, cwd,
          children,  \* processes started: [argv, out, at]
          status,    \* the shell's exit status
          line,      \* for the properties: the line as read, the search path
          paths0,    \* then, and what the shell has done for it
          log

shell == <<pc, mode, input, p_input, saveptr, pp_paths, cwd, status, line, paths0, log>>
vars == <<shell, children>>

WS == {" ", "\n"}

-----------------------------------------------------------------------------
(* strtok_r(): of buffer BUF from index P on, with delimiters D *)

Strtok(buf, p, D) ==
  LET start == Min({i \in p .. Len(buf) : buf[i] \notin D})
      end == Min({i \in start .. Len(buf) : buf[i] \in D \cup {NUL}})
  IN  IF buf[start] = NUL THEN [tok |-> 0, buf |-> buf, next |-> start]
      ELSE IF buf[end] = NUL THEN [tok |-> start, buf |-> buf, next |-> end]
      ELSE [tok |-> start, buf |-> [buf EXCEPT ![end] = NUL], next |-> end + 1]

\* The C string at index P.
StringAt(buf, p) == SubSeq(buf, p, Min({i \in p .. Len(buf) : buf[i] = NUL}) - 1)

compare(s, t) == s = t

-----------------------------------------------------------------------------
(* parse_input() *)

(* Mutant of Split: the symbol after a redirection is lost. *)
Split_skip(word, args, buf, p) == [args |-> Append(args, <<">">>), tok |-> p + Len(word) + 2]

\* A token at P whose first part, before a '>', is WORD.
Split(word, args, buf, p) == [args |-> Append(args, <<">">>), tok |-> p + Len(word) + 1]

RECURSIVE ParseFrom(_, _, _, _)
ParseFrom(buf, p, next, args) ==
  IF p = 0 \/ Len(args) >= MAX_ARGS - 1 THEN [args |-> args, buf |-> buf]
  ELSE LET s == StringAt(buf, p)
           word == SubSeq(s, 1, SelectInSeq(s \o <<">">>, LAMBDA c : c = ">") - 1)
           args1 == IF word = <<>> THEN args ELSE Append(args, word)
       IN  IF Len(word) < Len(s)
           THEN LET x == Split(word, args1, buf, p) IN ParseFrom(buf, x.tok, next, x.args)
           ELSE LET t == Strtok(buf, next, WS) IN ParseFrom(t.buf, t.tok, t.next, args1)

parse_input(buf, p) == LET t == Strtok(buf, p, WS) IN ParseFrom(t.buf, t.tok, t.next, <<>>)

-----------------------------------------------------------------------------
(* process_command() *)

\* The redirection: the arguments before it and its file, <<>> for none.
Redirect(args) ==
  LET i == SelectInSeq(args, LAMBDA a : compare(a, <<">">>))
  IN  IF i = 0 THEN [ok |-> TRUE, argv |-> args, out |-> <<>>]
      ELSE IF i > 1 /\ Len(args) = i + 1
      THEN [ok |-> TRUE, argv |-> SubSeq(args, 1, i - 1), out |-> args[i + 1]]
      ELSE [ok |-> FALSE, argv |-> <<>>, out |-> <<>>]

is_built_in(cmd) == cmd \in {<<"exit">>, <<"cd">>, <<"path">>}

Done(event) == log' = Append(log, event)
Error == [what |-> "error", arg |-> <<>>, out |-> <<>>]
handle_error == Done(Error)

execute_builtins(args) ==
  /\ \/ /\ compare(args[1], <<"exit">>)
        /\ IF Len(args) > 1 THEN handle_error ELSE UNCHANGED log
        /\ UNCHANGED <<pp_paths, cwd>>
     \/ /\ compare(args[1], <<"cd">>)
        /\ IF Len(args) > 1 /\ args[2] \in Dirs
           THEN /\ cwd' = args[2]
                /\ Done([what |-> "cd", arg |-> args[2], out |-> <<>>])
           ELSE handle_error /\ UNCHANGED cwd
        /\ UNCHANGED pp_paths
     \/ /\ compare(args[1], <<"path">>)
        /\ pp_paths' = Tail(args)
        /\ UNCHANGED <<log, cwd>>
  /\ UNCHANGED <<children, pc, status>>

(* Mutant of cmd_found: only the first directory of the path is tried. *)
cmd_found_first(paths, cmd) == paths # <<>> /\ <<paths[1], cmd>> \in Programs

cmd_found(paths, cmd) == \E i \in DOMAIN paths : <<paths[i], cmd>> \in Programs

\* fork() may fail, and then the shell exits.
execute_cmd(r) ==
  /\ UNCHANGED <<pp_paths, cwd>>
  /\ IF ~ cmd_found(pp_paths, r.argv[1]) THEN handle_error /\ UNCHANGED <<children, pc, status>>
     ELSE \/ /\ children' = Append(children, [argv |-> r.argv, out |-> r.out, at |-> "forked"])
             /\ Done([what |-> "run", arg |-> r.argv, out |-> r.out])
             /\ UNCHANGED <<pc, status>>
          \/ /\ handle_error /\ pc' = "exited" /\ status' = 1
             /\ UNCHANGED children

process_command ==
  /\ pc = "command"
  /\ \E t \in {Strtok(p_input, saveptr, {"&"})} :
     /\ t.tok # 0
     /\ \E parsed \in {parse_input(t.buf, t.tok)} :
        LET r == Redirect(parsed.args)
        IN  /\ p_input' = parsed.buf /\ saveptr' = t.next
            /\ UNCHANGED <<mode, input, line, paths0>>
            /\ IF ~ r.ok THEN handle_error /\ UNCHANGED <<pp_paths, cwd, children, pc, status>>
               ELSE IF r.argv = <<>> THEN UNCHANGED <<log, pp_paths, cwd, children, pc, status>>
               ELSE IF is_built_in(r.argv[1]) THEN execute_builtins(r.argv)
               ELSE execute_cmd(r)

\* No command left: process_line() goes on to wait().
LastCommand ==
  /\ pc = "command" /\ Strtok(p_input, saveptr, {"&"}).tok = 0
  /\ pc' = "wait"
  /\ UNCHANGED <<mode, input, p_input, saveptr, pp_paths, cwd, children, status, line, paths0, log>>

-----------------------------------------------------------------------------
(* Processes: a child opens its output file and calls execv(), each of     *)
(* which may fail, and exits in its own time.                              *)

ChildStep(i) ==
  /\ children[i].at \in {"forked", "redirected", "running"}
  /\ \/ /\ children[i].at = "forked"
        /\ children' = [children EXCEPT ![i].at = "redirected"]
     \/ /\ children[i].at = "redirected"
        /\ children' = [children EXCEPT ![i].at = "running"]
     \/ children' = [children EXCEPT ![i].at = "zombie"]
  /\ UNCHANGED shell

(* Mutant of Wait: waits for one child. *)
Wait_one ==
  /\ pc = "wait"
  /\ \/ \E i \in DOMAIN children : /\ children[i].at = "zombie"
                                   /\ children' = RemoveAt(children, i)
                                   /\ pc' = "compare"
     \/ children = <<>> /\ pc' = "compare" /\ UNCHANGED children
  /\ UNCHANGED <<mode, input, p_input, saveptr, pp_paths, cwd, status, line, paths0, log>>

(* Mutant of Wait: waits on when no child is left. *)
Wait_forever ==
  /\ pc = "wait"
  /\ \/ \E i \in DOMAIN children : children[i].at = "zombie" /\ children' = RemoveAt(children, i)
     \/ children = <<>> /\ UNCHANGED children
  /\ UNCHANGED shell

\* wait() collects a child that has exited, and fails when none is left.
Wait ==
  /\ pc = "wait"
  /\ \/ \E i \in DOMAIN children : /\ children[i].at = "zombie"
                                   /\ children' = RemoveAt(children, i)
                                   /\ UNCHANGED pc
     \/ children = <<>> /\ pc' = "compare" /\ UNCHANGED children
  /\ UNCHANGED <<mode, input, p_input, saveptr, pp_paths, cwd, status, line, paths0, log>>

-----------------------------------------------------------------------------
(* main() *)

Init ==
  /\ pc = "start" /\ mode \in Modes /\ input \in Inputs
  /\ p_input = <<>> /\ saveptr = 1 /\ pp_paths = <<<<"/bin">>>> /\ cwd = <<>>
  /\ children = <<>> /\ status = 0
  /\ line = <<>> /\ paths0 = <<>> /\ log = <<>>

Quiet == UNCHANGED <<mode, input, p_input, saveptr, pp_paths, cwd, children, line, paths0>>

\* With another argv[0] than "./wish" the loop prints an error and passes
\* process_line() a null pointer.
Start ==
  /\ pc = "start" /\ Quiet
  /\ \/ /\ mode \in {"interactive", "batch"}
        /\ pc' = "read" /\ UNCHANGED <<status, log>>
     \/ /\ mode \in {"two files", "bad batch file"}
        /\ handle_error /\ pc' = "exited" /\ status' = 1
     \/ /\ mode = "another name"
        /\ handle_error /\ pc' = "exited" /\ status' = 139

\* A line that ends with the file, not with a new-line, is not processed.
ReadLine ==
  /\ pc = "read"
  /\ IF input = <<>> \/ Last(Head(input)) # "\n"
     THEN pc' = "exited" /\ Quiet /\ UNCHANGED <<status, log>>
     ELSE /\ input' = Tail(input)
          /\ line' = Head(input)
          /\ p_input' = Append(Head(input), NUL)
          /\ saveptr' = 1 /\ paths0' = pp_paths /\ log' = <<>>
          /\ pc' = "command"
          /\ UNCHANGED <<mode, pp_paths, cwd, children, status>>

(* Mutant of Compare: only compares as much as "exit" is long. *)
Compare_prefix ==
  /\ pc = "compare" /\ Quiet /\ UNCHANGED <<status, log>>
  /\ pc' = IF Head(p_input) = "exit" THEN "exited" ELSE "read"

\* The line as the parser left it: up to the first NUL it wrote.
Compare ==
  /\ pc = "compare" /\ Quiet /\ UNCHANGED <<status, log>>
  /\ pc' = IF compare(StringAt(p_input, 1), <<"exit">>) THEN "exited" ELSE "read"

Main == Start \/ ReadLine \/ process_command \/ LastCommand \/ Wait \/ Compare

Next == Main \/ \E i \in DOMAIN children : ChildStep(i)

\* The shell runs on, and the programs it starts end.
Fairness ==
  /\ WF_vars(Main)
  /\ WF_vars(\E i \in DOMAIN children : ChildStep(i))

Spec == Init /\ [][Next]_vars /\ Fairness

-----------------------------------------------------------------------------
(* What a line means, by the shell's README *)

\* The pieces of a line between '&'.
Pieces(s) == LET Cuts == {0, Len(s) + 1} \cup {i \in DOMAIN s : s[i] = "&"}
                 cuts == SetToSortSeq(Cuts, <)
             IN  [k \in 1 .. Len(cuts) - 1 |-> SubSeq(s, cuts[k] + 1, cuts[k + 1] - 1)]

\* The words and operators of a piece.
Tokens(s) ==
  LET Breaks(i) == s[i] \in WS \cup {">"}
      Starts == {i \in DOMAIN s : s[i] \notin WS /\ (Breaks(i) \/ i = 1 \/ Breaks(i - 1))}
      End(i) == IF s[i] = ">" THEN i
                ELSE Min({Len(s) + 1} \cup {j \in DOMAIN s : j > i /\ Breaks(j)}) - 1
      starts == SetToSortSeq(Starts, <)
  IN  [k \in 1 .. Len(starts) |-> SubSeq(s, starts[k], End(starts[k]))]

Operators(toks) == {i \in DOMAIN toks : toks[i] = <<">">>}

\* What a command with search path PATHS must do.
Meaning(toks, paths) ==
  LET ops == Operators(toks)
      n == Len(toks)
      well == ops = {} \/ (ops = {n - 1} /\ n > 2)
      argv == IF ops = {} THEN toks ELSE SubSeq(toks, 1, n - 2)
      out == IF ops = {} THEN <<>> ELSE toks[n]
  IN  IF n = 0 THEN <<>>
      ELSE IF ~ well THEN <<Error>>
      ELSE CASE argv[1] = <<"exit">> -> IF Len(argv) = 1 THEN <<>> ELSE <<Error>>
             [] argv[1] = <<"path">> -> <<>>
             [] argv[1] = <<"cd">> ->
                  IF Len(argv) = 2 /\ argv[2] \in Dirs
                  THEN <<[what |-> "cd", arg |-> argv[2], out |-> <<>>]>> ELSE <<Error>>
             [] OTHER -> IF \E i \in DOMAIN paths : <<paths[i], argv[1]>> \in Programs
                         THEN <<[what |-> "run", arg |-> argv, out |-> out]>> ELSE <<Error>>

PathAfter(toks, paths) ==
  IF toks # <<>> /\ toks[1] = <<"path">> /\ Operators(toks) = {} THEN Tail(toks) ELSE paths

RECURSIVE Meanings(_, _)
Meanings(pieces, paths) ==
  IF pieces = <<>> THEN <<>>
  ELSE LET toks == Tokens(Head(pieces))
       IN  Meaning(toks, paths) \o Meanings(Tail(pieces), PathAfter(toks, paths))

Commands == LET ps == Pieces(line) IN [k \in DOMAIN ps |-> Tokens(ps[k])]

\* Lines on which the code departs from the README: cd with two arguments,
\* and a second '>' taken for the file name; and built-ins with redirection,
\* which the README leaves open.
Departs(toks) ==
  \/ Len(toks) > 2 /\ toks[1] = <<"cd">>
  \/ {Len(toks) - 1, Len(toks)} \subseteq Operators(toks)
  \/ toks # <<>> /\ is_built_in(toks[1]) /\ Operators(toks) # {}

-----------------------------------------------------------------------------
(* Properties *)

(* For a line the shell starts the programs, with the arguments and output *)
(* files, and prints the errors that the README asks for, though the       *)
(* commands of a line are cut up in place, piece inside piece, by two      *)
(* interleaved uses of strtok_r().  Nothing is said of a line with a       *)
(* command that Departs.                                                   *)
LineMeaning ==
  pc = "wait" /\ (\A i \in DOMAIN Commands : ~ Departs(Commands[i]))
    => log = Meanings(Pieces(line), paths0)

(* The shell asks for the next line only when every process of the last    *)
(* one has been waited for.                                                *)
NoChildLeft == pc \in {"compare", "read"} => children = <<>>

(* A line ends the shell only if exit is its first command, and does end   *)
(* it if it begins with exit and has nothing else.  Left open: exit after  *)
(* white space, which the code does not obey (ExitWithSpace), exit with    *)
(* arguments, which ends the shell after the error, and exit before '&'.   *)
ExitAsked == pc = "compare" =>
  /\ pc' = "exited" => Commands[1] # <<>> /\ Commands[1][1] = <<"exit">>
  /\ Head(line) = "exit" /\ Commands = <<<<<<"exit">>>>>> => pc' = "exited"
NoStrayExit == [][ExitAsked]_vars

(* If the programs it starts end, the shell gets to the end of its input.  *)
Finishes == <>(pc = "exited")

(* README.md: "In general, the user should be able to put variable amounts *)
(* of white space before and after commands": so also before exit.         *)
ExitWithSpace == pc = "read" => \A i \in DOMAIN Commands : Commands[i] # <<<<"exit">>>>

(* README.md, of cd: "0 or >1 args should be signaled as an error".        *)
CdTakesOne ==
  pc = "wait" => \A i \in DOMAIN Commands :
    Len(Commands[i]) > 2 /\ Commands[i][1] = <<"cd">> => Error \in Range(log)

(* README.md: "Multiple redirection operators or multiple files to the     *)
(* right of the redirection sign are errors."                              *)
OneRedirection ==
  pc = "wait" => \A i \in DOMAIN Commands :
    Cardinality(Operators(Commands[i])) > 1 => Error \in Range(log)

(* README.md, of getline(): "This allows you to obtain arbitrarily long    *)
(* input lines with ease": no argument of a command is dropped.            *)
ArgumentsKept ==
  pc = "wait" /\ Len(log) = 1 /\ log[1].what = "run" /\ Len(Commands) = 1
    => log[1].arg = Commands[1]
=============================================================================
