------------------------------- MODULE Stdio -------------------------------
(***************************************************************************)
(* lib/stdio.c: __vprintf() with its conversions, into the buffer of       *)
(* vsnprintf(), and hex_dump() and print_human_readable_size().  A format  *)
(* is a sequence of characters; an argument is an integer, of which each   *)
(* conversion reads as many bits as its type has, and %s prints one of     *)
(* Strings.  The widths of the types, the buffer of format_integer() and   *)
(* the length of a line of hex_dump() are constants.                       *)
(***************************************************************************)
EXTENDS Integers, Sequences, SequencesExt, FiniteSetsExt

CONSTANTS Calls,    \* the calls of vsnprintf(): format, arguments, size
          Bits,     \* the bits of each type
          BufSize,  \* sizeof buf, 64
          Strings,  \* what an argument of %s points to
          Dumps,    \* the calls of hex_dump(): offset and size
          PerLine, Kilo, Sizes  \* 16, 1024, and sizes in bytes

VARIABLES fmt, pos, args, size,  \* the call, and the place in the format
          out,                   \* the characters put out
          aux,                   \* struct vsnprintf_aux, with the buffer
          last,                  \* the last conversion: field and digits
          shown                  \* a call of hex_dump() or print_human_readable_size()

vars == <<fmt, pos, args, size, out, aux, last, shown>>

NUL == "NUL"
Digits == <<"0", "1", "2", "3", "4", "5", "6", "7", "8", "9", "a", "b", "c", "d", "e", "f">>
Digit == Range(SubSeq(Digits, 1, 10))
DigitValue(ch) == SelectInSeq(Digits, LAMBDA d : d = ch) - 1
Dup(ch, cnt) == [i \in 1 .. cnt |-> ch]

base_d == [base |-> 10, x |-> <<>>, group |-> 3]
base_o == [base |-> 8, x |-> <<>>, group |-> 3]
base_x == [base |-> 16, x |-> <<"0", "x">>, group |-> 4]

-----------------------------------------------------------------------------
\* The first place from i on that does not hold one of chars.
Skip(i, chars) == Min({j \in i .. Len(fmt) : fmt[j] \notin chars} \cup {Len(fmt) + 1})

\* The character at a place; NUL ends the format.
Char(i) == IF i <= Len(fmt) THEN fmt[i] ELSE NUL

Number(i, end) == MapThenSumSet(LAMBDA j : DigitValue(fmt[j]) * 10 ^ (end - 1 - j), i .. end - 1)

\* A number written at place i, or taken from the n-th argument.
Count(i, n) ==
  IF Char(i) = "*" THEN [value |-> args[n], end |-> i + 1, next |-> n + 1]
  ELSE LET end == Skip(i, Digit) IN [value |-> Number(i, end), end |-> end, next |-> n]

\* The type at place i, and where it ends.
Type(i) ==
  LET one == Char(i)
      two == one \in {"h", "l"} /\ Char(i + 1) = one
  IN IF two THEN [type |-> IF one = "h" THEN "CHAR" ELSE "LONGLONG", end |-> i + 2]
     ELSE IF one \in {"h", "j", "l", "t", "z"}
     THEN [type |-> CASE one = "h" -> "SHORT" [] one = "j" -> "INTMAX" [] one = "l" -> "LONG"
                      [] one = "t" -> "PTRDIFFT" [] one = "z" -> "SIZET", end |-> i + 1]
     ELSE [type |-> "INT", end |-> i]

(* Mutant of Settled: `-' leaves `0'. *)
Settled_kept(flags) == flags \ (IF "+" \in flags THEN {" "} ELSE {})

\* The flags, without those that another one overrides.
Settled(flags) == flags \ ((IF "-" \in flags THEN {"0"} ELSE {}) \cup (IF "+" \in flags THEN {" "} ELSE {}))

\* parse_conversion(), from place i.  The record also says whether the width was negative.
parse_conversion(i) ==
  LET w0 == Skip(i, {"-", "+", " ", "#", "0", "'"})
      flags == Settled(Range(SubSeq(fmt, i, w0 - 1)))
      w == Count(w0, 1)
      p == IF Char(w.end) = "." THEN Count(w.end + 1, w.next) ELSE [value |-> -1, end |-> w.end, next |-> w.next]
      t == Type(p.end)
  IN [flags |-> (flags \cup (IF w.value < 0 THEN {"-"} ELSE {})) \ (IF p.value >= 0 THEN {"0"} ELSE {}),
      width |-> IF w.value < 0 THEN -w.value ELSE w.value, negative |-> w.value < 0,
      precision |-> IF p.value < 0 THEN -1 ELSE p.value,
      type |-> t.type, at |-> t.end, next |-> p.next]

-----------------------------------------------------------------------------
\* An argument read as bits bits, without and with a sign.
Unsigned(a, bits) == a % 2 ^ bits
Signed(a, bits) == LET u == a % 2 ^ bits IN IF u >= 2 ^ (bits - 1) THEN u - 2 ^ bits ELSE u

\* The value of a %d: smaller types are passed as int, and %zd takes a size_t.
SignedArg(type, a) ==
  CASE type \in {"CHAR", "SHORT"} -> Signed(Signed(a, Bits["INT"]), Bits[type])
    [] type = "SIZET" -> LET v == Unsigned(a, Bits[type])
                         IN IF v > (2 ^ Bits[type] - 1) \div 2 THEN v - (2 ^ Bits[type] - 1) - 1 ELSE v
    [] OTHER -> Signed(a, Bits[type])

(* Mutant of UnsignedArg: the sign of a %tu is not masked out. *)
UnsignedArg_unmasked(type, a) ==
  IF type = "PTRDIFFT" THEN Unsigned(Signed(a, Bits[type]), Bits["INTMAX"]) ELSE Unsigned(a, Bits[type])

\* The value of a %u; %tu takes a ptrdiff_t and masks its sign.
UnsignedArg(type, a) ==
  CASE type \in {"CHAR", "SHORT"} -> Unsigned(Unsigned(a, Bits["INT"]), Bits[type])
    [] type = "PTRDIFFT" -> Unsigned(Signed(a, Bits[type]), Bits["INTMAX"]) % 2 ^ Bits[type]
    [] OTHER -> Unsigned(a, Bits[type])

-----------------------------------------------------------------------------
\* The digits of a value, last one first, with commas.
RECURSIVE Accumulate(_, _, _, _)
Accumulate(value, cnt, group, b) ==
  IF value = 0 THEN <<>>
  ELSE (IF group /\ cnt > 0 /\ cnt % b.group = 0 THEN <<",">> ELSE <<>>)
       \o <<Digits[(value % b.base) + 1]>> \o Accumulate(value \div b.base, cnt + 1, group, b)

(* Mutant of Zeros: the precision alone says how many. *)
Zeros_all(buf, precision) == buf \o Dup("0", Max({precision - Len(buf), 0}))

\* Zeros up to the precision, with one place of the buffer left.
Zeros(buf, precision) == buf \o Dup("0", Max({Min({precision, BufSize - 1}) - Len(buf), 0}))

\* buf of format_integer(), last digit first.
Rendered(value, b, c) ==
  LET digits == Accumulate(value, 0, "'" \in c.flags, b)
      buf == Zeros(digits, IF c.precision < 0 THEN 1 ELSE c.precision)
  IN IF "#" \in c.flags /\ b.base = 8 /\ (buf = <<>> \/ Last(buf) # "0") THEN Append(buf, "0") ELSE buf

Sign(signed, negative, c) ==
  IF ~signed THEN <<>>
  ELSE IF negative THEN <<"-">>
  ELSE IF "+" \in c.flags THEN <<"+">> ELSE IF " " \in c.flags THEN <<" ">> ELSE <<>>

\* What format_integer() puts out, and its digits.
format_integer(value, signed, negative, b, c) ==
  LET buf == Rendered(value, b, c)
      prefix == Sign(signed, negative, c) \o (IF "#" \in c.flags /\ value # 0 THEN b.x ELSE <<>>)
      pad_cnt == Max({c.width - Len(buf) - Len(prefix), 0})
  IN [field |-> (IF c.flags \cap {"-", "0"} = {} THEN Dup(" ", pad_cnt) ELSE <<>>)
                \o prefix \o (IF "0" \in c.flags THEN Dup("0", pad_cnt) ELSE <<>>) \o Reverse(buf)
                \o (IF "-" \in c.flags THEN Dup(" ", pad_cnt) ELSE <<>>),
      natural |-> Len(buf) + Len(prefix), digits |-> Len(buf)]

format_string(string, c) ==
  LET pad == Dup(" ", Max({c.width - Len(string), 0}))
  IN [field |-> IF "-" \in c.flags THEN string \o pad ELSE pad \o string,
      natural |-> Len(string), digits |-> 0]

\* strnlen() limits a string to the precision.
Limited(string, c) == IF c.precision < 0 THEN string ELSE SubSeq(string, 1, Min({c.precision, Len(string)}))

\* The conversion ch, with its argument.
Conversion(ch, c, a) ==
  CASE ch \in {"d", "i"} -> LET v == SignedArg(c.type, a)
                            IN format_integer(IF v < 0 THEN -v ELSE v, TRUE, v < 0, base_d, c)
    [] ch = "u" -> format_integer(UnsignedArg(c.type, a), FALSE, FALSE, base_d, c)
    [] ch = "o" -> format_integer(UnsignedArg(c.type, a), FALSE, FALSE, base_o, c)
    [] ch \in {"x", "X"} -> format_integer(UnsignedArg(c.type, a), FALSE, FALSE, base_x, c)
    [] ch = "p" -> format_integer(Unsigned(a, Bits["LONG"]), FALSE, FALSE, base_x, [c EXCEPT !.flags = {"#"}])
    [] ch = "c" -> format_string(<<"c">>, c)
    [] ch = "s" -> format_string(Limited(Strings[a], c), c)
    [] OTHER -> [field |-> <<"?">>, natural |-> 1, digits |-> 0]  \* "no conversion", in words

\* The conversions that take an argument.
Takes(ch) == ch \in {"d", "i", "u", "o", "x", "X", "p", "c", "s"}

-----------------------------------------------------------------------------
vsnprintf_helper(a, ch) ==
  [a EXCEPT !.length = @ + 1,
            !.mem = IF a.length < a.max_length THEN Append(@, ch) ELSE @]

(* Mutant of max_length: no room is kept for the terminator. *)
max_length_full(buf_size) == buf_size

max_length(buf_size) == IF buf_size > 0 THEN buf_size - 1 ELSE 0

(* hex_dump(): a line has the offset of its first column, and in each      *)
(* column the place of the byte shown there, or None.                      *)
None == -1

(* Mutant of LineEnd: the bytes left are compared with a whole line. *)
LineEnd_whole(start, cnt) == IF PerLine > cnt THEN start + cnt ELSE PerLine

\* Where the line that starts at a column ends, with cnt bytes left.
LineEnd(start, cnt) == IF PerLine - start > cnt THEN start + cnt ELSE PerLine

RECURSIVE hex_dump(_, _, _)
hex_dump(ofs, from, cnt) ==
  IF cnt <= 0 THEN <<>>
  ELSE LET start == ofs % PerLine
           end == LineEnd(start, cnt)
           n == end - start
           column(i) == IF i \in start .. end - 1 THEN from + i - start ELSE None
       IN <<[ofs |-> ofs - start, bytes |-> [i \in 0 .. PerLine - 1 |-> column(i)]]>>
          \o hex_dump(ofs + n, from + n, cnt - n)

(* Mutant of Human: only one division is made. *)
Human_once(n, unit) == IF n >= Kilo THEN [n |-> n \div Kilo, unit |-> unit + 1] ELSE [n |-> n, unit |-> unit]

\* print_human_readable_size(): the number, and the place of its unit.
RECURSIVE Human(_, _)
Human(n, unit) == IF n >= Kilo /\ unit < 5 THEN Human(n \div Kilo, unit + 1) ELSE [n |-> n, unit |-> unit]

NoConversion == [ch |-> NUL, arg |-> 0, c |-> [flags |-> {}, width |-> 0, negative |-> FALSE, precision |-> -1],
                 field |-> <<>>, natural |-> 0, digits |-> 0]

Init == /\ \E call \in Calls : fmt = call.fmt /\ args = call.args /\ size = call.size
        /\ pos = 1 /\ out = <<>> /\ last = NoConversion /\ shown = [op |-> "none"]
        /\ aux = [mem |-> <<>>, length |-> 0, max_length |-> max_length(size)]

\* output() is called for each of some characters.
Output(chars) == out' = out \o chars /\ aux' = FoldLeft(vsnprintf_helper, aux, chars)

\* A character that is copied, and %%.
Literal ==
  /\ pos <= Len(fmt) /\ (fmt[pos] # "%" \/ Char(pos + 1) = "%")
  /\ Output(<<fmt[pos]>>)
  /\ pos' = pos + (IF fmt[pos] = "%" THEN 2 ELSE 1)
  /\ UNCHANGED <<fmt, args, size, last, shown>>

\* A conversion; its character is in the format.
Convert ==
  /\ pos <= Len(fmt) /\ fmt[pos] = "%" /\ Char(pos + 1) # "%"
  /\ LET c == parse_conversion(pos + 1)
         ch == fmt[c.at]
         a == IF Takes(ch) THEN args[c.next] ELSE 0
         f == Conversion(ch, c, a)
     IN /\ Output(f.field)
        /\ pos' = c.at + 1
        /\ args' = SubSeq(args, c.next + (IF Takes(ch) THEN 1 ELSE 0), Len(args))
        /\ last' = [ch |-> ch, arg |-> a, c |-> c, field |-> f.field, natural |-> f.natural, digits |-> f.digits]
  /\ UNCHANGED <<fmt, size, shown>>

\* vsnprintf() ends: the terminator is stored.
Terminate ==
  /\ pos = Len(fmt) + 1
  /\ aux' = IF size > 0 THEN [aux EXCEPT !.mem = Append(@, NUL)] ELSE aux
  /\ pos' = Len(fmt) + 2
  /\ UNCHANGED <<fmt, args, size, out, last, shown>>

\* The other printing functions, when nothing else is printed.
HexDump ==
  /\ fmt = <<>> /\ shown.op = "none"
  /\ \E d \in Dumps : shown' = [op |-> "dump", ofs |-> d.ofs, size |-> d.size, lines |-> hex_dump(d.ofs, 0, d.size)]
  /\ UNCHANGED <<fmt, pos, args, size, out, aux, last>>

HumanSize ==
  /\ fmt = <<>> /\ shown.op = "none"
  /\ \E n \in Sizes : shown' = [op |-> "human", size |-> n, as |-> Human(n, 1)]
  /\ UNCHANGED <<fmt, pos, args, size, out, aux, last>>

Done == pos = Len(fmt) + 2 /\ UNCHANGED vars

Next == Literal \/ Convert \/ Terminate \/ HexDump \/ HumanSize \/ Done

Spec == Init /\ [][Next]_vars

-----------------------------------------------------------------------------
(* A number is printed so that it reads back as the argument, cut to its   *)
(* type: the digits of format_integer() with the sign, whatever the flags, *)
(* the width and the precision, the smallest number included.              *)
ReadsBack ==
  LET base == CASE last.ch \in {"x", "X", "p"} -> 16 [] last.ch = "o" -> 8 [] OTHER -> 10
      body == SelectSeq(last.field, LAMBDA ch : ch \in Range(Digits))
      value == FoldLeft(LAMBDA v, ch : v * base + DigitValue(ch), 0, body)
      negative == "-" \in Range(last.field)
      bits == Bits[IF last.ch = "p" THEN "LONG" ELSE last.c.type]
  IN last.ch \in {"d", "i", "u", "o", "x", "X", "p"} =>
       LET number == IF negative THEN -value ELSE value
       IN /\ number % 2 ^ bits = last.arg % 2 ^ bits
          /\ number \in IF last.ch \in {"d", "i"} THEN -(2 ^ (bits - 1)) .. 2 ^ (bits - 1) - 1 ELSE 0 .. 2 ^ bits - 1

(* "# of pad characters to fill field width." (stdio.c): a field is as     *)
(* long as its text, or as its width if that is more, never longer.  Not   *)
(* so where `0' meets a negative `*': parse_conversion() sets MINUS after  *)
(* it looked for `-' and `0' together, and format_integer() then fills the *)
(* field once with zeros and once with spaces.                             *)
FieldFilled ==
  \/ Len(last.field) = Max({last.c.width, last.natural})
  \/ last.c.negative /\ "0" \in last.c.flags

(* The digits, zeros and commas of a conversion fit buf of                 *)
(* format_integer(), for any precision and flags.                          *)
BufferFits == last.digits <= BufSize

(* "Writes at most BUF_SIZE - 1 characters to BUFFER, followed by a null   *)
(* terminator. [...] Returns the number of characters that would have been *)
(* written" (stdio.c): vsnprintf() leaves the beginning of the output.     *)
StoredRight ==
  pos = Len(fmt) + 2 =>
    /\ aux.length = Len(out)
    /\ IF size = 0 THEN aux.mem = <<>>
       ELSE aux.mem = Append(SubSeq(out, 1, Min({size - 1, Len(out)})), NUL)

(* hex_dump() shows every byte once, in the line and the column of its     *)
(* offset, in lines one after the other, wherever the dump begins.         *)
DumpRight ==
  shown.op = "dump" =>
    LET at(k) == {p \in (DOMAIN shown.lines) \X (0 .. PerLine - 1) : shown.lines[p[1]].bytes[p[2]] = k}
    IN /\ \A k \in 0 .. shown.size - 1 :
            \E p \in at(k) : at(k) = {p} /\ shown.lines[p[1]].ofs + p[2] = shown.ofs + k
       /\ \A l \in DOMAIN shown.lines : shown.lines[l].ofs = (shown.ofs \div PerLine + l - 1) * PerLine

(* print_human_readable_size() prints the size in the largest unit that    *)
(* leaves a number, rounded down, and no unit beyond the last one.         *)
HumanRight ==
  shown.op = "human" =>
    LET n == shown.as.n
        unit == shown.as.unit
    IN /\ unit \in 1 .. 5 /\ n * Kilo ^ (unit - 1) <= shown.size /\ shown.size < (n + 1) * Kilo ^ (unit - 1)
       /\ (unit > 1 => n > 0) /\ (unit < 5 => n < Kilo)
=============================================================================
