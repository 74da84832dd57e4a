----------------------------- MODULE MCLibrary ------------------------------
(* The modules of the library (lib/, lib/kernel/, lib/user/) side by side: *)
(* a behaviour is a sequence of calls of one of them.                      *)
EXTENDS Integers, Sequences, TLC

CONSTANTS NoPointer

VARIABLES component,  \* whose behaviour it is
          prev, next, list_call, list_result,
          buckets, elem_cnt, iter, returned, hash_call, hash_result,
          bit_cnt, bits, file, bitmap_call, bitmap_result,
          mem, old, string_call, string_ret, save_ptr, tokens,
          array, given, stdlib_call, stdlib_ret,
          dividend, divisor, function, quotient,
          fmt, pos, args, size, out, aux, last, shown,
          header, origin

\* List: four elements, two of them with equal keys, and two lists.
ListElems == {<<"a", "elem">>, <<"b", "elem">>, <<"c", "elem">>, <<"d", "elem">>}
ListKey(x) == CASE x[1] \in {"a", "b"} -> 1 [] x[1] = "c" -> 2 [] x[1] = "d" -> 3
ListKeys == [x \in ListElems |-> ListKey(x)]

\* Hash: two elements with equal keys; the hashes collide in two and in four buckets.
HashKeys == [a |-> "A", b |-> "B", c |-> "C", d |-> "D", a2 |-> "A"]
HashOf == [A |-> 1, B |-> 2, C |-> 3, D |-> 5]

\* Bitmap: the file starts with all bits false or all true.
BitmapFiles == {[i \in DOMAIN bits |-> w] : w \in {0, 3}}

\* Stdlib: texts of up to four characters.
StdlibTexts == UNION {[1 .. n -> {0, 1, 2, 7, 8, 10, 11, 12}] : n \in 0 .. 4}

\* Stdio: one conversion with two flags, a width, a precision and a type, and longer formats.
TypeBits == [CHAR |-> 4, SHORT |-> 6, INT |-> 8, LONG |-> 8, PTRDIFFT |-> 8, SIZET |-> 8,
             INTMAX |-> 14, LONGLONG |-> 14]
PrintedStrings == (0 :> <<"n", "u", "l", "l">>) @@ (-1 :> <<>>) @@ (127 :> <<"a", "b">>)
Flags == UNION {[1 .. n -> {"-", "+", " ", "#", "0", "'"}] : n \in 0 .. 2}
Widths == {<<>>, <<"7">>, <<"*">>}
Precisions == {<<>>, <<".", "3">>, <<".", "2", "0">>, <<".", "*">>}
Types == {<<>>, <<"h">>, <<"h", "h">>, <<"j">>, <<"l">>, <<"l", "l">>, <<"t">>, <<"z">>}
Call(f, w, a, n) ==
  [fmt |-> f, size |-> n,
   args |-> [i \in 1 .. Len(SelectSeq(f, LAMBDA ch : ch = "*")) |-> w] \o <<a, 127>>]
Shapes == {<<"%">> \o f \o w \o p \o <<ch>> : f \in Flags, w \in Widths, p \in Precisions, ch \in {"d", "o", "x", "s"}}
Typed == {<<"%">> \o f \o t \o <<ch>> : f \in {<<>>, <<"'">>}, t \in Types, ch \in {"i", "u", "X", "p", "c", "f", "q"}}
Longer == {<<"a", "%", "%", "%", "*", "d", "b", "%", "5", "s">>, <<"%", "c", "%", "-", "3", "s", "%">> \o <<"%">>, <<>>}
Calls == {Call(f, w, a, n) : f \in Shapes, w \in {0, -6, 12}, a \in {0, -1, 127}, n \in {0, 5}}
  \cup {Call(f, 0, a, 3) : f \in Typed, a \in {0, 9, 128, 4095, -1, -8, -128, -8192}}
  \cup {Call(f, 4, 127, n) : f \in Longer, n \in 0 .. 12}

\* Ustar: names over slash, dot and a letter.
FileNames == UNION {[1 .. n -> {47, 46, 97}] : n \in 0 .. 3}
             \cup {<<46, 46, 47, 46, 46>>, <<46, 47, 97, 47, 46>>, <<46, 46, 47, 47, 97>>}

-----------------------------------------------------------------------------
LIST == INSTANCE List WITH
  Elem <- ListElems, Lst <- {"list", "other"}, key <- ListKeys, NULL <- NoPointer,
  call <- list_call, result <- list_result
list_vars == <<prev, next, list_call, list_result>>

HASH == INSTANCE Hash WITH
  Elem <- DOMAIN HashKeys, Key <- DOMAIN HashOf, key <- HashKeys, NULL <- NoPointer,
  hash <- HashOf, MinBuckets <- 1, BEST_ELEMS_PER_BUCKET <- 1, call <- hash_call,
  result <- hash_result
hash_vars == <<buckets, elem_cnt, iter, returned, hash_call, hash_result>>

BITMAP == INSTANCE Bitmap WITH
  BitCnts <- {3, 4, 5}, ELEM_BITS <- 2, BITMAP_ERROR <- NoPointer, call <- bitmap_call,
  result <- bitmap_result
bitmap_vars == <<bit_cnt, bits, file, bitmap_call, bitmap_result>>

STRINGS == INSTANCE String WITH
  Size <- 5, Chars <- {1, 2}, MaxArg <- 4, Delimiters <- {{1}, {2}, {1, 2}},
  call <- string_call, ret <- string_ret
string_vars == <<mem, old, string_call, string_ret, save_ptr, tokens>>

STDLIB == INSTANCE Stdlib WITH
  Key <- {1, 2, 3, 4}, MaxCnt <- 6, Texts <- StdlibTexts, IntBits <- 8, call <- stdlib_call,
  ret <- stdlib_ret
stdlib_vars == <<array, given, stdlib_call, stdlib_ret>>

ARITHMETIC == INSTANCE Arithmetic WITH
  W <- 4, Traps <- 99999, n <- dividend, d <- divisor, op <- function, result <- quotient
arithmetic_vars == <<dividend, divisor, function, quotient>>

STDIO == INSTANCE Stdio WITH
  Calls <- Calls, Bits <- TypeBits, BufSize <- 12, Strings <- PrintedStrings,
  Dumps <- [ofs : 0 .. 9, size : 0 .. 10], PerLine <- 4, Kilo <- 3,
  Sizes <- {0, 1, 2, 3, 8, 9, 26, 27, 80, 81, 242, 243, 729, 2000}
stdio_vars == <<fmt, pos, args, size, out, aux, last, shown>>

USTAR == INSTANCE UstarHeader WITH
  NameSize <- 3, SizeSize <- 5, ChksumSize <- 5, INT_MAX <- 1023, ULONG_MAX <- 2047,
  FileNames <- FileNames, Sizes <- {0, 1023, 1024, 2048}, Bytes <- {0, 32, 47, 48, 53, 56},
  Types <- {48, 53, 50}
ustar_vars == <<header, origin>>

ASSUME Assumptions == HASH!HashAssumption /\ BITMAP!BitmapAssumption /\ STRINGS!StringAssumption

-----------------------------------------------------------------------------
(* A variable of a component that is not running has the value Off. *)
Off == 0

MCInit ==
  /\ component \in {"list", "hash", "bitmap", "string", "stdlib", "arithmetic", "stdio", "ustar"}
  /\ IF component = "list" THEN LIST!Init
     ELSE prev = Off /\ next = Off /\ list_call = Off /\ list_result = Off
  /\ IF component = "hash" THEN HASH!hash_init
     ELSE buckets = Off /\ elem_cnt = Off /\ iter = Off /\ returned = Off /\ hash_call = Off /\
          hash_result = Off
  /\ IF component = "bitmap" THEN BITMAP!Init /\ file \in BitmapFiles
     ELSE bit_cnt = Off /\ bits = Off /\ file = Off /\ bitmap_call = Off /\ bitmap_result = Off
  /\ IF component = "string" THEN STRINGS!Init
     ELSE mem = Off /\ old = Off /\ string_call = Off /\ string_ret = Off /\ save_ptr = Off /\
          tokens = Off
  /\ IF component = "stdlib" THEN STDLIB!Init
     ELSE array = Off /\ given = Off /\ stdlib_call = Off /\ stdlib_ret = Off
  /\ IF component = "arithmetic" THEN ARITHMETIC!Init
     ELSE dividend = Off /\ divisor = Off /\ function = Off /\ quotient = Off
  /\ IF component = "stdio" THEN STDIO!Init
     ELSE fmt = Off /\ pos = Off /\ args = Off /\ size = Off /\ out = Off /\ aux = Off /\
          last = Off /\ shown = Off
  /\ IF component = "ustar" THEN USTAR!Init
     ELSE header = Off /\ origin = Off

OnlyLists == UNCHANGED <<component, hash_vars, bitmap_vars, string_vars, stdlib_vars,
                          arithmetic_vars, stdio_vars, ustar_vars>>
Lists == component = "list" /\ LIST!Next /\ OnlyLists

OnlyHashes == UNCHANGED <<component, list_vars, bitmap_vars, string_vars, stdlib_vars,
                           arithmetic_vars, stdio_vars, ustar_vars>>
Hashes == component = "hash" /\ HASH!Next /\ OnlyHashes

OnlyBitmaps == UNCHANGED <<component, list_vars, hash_vars, string_vars, stdlib_vars,
                            arithmetic_vars, stdio_vars, ustar_vars>>
Bitmaps == component = "bitmap" /\ BITMAP!Next /\ OnlyBitmaps

OnlyStrings == UNCHANGED <<component, list_vars, hash_vars, bitmap_vars, stdlib_vars,
                            arithmetic_vars, stdio_vars, ustar_vars>>
Strings == component = "string" /\ STRINGS!Next /\ OnlyStrings

OnlyStdlibs == UNCHANGED <<component, list_vars, hash_vars, bitmap_vars, string_vars,
                            arithmetic_vars, stdio_vars, ustar_vars>>
Stdlibs == component = "stdlib" /\ STDLIB!Next /\ OnlyStdlibs

OnlyArithmetics == UNCHANGED <<component, list_vars, hash_vars, bitmap_vars, string_vars,
                                stdlib_vars, stdio_vars, ustar_vars>>
Arithmetics == component = "arithmetic" /\ ARITHMETIC!Next /\ OnlyArithmetics

OnlyStdios == UNCHANGED <<component, list_vars, hash_vars, bitmap_vars, string_vars,
                           stdlib_vars, arithmetic_vars, ustar_vars>>
Stdios == component = "stdio" /\ STDIO!Next /\ OnlyStdios

OnlyUstars == UNCHANGED <<component, list_vars, hash_vars, bitmap_vars, string_vars,
                           stdlib_vars, arithmetic_vars, stdio_vars>>
Ustars == component = "ustar" /\ USTAR!Next /\ OnlyUstars

\* The calls have returned, or the component has stopped.
Stopped ==
  /\ CASE component = "string" -> string_call.op # "none"
       [] component = "stdlib" -> stdlib_call.op # "none"
       [] component = "arithmetic" -> function # "none"
       [] component = "ustar" -> origin.by # "none"
       [] OTHER -> FALSE
  /\ UNCHANGED <<component, list_vars, hash_vars, bitmap_vars, string_vars, stdlib_vars,
                  arithmetic_vars, stdio_vars, ustar_vars>>

MCNext == Lists \/ Hashes \/ Bitmaps \/ Strings \/ Stdlibs \/ Arithmetics \/ Stdios \/ Ustars \/
          Stopped

MCvars == <<component, list_vars, hash_vars, bitmap_vars, string_vars, stdlib_vars,
            arithmetic_vars, stdio_vars, ustar_vars>>

MCSpec == MCInit /\ [][MCNext]_MCvars

\* The links of an element in no list are written before they are read, and the last call of List, Hash or
\* Bitmap does not influence the next.
MCView ==
  CASE component = "list" -> <<component, [n \in LIST!Node |-> IF n \in LIST!Unlisted THEN NoPointer ELSE <<prev[n], next[n]>>]>>
    [] component = "hash" -> <<component, buckets, elem_cnt, iter, returned>>
    [] component = "bitmap" -> <<component, bit_cnt, bits, file>>
    [] OTHER -> MCvars

-----------------------------------------------------------------------------
(* Each call of list.c does to the sequences of elements, and returns,     *)
(* what list.h says of that call: the pointer operations implement Lists.  *)
(* Every list is linked the same way forwards and backwards, no element is *)
(* in two lists, and list_size(), list_max() and list_min() agree with the *)
(* sequence.                                                               *)
ImplementsLists ==
  /\ component = "list" => LIST!Abstract!Init
  /\ [](component = "list" => LIST!Linked /\ LIST!QueriesAgree)
  /\ [][component = "list" => LIST!AbstractStep]_list_vars

(* The calls of hash.c return what hash.h says: the table implements       *)
(* Dictionary. Every element stays in the bucket find_bucket() looks into, *)
(* whatever rehash() failed to allocate, and hash_next() returns every     *)
(* element once.                                                           *)
ImplementsDictionary ==
  /\ component = "hash" => HASH!Abstract!Init
  /\ [](component = "hash" => HASH!BucketsExact /\ HASH!IterationComplete)
  /\ [][component = "hash" => HASH!AbstractStep]_hash_vars

(* The calls of bitmap.c do to the set of true bits, and return, what      *)
(* their comments say, but for what a scan for no bits returns:            *)
(* bitmap_create() clears the bitmap, and a bitmap_read() or               *)
(* bitmap_write() that succeeds leaves file and bitmap the same.           *)
BitmapsRight ==
  /\ component = "bitmap" => BITMAP!Cleared
  /\ [][component = "bitmap" => BITMAP!CallAgrees /\ BITMAP!Transferred]_bitmap_vars

(* The functions of string.c, stdlib.c and arithmetic.c return and store   *)
(* what their comments define, on every small input: memmove() with        *)
(* overlapping ranges, though not the pointer it returns when it copies    *)
(* upwards; strlcpy() and strlcat() within their sizes; searches;          *)
(* strtok_r() with delimiters that change; sort() and binary_search();     *)
(* atoi() of what fits an int; the quotients of __udivdi3() and            *)
(* __divdi3(), and the remainders when the divisor fits a word.            *)
FunctionsRight ==
  CASE component = "string" -> /\ STRINGS!MoveRight /\ STRINGS!BoundedCopies
                               /\ STRINGS!SearchRight /\ STRINGS!TokensRight
    [] component = "stdlib" -> STDLIB!SortRight /\ STDLIB!SearchRight /\ STDLIB!AtoiRight
    [] component = "arithmetic" -> ARITHMETIC!Quotients /\ ARITHMETIC!ShortRemainders
    [] OTHER -> TRUE

(* What __vprintf() prints reads back as its argument, cut to its type, in *)
(* a field as wide as its width or its text, except that a number with the *)
(* flag `0' and a negative `*' is padded twice; format_integer() stays     *)
(* inside its buffer and vsnprintf() inside its size; hex_dump() shows     *)
(* every byte in its place, and print_human_readable_size() the size in    *)
(* the largest unit that leaves a digit.                                   *)
PrintsRight == component = "stdio" =>
  /\ STDIO!ReadsBack /\ STDIO!FieldFilled /\ STDIO!BufferFits
  /\ STDIO!StoredRight /\ STDIO!DumpRight /\ STDIO!HumanRight

(* ustar_parse_header() reads back what ustar_make_header() wrote, with a  *)
(* name stripped to its longest safe tail; it refuses the header of        *)
(* another tar or reads it with the size it states; and one changed byte   *)
(* never turns a header into that of a different file.                     *)
HeadersRight ==
  /\ [](component = "ustar" => USTAR!StrippedRight /\ USTAR!RoundTrip /\ USTAR!ForeignRight)
  /\ [][component = "ustar" => USTAR!Detected]_ustar_vars
=============================================================================
