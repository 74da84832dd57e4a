------------------------------- MODULE Bitmap -------------------------------
(***************************************************************************)
(* lib/kernel/bitmap.c: an array of bits kept in words of ELEM_BITS bits,  *)
(* and its copy in a file.  Only BIT_CNT bits of the words are the         *)
(* bitmap's: the others hold whatever malloc() or the file left there.     *)
(* CALL records the last call, for the properties.                         *)
(***************************************************************************)
EXTENDS Naturals, FiniteSets, FiniteSetsExt, Bitwise

CONSTANTS BitCnts,    \* the sizes bitmap_create() is called with
          ELEM_BITS,  \* 32 in the code
          BITMAP_ERROR

\* What the constants satisfy.
BitmapAssumption == BitCnts \subseteq Nat \ {0} /\ ELEM_BITS \in Nat \ {0}

VARIABLES bit_cnt, bits,   \* struct bitmap: its size and its words
          file,   \* the words of the bitmap's file
          call,   \* the last call: op, start, cnt, value
          result  \* what it returned

vars == <<bit_cnt, bits, file, call, result>>

Word == 0 .. 2 ^ ELEM_BITS - 1
Bit == 0 .. bit_cnt - 1

elem_idx(idx) == idx \div ELEM_BITS
bit_mask(idx) == 2 ^ (idx % ELEM_BITS)
elem_cnt(cnt) == (cnt + ELEM_BITS - 1) \div ELEM_BITS
Words == [0 .. elem_cnt(bit_cnt) - 1 -> Word]

(* Mutant of last_mask: off by one at a full last word. *)
last_mask_short == 2 ^ (bit_cnt % ELEM_BITS) - 1

last_mask == IF bit_cnt % ELEM_BITS = 0 THEN 2 ^ ELEM_BITS - 1
             ELSE 2 ^ (bit_cnt % ELEM_BITS) - 1

-----------------------------------------------------------------------------
(* Single bits *)

bitmap_mark(b, i) == [b EXCEPT ![elem_idx(i)] = @ | bit_mask(i)]
bitmap_reset(b, i) == [b EXCEPT ![elem_idx(i)] = @ & (2 ^ ELEM_BITS - 1 - bit_mask(i))]
bitmap_flip(b, i) == [b EXCEPT ![elem_idx(i)] = @ ^^ bit_mask(i)]
bitmap_set(b, i, value) == IF value THEN bitmap_mark(b, i) ELSE bitmap_reset(b, i)
bitmap_test(b, i) == b[elem_idx(i)] & bit_mask(i) # 0

(* Ranges *)

RECURSIVE bitmap_set_multiple(_, _, _, _)
bitmap_set_multiple(b, start, cnt, value) ==
  IF cnt = 0 THEN b
  ELSE bitmap_set_multiple(bitmap_set(b, start, value), start + 1, cnt - 1, value)

bitmap_set_all(b, value) == bitmap_set_multiple(b, 0, bit_cnt, value)

RECURSIVE bitmap_count(_, _, _, _)
bitmap_count(b, start, cnt, value) ==
  IF cnt = 0 THEN 0
  ELSE (IF bitmap_test(b, start) = value THEN 1 ELSE 0)
       + bitmap_count(b, start + 1, cnt - 1, value)

RECURSIVE bitmap_contains(_, _, _, _)
bitmap_contains(b, start, cnt, value) ==
  cnt # 0 /\ (bitmap_test(b, start) = value \/ bitmap_contains(b, start + 1, cnt - 1, value))

bitmap_any(b, start, cnt) == bitmap_contains(b, start, cnt, TRUE)
bitmap_none(b, start, cnt) == ~ bitmap_contains(b, start, cnt, TRUE)
bitmap_all(b, start, cnt) == ~ bitmap_contains(b, start, cnt, FALSE)

RECURSIVE ScanFrom(_, _, _, _)
ScanFrom(b, i, cnt, value) ==
  IF i > bit_cnt - cnt THEN BITMAP_ERROR
  ELSE IF ~ bitmap_contains(b, i, cnt, ~ value) THEN i
  ELSE ScanFrom(b, i + 1, cnt, value)

(* Mutant of bitmap_scan: the last place a group fits is not tried. *)
bitmap_scan_exclusive(b, start, cnt, value) ==
  IF cnt < bit_cnt /\ start < bit_cnt - cnt
  THEN ScanFrom(b, start, cnt + 1, value) ELSE BITMAP_ERROR

bitmap_scan(b, start, cnt, value) ==
  IF cnt <= bit_cnt THEN ScanFrom(b, start, cnt, value) ELSE BITMAP_ERROR

bitmap_scan_and_flip(b, start, cnt, value) ==
  LET idx == bitmap_scan(b, start, cnt, value)
  IN  IF idx = BITMAP_ERROR THEN b ELSE bitmap_set_multiple(b, idx, cnt, ~ value)

-----------------------------------------------------------------------------
(* Calls *)

Called(op, start, cnt, value) ==
  /\ call' = [op |-> op, start |-> start, cnt |-> cnt, value |-> value]
  /\ UNCHANGED bit_cnt

(* Mutant of bitmap_create: leaves what malloc() returned. *)
bitmap_create_dirty(words) == words

\* WORDS is what malloc() returned.
bitmap_create(words) == bitmap_set_all(words, FALSE)

Init == /\ bit_cnt \in BitCnts
        /\ \E words \in Words : bits = bitmap_create(words)
        /\ file \in Words
        /\ call = [op |-> "create", start |-> 0, cnt |-> 0, value |-> FALSE]
        /\ result = TRUE

OneBit(i, value) ==
  \/ /\ Called("set", i, 1, value)
     /\ bits' = bitmap_set(bits, i, value) /\ result' = TRUE /\ UNCHANGED file
  \/ /\ Called("flip", i, 1, value)
     /\ bits' = bitmap_flip(bits, i) /\ result' = TRUE /\ UNCHANGED file

Multiple(start, cnt, value) ==
  /\ start + cnt <= bit_cnt
  /\ UNCHANGED file
  /\ \/ /\ Called("set_multiple", start, cnt, value)
        /\ bits' = bitmap_set_multiple(bits, start, cnt, value) /\ result' = TRUE
     \/ /\ Called("count", start, cnt, value)
        /\ result' = bitmap_count(bits, start, cnt, value) /\ UNCHANGED bits
     \/ /\ Called("any", start, cnt, value)
        /\ result' = bitmap_any(bits, start, cnt) /\ UNCHANGED bits
     \/ /\ Called("none", start, cnt, value)
        /\ result' = bitmap_none(bits, start, cnt) /\ UNCHANGED bits
     \/ /\ Called("all", start, cnt, value)
        /\ result' = bitmap_all(bits, start, cnt) /\ UNCHANGED bits

\* CNT may be larger than the bitmap.
Scan(start, cnt, value) ==
  /\ Called("scan_and_flip", start, cnt, value)
  /\ result' = bitmap_scan(bits, start, cnt, value)
  /\ bits' = bitmap_scan_and_flip(bits, start, cnt, value)
  /\ UNCHANGED file

\* file_read_at() delivers the first GOT words.
bitmap_read(got) ==
  LET read == [i \in DOMAIN bits |-> IF i < got THEN file[i] ELSE bits[i]]
  IN  /\ Called("read", 0, got, TRUE)
      /\ bits' = [read EXCEPT ![elem_cnt(bit_cnt) - 1] = @ & last_mask]
      /\ result' = (got = elem_cnt(bit_cnt))
      /\ UNCHANGED file

\* file_write_at() takes the first PUT words.
bitmap_write(put) ==
  /\ Called("write", 0, put, TRUE)
  /\ file' = [i \in DOMAIN bits |-> IF i < put THEN bits[i] ELSE file[i]]
  /\ result' = (put = elem_cnt(bit_cnt))
  /\ UNCHANGED bits

Next ==
  \/ \E i \in Bit, value \in BOOLEAN : OneBit(i, value)
  \/ \E start \in 0 .. bit_cnt, cnt \in 0 .. bit_cnt, value \in BOOLEAN : Multiple(start, cnt, value)
  \/ \E start \in 0 .. bit_cnt, cnt \in 0 .. bit_cnt + 1, value \in BOOLEAN : Scan(start, cnt, value)
  \/ \E n \in 0 .. elem_cnt(bit_cnt) : bitmap_read(n) \/ bitmap_write(n)

Spec == Init /\ [][Next]_vars

-----------------------------------------------------------------------------
(* Properties *)

\* The bits that are true, among the bitmap's own.
True(words) == {i \in Bit : (words[i \div ELEM_BITS] \div 2 ^ (i % ELEM_BITS)) % 2 = 1}
Span(start, cnt) == start .. start + cnt - 1
Groups(S, start, cnt) == {i \in start .. bit_cnt : i + cnt <= bit_cnt /\ Span(i, cnt) \subseteq S}

(* Every call does to the set of true bits, and returns, what its comment  *)
(* in bitmap.c says, whatever the bits of the last word beyond BIT_CNT     *)
(* are; a scan takes the first group that fits, up to the last bit.  Of    *)
(* what a scan for no bits returns nothing is said: see                    *)
(* ScanOfNothingIsZero.                                                    *)
CallAgrees ==
  LET c == call'
      T == True(bits)
      S == Span(c.start, c.cnt)
      Having == IF c.value THEN T ELSE Bit \ T
      groups == Groups(Having, c.start, c.cnt)
  IN  CASE c.op \in {"set", "set_multiple"} ->
             True(bits') = IF c.value THEN T \cup S ELSE T \ S
        [] c.op = "flip" -> True(bits') = (T \ S) \cup (S \ T)
        [] c.op = "count" -> result' = Cardinality(S \cap Having)
        [] c.op = "any" -> result' = (S \cap T # {})
        [] c.op = "none" -> result' = (S \cap T = {})
        [] c.op = "all" -> result' = (S \subseteq T)
        [] c.op = "scan_and_flip" ->
             IF c.cnt = 0 THEN True(bits') = T
             ELSE IF groups = {} THEN result' = BITMAP_ERROR /\ True(bits') = T
             ELSE /\ result' = Min(groups)
                  /\ True(bits') = IF c.value THEN T \ Span(Min(groups), c.cnt)
                                   ELSE T \cup Span(Min(groups), c.cnt)
        [] OTHER -> TRUE
CallsAgree == [][CallAgrees]_vars

(* A bitmap starts empty, and one written completely and read back is the  *)
(* same set: a bitmap and a file that agree stay in agreement through      *)
(* bitmap_write() and bitmap_read(), whatever lies in the last word.       *)
Cleared == call.op = "create" => True(bits) = {}
Transferred == call'.op \in {"read", "write"} /\ result' = TRUE => True(bits') = True(file')
FileRoundTrip == Cleared /\ [][Transferred]_vars

(* bitmap.c:292, of bitmap_scan_and_flip(): "If CNT is zero, returns 0."   *)
(* bitmap_scan() returns START, or BITMAP_ERROR, and so does it.           *)
ScanOfNothingIsZero == call.op = "scan_and_flip" /\ call.cnt = 0 => result = 0
=============================================================================
