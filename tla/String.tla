------------------------------- MODULE String -------------------------------
(***************************************************************************)
(* lib/string.c over a small memory: the copying functions, the searching  *)
(* functions (each loop a recursive operator) and strtok_r() called again  *)
(* and again.  A pointer is an address in MEM, NULL is 0.  The arguments   *)
(* are what the functions demand: strings end, blocks lie in memory.       *)
(***************************************************************************)
EXTENDS Integers, Sequences, FiniteSetsExt, SequencesExt

CONSTANTS Size,     \* addresses 1 .. Size
          Chars,    \* characters, other than the null byte
          MaxArg,   \* the largest size argument
          Delimiters \* the delimiter strings of strtok_r(), as sets

\* What the constants satisfy.
StringAssumption == Size \in Nat \ {0} /\ Chars \subseteq Nat \ {0} /\ MaxArg \in Nat

VARIABLES mem,      \* the memory
          old,      \* the memory before the call, or before the first strtok_r()
          call,     \* the last call: function, arguments
          ret,      \* what it returned
          save_ptr, \* the tokenizer's position
          tokens    \* the tokens returned: address, length, delimiters

vars == <<mem, old, call, ret, save_ptr, tokens>>

NUL == 0
NULL == 0
Address == 1 .. Size
Terminated(p) == \E i \in p .. Size : mem[i] = NUL

Init == /\ mem \in [Address -> Chars \cup {NUL}] /\ old = mem
        /\ call = [op |-> "none", a |-> 0, b |-> 0, n |-> 0, by |-> {}] /\ ret = 0
        /\ save_ptr = NULL /\ tokens = <<>>

-----------------------------------------------------------------------------
(* Copying *)

RECURSIVE CopyUp(_, _, _, _)
CopyUp(m, dst, src, n) ==
  IF n = 0 THEN m ELSE CopyUp([m EXCEPT ![dst] = m[src]], dst + 1, src + 1, n - 1)

RECURSIVE CopyDown(_, _, _, _)
CopyDown(m, dst, src, n) ==
  IF n = 0 THEN m ELSE CopyDown([m EXCEPT ![dst + n - 1] = m[src + n - 1]], dst, src, n - 1)

memcpy(m, dst, src, n) == CopyUp(m, dst, src, n)

(* Mutant of memmove: it copies upwards whatever overlaps. *)
memmove_up(m, dst, src, n) == [mem |-> CopyUp(m, dst, src, n), ret |-> dst]

\* Copying upwards moves the pointer it returns.
memmove(m, dst, src, n) ==
  IF dst < src THEN [mem |-> CopyUp(m, dst, src, n), ret |-> dst + n]
  ELSE [mem |-> CopyDown(m, dst, src, n), ret |-> dst]

memset(m, dst, value, n) == [i \in Address |-> IF i >= dst /\ i < dst + n THEN value ELSE m[i]]

RECURSIVE strlen(_, _)
strlen(m, p) == IF m[p] = NUL THEN 0 ELSE 1 + strlen(m, p + 1)

strlcpy(m, dst, src, size) ==
  LET src_len == strlen(m, src)
      dst_len == IF src_len < size - 1 THEN src_len ELSE size - 1
  IN [mem |-> IF size > 0 THEN [memcpy(m, dst, src, dst_len) EXCEPT ![dst + dst_len] = NUL] ELSE m,
      ret |-> src_len]

(* Mutant of strlcat: no room is kept for the null byte. *)
strlcat_full(m, dst, src, size) ==
  LET src_len == strlen(m, src)
      dst_len == strlen(m, dst)
      copy_cnt == IF src_len < size - dst_len THEN src_len ELSE size - dst_len
  IN [mem |-> IF size > 0 /\ dst_len < size /\ dst + dst_len + copy_cnt <= Size
              THEN [memcpy(m, dst + dst_len, src, copy_cnt) EXCEPT ![dst + dst_len + copy_cnt] = NUL]
              ELSE m,
      ret |-> src_len + dst_len]

strlcat(m, dst, src, size) ==
  LET src_len == strlen(m, src)
      dst_len == strlen(m, dst)
      copy_cnt == IF src_len < size - dst_len - 1 THEN src_len ELSE size - dst_len - 1
  IN [mem |-> IF size > 0 /\ dst_len < size
              THEN [memcpy(m, dst + dst_len, src, copy_cnt) EXCEPT ![dst + dst_len + copy_cnt] = NUL]
              ELSE m,
      ret |-> src_len + dst_len]

-----------------------------------------------------------------------------
(* Searching *)

RECURSIVE memcmp(_, _, _, _)
memcmp(m, a, b, n) == IF n = 0 THEN 0
                      ELSE IF m[a] # m[b] THEN (IF m[a] > m[b] THEN 1 ELSE -1)
                      ELSE memcmp(m, a + 1, b + 1, n - 1)

RECURSIVE strcmp(_, _, _)
strcmp(m, a, b) == IF m[a] # NUL /\ m[a] = m[b] THEN strcmp(m, a + 1, b + 1)
                   ELSE IF m[a] < m[b] THEN -1 ELSE IF m[a] > m[b] THEN 1 ELSE 0

RECURSIVE memchr(_, _, _, _)
memchr(m, p, ch, n) == IF n = 0 THEN NULL ELSE IF m[p] = ch THEN p ELSE memchr(m, p + 1, ch, n - 1)

RECURSIVE strchr(_, _, _)
strchr(m, p, c) == IF m[p] = c THEN p ELSE IF m[p] = NUL THEN NULL ELSE strchr(m, p + 1, c)

RECURSIVE strcspn(_, _, _)
strcspn(m, p, stop) == IF m[p] = NUL \/ strchr(m, stop, m[p]) # NULL THEN 0 ELSE 1 + strcspn(m, p + 1, stop)

RECURSIVE strpbrk(_, _, _)
strpbrk(m, p, stop) == IF m[p] = NUL THEN NULL
                       ELSE IF strchr(m, stop, m[p]) # NULL THEN p ELSE strpbrk(m, p + 1, stop)

\* LAST: the occurrence found so far.
RECURSIVE strrchr(_, _, _, _)
strrchr(m, p, c, last) == IF m[p] = NUL THEN last ELSE strrchr(m, p + 1, c, IF m[p] = c THEN p ELSE last)

RECURSIVE strspn(_, _, _)
strspn(m, p, skip) == IF m[p] = NUL \/ strchr(m, skip, m[p]) = NULL THEN 0 ELSE 1 + strspn(m, p + 1, skip)

(* Mutant of strstr: the last place where the needle fits is left out. *)
strstr_short(m, haystack, needle) ==
  LET room == strlen(m, haystack) - strlen(m, needle)
      found == {i \in 0 .. room - 1 : memcmp(m, haystack + i, needle, strlen(m, needle)) = 0}
  IN IF found = {} THEN NULL ELSE haystack + Min(found)

strstr(m, haystack, needle) ==
  LET room == strlen(m, haystack) - strlen(m, needle)
      found == {i \in 0 .. room : memcmp(m, haystack + i, needle, strlen(m, needle)) = 0}
  IN IF found = {} THEN NULL ELSE haystack + Min(found)

RECURSIVE strnlen(_, _, _)
strnlen(m, p, maxlen) == IF maxlen = 0 \/ m[p] = NUL THEN 0 ELSE 1 + strnlen(m, p + 1, maxlen - 1)

-----------------------------------------------------------------------------
(* Calls *)

First == call.op = "none"
Call(op, a, b, n) == call' = [op |-> op, a |-> a, b |-> b, n |-> n, by |-> {}]
Did(r) == mem' = r.mem /\ ret' = r.ret /\ UNCHANGED <<old, save_ptr, tokens>>
Found(value) == ret' = value /\ UNCHANGED <<mem, old, save_ptr, tokens>>

Move == \E a \in Address, b \in Address, n \in 0 .. MaxArg :
          /\ First /\ a + n - 1 <= Size /\ b + n - 1 <= Size
          /\ Call("memmove", a, b, n) /\ Did(memmove(mem, a, b, n))

Set == \E a \in Address, c \in Chars, n \in 0 .. MaxArg :
         /\ First /\ a + n - 1 <= Size
         /\ Call("memset", a, c, n) /\ Did([mem |-> memset(mem, a, c, n), ret |-> a])

\* The destination has SIZE bytes, apart from the source.
CopyString == \E a \in Address, b \in Address, n \in 0 .. MaxArg :
  /\ First /\ Terminated(b) /\ a + n - 1 <= Size
  /\ a + n <= b \/ b + strlen(mem, b) < a
  /\ \/ Call("strlcpy", a, b, n) /\ Did(strlcpy(mem, a, b, n))
     \/ /\ \E i \in a .. a + n - 1 : mem[i] = NUL
        /\ Call("strlcat", a, b, n) /\ Did(strlcat(mem, a, b, n))

Compare == \E a \in Address, b \in Address, n \in 0 .. MaxArg :
  /\ First
  /\ \/ /\ a + n - 1 <= Size /\ b + n - 1 <= Size
        /\ Call("memcmp", a, b, n) /\ Found(memcmp(mem, a, b, n))
     \/ /\ n = 0 /\ Terminated(a) /\ Terminated(b)
        /\ Call("strcmp", a, b, n) /\ Found(strcmp(mem, a, b))

FindChar == \E a \in Address, c \in Chars \cup {NUL}, n \in 0 .. MaxArg :
  /\ First
  /\ \/ a + n - 1 <= Size /\ Call("memchr", a, c, n) /\ Found(memchr(mem, a, c, n))
     \/ Terminated(a) /\ c = NUL /\ Call("strnlen", a, c, n) /\ Found(strnlen(mem, a, n))
     \/ n = 0 /\ Terminated(a) /\ Call("strchr", a, c, n) /\ Found(strchr(mem, a, c))
     \/ n = 0 /\ Terminated(a) /\ Call("strrchr", a, c, n) /\ Found(strrchr(mem, a, c, NULL))

FindSet == \E a \in Address, b \in Address :
  /\ First /\ Terminated(a) /\ Terminated(b)
  /\ \/ Call("strspn", a, b, 0) /\ Found(strspn(mem, a, b))
     \/ Call("strcspn", a, b, 0) /\ Found(strcspn(mem, a, b))
     \/ Call("strpbrk", a, b, 0) /\ Found(strpbrk(mem, a, b))
     \/ Call("strstr", a, b, 0) /\ Found(strstr(mem, a, b))

-----------------------------------------------------------------------------
(* strtok_r() *)

RECURSIVE Skip(_, _)
Skip(p, skipped) == IF mem[p] \in skipped THEN Skip(p + 1, skipped) ELSE p

(* Mutant of strtok_r: the position stays on the null byte it wrote. *)
strtok_r_stuck(s, delimiters) ==
  LET token == Skip(s, delimiters)
      end == Skip(token, Chars \ delimiters)
  IN IF mem[token] = NUL
     THEN save_ptr' = token /\ ret' = NULL /\ UNCHANGED <<mem, tokens>>
     ELSE /\ mem' = [mem EXCEPT ![end] = NUL]
          /\ save_ptr' = end
          /\ ret' = token
          /\ tokens' = Append(tokens, [at |-> token, len |-> end - token, by |-> delimiters])

strtok_r(s, delimiters) ==
  LET token == Skip(s, delimiters)
      end == Skip(token, Chars \ delimiters)
  IN IF mem[token] = NUL
     THEN save_ptr' = token /\ ret' = NULL /\ UNCHANGED <<mem, tokens>>
     ELSE /\ mem' = [mem EXCEPT ![end] = NUL]
          /\ save_ptr' = IF mem[end] # NUL THEN end + 1 ELSE end
          /\ ret' = token
          /\ tokens' = Append(tokens, [at |-> token, len |-> end - token, by |-> delimiters])

\* The first call is given the string, the others NULL, until NULL comes back.
FirstToken == \E s \in Address, d \in Delimiters :
  /\ First /\ Terminated(s)
  /\ call' = [call EXCEPT !.op = "strtok_r", !.a = s, !.by = d]
  /\ strtok_r(s, d) /\ UNCHANGED old

NextToken == \E d \in Delimiters :
  /\ call.op = "strtok_r" /\ ret # NULL
  /\ call' = [call EXCEPT !.by = d]
  /\ strtok_r(save_ptr, d) /\ UNCHANGED old

Next == Move \/ Set \/ CopyString \/ Compare \/ FindChar \/ FindSet \/ FirstToken \/ NextToken

Spec == Init /\ [][Next]_vars

-----------------------------------------------------------------------------
Str(m, p) == SubSeq(m, p, Min({i \in p .. Size : m[i] = NUL}) - 1)
Elsewhere(a, n) == \A i \in Address \ (a .. a + n - 1) : mem[i] = old[i]

(* memmove() leaves at the destination what the source held before it,     *)
(* however the two overlap; memset() leaves the value; neither touches     *)
(* anything else, and both return DST.  Except that a memmove() to a lower *)
(* address returns the end of the destination: see ReturnsDst.             *)
MoveRight == call.op \in {"memmove", "memset"} =>
  /\ \A i \in 0 .. call.n - 1 : mem[call.a + i] = IF call.op = "memset" THEN call.b ELSE old[call.b + i]
  /\ Elsewhere(call.a, call.n)
  /\ (call.op = "memmove" /\ call.a < call.b) \/ ret = call.a

(* strlcpy() and strlcat() write only the SIZE bytes they were given, leave *)
(* a string there that is as much of the result as fits, and return the    *)
(* length the whole result would have.                                     *)
BoundedCopies == call.op \in {"strlcpy", "strlcat"} =>
  LET whole == (IF call.op = "strlcat" THEN Str(old, call.a) ELSE <<>>) \o Str(old, call.b)
      fits == IF Len(whole) < call.n THEN Len(whole) ELSE call.n - 1
  IN /\ ret = Len(whole)
     /\ Elsewhere(call.a, call.n)
     /\ call.n > 0 => \E i \in call.a .. call.a + call.n - 1 : mem[i] = NUL
     /\ call.n > 0 => Str(mem, call.a) = SubSeq(whole, 1, fits)

(* Each search returns what its comment in string.c promises: the first    *)
(* (or last) place, or the longest span, defined over the whole string.    *)
SearchRight ==
  LET s == Str(mem, call.a)
      t == Str(mem, call.b)
      place(I) == IF I = {} THEN NULL ELSE call.a + Min(I) - 1
      sign(x, y) == LET D == {i \in 1 .. Min({Len(x), Len(y)}) : x[i] # y[i]}
                    IN IF D = {} THEN 0 ELSE IF x[Min(D)] > y[Min(D)] THEN 1 ELSE -1
      span(I) == IF I = {} THEN Len(s) ELSE Min(I) - 1
  IN CASE call.op = "strspn" -> ret = span({i \in DOMAIN s : s[i] \notin Range(t)})
       [] call.op = "strcspn" -> ret = span({i \in DOMAIN s : s[i] \in Range(t)})
       [] call.op = "strpbrk" -> ret = place({i \in DOMAIN s : s[i] \in Range(t)})
       [] call.op = "strstr" -> ret = place({i \in 1 .. Len(s) + 1 : IsPrefix(t, SubSeq(s, i, Len(s)))})
       [] call.op = "strchr" -> ret = place({i \in 1 .. Len(s) + 1 : Append(s, NUL)[i] = call.b})
       [] call.op = "strrchr" -> ret = (IF call.b \in Range(s) THEN call.a + Max({i \in DOMAIN s : s[i] = call.b}) - 1
                                        ELSE NULL)
       [] call.op = "memchr" -> ret = place({i \in 1 .. call.n : mem[call.a + i - 1] = call.b})
       [] call.op = "strnlen" -> ret = Min({Len(s), call.n})
       [] call.op = "strcmp" -> ret = sign(Append(s, NUL), Append(t, NUL))
       [] call.op = "memcmp" -> ret = sign(SubSeq(mem, call.a, call.a + call.n - 1), SubSeq(mem, call.b, call.b + call.n - 1))
       [] OTHER -> TRUE

(* The tokens of strtok_r() are the whole string cut up: each is as long   *)
(* as it can be and never empty, only delimiters of its call lie before    *)
(* it, and when NULL comes back nothing but delimiters was left.           *)
TokensRight ==
  call.op = "strtok_r" =>
    LET from(k) == IF k = 1 THEN call.a
                   ELSE LET p == tokens[k - 1].at + tokens[k - 1].len IN IF old[p] = NUL THEN p ELSE p + 1
    IN /\ \A k \in DOMAIN tokens :
            LET t == tokens[k] IN
            /\ t.len > 0
            /\ \A i \in from(k) .. t.at - 1 : old[i] \in t.by
            /\ \A i \in t.at .. t.at + t.len - 1 : old[i] \notin t.by \cup {NUL}
            /\ old[t.at + t.len] \in t.by \cup {NUL}
            /\ Str(mem, t.at) = SubSeq(old, t.at, t.at + t.len - 1)
       /\ ret = NULL => \A i \in from(Len(tokens) + 1) .. call.a + Len(Str(old, call.a)) - 1 :
                          old[i] \in call.by

(* "Returns DST." (string.c, memmove())                                    *)
ReturnsDst == call.op = "memmove" => ret = call.a
=============================================================================
