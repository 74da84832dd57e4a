----------------------------- MODULE Arithmetic -----------------------------
(***************************************************************************)
(* lib/arithmetic.c: division of double words by double words on a machine *)
(* whose DIVL divides a double word by a word.  A word has W bits, 32 in   *)
(* the code; the types returned keep their width.                          *)
(***************************************************************************)
EXTENDS Integers

CONSTANTS W,      \* bits of a word, a power of 2
          Traps   \* what divl() returns when the quotient is too large

VARIABLES n, d,    \* the operands
          op,      \* the function called last
          result   \* what it returned

vars == <<n, d, op, result>>

B == 2 ^ W
Word == 0 .. B - 1
Double == 0 .. B * B - 1
wrap(x) == x % (B * B)

\* Two's complement: the value of the low BITS bits of X, and the bits of a value.
Signed(x, bits) == LET u == x % 2 ^ bits IN IF u >= 2 ^ (bits - 1) THEN u - 2 ^ bits ELSE u

Init == n \in Double /\ d \in Double \ {0} /\ op = "none" /\ result = 0

-----------------------------------------------------------------------------
divl(x, y) == IF x \div y >= B THEN Traps ELSE x \div y

\* K: the next number of bits to test, from W / 2 down to 1.
RECURSIVE nlz(_, _)
nlz(x, k) == IF k = 0 THEN 0
             ELSE IF x <= 2 ^ (W - k) - 1 THEN k + nlz(x * 2 ^ k, k \div 2)
             ELSE nlz(x, k \div 2)

\* The quotient by a divisor of more than a word: an estimate, one too large at most.
LongQuotient(x, y) ==
  LET s == nlz(y \div B, W \div 2)
      q == divl(x \div 2, (y * 2 ^ s) \div B) \div 2 ^ (W - 1 - s)
  IN IF wrap(x - wrap(wrap(q - 1) * y)) < y THEN wrap(q - 1) ELSE q

udiv64(x, y) ==
  LET n1 == x \div B
      n0 == x % B
  IN IF y \div B = 0
     THEN LET low == divl(B * (n1 % y) + n0, y)
          IN IF low = Traps THEN Traps ELSE wrap(low + B * (n1 \div y))
     ELSE IF x < y THEN 0 ELSE LongQuotient(x, y)

\* The declared result is one word.
umod64(x, y) == wrap(x - y * udiv64(x, y)) % B

(* Mutant of sdiv64: the sign of the divisor is forgotten. *)
sdiv64_unsigned(x, y) ==
  LET q == udiv64(wrap(IF x >= 0 THEN x ELSE -x), wrap(IF y >= 0 THEN y ELSE -y))
  IN Signed(IF x < 0 THEN -q ELSE q, 2 * W)

sdiv64(x, y) ==
  LET q == udiv64(wrap(IF x >= 0 THEN x ELSE -x), wrap(IF y >= 0 THEN y ELSE -y))
  IN Signed(IF (x < 0) = (y < 0) THEN q ELSE -q, 2 * W)

(* Mutant of smod64: the sign of the remainder is lost. *)
smod64_unsigned(x, y) == wrap(x - y * sdiv64(x, y)) % B

smod64(x, y) == Signed(wrap(x - y * sdiv64(x, y)), W)

-----------------------------------------------------------------------------
SN == Signed(n, 2 * W)
SD == Signed(d, 2 * W)

Return(name, value) == op = "none" /\ op' = name /\ result' = value /\ UNCHANGED <<n, d>>

__udivdi3 == Return("udiv", udiv64(n, d))
__umoddi3 == Return("umod", umod64(n, d))
__divdi3 == Return("div", sdiv64(SN, SD))
__moddi3 == Return("mod", smod64(SN, SD))

Next == __udivdi3 \/ __umoddi3 \/ __divdi3 \/ __moddi3

Spec == Init /\ [][Next]_vars

-----------------------------------------------------------------------------
Abs(x) == IF x < 0 THEN -x ELSE x
Quotient(x, y) == LET q == Abs(x) \div Abs(y) IN IF (x < 0) = (y < 0) THEN q ELSE -q

(* "this code is correct and will not trap": __udivdi3() returns the       *)
(* quotient for every pair of double words, and divl() is never given a    *)
(* quotient that does not fit a word.  __divdi3() truncates towards zero   *)
(* for all signs; only the smallest dividend by -1 has no quotient.        *)
Quotients == /\ op = "udiv" => result = n \div d
             /\ op = "div" => result = Quotient(SN, SD) \/ (SN = -(2 ^ (2 * W - 1)) /\ SD = -1)

(* By a divisor of one word, __umoddi3() and __moddi3() return the         *)
(* remainder that belongs to the quotient.  (A signed one must leave room  *)
(* for the sign.)                                                          *)
ShortRemainders == /\ op = "umod" /\ d < B => result = n % d
                   /\ op = "mod" /\ Abs(SD) <= B \div 2 => result = SN - SD * Quotient(SN, SD)

(* "Divides unsigned 64-bit N by unsigned 64-bit D and returns the         *)
(* remainder." (arithmetic.c, umod64())                                    *)
Remainders == op = "umod" => result = n % d
=============================================================================
