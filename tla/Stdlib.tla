------------------------------- MODULE Stdlib -------------------------------
(***************************************************************************)
(* lib/stdlib.c: sort() (a heap sort), binary_search() and atoi().  An     *)
(* array is a sequence of elements, an element a record of a key, which    *)
(* the comparison looks at, and the place it started from.  An int has     *)
(* IntBits bits.                                                           *)
(***************************************************************************)
EXTENDS Integers, Sequences, FiniteSets, FiniteSetsExt, SequencesExt

CONSTANTS Key, MaxCnt,  \* keys, and the largest array
          Texts,        \* arguments of atoi(): sequences of characters
          IntBits

VARIABLES array,   \* the array, or the text
          given,   \* the array given to sort()
          call,    \* the last call
          ret      \* what it returned

vars == <<array, given, call, ret>>

\* Returned for no match, and by an atoi() that overflows.
NULL == 0
Undefined == 2 ^ IntBits

compare(a, b) == a.key - b.key

Init == /\ \E cnt \in 0 .. MaxCnt : \E keys \in [1 .. cnt -> Key] :
             array = [i \in 1 .. cnt |-> [key |-> keys[i], from |-> i]]
        /\ given = array /\ call = [op |-> "none", arg |-> 0] /\ ret = 0

-----------------------------------------------------------------------------
do_swap(a, i, j) == [a EXCEPT ![i] = a[j], ![j] = a[i]]

(* Mutant of Largest: the right child is only compared with the parent. *)
Largest_parent(a, i, cnt) ==
  LET left == 2 * i
      right == 2 * i + 1
  IN IF right <= cnt /\ compare(a[right], a[i]) > 0 THEN right
     ELSE IF left <= cnt /\ compare(a[left], a[i]) > 0 THEN left ELSE i

\* The index of the largest among I and its children.
Largest(a, i, cnt) ==
  LET left == 2 * i
      right == 2 * i + 1
      max == IF left <= cnt /\ compare(a[left], a[i]) > 0 THEN left ELSE i
  IN IF right <= cnt /\ compare(a[right], a[max]) > 0 THEN right ELSE max

RECURSIVE heapify(_, _, _)
heapify(a, i, cnt) ==
  LET max == Largest(a, i, cnt)
  IN IF max = i THEN a ELSE heapify(do_swap(a, i, max), max, cnt)

\* The two loops of sort(), from I down.
RECURSIVE Build(_, _)
Build(a, i) == IF i = 0 THEN a ELSE Build(heapify(a, i, Len(a)), i - 1)

RECURSIVE Unheap(_, _)
Unheap(a, i) == IF i <= 1 THEN a ELSE Unheap(heapify(do_swap(a, 1, i), 1, i - 1), i - 1)

sort(a) == Unheap(Build(a, Len(a) \div 2), Len(a))

(* Mutant of Search: the middle is left out of the lower half and of the   *)
(* upper one.                                                              *)
RECURSIVE Search_narrow(_, _, _, _)
Search_narrow(key, a, first, last) ==
  IF first >= last THEN NULL
  ELSE LET middle == first + (last - first) \div 2
       IN IF key < a[middle].key THEN Search_narrow(key, a, first, middle - 1)
          ELSE IF key > a[middle].key THEN Search_narrow(key, a, middle + 1, last)
          ELSE middle

RECURSIVE Search(_, _, _, _)
Search(key, a, first, last) ==
  IF first >= last THEN NULL
  ELSE LET middle == first + (last - first) \div 2
       IN IF key < a[middle].key THEN Search(key, a, first, middle)
          ELSE IF key > a[middle].key THEN Search(key, a, middle + 1, last)
          ELSE middle

binary_search(key, a) == Search(key, a, 1, Len(a) + 1)

-----------------------------------------------------------------------------
(* atoi(): characters are digits 0 .. 9 or one of these. *)

SPACE == 10
PLUS == 11
MINUS == 12
Digit == 0 .. 9
INT_MIN == -(2 ^ (IntBits - 1))
INT_MAX == 2 ^ (IntBits - 1) - 1

\* Signed overflow is undefined.
int(x) == IF x \in INT_MIN .. INT_MAX THEN x ELSE Undefined

\* The place of the first character from I on that is not in SKIPPED.
After(s, i, skipped) == Min({j \in i .. Len(s) : s[j] \notin skipped} \cup {Len(s) + 1})

(* Mutant of atoi: the digits are added up as a positive number. *)
atoi_positive(s) ==
  LET start == After(s, 1, {SPACE})
      signed == start <= Len(s) /\ s[start] \in {PLUS, MINUS}
      digits == IF signed THEN start + 1 ELSE start
      end == After(s, digits, Digit)
      value[i \in digits - 1 .. end - 1] ==
        IF i = digits - 1 THEN 0
        ELSE IF value[i - 1] = Undefined THEN Undefined
        ELSE IF int(value[i - 1] * 10) = Undefined THEN Undefined
        ELSE int(value[i - 1] * 10 + s[i])
      v == value[end - 1]
  IN IF v = Undefined THEN Undefined ELSE IF signed /\ s[start] = MINUS THEN -v ELSE v

atoi(s) ==
  LET start == After(s, 1, {SPACE})
      signed == start <= Len(s) /\ s[start] \in {PLUS, MINUS}
      digits == IF signed THEN start + 1 ELSE start
      end == After(s, digits, Digit)
      value[i \in digits - 1 .. end - 1] ==
        IF i = digits - 1 THEN 0
        ELSE IF value[i - 1] = Undefined THEN Undefined
        ELSE IF int(value[i - 1] * 10) = Undefined THEN Undefined
        ELSE int(value[i - 1] * 10 - s[i])
      v == value[end - 1]
  IN IF v = Undefined THEN Undefined ELSE IF signed /\ s[start] = MINUS THEN v ELSE int(-v)

-----------------------------------------------------------------------------
Sort == /\ call.op = "none"
        /\ array' = sort(array) /\ call' = [op |-> "sort", arg |-> 0]
        /\ UNCHANGED <<given, ret>>

\* The array must be sorted.
BinarySearch == /\ call.op = "sort"
                /\ \E key \in Key : /\ ret' = binary_search(key, array)
                                    /\ call' = [op |-> "binary_search", arg |-> key]
                /\ UNCHANGED <<array, given>>

Atoi == /\ call.op = "none" /\ array = <<>>
        /\ \E text \in Texts : array' = text /\ ret' = atoi(text)
        /\ call' = [op |-> "atoi", arg |-> 0]
        /\ UNCHANGED given

Next == Sort \/ BinarySearch \/ Atoi

Spec == Init /\ [][Next]_vars

-----------------------------------------------------------------------------
(* sort() leaves the elements it was given, each once, in order, for every *)
(* array and with equal keys among them.                                   *)
SortRight ==
  call.op = "sort" =>
    /\ \A i \in 1 .. Len(array) - 1 : array[i].key <= array[i + 1].key
    /\ Len(array) = Len(given) /\ Range(array) = Range(given)

(* On a sorted array binary_search() finds an element with the key if and  *)
(* only if there is one.                                                   *)
SearchRight ==
  call.op = "binary_search" =>
    IF \E e \in Range(array) : e.key = call.arg
    THEN ret \in DOMAIN array /\ array[ret].key = call.arg ELSE ret = NULL

(* atoi() returns the number written in the text for every number an int   *)
(* holds, its smallest included, after white space and a sign: it parses   *)
(* towards the negative "because the negative range of an int is bigger".  *)
AtoiRight ==
  LET spaces == Cardinality({i \in DOMAIN array : \A j \in 1 .. i : array[j] = SPACE})
      rest == SubSeq(array, spaces + 1, Len(array))
      sign == IF rest # <<>> /\ rest[1] = MINUS THEN -1 ELSE 1
      body == IF rest # <<>> /\ rest[1] \in {PLUS, MINUS} THEN Tail(rest) ELSE rest
      cnt == Cardinality({i \in DOMAIN body : \A j \in 1 .. i : body[j] \in Digit})
      number == sign * MapThenSumSet(LAMBDA i : body[i] * 10 ^ (cnt - i), 1 .. cnt)
  IN call.op = "atoi" /\ number \in INT_MIN .. INT_MAX => ret = number
=============================================================================
