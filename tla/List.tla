------------------------------- MODULE List --------------------------------
(***************************************************************************)
(* lib/kernel/list.c: doubly linked lists with a head and a tail header.   *)
(* The heap is the pair of functions prev and next on nodes.  Operators    *)
(* named as in the code compute the heap a call leaves, or its result; a   *)
(* loop is a recursive operator.  An action is one call by a client that   *)
(* keeps the rules of list.h: a new element is in no list, a removed one   *)
(* is in some list, and ranges lie within one list.                        *)
(***************************************************************************)
EXTENDS Integers, Sequences, FiniteSets, SequencesExt

CONSTANTS Elem,   \* the list_elem members of the client's structures
          Lst,    \* the client's lists
          key,    \* [Elem -> Nat], what the client's LESS compares
          NULL

VARIABLES prev, next,
          call,   \* the last call and its arguments
          result  \* what it returned, NULL for nothing

vars == <<prev, next, call, result>>

head(l) == <<l, "head">>
tail(l) == <<l, "tail">>
Node == Elem \cup {head(l) : l \in Lst} \cup {tail(l) : l \in Lst}

\* A heap value, and the heap with pointers of some nodes replaced.
Heap == [prev |-> prev, next |-> next]
SetPrev(h, n, v) == [h EXCEPT !.prev[n] = v]
SetNext(h, n, v) == [h EXCEPT !.next[n] = v]

less(a, b) == key[a] < key[b]

is_head(h, n) == h.prev[n] = NULL /\ h.next[n] # NULL
is_interior(h, n) == h.prev[n] # NULL /\ h.next[n] # NULL
is_tail(h, n) == h.prev[n] # NULL /\ h.next[n] = NULL

-----------------------------------------------------------------------------
(* Traversal *)

list_begin(h, l) == h.next[head(l)]
list_end(l) == tail(l)
list_rbegin(h, l) == h.prev[tail(l)]
list_rend(l) == head(l)
list_next(h, n) == h.next[n]
list_prev(h, n) == h.prev[n]
list_empty(h, l) == list_begin(h, l) = list_end(l)
list_front(h, l) == h.next[head(l)]
list_back(h, l) == h.prev[tail(l)]

RECURSIVE SizeFrom(_, _, _)
SizeFrom(h, l, e) ==
  IF e = list_end(l) THEN 0 ELSE 1 + SizeFrom(h, l, list_next(h, e))

list_size(h, l) == SizeFrom(h, l, list_begin(h, l))

-----------------------------------------------------------------------------
(* Insertion and removal *)

list_init(h, l) ==
  SetNext(SetPrev(SetNext(SetPrev(h, head(l), NULL), head(l), tail(l)),
                  tail(l), head(l)), tail(l), NULL)

(* Mutant of list_insert: the previous element still points past ELEM. *)
list_insert_half(h, before, elem) ==
  SetPrev(SetNext(SetPrev(h, elem, h.prev[before]), elem, before), before, elem)

list_insert(h, before, elem) ==
  LET h1 == SetNext(SetPrev(h, elem, h.prev[before]), elem, before)
      h2 == SetNext(h1, h1.prev[before], elem)
  IN  SetPrev(h2, before, elem)

list_splice(h, before, first, last) ==
  IF first = last THEN h
  ELSE LET end == list_prev(h, last)
           h1 == SetNext(h, h.prev[first], h.next[end])
           h2 == SetPrev(h1, h1.next[end], h1.prev[first])
           h3 == SetNext(SetPrev(h2, first, h2.prev[before]), end, before)
           h4 == SetNext(h3, h3.prev[before], first)
       IN  SetPrev(h4, before, end)

(* Mutant of list_push_front: the element goes to the other end. *)
list_push_front_back(h, l, elem) == list_insert(h, list_end(l), elem)

list_push_front(h, l, elem) == list_insert(h, list_begin(h, l), elem)
list_push_back(h, l, elem) == list_insert(h, list_end(l), elem)

list_remove(h, elem) ==
  LET h1 == SetNext(h, h.prev[elem], h.next[elem])
  IN  SetPrev(h1, h1.next[elem], h1.prev[elem])

list_pop_front(h, l) == list_remove(h, list_front(h, l))
list_pop_back(h, l) == list_remove(h, list_back(h, l))

-----------------------------------------------------------------------------
(* Reversal: the links of each element are swapped on the way, then those  *)
(* of the two headers, then the outer links of the first and last element. *)

RECURSIVE SwapLinks(_, _, _)
SwapLinks(h, l, e) ==
  IF e = list_end(l) THEN h
  ELSE LET h1 == SetNext(SetPrev(h, e, h.next[e]), e, h.prev[e])
       IN  SwapLinks(h1, l, h1.prev[e])

(* Mutant of list_reverse: the outer links of the first and last element   *)
(* are left as the walk over the list made them.                           *)
list_reverse_inner(h, l) ==
  IF list_empty(h, l) THEN h
  ELSE LET h1 == SwapLinks(h, l, list_begin(h, l))
       IN  SetPrev(SetNext(h1, head(l), h1.prev[tail(l)]), tail(l), h1.next[head(l)])

list_reverse(h, l) ==
  IF list_empty(h, l) THEN h
  ELSE LET h1 == SwapLinks(h, l, list_begin(h, l))
           h2 == SetPrev(SetNext(h1, head(l), h1.prev[tail(l)]),
                         tail(l), h1.next[head(l)])
           f == h2.next[head(l)]
           b == h2.prev[tail(l)]
       IN  SetNext(SetPrev(h2, f, h2.next[b]), b, h2.prev[f])

-----------------------------------------------------------------------------
(* Sorting *)

RECURSIVE is_sorted_after(_, _, _)
is_sorted_after(h, a, b) ==
  LET n == list_next(h, a)
  IN  IF n = b THEN TRUE
      ELSE ~less(n, list_prev(h, n)) /\ is_sorted_after(h, n, b)

is_sorted(h, a, b) == IF a = b THEN TRUE ELSE is_sorted_after(h, a, b)

RECURSIVE find_end_of_run(_, _, _)
find_end_of_run(h, a, b) ==
  LET n == list_next(h, a)
  IN  IF n # b /\ ~less(n, list_prev(h, n)) THEN find_end_of_run(h, n, b) ELSE n

(* Mutant of TakeFirst: elements of the second run go before equal ones. *)
TakeFirst_unstable(a0, a1b0) == less(a0, a1b0)

\* inplace_merge() leaves the first run's element where it is.
TakeFirst(a0, a1b0) == ~less(a1b0, a0)

RECURSIVE inplace_merge(_, _, _, _)
inplace_merge(h, a0, a1b0, b1) ==
  IF a0 = a1b0 \/ a1b0 = b1 THEN h
  ELSE IF TakeFirst(a0, a1b0) THEN inplace_merge(h, list_next(h, a0), a1b0, b1)
  ELSE LET n == list_next(h, a1b0)
       IN  inplace_merge(list_splice(h, a0, list_prev(h, n), n), a0, n, b1)

\* One pass from a0 on: the heap, and the number of runs it leaves.
RECURSIVE MergePass(_, _, _, _)
MergePass(h, l, a0, output_run_cnt) ==
  IF a0 = list_end(l) THEN [h |-> h, cnt |-> output_run_cnt]
  ELSE LET a1b0 == find_end_of_run(h, a0, list_end(l))
           b1 == find_end_of_run(h, a1b0, list_end(l))
       IN  IF a1b0 = list_end(l) THEN [h |-> h, cnt |-> output_run_cnt + 1]
           ELSE MergePass(inplace_merge(h, a0, a1b0, b1), l, b1, output_run_cnt + 1)

RECURSIVE list_sort(_, _)
list_sort(h, l) ==
  LET pass == MergePass(h, l, list_begin(h, l), 0)
  IN  IF pass.cnt > 1 THEN list_sort(pass.h, l) ELSE pass.h

RECURSIVE OrderedPlace(_, _, _, _)
OrderedPlace(h, l, e, elem) ==
  IF e = list_end(l) \/ less(elem, e) THEN e
  ELSE OrderedPlace(h, l, list_next(h, e), elem)

list_insert_ordered(h, l, elem) ==
  list_insert(h, OrderedPlace(h, l, list_begin(h, l), elem), elem)

\* DUPLICATES may be null.
RECURSIVE UniqueFrom(_, _, _, _)
UniqueFrom(h, l, duplicates, elem) ==
  LET n == list_next(h, elem)
      h1 == list_remove(h, n)
  IN  IF n = list_end(l) THEN h
      ELSE IF less(elem, n) \/ less(n, elem) THEN UniqueFrom(h, l, duplicates, n)
      ELSE UniqueFrom(IF duplicates = NULL THEN h1
                      ELSE list_push_back(h1, duplicates, n), l, duplicates, elem)

list_unique(h, l, duplicates) ==
  IF list_empty(h, l) THEN h ELSE UniqueFrom(h, l, duplicates, list_begin(h, l))

RECURSIVE MaxFrom(_, _, _, _)
MaxFrom(h, l, e, max) ==
  IF e = list_end(l) THEN max
  ELSE MaxFrom(h, l, list_next(h, e), IF less(max, e) THEN e ELSE max)

RECURSIVE LastMaxFrom(_, _, _, _)
LastMaxFrom(h, l, e, max) ==
  IF e = list_end(l) THEN max
  ELSE LastMaxFrom(h, l, list_next(h, e), IF ~less(e, max) THEN e ELSE max)

(* Mutant of list_max: the last of several maxima. *)
list_max_last(h, l) ==
  LET b == list_begin(h, l)
  IN  IF b = list_end(l) THEN b ELSE LastMaxFrom(h, l, list_next(h, b), b)

list_max(h, l) ==
  LET b == list_begin(h, l)
  IN  IF b = list_end(l) THEN b ELSE MaxFrom(h, l, list_next(h, b), b)

RECURSIVE MinFrom(_, _, _, _)
MinFrom(h, l, e, min) ==
  IF e = list_end(l) THEN min
  ELSE MinFrom(h, l, list_next(h, e), IF less(e, min) THEN e ELSE min)

list_min(h, l) ==
  LET b == list_begin(h, l)
  IN  IF b = list_end(l) THEN b ELSE MinFrom(h, l, list_next(h, b), b)

\* The loop of get_sorted_index().
RECURSIVE IndexFrom(_, _, _, _, _)
IndexFrom(h, l, e, target, index) ==
  IF e = list_end(l) THEN -1
  ELSE IF key[target] = key[e] THEN index
  ELSE IndexFrom(h, l, list_next(h, e), target, index + 1)

-----------------------------------------------------------------------------
(* The sequence a list holds, and the one it holds backwards.  The count   *)
(* bounds a walk over links that never reach the other end.                *)

RECURSIVE Walk(_, _, _, _)
Walk(link, n, end, cnt) ==
  IF n = end \/ n = NULL \/ cnt = 0 THEN <<>>
  ELSE <<n>> \o Walk(link, link[n], end, cnt - 1)

Forward(l) == Walk(next, next[head(l)], tail(l), Cardinality(Elem) + 1)
Backward(l) == Walk(prev, prev[tail(l)], head(l), Cardinality(Elem) + 1)

Members(l) == Range(Forward(l))
Unlisted == Elem \ UNION {Members(l) : l \in Lst}

-----------------------------------------------------------------------------
(* Calls *)

\* The call leaves heap h and returns r.
Leaves(c, h, r) == call' = c /\ prev' = h.prev /\ next' = h.next /\ result' = r

Insert(before, e) == Leaves(<<"insert", before, e>>, list_insert(Heap, before, e), NULL)
PushFront(l, e) == Leaves(<<"push_front", l, e>>, list_push_front(Heap, l, e), NULL)
PushBack(l, e) == Leaves(<<"push_back", l, e>>, list_push_back(Heap, l, e), NULL)
InsertOrdered(l, e) ==
  /\ is_sorted(Heap, list_begin(Heap, l), list_end(l))
  /\ Leaves(<<"insert_ordered", l, e>>, list_insert_ordered(Heap, l, e), NULL)
Delete(e) == Leaves(<<"remove", e>>, list_remove(Heap, e), list_next(Heap, e))
PopFront(l) == /\ ~list_empty(Heap, l)
               /\ Leaves(<<"pop_front", l>>, list_pop_front(Heap, l), list_front(Heap, l))
PopBack(l) == /\ ~list_empty(Heap, l)
              /\ Leaves(<<"pop_back", l>>, list_pop_back(Heap, l), list_back(Heap, l))
Empty(l) == Leaves(<<"init", l>>, list_init(Heap, l), NULL)
Reversed(l) == Leaves(<<"reverse", l>>, list_reverse(Heap, l), NULL)
Sort(l) == Leaves(<<"sort", l>>, list_sort(Heap, l), NULL)
Unique(l, duplicates) ==
  Leaves(<<"unique", l, duplicates>>, list_unique(Heap, l, duplicates), NULL)

\* Elements i to j - 1 of list l go before node BEFORE, which is not one of
\* them.
Splice(before, l, i, j) ==
  LET s == Append(Forward(l), tail(l))
  IN  /\ before \notin {s[k] : k \in i .. j - 1}
      /\ Leaves(<<"splice", before, l, i, j>>, list_splice(Heap, before, s[i], s[j]), NULL)

\* Sorts the list by tid and looks for the tid of TARGET.
get_sorted_index(l, target) ==
  LET sorted == list_sort(Heap, l)
  IN  Leaves(<<"sorted_index", l, target>>, sorted,
             IndexFrom(sorted, l, list_begin(sorted, l), target, 0))

Init ==
  /\ prev = [n \in Node |-> IF \E l \in Lst : n = tail(l) THEN head(n[1]) ELSE NULL]
  /\ next = [n \in Node |-> IF \E l \in Lst : n = head(l) THEN tail(n[1]) ELSE NULL]
  /\ call = <<"init">> /\ result = NULL

Next ==
  \/ \E e \in Unlisted :
       \/ \E l \in Lst : PushFront(l, e) \/ PushBack(l, e) \/ InsertOrdered(l, e)
       \/ \E before \in Elem \ Unlisted : Insert(before, e)
  \/ \E e \in Elem \ Unlisted : Delete(e)
  \/ \E l \in Lst, e \in Elem : get_sorted_index(l, e)
  \/ \E l \in Lst :
       \/ PopFront(l) \/ PopBack(l) \/ Empty(l) \/ Reversed(l) \/ Sort(l)
       \/ \E d \in (Lst \ {l}) \cup {NULL} : Unique(l, d)
       \/ \E i \in 1 .. Len(Forward(l)) : \E j \in i .. Len(Forward(l)) + 1 :
            \E before \in (Elem \ Unlisted) \cup {tail(m) : m \in Lst} :
              Splice(before, l, i, j)

Spec == Init /\ [][Next]_vars

-----------------------------------------------------------------------------
(* Properties *)

(* "The symmetry of this arrangement": in every list the links back are    *)
(* the reverse of the links forward, the outer links of the headers are    *)
(* null, and no element is in two lists, after any sequence of calls.      *)
Linked ==
  /\ \A l \in Lst : /\ is_head(Heap, head(l)) /\ is_tail(Heap, tail(l))
                    /\ Backward(l) = Reverse(Forward(l))
                    /\ Members(l) \subseteq Elem
  /\ \A l, m \in Lst : l # m => Members(l) \cap Members(m) = {}

(* Queries agree with the sequence: list_size() counts it, and list_max()  *)
(* and list_min() return the earliest extreme element.                     *)
QueriesAgree ==
  \A l \in Lst :
    LET s == Forward(l)
        First(P(_)) == CHOOSE i \in DOMAIN s : P(i) /\ \A j \in 1 .. i - 1 : ~P(j)
        Largest(i) == \A j \in DOMAIN s : key[s[j]] <= key[s[i]]
        Smallest(i) == \A j \in DOMAIN s : key[s[j]] >= key[s[i]]
    IN  /\ list_size(Heap, l) = Len(s)
        /\ list_empty(Heap, l) <=> s = <<>>
        /\ s # <<>> => /\ list_max(Heap, l) = s[First(Largest)]
                       /\ list_min(Heap, l) = s[First(Smallest)]

(* Every call does to the sequences, and returns, what list.h says of that *)
(* call: the pointer operations implement Lists.  In particular            *)
(* list_sort() is stable, and list_reverse() reverses.                     *)
Contents == [l \in Lst |-> Forward(l)]
Abstract == INSTANCE Lists WITH seq <- Contents
AbstractStep == [Abstract!Next]_(Abstract!vars)
ImplementsLists == Abstract!Spec
=============================================================================
