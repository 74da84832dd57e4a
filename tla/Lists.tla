------------------------------- MODULE Lists -------------------------------
(***************************************************************************)
(* What lib/kernel/list.h promises: a list is a sequence of elements, an   *)
(* element is in at most one list, elements are ordered by their key, and  *)
(* what each call returns.  List implements this.                          *)
(***************************************************************************)
EXTENDS Integers, Sequences, FiniteSets, SequencesExt

CONSTANTS Elem, Lst, key, NULL

VARIABLES seq,    \* [Lst -> sequence of its elements]
          call,   \* the last call and its arguments
          result  \* what it returned, NULL for nothing

vars == <<seq, call, result>>

Listed == UNION {Range(seq[l]) : l \in Lst}

\* A position is that of an element, or the end of a list.
End(l) == <<l, "tail">>
Position(l) == Range(seq[l]) \cup {End(l)}
Index(l, p) == IF p = End(l) THEN Len(seq[l]) + 1 ELSE CHOOSE i \in DOMAIN seq[l] : seq[l][i] = p

Sorted(s) == \A i \in 1 .. Len(s) - 1 : key[s[i]] <= key[s[i + 1]]

\* The elements of s by key, those with equal keys in the order of s.
StableSort(s) ==
  SetToSortSeq(Range(s), LAMBDA a, b : \/ key[a] < key[b]
                                       \/ key[a] = key[b]
                                          /\ \E i \in DOMAIN s :
                                               /\ s[i] = a
                                               /\ \E j \in i + 1 .. Len(s) : s[j] = b)

\* Is s[i] equal to the element before it?
Repeated(s, i) == i > 1 /\ key[s[i]] = key[s[i - 1]]
Picked(s, I) == [k \in DOMAIN SetToSortSeq(I, <) |-> s[SetToSortSeq(I, <)[k]]]
Runs(s) == Picked(s, {i \in DOMAIN s : ~Repeated(s, i)})
Repeats(s) == Picked(s, {i \in DOMAIN s : Repeated(s, i)})

-----------------------------------------------------------------------------
(* One action for each function of list.h that changes a list.  Becomes    *)
(* names the call, the new contents of list l and what is returned.        *)

Init == seq = [l \in Lst |-> <<>>] /\ call = <<"init">> /\ result = NULL

Becomes(c, l, s, r) == call' = c /\ seq' = [seq EXCEPT ![l] = s] /\ result' = r

Insert(l, before, e) ==
  /\ e \notin Listed /\ before \in Position(l)
  /\ Becomes(<<"insert", before, e>>, l, InsertAt(seq[l], Index(l, before), e), NULL)
PushFront(l, e) == e \notin Listed /\ Becomes(<<"push_front", l, e>>, l, <<e>> \o seq[l], NULL)
PushBack(l, e) == e \notin Listed /\ Becomes(<<"push_back", l, e>>, l, Append(seq[l], e), NULL)

\* After every element that is not greater.
InsertOrdered(l, e) ==
  /\ e \notin Listed /\ Sorted(seq[l])
  /\ Becomes(<<"insert_ordered", l, e>>, l, StableSort(Append(seq[l], e)), NULL)

\* Returns the position after the element.
Delete(l, e) ==
  LET i == Index(l, e)
  IN  /\ e \in Range(seq[l])
      /\ Becomes(<<"remove", e>>, l, RemoveAt(seq[l], i), Append(seq[l], End(l))[i + 1])
PopFront(l) == seq[l] # <<>> /\ Becomes(<<"pop_front", l>>, l, Tail(seq[l]), Head(seq[l]))
PopBack(l) == seq[l] # <<>> /\ Becomes(<<"pop_back", l>>, l, Front(seq[l]), Last(seq[l]))
Empty(l) == Becomes(<<"init", l>>, l, <<>>, NULL)

\* Elements i .. j - 1 of list l are moved to before a position of list m.
Splice(l, i, j, m, before) ==
  LET moved == SubSeq(seq[l], i, j - 1)
      rest == [seq EXCEPT ![l] = SubSeq(@, 1, i - 1) \o SubSeq(@, j, Len(@))]
      k == Index(m, before)
      at == IF l = m /\ k >= j THEN k - Len(moved) ELSE k
  IN  /\ before \in Position(m) \ Range(moved)
      /\ call' = <<"splice", before, l, i, j>> /\ result' = NULL
      /\ seq' = [rest EXCEPT ![m] = SubSeq(@, 1, at - 1) \o moved \o SubSeq(@, at, Len(@))]

Reversed(l) == Becomes(<<"reverse", l>>, l, Reverse(seq[l]), NULL)
Sort(l) == Becomes(<<"sort", l>>, l, StableSort(seq[l]), NULL)

\* Repeated elements go to the end of list d, if there is one.
Unique(l, d) ==
  /\ call' = <<"unique", l, d>> /\ result' = NULL
  /\ seq' = [m \in Lst |-> IF m = l THEN Runs(seq[l])
                          ELSE IF m = d THEN seq[d] \o Repeats(seq[l]) ELSE seq[m]]

\* The number of smaller elements, or -1 if none equals e; the list is left sorted.
SortedIndex(l, e) ==
  Becomes(<<"sorted_index", l, e>>, l, StableSort(seq[l]),
          IF \E x \in Range(seq[l]) : key[x] = key[e]
          THEN Cardinality({x \in Range(seq[l]) : key[x] < key[e]}) ELSE -1)

Next ==
  \E l \in Lst :
    \/ PopFront(l) \/ PopBack(l) \/ Empty(l) \/ Reversed(l) \/ Sort(l)
    \/ \E e \in Elem :
         \/ PushFront(l, e) \/ PushBack(l, e) \/ InsertOrdered(l, e) \/ Delete(l, e)
         \/ SortedIndex(l, e)
         \/ \E before \in Position(l) : Insert(l, before, e)
    \/ \E d \in (Lst \ {l}) \cup {NULL} : Unique(l, d)
    \/ \E m \in Lst : \E before \in Position(m) :
         \E i \in DOMAIN seq[l] : \E j \in i .. Len(seq[l]) + 1 : Splice(l, i, j, m, before)

Spec == Init /\ [][Next]_vars
=============================================================================
