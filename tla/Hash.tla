-------------------------------- MODULE Hash --------------------------------
(***************************************************************************)
(* lib/kernel/hash.c: a table of buckets whose number follows the number   *)
(* of elements.  A bucket is a list, here the sequence List shows it to    *)
(* be.  rehash() may fail to get memory in any call and then leaves the    *)
(* buckets as they are.  Iterators are only advanced while the table does  *)
(* not change, as hash.h demands.                                          *)
(***************************************************************************)
EXTENDS Naturals, FiniteSets, Sequences, SequencesExt, Bitwise

CONSTANTS Elem, Key,
          key,          \* [Elem -> Key], what the client's LESS compares
          hash,         \* [Key -> Nat], the client's hash function
          MinBuckets,   \* 4 in the code
          BEST_ELEMS_PER_BUCKET,
          NULL

\* What the constants satisfy.
HashAssumption ==
  /\ key \in [Elem -> Key] /\ hash \in [Key -> Nat]
  /\ MinBuckets \in {1, 2, 4} /\ BEST_ELEMS_PER_BUCKET \in Nat \ {0}

VARIABLES buckets,      \* sequences of elements, indexed from 0
          elem_cnt,
          iter,         \* [bucket, pos], pos 0 is the bucket's head; NULL when invalid
          returned,     \* elements hash_next() returned since hash_first()
          call, result  \* the last call, its argument and what it returned

table == <<buckets, elem_cnt>>
vars == <<buckets, elem_cnt, iter, returned, call, result>>

bucket_cnt == Cardinality(DOMAIN buckets)

find_bucket(bs, e) == hash[key[e]] & (Cardinality(DOMAIN bs) - 1)

Equals(bucket, e) == {i \in DOMAIN bucket : key[bucket[i]] = key[e]}

find_elem(bucket, e) ==
  IF Equals(bucket, e) = {} THEN NULL
  ELSE bucket[CHOOSE i \in Equals(bucket, e) : \A j \in Equals(bucket, e) : i <= j]

Without(bucket, e) == SelectSeq(bucket, LAMBDA x : x # e)

-----------------------------------------------------------------------------
(* Resizing *)

turn_off_least_1bit(x) == x & (x - 1)
is_power_of_2(x) == x # 0 /\ turn_off_least_1bit(x) = 0

RECURSIVE PowerOf2Below(_)
PowerOf2Below(n) ==
  IF is_power_of_2(n) THEN n ELSE PowerOf2Below(turn_off_least_1bit(n))

Ideal(cnt) ==
  LET n == cnt \div BEST_ELEMS_PER_BUCKET
  IN  PowerOf2Below(IF n < MinBuckets THEN MinBuckets ELSE n)

EmptyBuckets(n) == [i \in 0 .. n - 1 |-> <<>>]

(* Mutant of Moved: elements keep the index of their old bucket. *)
Moved_same_index(bs, e, old) == [bs EXCEPT ![old % Cardinality(DOMAIN bs)] = <<e>> \o @]

\* list_push_front() on the bucket E has in the new table.
Moved(bs, e, old) == [bs EXCEPT ![find_bucket(bs, e)] = <<e>> \o @]

RECURSIVE MoveAll(_, _, _)
MoveAll(bs, old, i) ==
  IF i = Cardinality(DOMAIN old) THEN bs
  ELSE MoveAll(FoldLeft(LAMBDA b, e : Moved(b, e, i), bs, old[i]), old, i + 1)

Resized(bs, cnt) == MoveAll(EmptyBuckets(Ideal(cnt)), bs, 0)

\* malloc() succeeds or fails.
rehash(bs, cnt) ==
  /\ buckets' \in {bs} \cup (IF Ideal(cnt) = Cardinality(DOMAIN bs) THEN {}
                             ELSE {Resized(bs, cnt)})
  /\ elem_cnt' = cnt
  /\ iter' = NULL /\ returned' = <<>>

-----------------------------------------------------------------------------
(* Calls *)

Present == UNION {Range(buckets[i]) : i \in DOMAIN buckets}

hash_init ==
  /\ buckets = EmptyBuckets(MinBuckets) /\ elem_cnt = 0
  /\ iter = NULL /\ returned = <<>>
  /\ call = <<"init", NULL>> /\ result = NULL

(* Mutant of hash_insert: an equal element is replaced, as hash_replace() does. *)
hash_insert_overwrites(e) ==
  LET b == find_bucket(buckets, e)
      old == find_elem(buckets[b], e)
  IN  /\ e \notin Present
      /\ rehash([buckets EXCEPT ![b] = <<e>> \o Without(@, old)],
                IF old = NULL THEN elem_cnt + 1 ELSE elem_cnt)
      /\ call' = <<"insert", e>> /\ result' = old

hash_insert(e) ==
  LET b == find_bucket(buckets, e)
      old == find_elem(buckets[b], e)
  IN  /\ e \notin Present
      /\ IF old = NULL THEN rehash([buckets EXCEPT ![b] = <<e>> \o @], elem_cnt + 1)
         ELSE rehash(buckets, elem_cnt)
      /\ call' = <<"insert", e>> /\ result' = old

hash_replace(e) ==
  LET b == find_bucket(buckets, e)
      old == find_elem(buckets[b], e)
  IN  /\ e \notin Present
      /\ rehash([buckets EXCEPT ![b] = <<e>> \o Without(@, old)],
                IF old = NULL THEN elem_cnt + 1 ELSE elem_cnt)
      /\ call' = <<"replace", e>> /\ result' = old

hash_find(e) == /\ call' = <<"find", e>>
                /\ result' = find_elem(buckets[find_bucket(buckets, e)], e)
                /\ UNCHANGED <<table, iter, returned>>

hash_delete(e) ==
  LET b == find_bucket(buckets, e)
      found == find_elem(buckets[b], e)
  IN  /\ IF found = NULL THEN UNCHANGED <<table, iter, returned>>
         ELSE rehash([buckets EXCEPT ![b] = Without(@, found)], elem_cnt - 1)
      /\ call' = <<"delete", e>> /\ result' = found

\* Also what is left after hash_destroy() and a new hash_init(), except that
\* hash_clear() keeps the number of buckets.
hash_clear == /\ buckets' = EmptyBuckets(bucket_cnt) /\ elem_cnt' = 0
              /\ iter' = NULL /\ returned' = <<>>
              /\ call' = <<"clear", NULL>> /\ UNCHANGED result

hash_destroy == /\ buckets' = EmptyBuckets(MinBuckets) /\ elem_cnt' = 0
                /\ iter' = NULL /\ returned' = <<>>
                /\ call' = <<"clear", NULL>> /\ UNCHANGED result

hash_first == /\ iter' = [bucket |-> 0, pos |-> 0] /\ returned' = <<>>
              /\ UNCHANGED <<table, call, result>>

(* Mutant of NextBucket: empty buckets end the iteration. *)
NextBucket_adjacent(i) == {j \in DOMAIN buckets : j = i + 1 /\ buckets[j] # <<>>}

\* The buckets where the search for the next element may stop.
NextBucket(i) == {j \in DOMAIN buckets : j > i /\ buckets[j] # <<>>}

hash_next ==
  LET next == NextBucket(iter.bucket)
      there == IF iter.pos < Len(buckets[iter.bucket])
               THEN [bucket |-> iter.bucket, pos |-> iter.pos + 1]
               ELSE IF next = {} THEN [bucket |-> bucket_cnt, pos |-> 0]
               ELSE [bucket |-> CHOOSE j \in next : \A k \in next : j <= k, pos |-> 1]
  IN  /\ iter # NULL /\ iter.bucket < bucket_cnt
      /\ iter' = there
      /\ returned' = IF there.bucket = bucket_cnt THEN returned
                     ELSE Append(returned, buckets[there.bucket][there.pos])
      /\ UNCHANGED <<table, call, result>>

\* The action passed to hash_apply() gets the elements in bucket order.
hash_apply ==
  /\ iter' = [bucket |-> bucket_cnt, pos |-> 0]
  /\ returned' = FlattenSeq([i \in 1 .. bucket_cnt |-> buckets[i - 1]])
  /\ UNCHANGED <<table, call, result>>

Next ==
  \/ \E e \in Elem : hash_insert(e) \/ hash_replace(e) \/ hash_find(e) \/ hash_delete(e)
  \/ hash_clear \/ hash_destroy \/ hash_first \/ hash_next \/ hash_apply

Spec == hash_init /\ [][Next]_vars

-----------------------------------------------------------------------------
(* Properties *)

(* Every element is in the bucket find_bucket() looks into, no two are     *)
(* equal, elem_cnt counts them, and the number of buckets is a power of 2, *)
(* as the mask in find_bucket() needs; also when rehash() could not resize *)
(* the table for any number of calls.                                      *)
BucketsExact ==
  /\ is_power_of_2(bucket_cnt) /\ bucket_cnt >= MinBuckets
  /\ \A i \in DOMAIN buckets : \A j \in DOMAIN buckets[i] :
       find_bucket(buckets, buckets[i][j]) = i
  /\ \A x, y \in Present : key[x] = key[y] => x = y
  /\ elem_cnt = Cardinality(Present)

(* An iteration with hash_next() or hash_apply() returns every element exactly once,       *)
(* whatever the distribution over the buckets.                             *)
IterationComplete ==
  /\ Cardinality(Range(returned)) = Len(returned)
  /\ iter # NULL /\ iter.bucket = bucket_cnt => Range(returned) = Present

(* The calls return what hash.h says and keep at most one element per key: *)
(* the table implements Dictionary.                                        *)
Abstract ==
  INSTANCE Dictionary WITH
    at <- [k \in Key |-> IF \E e \in Present : key[e] = k
                         THEN CHOOSE e \in Present : key[e] = k ELSE NULL],
    size <- elem_cnt
AbstractStep == [Abstract!Next]_(Abstract!vars)
ImplementsDictionary == Abstract!Spec
=============================================================================
