----------------------------- MODULE Dictionary -----------------------------
(***************************************************************************)
(* What lib/kernel/hash.h promises of a table: for each key at most one    *)
(* element, and the results of the calls.  Hash implements this.           *)
(***************************************************************************)
EXTENDS Naturals, FiniteSets

CONSTANTS Elem, Key, key, NULL

VARIABLES at,     \* [Key -> the element with that key, or NULL]
          size,   \* what hash_size() returns
          call,   \* the last call and its argument
          result  \* what it returned

vars == <<at, size, call, result>>

Init == /\ at = [k \in Key |-> NULL] /\ size = 0
        /\ call = <<"init", NULL>> /\ result = NULL

Becomes(f) == at' = f /\ size' = Cardinality({k \in Key : f[k] # NULL})

Insert(e) ==
  /\ call' = <<"insert", e>>
  /\ \A k \in Key : at[k] # e
  /\ result' = at[key[e]]
  /\ Becomes(IF at[key[e]] = NULL THEN [at EXCEPT ![key[e]] = e] ELSE at)

Replace(e) ==
  /\ call' = <<"replace", e>>
  /\ \A k \in Key : at[k] # e
  /\ result' = at[key[e]]
  /\ Becomes([at EXCEPT ![key[e]] = e])

Find(e) ==
  /\ call' = <<"find", e>>
  /\ result' = at[key[e]] /\ UNCHANGED <<at, size>>

Delete(e) ==
  /\ call' = <<"delete", e>>
  /\ result' = at[key[e]] /\ Becomes([at EXCEPT ![key[e]] = NULL])

Clear == call' = <<"clear", NULL>> /\ UNCHANGED result /\ Becomes([k \in Key |-> NULL])

Next == Clear \/ \E e \in Elem : Insert(e) \/ Replace(e) \/ Find(e) \/ Delete(e)

Spec == Init /\ [][Next]_vars
=============================================================================
