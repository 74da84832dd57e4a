---------------------------- MODULE UstarHeader -----------------------------
(***************************************************************************)
(* A ustar header on its way: ustar_make_header() or another tar writes    *)
(* it, the medium may change a byte of it, ustar_parse_header() reads it.  *)
(***************************************************************************)
EXTENDS Ustar

CONSTANTS FileNames,  \* names, as sequences of bytes
          Sizes,      \* sizes that fit the size field
          Bytes,      \* what a changed byte may become
          Types       \* type flags another tar writes

VARIABLES header,  \* the header
          origin   \* who wrote it, from what, and whether a byte of it changed since

vars == <<header, origin>>

None == [by |-> "none", name |-> <<>>, type |-> REGULAR, size |-> 0, changed |-> FALSE]
Origin(by, name, type, size) ==
  [by |-> by, name |-> name, type |-> type, size |-> size, changed |-> FALSE]

Init == header = NoHeader /\ origin = None

Make == /\ origin.by = "none"
        /\ \E name \in FileNames, type \in {REGULAR, DIRECTORY}, size \in Sizes :
             /\ size <= INT_MAX
             /\ header' = ustar_make_header(name, type, size)
             /\ origin' = Origin("pintos", name, type, size)

\* Another tar keeps the name as it is, and fills the name field to the end.
Foreign == /\ origin.by = "none"
           /\ \E name \in FileNames, type \in Types, size \in Sizes :
                /\ Len(name) <= NameSize
                /\ header' = Header([i \in 1 .. NameSize |-> IF i <= Len(name) THEN name[i] ELSE NUL],
                                    type, size)
                /\ origin' = Origin("other", name, type, size)

\* The medium changes one byte.
Change == /\ origin.by # "none" /\ ~origin.changed /\ header # NoHeader
          /\ \E f \in DOMAIN header : \E i \in DOMAIN header[f], b \in Bytes :
               /\ header[f][i] # b
               /\ header' = [header EXCEPT ![f][i] = b]
          /\ origin' = [origin EXCEPT !.changed = TRUE]

Next == Make \/ Foreign \/ Change

Spec == Init /\ [][Next]_vars

-----------------------------------------------------------------------------
\* Suffixes of NAME that start it or follow a slash of it.
Tails(name) == {SubSeq(name, i + 1, Len(name)) : i \in {0} \cup {j \in DOMAIN name : name[j] = SLASH}}
Climbing(name) == \/ name \in {<<>>, <<DOT, DOT>>}
                  \/ \E p \in Antisocial : IsPrefix(p, name)

(* The name that strip_antisocial_prefixes() leaves is never empty, never  *)
(* starts at the root and never climbs; and it is the longest such tail of *)
(* the given name, or "." when there is none.                              *)
StrippedRight ==
  LET good == {t \in Tails(origin.name) : ~Climbing(t)}
      left == strip_antisocial_prefixes(origin.name)
  IN /\ ~Climbing(left)
     /\ IF \E p \in Antisocial : IsPrefix(p, origin.name)
        THEN IF good = {} THEN left = <<DOT>>
             ELSE left \in good /\ \A t \in good : Len(t) <= Len(left)
        ELSE left = IF Climbing(origin.name) THEN <<DOT>> ELSE origin.name

Type(flag) == IF flag = REGULAR THEN "regular" ELSE "directory"
Read == ustar_parse_header(header)

(* What ustar_make_header() writes, ustar_parse_header() reads back: the   *)
(* stripped name, the type, and the size of a regular file.  Only a name   *)
(* that does not fit is refused.                                           *)
RoundTrip ==
  origin.by = "pintos" /\ ~origin.changed =>
    LET name == strip_antisocial_prefixes(origin.name)
    IN IF Len(name) >= NameSize THEN header = NoHeader
       ELSE Read = Parsed(name, Type(origin.type), IF origin.type = REGULAR THEN origin.size ELSE 0)

(* A header of another tar is refused, or read with the size it states:    *)
(* ustar_parse_header() never takes a size that does not fit an int for a  *)
(* smaller one.                                                            *)
ForeignRight ==
  origin.by = "other" /\ ~origin.changed =>
    IF origin.type \notin {REGULAR, DIRECTORY} \/ Len(origin.name) = NameSize
       \/ (origin.type = REGULAR /\ origin.size > INT_MAX)
    THEN "error" \in DOMAIN Read
    ELSE Read = Parsed(strip_antisocial_prefixes(origin.name), Type(origin.type),
                       IF origin.type = REGULAR THEN origin.size ELSE 0)

(* One changed byte never turns a header into that of a different file:    *)
(* calculate_chksum() finds it, or the header reads as before.             *)
Detected == origin'.changed /\ ~origin.changed => "error" \in DOMAIN Read' \/ Read' = Read
ChangeDetected == [][Detected]_vars
=============================================================================
