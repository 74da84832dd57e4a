------------------------------- MODULE Ustar --------------------------------
(***************************************************************************)
(* lib/ustar.c: headers of ustar archives, as operators.  A header is a    *)
(* record of fields, a field a sequence of bytes, a C string a sequence    *)
(* without its null byte.  The fields ustar.c always fills in the same way *)
(* and never reads (uid, gid, mtime, owner, device) are the one field REST *)
(* and the mode is its owner's digit. The sizes of the fields and the      *)
(* widths of int and unsigned long are constants: a size field has room    *)
(* for one more bit than unsigned long, which has one more than int.       *)
(***************************************************************************)
EXTENDS Integers, Sequences, SequencesExt

CONSTANTS NameSize,    \* sizeof h->name: 100
          SizeSize,    \* sizeof h->size: 12
          ChksumSize,  \* sizeof h->chksum: 8
          INT_MAX, ULONG_MAX

NUL == 0
SPACE == 32
DOT == 46
SLASH == 47
ZERO == 48
REGULAR == ZERO
DIRECTORY == ZERO + 5

Sum(s) == FoldLeft(LAMBDA x, y : x + y, 0, s)

\* strlcpy() into a field of SIZE zeroed bytes.
strlcpy(s, size) == [i \in 1 .. size |-> IF i <= Len(s) /\ i < size THEN s[i] ELSE NUL]

\* The C string at the start of a field.
CString(field) == LET end == SelectInSeq(field, LAMBDA c : c = NUL)
                  IN IF end = 0 THEN field ELSE SubSeq(field, 1, end - 1)

\* snprintf() with "%0no" into a field of n + 1 bytes.
Octal(value, size) ==
  [i \in 1 .. size |-> IF i = size THEN NUL ELSE ZERO + ((value \div (8 ^ (size - 1 - i))) % 8)]

-----------------------------------------------------------------------------
(* Mutant of calculate_chksum: the spaces cover one byte more, the type. *)
calculate_chksum_long(h) ==
  Sum(h.name \o h.mode \o h.size \o h.magic \o h.version \o h.prefix \o h.rest) + (ChksumSize + 1) * SPACE

calculate_chksum(h) ==
  Sum(h.name \o h.mode \o h.size \o h.typeflag \o h.magic \o h.version \o h.prefix \o h.rest)
  + ChksumSize * SPACE

Antisocial == {<<SLASH>>, <<DOT, SLASH>>, <<DOT, DOT, SLASH>>}

\* The loop: each round drops everything up to the first slash.
RECURSIVE StripPrefixes(_)
StripPrefixes(name) ==
  IF \E p \in Antisocial : IsPrefix(p, name)
  THEN StripPrefixes(SubSeq(name, SelectInSeq(name, LAMBDA c : c = SLASH) + 1, Len(name)))
  ELSE name

(* Mutant of strip_antisocial_prefixes: a name that was all prefixes stays. *)
strip_antisocial_prefixes_only(name) == StripPrefixes(name)

strip_antisocial_prefixes(name) ==
  LET left == StripPrefixes(name) IN IF left \in {<<>>, <<DOT, DOT>>} THEN <<DOT>> ELSE left

WithChksum(h) == [h EXCEPT !.chksum = Octal(calculate_chksum(h), ChksumSize)]

\* A header with the given name field.
Header(name, type, size) ==
  WithChksum([name |-> name, mode |-> Octal(IF type = REGULAR THEN 6 ELSE 7, 2), size |-> Octal(size, SizeSize),
              chksum |-> [i \in 1 .. ChksumSize |-> NUL], typeflag |-> <<type>>, magic |-> <<117, 115, NUL>>,
              version |-> <<ZERO, ZERO>>, prefix |-> <<NUL>>, rest |-> <<114>>])

\* No header: the name is too long.
NoHeader == [error |-> "file name too long"]

(* Mutant of ustar_make_header: a name may fill its field. *)
ustar_make_header_full(file_name, type, size) ==
  LET name == strip_antisocial_prefixes(file_name)
  IN IF Len(name) > NameSize THEN NoHeader ELSE Header(strlcpy(name, NameSize), type, size)

ustar_make_header(file_name, type, size) ==
  LET name == strip_antisocial_prefixes(file_name)
  IN IF Len(name) > NameSize - 1 THEN NoHeader ELSE Header(strlcpy(name, NameSize), type, size)

-----------------------------------------------------------------------------
Bad == -1

(* Mutant of parse_octal_field: the value wraps around. *)
parse_octal_field_wrapping(s) ==
  LET end == SelectInSeq(s, LAMBDA c : c \notin ZERO .. ZERO + 7)
      value[i \in 0 .. end - 1] ==
        IF i = 0 THEN 0 ELSE ((s[i] - ZERO + value[i - 1] * 8) % (ULONG_MAX + 1))
  IN IF end \in {0, 1} \/ s[end] \notin {SPACE, NUL} THEN Bad ELSE value[end - 1]

\* VALUE[i]: *value after i digits, Bad once it would overflow.
parse_octal_field(s) ==
  LET end == SelectInSeq(s, LAMBDA c : c \notin ZERO .. ZERO + 7)
      value[i \in 0 .. end - 1] ==
        IF i = 0 THEN 0
        ELSE IF value[i - 1] = Bad \/ value[i - 1] > ULONG_MAX \div 8 THEN Bad
        ELSE s[i] - ZERO + value[i - 1] * 8
  IN IF end \in {0, 1} \/ s[end] \notin {SPACE, NUL} THEN Bad ELSE value[end - 1]

is_all_zeros(h) == \A f \in DOMAIN h : \A i \in DOMAIN h[f] : h[f][i] = NUL

Failed(message) == [error |-> message]
Parsed(name, type, size) == [file_name |-> name, type |-> type, size |-> size]
EOF == Parsed(<<>>, "EOF", 0)

ustar_parse_header(h) ==
  LET size == IF h.typeflag = <<REGULAR>> THEN parse_octal_field(h.size) ELSE 0
  IN IF is_all_zeros(h) THEN EOF
     ELSE IF h.magic # <<117, 115, NUL>> THEN Failed("not a ustar archive")
     ELSE IF h.version # <<ZERO, ZERO>> THEN Failed("invalid ustar version")
     ELSE IF parse_octal_field(h.chksum) = Bad THEN Failed("corrupt chksum field")
     ELSE IF parse_octal_field(h.chksum) # calculate_chksum(h) THEN Failed("checksum mismatch")
     ELSE IF h.name[NameSize] # NUL \/ h.prefix[1] # NUL THEN Failed("file name too long")
     ELSE IF h.typeflag \notin {<<REGULAR>>, <<DIRECTORY>>} THEN Failed("unimplemented file type")
     ELSE IF size = Bad THEN Failed("corrupt file size field")
     ELSE IF size > INT_MAX THEN Failed("file too large")
     ELSE Parsed(strip_antisocial_prefixes(CString(h.name)),
                 IF h.typeflag = <<REGULAR>> THEN "regular" ELSE "directory", size)
=============================================================================
