-------------------------------- MODULE Kbd ---------------------------------
(***************************************************************************)
(* devices/kbd.c: the keyboard interrupt handler turns scan codes into     *)
(* characters for the input buffer.  DOWN is the keyboard itself: the keys *)
(* held down; a held key repeats its press.  A key code with an 0xe0       *)
(* prefix is 0xe000 plus the second byte.  The buffer is a count: Serial   *)
(* has its contents.  The count of keys pressed is left out.               *)
(***************************************************************************)
EXTENDS Naturals, Sequences, FiniteSets

CONSTANTS Keys,   \* the key codes of the keyboard
          Room    \* the characters the input buffer takes

VARIABLES down,       \* the keys held down
          state_var,  \* the shift keys the handler believes to be down
          caps_lock,  \* Caps Lock, and whether it was pressed an odd number of times
          queued,     \* the characters in the input buffer
          last,       \* the last key event: code, release, character put or None
          rebooted    \* shutdown_reboot() was called

vars == <<down, state_var, caps_lock, queued, last, rebooted>>

None == 256
CAPS == 58      \* 0x3a
LSHIFT == 42    \* 0x2a
RSHIFT == 54    \* 0x36
LALT == 56      \* 0x38
RALT == 57400   \* 0xe038
LCTRL == 29     \* 0x1d
RCTRL == 57373  \* 0xe01d
shift_keys == {LSHIFT, RSHIFT, LALT, RALT, LCTRL, RCTRL}

Keymap(first, chars) == [first_scancode |-> first, chars |-> chars]
invariant_keymap ==
  {Keymap(1, <<27>>), Keymap(14, <<8>>), Keymap(15, <<9, 81, 87, 69, 82, 84, 89, 85, 73, 79, 80>>),
   Keymap(28, <<13>>), Keymap(30, <<65, 83, 68, 70, 71, 72, 74, 75, 76>>),
   Keymap(44, <<90, 88, 67, 86, 66, 78, 77>>), Keymap(55, <<42>>), Keymap(57, <<32>>), Keymap(83, <<127>>)}
unshifted_keymap ==
  {Keymap(2, <<49, 50, 51, 52, 53, 54, 55, 56, 57, 48, 45, 61>>), Keymap(26, <<91, 93>>),
   Keymap(39, <<59, 39, 96>>), Keymap(43, <<92>>), Keymap(51, <<44, 46, 47>>)}
shifted_keymap ==
  {Keymap(2, <<33, 64, 35, 36, 37, 94, 38, 42, 40, 41, 95, 43>>), Keymap(26, <<123, 125>>),
   Keymap(39, <<58, 34, 126>>), Keymap(43, <<124>>), Keymap(51, <<60, 62, 63>>)}

Covers(k, code) == code >= k.first_scancode /\ code < k.first_scancode + Len(k.chars)
map_key(map, code) ==
  IF \E k \in map : Covers(k, code)
  THEN LET k == CHOOSE k \in map : Covers(k, code) IN k.chars[code - k.first_scancode + 1]
  ELSE None

tolower(c) == IF c \in 65 .. 90 THEN c + 32 ELSE c

Init == /\ down = {} /\ state_var = {} /\ caps_lock = [on |-> FALSE, odd |-> FALSE]
        /\ queued = 0 /\ last = [code |-> 0, release |-> FALSE, c |-> None] /\ rebooted = FALSE

-----------------------------------------------------------------------------
shift == state_var \cap {LSHIFT, RSHIFT} # {}
alt == state_var \cap {LALT, RALT} # {}
ctrl == state_var \cap {LCTRL, RCTRL} # {}

\* The character of a key before Ctrl, case and Alt.
Mapped(code) ==
  LET c == map_key(invariant_keymap, code)
  IN IF c # None THEN c ELSE map_key(IF shift THEN shifted_keymap ELSE unshifted_keymap, code)

Character(c) ==
  LET cased == IF ctrl /\ c \in 64 .. 95 THEN c - 64 ELSE IF shift = caps_lock.on THEN tolower(c) ELSE c
  IN IF alt THEN cased + 128 ELSE cased

Event(code, release, c) == last' = [code |-> code, release |-> release, c |-> c]

CapsLock(code, release) ==
  /\ caps_lock' = IF release THEN caps_lock ELSE [on |-> ~caps_lock.on, odd |-> ~caps_lock.odd]
  /\ Event(code, release, None)
  /\ UNCHANGED <<state_var, queued, rebooted>>

Ordinary(code, release) ==
  /\ IF release THEN Event(code, release, None) /\ UNCHANGED <<queued, rebooted>>
     ELSE IF Mapped(code) = 127 /\ ctrl /\ alt
     THEN rebooted' = TRUE /\ Event(code, release, None) /\ UNCHANGED queued
     ELSE /\ queued' = IF queued < Room THEN queued + 1 ELSE queued
          /\ Event(code, release, IF queued < Room THEN Character(Mapped(code)) ELSE None)
          /\ UNCHANGED rebooted
  /\ UNCHANGED <<state_var, caps_lock>>

(* Mutant of ShiftKey: a release clears both keys of a pair. *)
ShiftKey_pair(code, release) ==
  /\ state_var' = IF code \notin shift_keys THEN state_var
                  ELSE IF release THEN {k \in state_var : {k, code} \notin {{LSHIFT, RSHIFT}, {LALT, RALT}, {LCTRL, RCTRL}}} \ {code}
                  ELSE state_var \cup {code}
  /\ Event(code, release, None)
  /\ UNCHANGED <<caps_lock, queued, rebooted>>

ShiftKey(code, release) ==
  /\ state_var' = IF code \notin shift_keys THEN state_var
                  ELSE IF release THEN state_var \ {code} ELSE state_var \cup {code}
  /\ Event(code, release, None)
  /\ UNCHANGED <<caps_lock, queued, rebooted>>

keyboard_interrupt(code, release) ==
  /\ ~rebooted
  /\ down' = IF release THEN down \ {code} ELSE down \cup {code}
  /\ IF code = CAPS THEN CapsLock(code, release)
     ELSE IF Mapped(code) # None THEN Ordinary(code, release)
     ELSE ShiftKey(code, release)

Press == \E code \in Keys : keyboard_interrupt(code, FALSE)
Release == \E code \in down : keyboard_interrupt(code, TRUE)

\* A reader takes a character out of the input buffer.
input_getc == /\ queued > 0 /\ ~rebooted
              /\ queued' = queued - 1
              /\ last' = [last EXCEPT !.c = None]
              /\ UNCHANGED <<down, state_var, caps_lock, rebooted>>

Next == Press \/ Release \/ input_getc

Spec == Init /\ [][Next]_vars

-----------------------------------------------------------------------------
Held(keys) == down \cap keys # {}
Letter(code) == code \in 16 .. 25 \/ code \in 30 .. 38 \/ code \in 44 .. 50

(* What a letter key types follows from the keys held down on the          *)
(* keyboard: a control character with either Ctrl, otherwise a capital     *)
(* exactly when just one of Shift and Caps Lock is on, with bit 7 for      *)
(* either Alt.  Both keys of a pair, pressed and released in any order,    *)
(* count until the last one is up.                                         *)
LettersRight ==
  LET upper == map_key(invariant_keymap, last.code)
      c == IF Held({LCTRL, RCTRL}) THEN upper - 64
           ELSE IF Held({LSHIFT, RSHIFT}) # caps_lock.odd THEN upper ELSE upper + 32
  IN last.c # None /\ Letter(last.code) => last.c = c + (IF Held({LALT, RALT}) THEN 128 ELSE 0)

(* "Note that Ctrl overrides Shift." (kbd.c): with Ctrl held down, Shift   *)
(* makes no difference to the character a key types.                       *)
CtrlOverridesShift ==
  last.c # None /\ Held({LCTRL, RCTRL}) /\ map_key(unshifted_keymap, last.code) \in 64 .. 95
    => last.c % 128 = map_key(unshifted_keymap, last.code) - 64
=============================================================================
