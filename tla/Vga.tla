-------------------------------- MODULE Vga --------------------------------
(***************************************************************************)
(* devices/vga.c and devices/speaker.c: characters on the text display.    *)
(* vga_putc() runs with interrupts off, except that it lets them through   *)
(* while the speaker beeps, when others may write.  Beside the display the *)
(* model keeps the endless page that was printed: the screen must show its *)
(* end.  A cell is a letter or Blank; colours are left out.                *)
(***************************************************************************)
EXTENDS Integers, Sequences

CONSTANTS COL_CNT, ROW_CNT, Tab,  \* 80, 25 and 8
          Byte,                   \* 256, the values of half a cursor register
          Letter, Blank,
          MaxChars                \* bound on the characters printed

Controls == {"LF", "FF", "BS", "CR", "HT"}

VARIABLES fb,       \* the rows of the screen
          cx, cy, inited,
          cursor,   \* the hardware's cursor: high and low byte
          beeping,  \* how many calls are in speaker_beep()
          gate,     \* the speaker is on
          page,     \* the rows of the page
          printed   \* how many characters were printed

vars == <<fb, cx, cy, inited, cursor, beeping, gate, page, printed>>

EmptyRow == [x \in 0 .. COL_CNT - 1 |-> Blank]

\* The cursor is where the loader left it.
Init ==
  /\ fb = [y \in 0 .. ROW_CNT - 1 |-> EmptyRow] /\ page = [y \in 1 .. ROW_CNT |-> EmptyRow]
  /\ cx = 0 /\ cy = 0 /\ inited = FALSE
  /\ \E cp \in 0 .. COL_CNT * ROW_CNT - 1 : cursor = [hi |-> cp \div Byte, lo |-> cp % Byte]
  /\ beeping = 0 /\ gate = FALSE /\ printed = 0

-----------------------------------------------------------------------------
find_cursor == LET cp == cursor.hi * Byte + cursor.lo IN [x |-> cp % COL_CNT, y |-> cp \div COL_CNT]

\* init(): where the first character goes.
Start == IF inited THEN [x |-> cx, y |-> cy] ELSE find_cursor

(* Mutant of move_cursor: only the low byte is written. *)
move_cursor_low(x, y) == [cursor EXCEPT !.lo = (x + COL_CNT * y) % Byte]

move_cursor(x, y) == [hi |-> (x + COL_CNT * y) \div Byte, lo |-> (x + COL_CNT * y) % Byte]

Put(rows, x, y, c) == [rows EXCEPT ![y][x] = c]

(* Mutant of scrolled: the last row keeps its text. *)
scrolled_uncleared(rows) ==
  [y \in 0 .. ROW_CNT - 1 |-> IF y = ROW_CNT - 1 THEN rows[y] ELSE rows[y + 1]]

scrolled(rows) == [y \in 0 .. ROW_CNT - 1 |-> IF y = ROW_CNT - 1 THEN EmptyRow ELSE rows[y + 1]]

\* newline(), from row y of the given screen.
newline(rows, y) ==
  IF y + 1 >= ROW_CNT THEN [fb |-> scrolled(rows), x |-> 0, y |-> ROW_CNT - 1]
  ELSE [fb |-> rows, x |-> 0, y |-> y + 1]

cls == [fb |-> [y \in 0 .. ROW_CNT - 1 |-> EmptyRow], x |-> 0, y |-> 0]

\* A new column, or a new line when it is past the last one.
Column(rows, x, y) == IF x >= COL_CNT THEN newline(rows, y) ELSE [fb |-> rows, x |-> x, y |-> y]

\* The switch of vga_putc().
Shown(c, x, y) ==
  CASE c = "LF" -> newline(fb, y)
    [] c = "FF" -> cls
    [] c = "BS" -> [fb |-> fb, x |-> IF x > 0 THEN x - 1 ELSE x, y |-> y]
    [] c = "CR" -> [fb |-> fb, x |-> 0, y |-> y]
    [] c = "HT" -> Column(fb, ((x + Tab) \div Tab) * Tab, y)
    [] c \in Letter -> Column(Put(fb, x, y, c), x + 1, y)

-----------------------------------------------------------------------------
\* The page: its last ROW_CNT rows are on the screen.  A character leaves the
\* column, and goes down a line when it ends one; a form feed starts a new
\* page, and no other one loses what is printed.
Ends(c, x) == c = "LF" \/ (c \in Letter /\ x = COL_CNT - 1)
                       \/ (c = "HT" /\ \A stop \in x + 1 .. COL_CNT - 1 : stop % Tab # 0)
Printed(c, x, y) ==
  LET line == Len(page) - ROW_CNT + y + 1
      text == IF c \in Letter THEN [page EXCEPT ![line][x] = c] ELSE page
  IN IF c = "FF" THEN [k \in 1 .. ROW_CNT |-> EmptyRow]
     ELSE IF Ends(c, x) /\ line = Len(page) THEN Append(text, EmptyRow) ELSE text

vga_putc(c) ==
  LET s == Shown(c, Start.x, Start.y) IN
  /\ printed < MaxChars /\ printed' = printed + 1
  /\ fb' = s.fb /\ cx' = s.x /\ cy' = s.y /\ inited' = TRUE
  /\ cursor' = move_cursor(s.x, s.y)
  /\ page' = Printed(c, Start.x, Start.y)
  /\ UNCHANGED <<beeping, gate>>

speaker_on == gate' = TRUE
speaker_off == gate' = FALSE

\* vga_putc('\a') up to the sleep of speaker_beep(); with interrupts off, as
\* on says, there is no beep.
bell(on) ==
  /\ printed < MaxChars /\ printed' = printed + 1
  /\ cx' = Start.x /\ cy' = Start.y /\ inited' = TRUE
  /\ IF on THEN beeping' = beeping + 1 /\ speaker_on /\ UNCHANGED cursor
     ELSE cursor' = move_cursor(Start.x, Start.y) /\ UNCHANGED <<beeping, gate>>
  /\ UNCHANGED <<fb, page>>

beep_ends ==
  /\ beeping > 0
  /\ beeping' = beeping - 1 /\ speaker_off
  /\ cursor' = move_cursor(cx, cy)
  /\ UNCHANGED <<fb, cx, cy, inited, page, printed>>

Done == printed = MaxChars /\ beeping = 0 /\ UNCHANGED vars

Next == \/ \E c \in Letter \cup Controls : vga_putc(c)
        \/ \E on \in BOOLEAN : bell(on)
        \/ beep_ends \/ Done

Spec == Init /\ [][Next]_vars

-----------------------------------------------------------------------------
(* The screen always shows the end of what was printed: vga_putc() wraps   *)
(* and scrolls without losing, repeating or leaving text behind.           *)
ScreenShowsPage ==
  \A y \in 0 .. ROW_CNT - 1 : fb[y] = page[Len(page) - ROW_CNT + y + 1]

(* The hardware's cursor is where the next character goes, inside the      *)
(* screen, also after others have written while the speaker beeped.        *)
CursorShown ==
  inited => /\ cx \in 0 .. COL_CNT - 1 /\ cy \in 0 .. ROW_CNT - 1
            /\ cursor.hi * Byte + cursor.lo = cx + COL_CNT * cy
=============================================================================
