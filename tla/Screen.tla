-------------------------------- MODULE Screen --------------------------------
(***************************************************************************)
(* The text screen of VGA.c and the formatted output of stdio.c.  A        *)
(* character is "BS", "TAB", "LF", "NIL" (any other below ' ') or a        *)
(* visible one.  The cursor is two u8; the content of the video memory is  *)
(* not kept.                                                               *)
(***************************************************************************)
EXTENDS Integers, Sequences, SequencesExt

CONSTANTS
  Width,      \* 80 columns
  Height      \* 25 lines

ASSUME ScreenAssumption ==
  Width \in 1..252 /\ Height \in 1..254

u8(n) == n % 256

Cursor(x, y) == [x |-> x, y |-> y]
OnScreen(c) == c.x < Width /\ c.y < Height

(* scroll(): the cursor goes back to the last line. *)
scroll(y) == IF y < Height THEN y ELSE Height - 1

(* A line feed without the return to column 0. *)
NewLine_KeepColumn(c) == Cursor(c.x, scroll(u8(c.y + 1)))

NewLine(c) == Cursor(0, scroll(u8(c.y + 1)))

(* show_char() as a whole.  '\t' sets the high bits where it should clear   *)
(* the low ones: the column is 252 or more, and the next visible character  *)
(* ends the line.                                                           *)
show_char(c, ch) ==
  CASE ch = "BS" -> IF c.x # 0 THEN Cursor(c.x - 1, c.y) ELSE c
    [] ch = "TAB" -> Cursor(252 + (c.x % 4), c.y)
    [] ch = "LF" -> NewLine(c)
    [] ch = "NIL" -> c
    [] OTHER -> IF u8(c.x + 1) >= Width THEN NewLine(c) ELSE Cursor(u8(c.x + 1), c.y)

(* put_raw_string() of a string of characters. *)
put_raw_string(c, s) == FoldLeft(show_char, c, s)

-----------------------------------------------------------------------------
(* put_int(): the digits as they come, lowest first; 0 has one.             *)
buf(num, base) ==
  LET rest[i \in 0..32] == IF i = 0 THEN num ELSE rest[i - 1] \div base
      cnt == IF num = 0 THEN 1 ELSE CHOOSE i \in 1..32 : rest[i] = 0 /\ rest[i - 1] # 0
  IN  [i \in 1..cnt |-> rest[i - 1] % base]

SwapEnds(b, i) == [b EXCEPT ![i + 1] = b[Len(b) - i], ![Len(b) - i] = b[i + 1]]

(* The loop that swaps the ends, for i up to (cnt-1)/2. *)
put_int(num, base) ==
  LET b == buf(num, base)
  IN  FoldLeft(SwapEnds, b, [i \in 1..((Len(b) - 1) \div 2 + 1) |-> i - 1])

(* The number a string of digits stands for. *)
Value(digits, base) == FoldLeft(LAMBDA n, d : n * base + d, 0, digits)

=============================================================================
