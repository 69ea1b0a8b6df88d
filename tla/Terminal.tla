------------------------------ MODULE Terminal ------------------------------
(***************************************************************************)
(* The text terminal of src/src/vga.c: a grid of max_cols x max_rows cells *)
(* (tela_chars) and a cursor.  A terminal is a record [cells, at]: cells   *)
(* is indexed by the linear position cursor_y * max_cols + cursor_x that   *)
(* the code computes, and at is the cursor's.  Colours, glyphs and the     *)
(* difference between VGA memory and the framebuffer are left out.         *)
(***************************************************************************)
EXTENDS Naturals, Sequences

CONSTANTS max_cols, max_rows
ASSUME GridAssumption ==
  max_cols \in Nat \ {0} /\ max_rows \in Nat \ {0}

Blank   == " "
NewLine == "\n"
Erase   == "<-"      \* the backspace character

Area     == max_cols * max_rows
LastRow  == (max_rows - 1) * max_cols
RowOf(p) == p \div max_cols

\* One row up when the cursor has left the grid; the cursor comes up with it.
scroll(t) ==
  IF t.at < Area
  THEN t
  ELSE [cells |-> [k \in 0..(Area - 1) |->
                     IF k < LastRow THEN t.cells[k + max_cols] ELSE Blank],
        at |-> t.at - max_cols]

PutChar(t, c) ==
  IF c = NewLine
  THEN scroll([t EXCEPT !.at = (RowOf(@) + 1) * max_cols])
  ELSE IF c = Erase
  THEN LET p == IF t.at > 0 THEN t.at - 1 ELSE 0
       IN  [cells |-> [t.cells EXCEPT ![p] = Blank], at |-> p]
  ELSE scroll([cells |-> [t.cells EXCEPT ![t.at] = c], at |-> t.at + 1])

\* The terminal after none, one, ... all the characters of msg.
Printing(t, msg) ==
  LET shown[n \in 0..Len(msg)] ==
        IF n = 0 THEN t ELSE PutChar(shown[n - 1], msg[n])
  IN  shown

print(t, msg) == Printing(t, msg)[Len(msg)]

\* print(msg) starting at t.at leaves the last row.
Scrolls(t, msg) == t.at + Len(msg) >= Area

limpatela == [cells |-> [k \in 0..(Area - 1) |-> Blank], at |-> 0]

\* set_cursor_pos clips the row: from the last cell the cursor wraps to the
\* start of the row it is already on.
StepRight(p) == IF p + 1 = Area THEN LastRow ELSE p + 1

set_cursor_pos(t, p) == [t EXCEPT !.at = p]

\* n calls of movback, and n of movfront.
movback(t, n)  == [t EXCEPT !.at = IF n <= @ THEN @ - n ELSE 0]
Stepping(p, n) ==
  LET at[k \in 0..n] == IF k = 0 THEN p ELSE StepRight(at[k - 1])
  IN  at

movfront(t, n) == [t EXCEPT !.at = Stepping(@, n)[n]]
=============================================================================
