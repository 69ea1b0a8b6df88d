------------------------------- MODULE Screen -------------------------------
(***************************************************************************)
(* What the rest of the kernel takes the terminal for: a grid and a        *)
(* cursor (Terminal), a character at a time.  Display shows that vga.c     *)
(* implements it.                                                          *)
(***************************************************************************)
EXTENDS Terminal

CONSTANTS TabWidth,   \* blanks of a tab
          Letters     \* what is printed, besides blanks

VARIABLE t           \* the terminal

\* A tab blanks up to TabWidth cells and stops at the end of the row.
PutTab ==
  LET left == max_cols - (t.at % max_cols)
      n    == IF TabWidth < left THEN TabWidth ELSE left
  IN  t' = scroll([cells |-> [k \in 0..(Area - 1) |->
                                IF k \in t.at..(t.at + n - 1) THEN Blank ELSE t.cells[k]],
                   at    |-> t.at + n])

ScreenInit == t = limpatela

ScreenNext ==
  \/ \E c \in Letters \cup {Blank, NewLine, Erase} : t' = PutChar(t, c)
  \/ PutTab
  \/ \E p \in 0..(Area - 1) : t' = set_cursor_pos(t, p)
  \/ t' = limpatela

ScreenSpec == ScreenInit /\ [][ScreenNext]_t
=============================================================================
