------------------------------ MODULE Display -------------------------------
(***************************************************************************)
(* The terminal as src/src/vga.c draws it (482-525, 874-1055): the cells   *)
(* in memory, what the user sees of them, and the cursor, drawn into the   *)
(* framebuffer by hand or kept by the CRT controller in text mode.  While  *)
(* a text is printed the framebuffer lags behind once it has scrolled: the *)
(* screen is drawn again at the end of the text.                           *)
(***************************************************************************)
EXTENDS Integers, FiniteSets

CONSTANTS max_cols, max_rows,   \* the geometry
          TabWidth,             \* 4
          Letters, Colours      \* characters besides the blank, and colours
ASSUME DisplayAssumption ==
  /\ {max_cols, max_rows, TabWidth} \subseteq Nat \ {0} /\ Colours # {}
  /\ Letters \cap {"\n", "<-"} = {}     \* print takes those for NewLine and Backspace

Blank == " "
Chars == Letters \cup {Blank}
Cols == 0..(max_cols - 1)
Rows == 0..(max_rows - 1)
Cells == Rows \X Cols            \* <<y, x>>

VARIABLES
  usar_framebuffer,  \* chosen at boot; VGA text mode if not
  tela,              \* tela_chars and tela_cores: <<character, colour>>
  cursor_x, cursor_y,
  setcolor,
  fb_batch_redraw,   \* cells are stored without being drawn
  desenhado,         \* where the cursor is drawn; NoCell when it is not
  seen,              \* what a cell of the screen shows: <<character, colour,
                     \* underlined>>; a dark cell has no colour
  crtc,              \* the CRT controller's cursor, in text mode
  cxcy,              \* cursor_x_str and cursor_y_str
  printing           \* inside print

vars == <<usar_framebuffer, tela, cursor_x, cursor_y, setcolor, fb_batch_redraw,
          desenhado, seen, crtc, cxcy, printing>>

NoCell == <<-1, -1>>
Dark == "dark"

\* What desenha_celula makes of a cell.
Look(ch, colour, underlined) ==
  <<ch, IF ch = Blank /\ ~underlined THEN Dark ELSE colour, underlined>>

Drawn(s, cell, t, underlined) ==
  [s EXCEPT ![cell] = Look(t[cell][1], t[cell][2], underlined)]

-----------------------------------------------------------------------------
(* The cursor.                                                              *)

\* limpa_cursor_desenhado.
WithoutCursor(s, t) ==
  IF usar_framebuffer /\ desenhado \in Cells THEN Drawn(s, desenhado, t, FALSE) ELSE s

\* cursor(), given the cells, what is seen of them, and where it goes.
cursor(t, s, y, x) ==
  /\ seen' = IF usar_framebuffer THEN Drawn(WithoutCursor(s, t), <<y, x>>, t, TRUE) ELSE s
  /\ desenhado' = IF usar_framebuffer THEN <<y, x>> ELSE desenhado
  /\ crtc' = IF usar_framebuffer THEN crtc ELSE y * max_cols + x
  /\ cxcy' = <<x, y>>

Clip(v, n) == IF v < 0 THEN 0 ELSE IF v >= n THEN n - 1 ELSE v

set_cursor_pos(x, y) ==
  /\ ~printing
  /\ cursor_x' = Clip(x, max_cols) /\ cursor_y' = Clip(y, max_rows)
  /\ cursor(tela, seen, cursor_y', cursor_x')
  /\ UNCHANGED <<tela, setcolor, fb_batch_redraw, printing>>

cor(c) ==
  /\ ~printing /\ setcolor' = c
  /\ UNCHANGED <<tela, cursor_x, cursor_y, fb_batch_redraw, desenhado, seen, crtc, cxcy, printing>>

\* limpatela: the framebuffer is zeroed, text memory filled with blanks.
limpatela ==
  /\ ~printing
  /\ tela' = [c \in Cells |-> <<Blank, setcolor>>]
  /\ cursor_x' = 0 /\ cursor_y' = 0
  /\ LET dark == [c \in Cells |-> Look(Blank, setcolor, FALSE)]
     IN  IF usar_framebuffer
         THEN /\ seen' = Drawn(dark, <<0, 0>>, tela', TRUE)
              /\ desenhado' = <<0, 0>> /\ cxcy' = <<0, 0>> /\ UNCHANGED crtc
         ELSE cursor(tela', dark, 0, 0)
  /\ UNCHANGED <<setcolor, fb_batch_redraw, printing>>

\* After the boot has cleared the screen.
Init ==
  /\ usar_framebuffer \in BOOLEAN
  /\ setcolor \in Colours /\ tela = [c \in Cells |-> <<Blank, setcolor>>]
  /\ cursor_x = 0 /\ cursor_y = 0 /\ fb_batch_redraw = FALSE /\ printing = FALSE
  /\ desenhado = IF usar_framebuffer THEN <<0, 0>> ELSE NoCell
  /\ seen = [c \in Cells |-> Look(Blank, setcolor, usar_framebuffer /\ c = <<0, 0>>)]
  /\ crtc = 0 /\ cxcy = <<0, 0>>

-----------------------------------------------------------------------------
(* print, a character at a time.                                            *)

BeginPrint ==
  /\ ~printing /\ printing' = TRUE /\ fb_batch_redraw' = FALSE
  /\ seen' = WithoutCursor(seen, tela)
  /\ desenhado' = NoCell
  /\ UNCHANGED <<tela, cursor_x, cursor_y, setcolor, crtc, cxcy>>

\* grava_celula of the cells in `where`: stored, and drawn unless the screen is
\* going to be drawn again anyway.
Stored(where, ch) ==
  [c \in Cells |-> IF c \in where THEN <<ch, setcolor>> ELSE tela[c]]

Shown(where, ch) ==
  IF usar_framebuffer /\ fb_batch_redraw THEN seen
  ELSE [c \in Cells |-> IF c \in where THEN Look(ch, setcolor, FALSE) ELSE seen[c]]

\* scroll_linhas(1), the cells t and what is seen of them s: text memory moves
\* along, the framebuffer waits.
ScrolledCells(t) ==
  [c \in Cells |-> IF c[1] + 1 \in Rows THEN t[<<c[1] + 1, c[2]>>] ELSE <<Blank, setcolor>>]

ScrolledSight(s, t) ==
  IF usar_framebuffer THEN s
  ELSE [c \in Cells |-> Look(ScrolledCells(t)[c][1], ScrolledCells(t)[c][2], FALSE)]

\* The end of an iteration: the cursor has come to row y, column x; the row
\* after the last one scrolls the screen.
Arrive(t, s, y, x) ==
  LET y1 == IF x >= max_cols THEN y + 1 ELSE y
      x1 == IF x >= max_cols THEN 0 ELSE x
  IN  /\ cursor_x' = x1
      /\ IF y1 >= max_rows
         THEN /\ tela' = ScrolledCells(t) /\ seen' = ScrolledSight(s, t)
              /\ fb_batch_redraw' = usar_framebuffer
              /\ cursor_y' = y1 - 1
         ELSE /\ tela' = t /\ seen' = s /\ cursor_y' = y1
              /\ UNCHANGED fb_batch_redraw
      /\ UNCHANGED <<setcolor, desenhado, crtc, cxcy, printing>>

PutChar(ch) ==
  /\ printing
  /\ Arrive(Stored({<<cursor_y, cursor_x>>}, ch), Shown({<<cursor_y, cursor_x>>}, ch),
            cursor_y, cursor_x + 1)

NewLine == printing /\ Arrive(tela, seen, cursor_y + 1, 0)

\* Fault: a backspace at the start of a row stays there.
Before_SameRow(y, x) == <<y, IF x > 0 THEN x - 1 ELSE 0>>

\* The cell before, on the row above at the start of a row.
Before(y, x) ==
  IF x > 0 THEN <<y, x - 1>> ELSE IF y > 0 THEN <<y - 1, max_cols - 1>> ELSE <<y, x>>

Backspace ==
  /\ printing
  /\ LET b == Before(cursor_y, cursor_x)
     IN  Arrive(Stored({b}, Blank), Shown({b}, Blank), b[1], b[2])

\* Up to TabWidth blanks, none on the next row.
Tab ==
  /\ printing
  /\ LET w == {<<cursor_y, x>> : x \in {c \in cursor_x..(cursor_x + TabWidth - 1) : c < max_cols}}
     IN  Arrive(Stored(w, Blank), Shown(w, Blank), cursor_y, cursor_x + Cardinality(w))

\* Fault: the screen is not drawn again after it scrolled.
Redrawn_Not == seen

\* redesenha_tela.
Redrawn ==
  IF usar_framebuffer /\ fb_batch_redraw
  THEN [c \in Cells |-> Look(tela[c][1], tela[c][2], FALSE)]
  ELSE seen

EndPrint ==
  /\ printing /\ printing' = FALSE /\ fb_batch_redraw' = FALSE
  /\ cursor(tela, Redrawn, cursor_y, cursor_x)
  /\ UNCHANGED <<tela, cursor_x, cursor_y, setcolor>>

\* movback and movfront call set_cursor_pos one cell beside the grid at most.
Step ==
  \/ \E x \in -1..max_cols, y \in -1..max_rows : set_cursor_pos(x, y)
  \/ \E c \in Colours : cor(c)
  \/ limpatela
  \/ BeginPrint \/ EndPrint
  \/ \E ch \in Chars : PutChar(ch)
  \/ NewLine \/ Backspace \/ Tab

Next == Step /\ UNCHANGED usar_framebuffer

Spec == Init /\ [][Next]_vars

-----------------------------------------------------------------------------
(* Properties.                                                              *)
\* Inside print nothing lags behind but a framebuffer that has scrolled, and
\* there is no cursor to be overwritten, moved or left behind.
LagsOnlyAfterScroll ==
  /\ \A c \in Cells : ~seen[c][3]
  /\ ~fb_batch_redraw => \A c \in Cells : seen[c] = Look(tela[c][1], tela[c][2], FALSE)

\* Outside print the screen shows the cells, and one cursor, where it is; cx and
\* cy say where.  The cursor that is drawn is the one that will be taken off
\* (vga.c, 482-525, 874-1014).
ScreenShowsCells ==
  IF printing THEN LagsOnlyAfterScroll
  ELSE /\ \A y \in Rows, x \in Cols :
            LET here == y = cursor_y /\ x = cursor_x
            IN  seen[<<y, x>>] = Look(tela[<<y, x>>][1], tela[<<y, x>>][2],
                                      here /\ usar_framebuffer)
       /\ IF usar_framebuffer THEN desenhado = <<cursor_y, cursor_x>>
          ELSE crtc = cursor_y * max_cols + cursor_x
       /\ cxcy = <<cursor_x, cursor_y>> /\ ~fb_batch_redraw

\* Type invariant.
TypeOK ==
  /\ usar_framebuffer \in BOOLEAN /\ printing \in BOOLEAN
  /\ tela \in [Cells -> Chars \X Colours] /\ DOMAIN seen = Cells
  /\ cursor_x \in Cols /\ cursor_y \in Rows /\ setcolor \in Colours
  /\ desenhado \in Cells \cup {NoCell}

\* The inductive invariant behind ScreenShowsCells: while a text is printed no
\* cursor is drawn anywhere, and only a framebuffer waits to be drawn again.
DisplayInv ==
  /\ TypeOK /\ ScreenShowsCells
  /\ printing => desenhado = NoCell
  /\ fb_batch_redraw \in {FALSE, usar_framebuffer}

\* The grid and the cursor, by linear position.
terminal ==
  [cells |-> [p \in 0..(max_cols * max_rows - 1) |->
                tela[<<p \div max_cols, p % max_cols>>][1]],
   at    |-> cursor_y * max_cols + cursor_x]

Abstract == INSTANCE Screen WITH t <- terminal

\* vga.c implements the terminal the rest of the kernel, and LineEditor, go by:
\* every step of print is one character of it.
IsScreen == Abstract!ScreenSpec
=============================================================================
