----------------------------- MODULE Vga_proofs -----------------------------
(***************************************************************************)
(* Theorems about the two parts of vga.c.  Display, for every geometry,    *)
(* width of a tab and set of characters and colours: the screen shows the  *)
(* cells, and the terminal implements the grid of Screen.  Paging, for     *)
(* every layout of the tables its assumptions allow and whatever the       *)
(* firmware set up: what the hex command reads is mapped to itself, and    *)
(* each device is behind its window.                                       *)
(***************************************************************************)
EXTENDS Display, Paging, FiniteSetTheorems, TLAPS

-----------------------------------------------------------------------------
(* Cells and looks.                                                         *)

\* Cells are pairs, and NoCell is none of them.
LEMMA CellsArePairs ==
  /\ \A y \in Rows, x \in Cols : <<y, x>> \in Cells
  /\ \A c \in Cells : c[1] \in Rows /\ c[2] \in Cols /\ c = <<c[1], c[2]>>
  /\ NoCell \notin Cells
BY DisplayAssumption DEF Cells, Rows, Cols, NoCell

\* The cell at the top left.
LEMMA Origin == 0 \in Rows /\ 0 \in Cols
BY DisplayAssumption DEF Rows, Cols

\* What is seen of the cells t while a text is printed, lagging or not.
Sight(t, s, lagging) ==
  /\ DOMAIN s = Cells
  /\ \A c \in Cells : ~s[c][3]
  /\ ~lagging => \A c \in Cells : s[c] = Look(t[c][1], t[c][2], FALSE)

\* A sight in which every cell looks as it should.
LEMMA AllLook ==
  ASSUME NEW t, NEW s, NEW lagging, DOMAIN s = Cells,
         \A c \in Cells : s[c] = Look(t[c][1], t[c][2], FALSE)
  PROVE  Sight(t, s, lagging)
<1>1. ASSUME NEW c \in Cells PROVE ~s[c][3]
  <2>1. Look(t[c][1], t[c][2], FALSE)[3] = FALSE BY DEF Look
  <2>2. s[c] = Look(t[c][1], t[c][2], FALSE) OBVIOUS
  <2>3. s[c][3] = FALSE BY <2>1, <2>2
  <2> QED BY <2>3
<1> QED BY <1>1 DEF Sight

\* The invariant inside and outside print.
LEMMA PrintingMeans ==
  ASSUME DisplayInv, printing
  PROVE  Sight(tela, seen, fb_batch_redraw) /\ desenhado = NoCell
BY DEF DisplayInv, TypeOK, ScreenShowsCells, LagsOnlyAfterScroll, Sight

\* Taking off the cursor that is drawn leaves every cell looking as it should.
LEMMA CursorTakenOff ==
  ASSUME DisplayInv, ~printing
  PROVE  /\ DOMAIN WithoutCursor(seen, tela) = Cells
         /\ \A c \in Cells :
              WithoutCursor(seen, tela)[c] = Look(tela[c][1], tela[c][2], FALSE)
<1> USE DEF DisplayInv
<1>1. \A y \in Rows, x \in Cols :
        seen[<<y, x>>] = Look(tela[<<y, x>>][1], tela[<<y, x>>][2],
                              (y = cursor_y /\ x = cursor_x) /\ usar_framebuffer)
  BY DEF ScreenShowsCells
<1>2. DOMAIN seen = Cells /\ <<cursor_y, cursor_x>> \in Cells
  BY CellsArePairs DEF TypeOK
<1>3. CASE usar_framebuffer
  <2>1. desenhado = <<cursor_y, cursor_x>> BY <1>3 DEF ScreenShowsCells
  <2>2. WithoutCursor(seen, tela)
          = [seen EXCEPT ![desenhado] = Look(tela[desenhado][1], tela[desenhado][2], FALSE)]
    BY <1>2, <1>3, <2>1 DEF WithoutCursor, Drawn
  <2>3. ASSUME NEW c \in Cells, c # desenhado
        PROVE  seen[c] = Look(tela[c][1], tela[c][2], FALSE)
    <3>1. c[1] \in Rows /\ c[2] \in Cols /\ c = <<c[1], c[2]>> BY CellsArePairs
    <3>2. ~((c[1] = cursor_y /\ c[2] = cursor_x) /\ usar_framebuffer) BY <2>1, <2>3, <3>1
    <3>3. ((c[1] = cursor_y /\ c[2] = cursor_x) /\ usar_framebuffer) = FALSE BY <3>2
    <3> QED BY <1>1, <3>1, <3>3
  <2> QED BY <1>2, <2>1, <2>2, <2>3
<1>4. CASE ~usar_framebuffer
  <2>1. WithoutCursor(seen, tela) = seen BY <1>4 DEF WithoutCursor
  <2>2. ASSUME NEW c \in Cells PROVE seen[c] = Look(tela[c][1], tela[c][2], FALSE)
    <3>1. c[1] \in Rows /\ c[2] \in Cols /\ c = <<c[1], c[2]>> BY CellsArePairs
    <3>2. ((c[1] = cursor_y /\ c[2] = cursor_x) /\ usar_framebuffer) = FALSE BY <1>4
    <3> QED BY <1>1, <3>1, <3>2
  <2> QED BY <1>2, <2>1, <2>2
<1> QED BY <1>3, <1>4

\* A cursor put on a screen that shows the cells t and no cursor.
LEMMA CursorPut ==
  ASSUME NEW t, NEW s, NEW y \in Rows, NEW x \in Cols, cursor(t, s, y, x),
         tela' = t, cursor_y' = y, cursor_x' = x, usar_framebuffer' = usar_framebuffer,
         printing' = FALSE, fb_batch_redraw' = FALSE, usar_framebuffer \in BOOLEAN,
         desenhado \in Cells \cup {NoCell}, DOMAIN s = Cells,
         IF usar_framebuffer
         THEN /\ DOMAIN WithoutCursor(s, t) = Cells
              /\ \A c \in Cells : WithoutCursor(s, t)[c] = Look(t[c][1], t[c][2], FALSE)
         ELSE \A c \in Cells : s[c] = Look(t[c][1], t[c][2], FALSE)
  PROVE  /\ ScreenShowsCells' /\ DOMAIN seen' = Cells
         /\ desenhado' \in Cells \cup {NoCell}
<1>1. <<y, x>> \in Cells BY CellsArePairs
<1>2. CASE usar_framebuffer
  <2> DEFINE w == WithoutCursor(s, t)
  <2>1. /\ seen' = [w EXCEPT ![<<y, x>>] = Look(t[<<y, x>>][1], t[<<y, x>>][2], TRUE)]
        /\ desenhado' = <<y, x>> /\ cxcy' = <<x, y>>
    BY <1>2 DEF cursor, Drawn
  <2>2. DOMAIN w = Cells /\ \A c \in Cells : w[c] = Look(t[c][1], t[c][2], FALSE)
    BY <1>2
  <2> HIDE DEF w
  <2>3. DOMAIN seen' = Cells BY <2>1, <2>2
  <2>4. ASSUME NEW b \in Rows, NEW a \in Cols
        PROVE  seen'[<<b, a>>] = Look(t[<<b, a>>][1], t[<<b, a>>][2], b = y /\ a = x)
    <3>1. <<b, a>> \in Cells BY CellsArePairs
    <3>2. CASE b = y /\ a = x
      <4>1. (b = y /\ a = x) = TRUE BY <3>2
      <4> QED BY <2>1, <2>2, <3>1, <3>2, <4>1
    <3>3. CASE ~(b = y /\ a = x)
      <4>1. (b = y /\ a = x) = FALSE BY <3>3
      <4>2. <<b, a>> # <<y, x>> BY <3>3
      <4> QED BY <2>1, <2>2, <3>1, <4>1, <4>2
    <3> QED BY <3>2, <3>3
  <2>5. \A b \in Rows, a \in Cols :
          seen'[<<b, a>>] = Look(t[<<b, a>>][1], t[<<b, a>>][2],
                                 (b = y /\ a = x) /\ usar_framebuffer')
    <3>1. \A b, a : ((b = y /\ a = x) /\ usar_framebuffer') = (b = y /\ a = x)
      BY <1>2
    <3> QED BY <2>4, <3>1
  <2> QED BY <1>1, <1>2, <2>1, <2>3, <2>5 DEF ScreenShowsCells
<1>3. CASE ~usar_framebuffer
  <2>1. /\ seen' = s /\ desenhado' = desenhado /\ cxcy' = <<x, y>>
        /\ crtc' = y * max_cols + x
    BY <1>3 DEF cursor
  <2>2. \A b \in Rows, a \in Cols :
          seen'[<<b, a>>] = Look(t[<<b, a>>][1], t[<<b, a>>][2],
                                 (b = y /\ a = x) /\ usar_framebuffer')
    <3>1. \A b, a : ((b = y /\ a = x) /\ usar_framebuffer') = FALSE
      BY <1>3
    <3>2. \A b \in Rows, a \in Cols : <<b, a>> \in Cells BY CellsArePairs
    <3> QED BY <1>3, <2>1, <3>1, <3>2
  <2> QED BY <1>3, <2>1, <2>2 DEF ScreenShowsCells
<1> QED BY <1>2, <1>3

-----------------------------------------------------------------------------
(* The steps of print.                                                      *)

\* The end of an iteration, from the cells t, what is seen of them, and where
\* the cursor has come to.
LEMMA Arrived ==
  ASSUME DisplayInv, printing, NEW t \in [Cells -> Chars \X Colours], NEW s,
         NEW y \in 0..max_rows, NEW x \in 0..max_cols, y = max_rows => x = 0,
         Sight(t, s, fb_batch_redraw), usar_framebuffer' = usar_framebuffer,
         Arrive(t, s, y, x)
  PROVE  DisplayInv'
<1> USE DisplayAssumption
<1> DEFINE y1 == IF x >= max_cols THEN y + 1 ELSE y
           x1 == IF x >= max_cols THEN 0 ELSE x
<1>1. y1 \in 0..max_rows /\ x1 \in Cols BY DEF Cols
<1>2. /\ cursor_x' = x1 /\ UNCHANGED <<setcolor, desenhado, printing>>
      /\ IF y1 >= max_rows
         THEN /\ tela' = ScrolledCells(t) /\ seen' = ScrolledSight(s, t)
              /\ fb_batch_redraw' = usar_framebuffer /\ cursor_y' = y1 - 1
         ELSE /\ tela' = t /\ seen' = s /\ cursor_y' = y1
              /\ UNCHANGED fb_batch_redraw
  BY DEF Arrive
<1> HIDE DEF y1, x1
<1>3. desenhado = NoCell BY PrintingMeans
<1>4. CASE y1 >= max_rows
  <2>1. cursor_y' \in Rows BY <1>1, <1>2, <1>4 DEF Rows
  <2>2. tela' \in [Cells -> Chars \X Colours]
    <3>1. <<Blank, setcolor>> \in Chars \X Colours BY DEF DisplayInv, TypeOK, Chars
    <3>2. ASSUME NEW c \in Cells, c[1] + 1 \in Rows PROVE <<c[1] + 1, c[2]>> \in Cells
      BY <3>2, CellsArePairs
    <3> QED BY <1>2, <1>4, <3>1, <3>2 DEF ScrolledCells
  <2>3. Sight(tela', seen', fb_batch_redraw')
    <3>1. CASE usar_framebuffer
      BY <1>2, <1>4, <3>1 DEF Sight, ScrolledSight
    <3>2. CASE ~usar_framebuffer
      <4>1. /\ DOMAIN seen' = Cells
            /\ \A c \in Cells : seen'[c] = Look(tela'[c][1], tela'[c][2], FALSE)
        BY <1>2, <1>4, <3>2 DEF ScrolledSight
      <4> QED BY <4>1, AllLook
    <3> QED BY <3>1, <3>2
  <2>4. fb_batch_redraw' \in {FALSE, usar_framebuffer'} BY <1>2, <1>4
  <2> QED BY <1>1, <1>2, <1>3, <2>1, <2>2, <2>3, <2>4
          DEF DisplayInv, TypeOK, ScreenShowsCells, LagsOnlyAfterScroll, Sight
<1>5. CASE ~(y1 >= max_rows)
  <2>1. cursor_y' \in Rows BY <1>1, <1>2, <1>5 DEF Rows
  <2>2. tela' = t /\ seen' = s /\ fb_batch_redraw' = fb_batch_redraw BY <1>2, <1>5
  <2>3. Sight(tela', seen', fb_batch_redraw') BY <2>2
  <2> QED BY <1>1, <1>2, <1>3, <2>1, <2>2, <2>3
          DEF DisplayInv, TypeOK, ScreenShowsCells, LagsOnlyAfterScroll, Sight
<1> QED BY <1>4, <1>5

\* Storing a character in some cells.
LEMMA StoredSight ==
  ASSUME DisplayInv, printing, NEW where, NEW ch \in Chars
  PROVE  /\ Stored(where, ch) \in [Cells -> Chars \X Colours]
         /\ Sight(Stored(where, ch), Shown(where, ch), fb_batch_redraw)
<1>1. <<ch, setcolor>> \in Chars \X Colours /\ tela \in [Cells -> Chars \X Colours]
  BY DEF DisplayInv, TypeOK
<1>2. Stored(where, ch) \in [Cells -> Chars \X Colours] BY <1>1 DEF Stored
<1>3. Sight(tela, seen, fb_batch_redraw) BY PrintingMeans
<1>4. CASE usar_framebuffer /\ fb_batch_redraw
  <2>1. Shown(where, ch) = seen BY <1>4 DEF Shown
  <2> QED BY <1>2, <1>3, <1>4, <2>1 DEF Sight
<1>5. CASE ~(usar_framebuffer /\ fb_batch_redraw)
  <2>1. ~fb_batch_redraw BY <1>5 DEF DisplayInv, TypeOK
  <2>2. /\ DOMAIN Shown(where, ch) = Cells
        /\ \A c \in Cells : Shown(where, ch)[c]
             = Look(Stored(where, ch)[c][1], Stored(where, ch)[c][2], FALSE)
    <3>1. \A c \in Cells : seen[c] = Look(tela[c][1], tela[c][2], FALSE)
      BY <1>3, <2>1 DEF Sight
    <3>2. Shown(where, ch)
            = [c \in Cells |-> IF c \in where THEN Look(ch, setcolor, FALSE) ELSE seen[c]]
      BY <1>5 DEF Shown
    <3>3. ASSUME NEW c \in Cells
          PROVE  Shown(where, ch)[c]
                   = Look(Stored(where, ch)[c][1], Stored(where, ch)[c][2], FALSE)
      <4>1. CASE c \in where
        <5>1. Stored(where, ch)[c] = <<ch, setcolor>> BY <4>1 DEF Stored
        <5>2. Stored(where, ch)[c][1] = ch /\ Stored(where, ch)[c][2] = setcolor
          BY <5>1
        <5>3. Shown(where, ch)[c] = Look(ch, setcolor, FALSE) BY <3>2, <4>1
        <5> QED BY <5>2, <5>3
      <4>2. CASE c \notin where
        <5>1. Stored(where, ch)[c] = tela[c] BY <4>2 DEF Stored
        <5>2. Shown(where, ch)[c] = seen[c] BY <3>2, <4>2
        <5> QED BY <3>1, <5>1, <5>2
      <4> QED BY <4>1, <4>2
    <3>4. DOMAIN Shown(where, ch) = Cells BY <3>2
    <3> QED BY <3>3, <3>4
  <2> QED BY <1>2, <2>2, AllLook
<1> QED BY <1>4, <1>5

\* The cells that a tab blanks are as many as it moves the cursor.
LEMMA TabCells ==
  ASSUME DisplayInv
  PROVE  LET n == IF TabWidth < max_cols - cursor_x THEN TabWidth ELSE max_cols - cursor_x
             w == {<<cursor_y, x>> : x \in {c \in cursor_x..(cursor_x + TabWidth - 1) : c < max_cols}}
         IN  /\ n \in Nat \ {0} /\ cursor_x + n <= max_cols
             /\ w = {<<cursor_y, x>> : x \in cursor_x..(cursor_x + n - 1)}
             /\ Cardinality(w) = n
<1> USE DisplayAssumption
<1> DEFINE n == IF TabWidth < max_cols - cursor_x THEN TabWidth ELSE max_cols - cursor_x
           r == {c \in cursor_x..(cursor_x + TabWidth - 1) : c < max_cols}
           w == {<<cursor_y, x>> : x \in r}
           f == [x \in r |-> <<cursor_y, x>>]
<1>1. cursor_x \in Nat /\ cursor_x < max_cols BY DEF DisplayInv, TypeOK, Cols
<1>2. n \in Nat \ {0} /\ cursor_x + n <= max_cols BY <1>1
<1>3. r = cursor_x..(cursor_x + n - 1) BY <1>1
<1>4. Cardinality(r) = n /\ IsFiniteSet(r)
  <2> HIDE DEF n, r
  <2>1. cursor_x \in Int /\ cursor_x + n - 1 \in Int BY <1>1, <1>2
  <2>2. IsFiniteSet(cursor_x..(cursor_x + n - 1)) BY <2>1, FS_Interval
  <2>3. Cardinality(cursor_x..(cursor_x + n - 1)) = n
    <3>1. ~(cursor_x > cursor_x + n - 1) BY <1>1, <1>2
    <3>2. Cardinality(cursor_x..(cursor_x + n - 1)) = (cursor_x + n - 1) - cursor_x + 1
      BY <2>1, <3>1, FS_Interval, Zenon
    <3> QED BY <1>1, <1>2, <3>2
  <2> QED BY <1>3, <2>2, <2>3
<1>5. f \in Bijection(r, w)
  <2> HIDE DEF r
  <2>1. f \in [r -> w] OBVIOUS
  <2>2. \A a, b \in r : f[a] = f[b] => a = b OBVIOUS
  <2>3. ASSUME NEW v \in w PROVE \E a \in r : f[a] = v
    <3>1. PICK a \in r : v = <<cursor_y, a>> OBVIOUS
    <3> QED BY <3>1
  <2> QED BY <2>1, <2>2, <2>3 DEF Bijection, Injection, IsInjective, Surjection
<1>6. Cardinality(w) = n
  <2> HIDE DEF n, r, w, f
  <2> QED BY <1>4, <1>5, FS_Bijection DEF ExistsBijection
<1> QED BY <1>2, <1>3, <1>6

-----------------------------------------------------------------------------
(* The invariant.                                                           *)

\* After the boot the screen is blank but for the cursor.
LEMMA DisplayInit == Init => DisplayInv
<1> SUFFICES ASSUME Init PROVE DisplayInv
  OBVIOUS
<1>1. TypeOK
  <2>1. <<Blank, setcolor>> \in Chars \X Colours BY DEF Init, Chars
  <2>2. <<0, 0>> \in Cells BY Origin, CellsArePairs
  <2> QED BY <2>1, <2>2, Origin DEF Init, TypeOK
<1>2. \A y \in Rows, x \in Cols :
        seen[<<y, x>>] = Look(tela[<<y, x>>][1], tela[<<y, x>>][2],
                              (y = cursor_y /\ x = cursor_x) /\ usar_framebuffer)
  <2> SUFFICES ASSUME NEW y \in Rows, NEW x \in Cols
               PROVE  seen[<<y, x>>] = Look(tela[<<y, x>>][1], tela[<<y, x>>][2],
                              (y = cursor_y /\ x = cursor_x) /\ usar_framebuffer)
    OBVIOUS
  <2>1. <<y, x>> \in Cells BY CellsArePairs
  <2>2. tela[<<y, x>>] = <<Blank, setcolor>> BY <2>1 DEF Init
  <2>3. seen[<<y, x>>] = Look(Blank, setcolor, usar_framebuffer /\ <<y, x>> = <<0, 0>>)
    BY <2>1 DEF Init
  <2>4. (usar_framebuffer /\ <<y, x>> = <<0, 0>>)
          = ((y = cursor_y /\ x = cursor_x) /\ usar_framebuffer)
    BY DEF Init
  <2> QED BY <2>2, <2>3, <2>4
<1>3. crtc = cursor_y * max_cols + cursor_x
  <2>1. 0 * max_cols + 0 = 0 BY DisplayAssumption
  <2> QED BY <2>1 DEF Init
<1>4. ScreenShowsCells BY <1>2, <1>3 DEF Init, ScreenShowsCells
<1> QED BY <1>1, <1>4 DEF Init, DisplayInv

\* The cursor outside print: taken off where it was, drawn where it goes.
LEMMA MovePreserves ==
  ASSUME DisplayInv, NEW x \in Int, NEW y \in Int, set_cursor_pos(x, y),
         usar_framebuffer' = usar_framebuffer
  PROVE  DisplayInv'
<1>1. cursor_x' \in Cols /\ cursor_y' \in Rows
  BY DisplayAssumption DEF set_cursor_pos, Clip, Cols, Rows
<1>2. ~printing /\ UNCHANGED <<tela, setcolor, fb_batch_redraw, printing>>
  BY DEF set_cursor_pos
<1>3. printing' = FALSE /\ fb_batch_redraw' = FALSE
  BY <1>2 DEF DisplayInv, TypeOK, ScreenShowsCells
<1>4. ~usar_framebuffer => WithoutCursor(seen, tela) = seen
  BY DEF WithoutCursor
<1>5. IF usar_framebuffer
      THEN /\ DOMAIN WithoutCursor(seen, tela) = Cells
           /\ \A c \in Cells :
                WithoutCursor(seen, tela)[c] = Look(tela[c][1], tela[c][2], FALSE)
      ELSE \A c \in Cells : seen[c] = Look(tela[c][1], tela[c][2], FALSE)
  BY <1>2, <1>4, CursorTakenOff
<1>6. /\ cursor(tela, seen, cursor_y', cursor_x') /\ tela' = tela
      /\ usar_framebuffer \in BOOLEAN /\ desenhado \in Cells \cup {NoCell}
      /\ DOMAIN seen = Cells
  BY DEF set_cursor_pos, DisplayInv, TypeOK
<1>7. ScreenShowsCells' /\ DOMAIN seen' = Cells /\ desenhado' \in Cells \cup {NoCell}
  <2> DEFINE y1 == cursor_y' x1 == cursor_x'
  <2>1. y1 \in Rows /\ x1 \in Cols /\ cursor_y' = y1 /\ cursor_x' = x1 BY <1>1
  <2>2. cursor(tela, seen, y1, x1) BY <1>6
  <2> HIDE DEF y1, x1
  <2> QED BY <2>1, <2>2, <1>3, <1>5, <1>6, CursorPut
<1> QED BY <1>1, <1>2, <1>3, <1>7 DEF DisplayInv, TypeOK

\* The colour is that of the text to come.
LEMMA ColourPreserves ==
  ASSUME DisplayInv, NEW c \in Colours, cor(c), usar_framebuffer' = usar_framebuffer
  PROVE  DisplayInv'
BY DEF cor, DisplayInv, TypeOK, ScreenShowsCells, LagsOnlyAfterScroll

\* A cleared screen is drawn again whole.
LEMMA ClearPreserves ==
  ASSUME DisplayInv, limpatela, usar_framebuffer' = usar_framebuffer
  PROVE  DisplayInv'
<1> DEFINE dark == [c \in Cells |-> Look(Blank, setcolor, FALSE)]
           t == [c \in Cells |-> <<Blank, setcolor>>]
<1>1. t \in [Cells -> Chars \X Colours]
  BY DEF DisplayInv, TypeOK, Chars
<1>2. /\ tela' = t /\ cursor_x' = 0 /\ cursor_y' = 0 /\ setcolor' = setcolor
      /\ printing' = FALSE /\ fb_batch_redraw' = FALSE
  BY DEF limpatela, DisplayInv, TypeOK, ScreenShowsCells
<1>3. DOMAIN dark = Cells /\ \A c \in Cells : dark[c] = Look(t[c][1], t[c][2], FALSE)
  <2>1. \A c \in Cells : t[c][1] = Blank /\ t[c][2] = setcolor OBVIOUS
  <2> QED BY <2>1
<1>4. <<0, 0>> \in Cells BY Origin, CellsArePairs
<1>5. ScreenShowsCells' /\ DOMAIN seen' = Cells /\ desenhado' \in Cells \cup {NoCell}
  <2>1. CASE usar_framebuffer
    <3>1. /\ seen' = [dark EXCEPT ![<<0, 0>>] = Look(Blank, setcolor, TRUE)]
          /\ desenhado' = <<0, 0>> /\ cxcy' = <<0, 0>>
      <4>1. tela'[<<0, 0>>][1] = Blank /\ tela'[<<0, 0>>][2] = setcolor BY <1>2, <1>4
      <4> QED BY <2>1, <4>1 DEF limpatela, Drawn
    <3> HIDE DEF dark, t
    <3>2. ASSUME NEW b \in Rows, NEW a \in Cols
          PROVE  seen'[<<b, a>>] = Look(t[<<b, a>>][1], t[<<b, a>>][2],
                              (b = cursor_y' /\ a = cursor_x') /\ usar_framebuffer')
      <4>1. <<b, a>> \in Cells BY CellsArePairs
      <4>2. CASE b = 0 /\ a = 0
        <5>1. ((b = cursor_y' /\ a = cursor_x') /\ usar_framebuffer') = TRUE
          BY <1>2, <2>1, <4>2
        <5>2. t[<<b, a>>][1] = Blank /\ t[<<b, a>>][2] = setcolor BY <4>1 DEF t
        <5> QED BY <1>3, <3>1, <4>1, <4>2, <5>1, <5>2
      <4>3. CASE ~(b = 0 /\ a = 0)
        <5>1. ((b = cursor_y' /\ a = cursor_x') /\ usar_framebuffer') = FALSE
          BY <1>2, <4>3
        <5>2. <<b, a>> # <<0, 0>> BY <4>3
        <5> QED BY <1>3, <3>1, <4>1, <5>1, <5>2
      <4> QED BY <4>2, <4>3
    <3> QED BY <1>2, <1>3, <1>4, <2>1, <3>1, <3>2 DEF ScreenShowsCells
  <2>2. CASE ~usar_framebuffer
    <3>1. cursor(t, dark, 0, 0) BY <2>2, <1>2 DEF limpatela
    <3>2. usar_framebuffer \in BOOLEAN /\ desenhado \in Cells \cup {NoCell}
      BY DEF DisplayInv, TypeOK
    <3> HIDE DEF dark, t
    <3> QED BY <1>2, <1>3, <2>2, <3>1, <3>2, Origin, CursorPut
  <2> QED BY <2>1, <2>2
<1> HIDE DEF dark, t
<1> QED BY <1>1, <1>2, <1>5, Origin DEF DisplayInv, TypeOK

\* print takes the cursor off first, and puts it back when all is drawn.
LEMMA BeginPreserves ==
  ASSUME DisplayInv, BeginPrint, usar_framebuffer' = usar_framebuffer
  PROVE  DisplayInv'
<1>1. /\ printing' = TRUE /\ fb_batch_redraw' = FALSE /\ desenhado' = NoCell
      /\ seen' = WithoutCursor(seen, tela)
      /\ UNCHANGED <<tela, cursor_x, cursor_y, setcolor>>
  BY DEF BeginPrint
<1>2. /\ DOMAIN seen' = Cells
      /\ \A c \in Cells : seen'[c] = Look(tela'[c][1], tela'[c][2], FALSE)
  BY <1>1, CursorTakenOff DEF BeginPrint
<1>3. Sight(tela', seen', fb_batch_redraw') BY <1>2, AllLook
<1> QED BY <1>1, <1>2, <1>3
        DEF DisplayInv, TypeOK, ScreenShowsCells, LagsOnlyAfterScroll, Sight

\* What has waited is drawn, and the cursor on top.
LEMMA EndPreserves ==
  ASSUME DisplayInv, EndPrint, usar_framebuffer' = usar_framebuffer
  PROVE  DisplayInv'
<1>1. /\ printing' = FALSE /\ fb_batch_redraw' = FALSE
      /\ UNCHANGED <<tela, cursor_x, cursor_y, setcolor>>
      /\ cursor(tela, Redrawn, cursor_y, cursor_x)
  BY DEF EndPrint
<1>2. Sight(tela, seen, fb_batch_redraw) /\ desenhado = NoCell
  BY PrintingMeans DEF EndPrint
<1>3. /\ DOMAIN Redrawn = Cells
      /\ \A c \in Cells : Redrawn[c] = Look(tela[c][1], tela[c][2], FALSE)
  <2>1. CASE usar_framebuffer /\ fb_batch_redraw
    BY <2>1 DEF Redrawn
  <2>2. CASE ~(usar_framebuffer /\ fb_batch_redraw)
    <3>1. ~fb_batch_redraw BY <2>2 DEF DisplayInv, TypeOK
    <3>2. Redrawn = seen BY <2>2 DEF Redrawn
    <3> QED BY <1>2, <3>1, <3>2 DEF Sight
  <2> QED BY <2>1, <2>2
<1>4. WithoutCursor(Redrawn, tela) = Redrawn
  BY <1>2, CellsArePairs DEF WithoutCursor
<1>5. ScreenShowsCells' /\ DOMAIN seen' = Cells /\ desenhado' \in Cells \cup {NoCell}
  <2> DEFINE r == Redrawn
  <2>1. /\ cursor_y \in Rows /\ cursor_x \in Cols /\ usar_framebuffer \in BOOLEAN
        /\ desenhado \in Cells \cup {NoCell}
    BY DEF DisplayInv, TypeOK
  <2>2. /\ cursor(tela, r, cursor_y, cursor_x) /\ WithoutCursor(r, tela) = r
        /\ DOMAIN r = Cells
        /\ \A c \in Cells : r[c] = Look(tela[c][1], tela[c][2], FALSE)
    BY <1>1, <1>3, <1>4
  <2> HIDE DEF r
  <2> QED BY <1>1, <2>1, <2>2, usar_framebuffer' = usar_framebuffer, CursorPut
<1> QED BY <1>1, <1>5 DEF DisplayInv, TypeOK

\* A character; like a line feed, a backspace and a tab it arrives somewhere.
LEMMA PutPreserves ==
  ASSUME DisplayInv, NEW ch \in Chars, PutChar(ch), usar_framebuffer' = usar_framebuffer
  PROVE  DisplayInv'
<1> DEFINE w == {<<cursor_y, cursor_x>>}
           y == cursor_y
           x == cursor_x + 1
<1>1. printing /\ Arrive(Stored(w, ch), Shown(w, ch), y, x) BY DEF PutChar
<1>2. y \in 0..max_rows /\ x \in 0..max_cols /\ (y = max_rows => x = 0)
  BY DisplayAssumption DEF DisplayInv, TypeOK, Rows, Cols
<1> HIDE DEF w, y, x
<1>3. /\ Stored(w, ch) \in [Cells -> Chars \X Colours]
      /\ Sight(Stored(w, ch), Shown(w, ch), fb_batch_redraw)
  BY <1>1, StoredSight
<1> QED BY <1>1, <1>2, <1>3, usar_framebuffer' = usar_framebuffer, Arrived

\* The line feed.
LEMMA NewLinePreserves ==
  ASSUME DisplayInv, NewLine, usar_framebuffer' = usar_framebuffer
  PROVE  DisplayInv'
<1> DEFINE y == cursor_y + 1
<1>1. printing /\ Arrive(tela, seen, y, 0) BY DEF NewLine
<1>2. y \in 0..max_rows /\ 0 \in 0..max_cols
  BY DisplayAssumption DEF DisplayInv, TypeOK, Rows
<1> HIDE DEF y
<1>3. tela \in [Cells -> Chars \X Colours] /\ Sight(tela, seen, fb_batch_redraw)
  BY <1>1, PrintingMeans DEF DisplayInv, TypeOK
<1> QED BY <1>1, <1>2, <1>3, usar_framebuffer' = usar_framebuffer, Arrived

\* The cell before is one of the grid.
LEMMA BeforeInGrid ==
  ASSUME DisplayInv
  PROVE  /\ Before(cursor_y, cursor_x)[1] \in Rows /\ Before(cursor_y, cursor_x)[2] \in Cols
BY DisplayAssumption DEF Before, DisplayInv, TypeOK, Rows, Cols

\* The backspace.
LEMMA BackspacePreserves ==
  ASSUME DisplayInv, Backspace, usar_framebuffer' = usar_framebuffer
  PROVE  DisplayInv'
<1> DEFINE b == Before(cursor_y, cursor_x)
           w == {b}
           y == b[1]
           x == b[2]
<1>1. printing /\ Arrive(Stored(w, Blank), Shown(w, Blank), y, x) BY DEF Backspace
<1>2. y \in 0..max_rows /\ x \in 0..max_cols /\ y # max_rows
  <2>1. y \in Rows /\ x \in Cols BY BeforeInGrid
  <2> QED BY <2>1, DisplayAssumption DEF Rows, Cols
<1> HIDE DEF b, w, y, x
<1>3. Blank \in Chars BY DEF Chars
<1>4. /\ Stored(w, Blank) \in [Cells -> Chars \X Colours]
      /\ Sight(Stored(w, Blank), Shown(w, Blank), fb_batch_redraw)
  BY <1>1, <1>3, StoredSight
<1> QED BY <1>1, <1>2, <1>4, usar_framebuffer' = usar_framebuffer, Arrived

\* The tab.
LEMMA TabPreserves ==
  ASSUME DisplayInv, Tab, usar_framebuffer' = usar_framebuffer
  PROVE  DisplayInv'
<1> DEFINE w == {<<cursor_y, x>> : x \in {c \in cursor_x..(cursor_x + TabWidth - 1) : c < max_cols}}
           y == cursor_y
           x1 == cursor_x + Cardinality(w)
<1>1. printing /\ Arrive(Stored(w, Blank), Shown(w, Blank), y, x1) BY DEF Tab
<1>2. y \in 0..max_rows /\ x1 \in 0..max_cols /\ y # max_rows
  <2> DEFINE n == IF TabWidth < max_cols - cursor_x THEN TabWidth ELSE max_cols - cursor_x
  <2>1. n \in Nat \ {0} /\ cursor_x + n <= max_cols /\ Cardinality(w) = n
    BY TabCells
  <2>2. cursor_x \in Nat BY DEF DisplayInv, TypeOK, Cols
  <2>3. y \in 0..max_rows /\ y # max_rows
    BY DisplayAssumption DEF DisplayInv, TypeOK, Rows
  <2> HIDE DEF n, w, y
  <2> QED BY <2>1, <2>2, <2>3, DisplayAssumption
<1> HIDE DEF w, y, x1
<1>3. Blank \in Chars BY DEF Chars
<1>4. /\ Stored(w, Blank) \in [Cells -> Chars \X Colours]
      /\ Sight(Stored(w, Blank), Shown(w, Blank), fb_batch_redraw)
  BY <1>1, <1>3, StoredSight
<1> QED BY <1>1, <1>2, <1>4, usar_framebuffer' = usar_framebuffer, Arrived

\* The invariant, step by step.
LEMMA DisplayStep == DisplayInv /\ [Next]_vars => DisplayInv'
<1> SUFFICES ASSUME DisplayInv, [Next]_vars PROVE DisplayInv'
  OBVIOUS
<1>1. CASE UNCHANGED vars
  BY <1>1 DEF vars, DisplayInv, TypeOK, ScreenShowsCells, LagsOnlyAfterScroll
<1>2. CASE Next
  <2>1. usar_framebuffer' = usar_framebuffer BY <1>2 DEF Next
  <2>2. CASE \E x \in -1..max_cols, y \in -1..max_rows : set_cursor_pos(x, y)
    BY <2>1, <2>2, MovePreserves, DisplayAssumption
  <2>3. CASE \E c \in Colours : cor(c) BY <2>1, <2>3, ColourPreserves
  <2>4. CASE limpatela BY <2>1, <2>4, ClearPreserves
  <2>5. CASE BeginPrint \/ EndPrint BY <2>1, <2>5, BeginPreserves, EndPreserves
  <2>6. CASE \E ch \in Chars : PutChar(ch) BY <2>1, <2>6, PutPreserves
  <2>7. CASE NewLine \/ Backspace \/ Tab
    BY <2>1, <2>7, NewLinePreserves, BackspacePreserves, TabPreserves
  <2> QED BY <1>2, <2>2, <2>3, <2>4, <2>5, <2>6, <2>7 DEF Next, Step
<1> QED BY <1>1, <1>2

\* It holds in every state.
LEMMA DisplayInvInductive == Spec => []DisplayInv
BY DisplayInit, DisplayStep, PTL DEF Spec

\* Outside print the screen shows every cell and one cursor, where it is; inside
\* print only a framebuffer that has scrolled lags behind (vga.c, 482-525,
\* 874-1014).
THEOREM ScreenShows == Spec => []ScreenShowsCells
<1>1. DisplayInv => ScreenShowsCells BY DEF DisplayInv
<1> QED BY <1>1, DisplayInvInductive, PTL

-----------------------------------------------------------------------------
(* Cells by linear position.                                                *)

\* Rows come one after the other.
LEMMA RowsInOrder ==
  \A a \in Nat, b \in Nat : a <= b => a * max_cols <= b * max_cols
BY DisplayAssumption, SMT

\* The row after a row.
LEMMA NextRow ==
  \A a \in Int : (a + 1) * max_cols = a * max_cols + max_cols
BY DisplayAssumption, SMT

\* A position determines its row and its column.
LEMMA RowAndColumn ==
  ASSUME NEW y \in Nat, NEW x \in Cols
  PROVE  (y * max_cols + x) \div max_cols = y /\ (y * max_cols + x) % max_cols = x
<1> DEFINE C == max_cols
           p == y * C + x
           q == p \div C
           m == p % C
<1>1. C \in Nat \ {0} /\ x \in 0..(C - 1) BY DisplayAssumption DEF Cols
<1>2. y * C \in Nat BY <1>1
<1>3. p \in Nat BY <1>1, <1>2
<1>4. q \in Int /\ m \in 0..(C - 1) /\ p = C * q + m
  <2> HIDE DEF p, C
  <2> QED BY <1>1, <1>3
<1> HIDE DEF q, m
<1>5. q = y
  <2>1. ASSUME q < y PROVE FALSE
    <3>1. C * (q + 1) <= C * y
      <4>1. q + 1 <= y BY <2>1, <1>4
      <4> HIDE DEF C, p
      <4> QED BY <4>1, <1>1, <1>4
    <3>2. C * (q + 1) = C * q + C BY <1>1, <1>4
    <3>3. C * y = y * C BY <1>1
    <3> QED BY <1>1, <1>2, <1>4, <3>1, <3>2, <3>3
  <2>2. ASSUME y < q PROVE FALSE
    <3>1. C * (y + 1) <= C * q
      <4>1. y + 1 <= q BY <2>2, <1>4
      <4> HIDE DEF C, p
      <4> QED BY <4>1, <1>1, <1>4
    <3>2. C * (y + 1) = y * C + C BY <1>1
    <3> QED BY <1>1, <1>2, <1>4, <3>1, <3>2
  <2> QED BY <2>1, <2>2, <1>4
<1>6. m = x
  <2>1. C * q = y * C BY <1>1, <1>5
  <2> QED BY <1>1, <1>2, <1>4, <2>1
<1> QED BY <1>5, <1>6 DEF q, m

\* The positions of the grid are those of its cells.
LEMMA CellHasPosition ==
  ASSUME NEW y \in Rows, NEW x \in Cols
  PROVE  y * max_cols + x \in 0..(max_cols * max_rows - 1)
<1> DEFINE C == max_cols
<1>1. C \in Nat \ {0} /\ x \in 0..(C - 1) /\ max_rows \in Nat \ {0} /\ y \in 0..(max_rows - 1)
  BY DisplayAssumption DEF Cols, Rows
<1>2. (y + 1) * C <= max_rows * C
  <2>1. y + 1 \in Nat /\ y + 1 <= max_rows BY <1>1
  <2> QED BY <1>1, <2>1, RowsInOrder
<1>3. (y + 1) * C = y * C + C BY <1>1
<1>4. max_rows * C = C * max_rows BY <1>1
<1>5. y * C \in Nat /\ C * max_rows \in Nat BY <1>1
<1> QED BY <1>1, <1>2, <1>3, <1>4, <1>5

\* And the other way round.
LEMMA PositionHasCell ==
  ASSUME NEW p \in 0..(max_cols * max_rows - 1)
  PROVE  /\ p \div max_cols \in Rows /\ p % max_cols \in Cols
         /\ p = (p \div max_cols) * max_cols + (p % max_cols)
<1> DEFINE C == max_cols
           q == p \div C
           m == p % C
<1>1. C \in Nat \ {0} /\ max_rows \in Nat \ {0} /\ C * max_rows \in Nat
  BY DisplayAssumption
<1>2. q \in Int /\ m \in 0..(C - 1) /\ p = C * q + m
  <2> HIDE DEF C
  <2> QED BY <1>1
<1> HIDE DEF q, m
<1>3. C * q = q * C BY <1>1, <1>2
<1>4. q >= 0
  <2> SUFFICES ASSUME q < 0 PROVE FALSE
    BY <1>2
  <2>1. C * (q + 1) <= 0
    <3>1. q + 1 <= 0 BY <1>2
    <3> HIDE DEF C
    <3> QED BY <3>1, <1>1, <1>2
  <2>2. C * (q + 1) = C * q + C BY <1>1, <1>2
  <2> QED BY <1>1, <1>2, <2>1, <2>2
<1>5. q < max_rows
  <2> SUFFICES ASSUME max_rows <= q PROVE FALSE
    BY <1>1, <1>2
  <2>1. max_rows * C <= q * C
    <3>1. q \in Nat BY <1>2, <1>4
    <3> QED BY <1>1, <3>1, RowsInOrder
  <2>2. max_rows * C = C * max_rows BY <1>1
  <2> QED BY <1>1, <1>2, <1>3, <2>1, <2>2
<1>6. q \in Rows /\ m \in Cols BY <1>1, <1>2, <1>4, <1>5 DEF Rows, Cols
<1> QED BY <1>2, <1>3, <1>6 DEF q, m

-----------------------------------------------------------------------------
(* The terminal that Screen describes.                                      *)

\* The characters of the cells t, by linear position; and where a cell is.
Positions == 0..(max_cols * max_rows - 1)
Grid(t) == [p \in Positions |-> t[<<p \div max_cols, p % max_cols>>][1]]
At(y, x) == y * max_cols + x

\* The terminal, and Screen's names for its size.
LEMMA TerminalIs ==
  /\ terminal = [cells |-> Grid(tela), at |-> At(cursor_y, cursor_x)]
  /\ Abstract!Area = max_cols * max_rows
  /\ Abstract!LastRow = (max_rows - 1) * max_cols
  /\ Abstract!Blank = Blank
BY DEF terminal, Grid, At, Positions, Abstract!Area, Abstract!LastRow, Abstract!Blank, Blank

\* A grid is scrolled the same way by row and by position.
LEMMA ScrolledGrid ==
  ASSUME NEW t
  PROVE  Grid(ScrolledCells(t))
           = [k \in 0..(Abstract!Area - 1) |->
                IF k < Abstract!LastRow THEN Grid(t)[k + max_cols] ELSE Abstract!Blank]
<1> DEFINE C == max_cols
<1>1. C \in Nat \ {0} /\ max_rows \in Nat \ {0} BY DisplayAssumption
<1>2. ASSUME NEW k \in Positions
      PROVE  Grid(ScrolledCells(t))[k]
               = IF k < (max_rows - 1) * C THEN Grid(t)[k + C] ELSE Blank
  <2> DEFINE q == k \div C
             m == k % C
  <2>1. q \in Rows /\ m \in Cols /\ k = q * C + m
    BY PositionHasCell DEF Positions
  <2>2. <<q, m>> \in Cells BY <2>1, CellsArePairs
  <2>3. Grid(ScrolledCells(t))[k] = ScrolledCells(t)[<<q, m>>][1] BY DEF Grid
  <2>4. ScrolledCells(t)[<<q, m>>]
          = IF q + 1 \in Rows THEN t[<<q + 1, m>>] ELSE <<Blank, setcolor>>
    BY <2>2 DEF ScrolledCells
  <2>5. q \in 0..(max_rows - 1) /\ m \in 0..(C - 1) BY <2>1 DEF Rows, Cols
  <2> HIDE DEF q, m
  <2>6. CASE q + 1 \in Rows
    <3>1. q + 1 \in Nat /\ q + 1 <= max_rows - 1 /\ max_rows - 1 \in Nat
      BY <1>1, <2>5, <2>6 DEF Rows
    <3>2. (q + 1) * C <= (max_rows - 1) * C BY <3>1, RowsInOrder
    <3>3. (q + 1) * C = q * C + C BY <2>5, NextRow
    <3>4. q * C \in Int /\ (max_rows - 1) * C \in Int BY <1>1, <2>5
    <3>5. k < (max_rows - 1) * C BY <1>1, <2>1, <2>5, <3>2, <3>3, <3>4
    <3>6. k + C = (q + 1) * C + m BY <1>1, <2>1, <2>5, <3>3, <3>4
    <3>7. (k + C) \div C = q + 1 /\ (k + C) % C = m
      BY <2>1, <3>1, <3>6, RowAndColumn
    <3>8. k + C \in Positions
      <4>1. (q + 1) * C + m \in 0..(C * max_rows - 1)
        BY <2>1, <2>6, CellHasPosition
      <4> QED BY <3>6, <4>1 DEF Positions
    <3>9. Grid(t)[k + C] = t[<<q + 1, m>>][1] BY <3>7, <3>8 DEF Grid
    <3> QED BY <2>3, <2>4, <2>6, <3>5, <3>9
  <2>7. CASE q + 1 \notin Rows
    <3>1. q = max_rows - 1 BY <1>1, <2>5, <2>7 DEF Rows
    <3>2. ~(k < (max_rows - 1) * C)
      <4>1. (max_rows - 1) * C \in Int BY <1>1
      <4> QED BY <2>1, <2>5, <3>1, <4>1
    <3>3. <<Blank, setcolor>>[1] = Blank OBVIOUS
    <3> QED BY <2>3, <2>4, <2>7, <3>2, <3>3
  <2> QED BY <2>6, <2>7
<1>3. /\ Abstract!Area = C * max_rows /\ Abstract!LastRow = (max_rows - 1) * C
      /\ Abstract!Blank = Blank
  BY TerminalIs
<1>4. DOMAIN Grid(ScrolledCells(t)) = Positions BY DEF Grid
<1>5. Positions = 0..(Abstract!Area - 1) BY <1>3 DEF Positions
<1>6. Grid(ScrolledCells(t))
        = [k \in Positions |-> IF k < (max_rows - 1) * C THEN Grid(t)[k + C] ELSE Blank]
  <2> DEFINE g == [k \in Positions |-> IF k < (max_rows - 1) * C THEN Grid(t)[k + C] ELSE Blank]
  <2>1. Grid(ScrolledCells(t)) = [k \in Positions |-> Grid(ScrolledCells(t))[k]]
    BY DEF Grid
  <2> QED BY <1>2, <2>1
<1> QED BY <1>3, <1>5, <1>6

\* What an iteration of print does to the terminal.
LEMMA ArrivedTerminal ==
  ASSUME NEW t, NEW s, NEW y \in 0..max_rows, NEW x \in 0..max_cols,
         y = max_rows => x = 0, Arrive(t, s, y, x)
  PROVE  terminal' = Abstract!scroll([cells |-> Grid(t), at |-> At(y, x)])
<1> DEFINE C == max_cols
           y1 == IF x >= max_cols THEN y + 1 ELSE y
           x1 == IF x >= max_cols THEN 0 ELSE x
<1>1. C \in Nat \ {0} /\ max_rows \in Nat \ {0} BY DisplayAssumption
<1>2. y1 \in 0..max_rows /\ x1 \in 0..(C - 1) /\ (y1 = max_rows => x1 = 0)
  BY <1>1
<1>3. At(y, x) = At(y1, x1)
  <2>1. CASE x >= max_cols
    <3>1. x = C BY <2>1, <1>1
    <3>2. (y + 1) * C = y * C + C BY NextRow
    <3>3. y * C \in Int BY <1>1
    <3> QED BY <2>1, <3>1, <3>2, <3>3, <1>1 DEF At
  <2>2. CASE ~(x >= max_cols) BY <2>2
  <2> QED BY <2>1, <2>2
<1>4. /\ cursor_x' = x1
      /\ IF y1 >= max_rows
         THEN tela' = ScrolledCells(t) /\ cursor_y' = y1 - 1
         ELSE tela' = t /\ cursor_y' = y1
  BY DEF Arrive
<1>5. terminal' = [cells |-> Grid(tela'), at |-> At(cursor_y', cursor_x')]
  BY DEF terminal, Grid, At, Positions
<1>6. Abstract!Area = C * max_rows BY TerminalIs
<1> HIDE DEF y1, x1
<1>7. CASE y1 >= max_rows
  <2>1. y1 = max_rows /\ x1 = 0 BY <1>1, <1>2, <1>7
  <2>2. At(y1, x1) = C * max_rows
    <3>1. max_rows * C + 0 = C * max_rows BY <1>1
    <3> QED BY <2>1, <3>1 DEF At
  <2>3. At(cursor_y', cursor_x') = At(y1, x1) - C
    <3>1. ((max_rows - 1) + 1) * C = (max_rows - 1) * C + C BY <1>1, NextRow
    <3>2. (max_rows - 1) + 1 = max_rows /\ (max_rows - 1) * C \in Int BY <1>1
    <3>3. cursor_y' = max_rows - 1 /\ cursor_x' = 0 BY <1>4, <1>7, <2>1
    <3>4. max_rows * C = C * max_rows BY <1>1
    <3>5. (max_rows - 1) * C + 0 = C * max_rows - C BY <1>1, <3>1, <3>2, <3>4
    <3> QED BY <2>2, <3>3, <3>5 DEF At
  <2>4. Grid(tela') = [k \in 0..(Abstract!Area - 1) |->
          IF k < Abstract!LastRow THEN Grid(t)[k + max_cols] ELSE Abstract!Blank]
    <3>1. tela' = ScrolledCells(t) BY <1>4, <1>7
    <3> QED BY <3>1, ScrolledGrid
  <2>5. ~(At(y, x) < Abstract!Area)
    <3>1. C * max_rows \in Int BY <1>1
    <3> QED BY <1>3, <1>6, <2>2, <3>1
  <2> QED BY <1>3, <1>5, <2>3, <2>4, <2>5 DEF Abstract!scroll
<1>8. CASE ~(y1 >= max_rows)
  <2>1. y1 \in Rows /\ x1 \in Cols BY <1>1, <1>2, <1>8 DEF Rows, Cols
  <2>2. At(y1, x1) < Abstract!Area
    <3>1. y1 * C + x1 \in 0..(C * max_rows - 1) BY <2>1, CellHasPosition
    <3>2. C * max_rows \in Int BY <1>1
    <3> QED BY <1>6, <3>1, <3>2 DEF At
  <2>3. tela' = t /\ cursor_y' = y1 /\ cursor_x' = x1 BY <1>4, <1>8
  <2> QED BY <1>3, <1>5, <2>2, <2>3 DEF Abstract!scroll
<1> QED BY <1>7, <1>8

\* The grid after a character is stored in some cells.
LEMMA StoredGrid ==
  ASSUME NEW where, NEW ch
  PROVE  Grid(Stored(where, ch))
           = [p \in Positions |-> IF <<p \div max_cols, p % max_cols>> \in where
                                  THEN ch ELSE Grid(tela)[p]]
<1>1. ASSUME NEW p \in Positions
      PROVE  Grid(Stored(where, ch))[p]
               = IF <<p \div max_cols, p % max_cols>> \in where THEN ch ELSE Grid(tela)[p]
  <2> DEFINE c == <<p \div max_cols, p % max_cols>>
  <2>1. c \in Cells BY PositionHasCell, CellsArePairs DEF Positions
  <2>2. Grid(Stored(where, ch))[p] = Stored(where, ch)[c][1] /\ Grid(tela)[p] = tela[c][1]
    BY DEF Grid
  <2> HIDE DEF c
  <2>3. Stored(where, ch)[c] = IF c \in where THEN <<ch, setcolor>> ELSE tela[c]
    BY <2>1 DEF Stored
  <2>4. <<ch, setcolor>>[1] = ch OBVIOUS
  <2>5. Grid(Stored(where, ch))[p] = IF c \in where THEN ch ELSE Grid(tela)[p]
    BY <2>2, <2>3, <2>4
  <2> QED BY <2>5 DEF c
<1>2. Grid(Stored(where, ch)) = [p \in Positions |-> Grid(Stored(where, ch))[p]]
  BY DEF Grid
<1> QED BY <1>1, <1>2

\* Where the cursor is, and the row and the column of a position.
LEMMA CursorAt ==
  ASSUME DisplayInv
  PROVE  /\ At(cursor_y, cursor_x) \in Positions
         /\ At(cursor_y, cursor_x) \div max_cols = cursor_y
         /\ At(cursor_y, cursor_x) % max_cols = cursor_x
<1>1. cursor_y \in Rows /\ cursor_x \in Cols /\ cursor_y \in Nat
  BY DisplayAssumption DEF DisplayInv, TypeOK, Rows
<1> QED BY <1>1, CellHasPosition, RowAndColumn DEF At, Positions

\* One cell, stored, is one position of the grid.
LEMMA CellStored ==
  ASSUME NEW y \in Rows, NEW x \in Cols, NEW ch
  PROVE  Grid(Stored({<<y, x>>}, ch)) = [Grid(tela) EXCEPT ![At(y, x)] = ch]
<1>1. At(y, x) \in Positions BY CellHasPosition DEF At, Positions
<1>2. y \in Nat BY DisplayAssumption DEF Rows
<1>3. ASSUME NEW p \in Positions
      PROVE  <<p \div max_cols, p % max_cols>> = <<y, x>> <=> p = At(y, x)
  <2>1. p = (p \div max_cols) * max_cols + (p % max_cols)
    BY PositionHasCell DEF Positions
  <2>2. At(y, x) \div max_cols = y /\ At(y, x) % max_cols = x
    BY <1>2, RowAndColumn DEF At
  <2>3. p = At(y, x) => <<p \div max_cols, p % max_cols>> = <<y, x>> BY <2>2
  <2>4. ASSUME <<p \div max_cols, p % max_cols>> = <<y, x>> PROVE p = At(y, x)
    <3>1. p \div max_cols = y /\ p % max_cols = x BY <2>4
    <3> QED BY <2>1, <3>1 DEF At
  <2> QED BY <2>3, <2>4
<1>4. DOMAIN Grid(tela) = Positions BY DEF Grid
<1>5. Grid(Stored({<<y, x>>}, ch))
        = [p \in Positions |-> IF p = At(y, x) THEN ch ELSE Grid(tela)[p]]
  <2>1. \A p \in Positions :
          <<p \div max_cols, p % max_cols>> \in {<<y, x>>} <=> p = At(y, x)
    BY <1>3
  <2>2. Grid(Stored({<<y, x>>}, ch))
          = [p \in Positions |-> IF <<p \div max_cols, p % max_cols>> \in {<<y, x>>}
                                 THEN ch ELSE Grid(tela)[p]]
    BY StoredGrid
  <2>3. \A p \in Positions :
          (IF <<p \div max_cols, p % max_cols>> \in {<<y, x>>} THEN ch ELSE Grid(tela)[p])
            = IF p = At(y, x) THEN ch ELSE Grid(tela)[p]
    BY <2>1
  <2> QED BY <2>2, <2>3
<1>6. Grid(tela) = [p \in Positions |-> Grid(tela)[p]] BY DEF Grid
<1> QED BY <1>1, <1>4, <1>5, <1>6

\* Each step of print is a character of Screen.
LEMMA PutIsPut ==
  ASSUME DisplayInv, NEW ch \in Chars, PutChar(ch)
  PROVE  terminal' = Abstract!PutChar(terminal, ch)
<1> DEFINE y == cursor_y
           x == cursor_x + 1
           w == {<<cursor_y, cursor_x>>}
<1>0. cursor_y \in Rows /\ cursor_x \in Cols BY DEF DisplayInv, TypeOK
<1>1. Arrive(Stored(w, ch), Shown(w, ch), y, x) BY DEF PutChar
<1>2. y \in 0..max_rows /\ x \in 0..max_cols /\ (y = max_rows => x = 0)
  BY <1>0, DisplayAssumption DEF Rows, Cols
<1>3. At(y, x) = At(cursor_y, cursor_x) + 1
  <2>1. cursor_y * max_cols \in Int /\ cursor_x \in Int
    BY <1>0, DisplayAssumption DEF Rows, Cols
  <2> QED BY <2>1 DEF At
<1>4. Grid(Stored(w, ch)) = [Grid(tela) EXCEPT ![At(cursor_y, cursor_x)] = ch]
  BY <1>0, CellStored
<1> HIDE DEF y, x, w
<1>5. terminal' = Abstract!scroll([cells |-> Grid(Stored(w, ch)), at |-> At(y, x)])
  BY <1>1, <1>2, ArrivedTerminal
<1>6. ch # Abstract!NewLine /\ ch # Abstract!Erase
  BY DisplayAssumption DEF Chars, Blank, Abstract!NewLine, Abstract!Erase
<1>7. terminal.cells = Grid(tela) /\ terminal.at = At(cursor_y, cursor_x) BY TerminalIs
<1> QED BY <1>3, <1>4, <1>5, <1>6, <1>7 DEF Abstract!PutChar

\* The line feed goes to the start of the next row.
LEMMA NewLineIsPut ==
  ASSUME DisplayInv, NewLine
  PROVE  terminal' = Abstract!PutChar(terminal, Abstract!NewLine)
<1> DEFINE y == cursor_y + 1
<1>1. Arrive(tela, seen, y, 0) BY DEF NewLine
<1>2. y \in 0..max_rows /\ 0 \in 0..max_cols /\ cursor_y \in Int
  BY DisplayAssumption DEF DisplayInv, TypeOK, Rows
<1>3. At(y, 0) = (Abstract!RowOf(At(cursor_y, cursor_x)) + 1) * max_cols
  <2>1. Abstract!RowOf(At(cursor_y, cursor_x)) = cursor_y BY CursorAt DEF Abstract!RowOf
  <2>2. y * max_cols \in Int BY <1>2, DisplayAssumption
  <2> QED BY <2>1, <2>2 DEF At
<1> HIDE DEF y
<1>4. terminal' = Abstract!scroll([cells |-> Grid(tela), at |-> At(y, 0)])
  BY <1>1, <1>2, ArrivedTerminal
<1>5. terminal = [cells |-> Grid(tela), at |-> At(cursor_y, cursor_x)] BY TerminalIs
<1>6. [terminal EXCEPT !.at = (Abstract!RowOf(@) + 1) * max_cols]
        = [cells |-> Grid(tela), at |-> At(y, 0)]
  BY <1>3, <1>5
<1> QED BY <1>4, <1>6 DEF Abstract!PutChar

\* The backspace blanks the cell before.
LEMMA BackspaceIsPut ==
  ASSUME DisplayInv, Backspace
  PROVE  terminal' = Abstract!PutChar(terminal, Abstract!Erase)
<1> DEFINE b == Before(cursor_y, cursor_x)
           y == b[1]
           x == b[2]
           w == {b}
           at == At(cursor_y, cursor_x)
<1>0. /\ cursor_y \in 0..(max_rows - 1) /\ cursor_x \in 0..(max_cols - 1)
      /\ max_cols \in Nat \ {0} /\ max_rows \in Nat \ {0}
  BY DisplayAssumption DEF DisplayInv, TypeOK, Rows, Cols
<1>1. Arrive(Stored(w, Blank), Shown(w, Blank), y, x) BY DEF Backspace
<1>2. y \in Rows /\ x \in Cols /\ b = <<y, x>>
  <2>1. b = <<y, x>> BY DEF Before
  <2> QED BY <2>1, BeforeInGrid
<1>3. At(y, x) = IF at > 0 THEN at - 1 ELSE 0
  <2>1. cursor_y * max_cols \in Int BY <1>0
  <2>2. CASE cursor_x > 0
    <3>1. y = cursor_y /\ x = cursor_x - 1 BY <2>2 DEF Before
    <3>2. cursor_y * max_cols >= 0 BY <1>0
    <3> QED BY <1>0, <2>1, <2>2, <3>1, <3>2 DEF At
  <2>3. CASE cursor_x = 0 /\ cursor_y > 0
    <3>1. y = cursor_y - 1 /\ x = max_cols - 1 BY <2>3, <1>0 DEF Before
    <3>2. ((cursor_y - 1) + 1) * max_cols = (cursor_y - 1) * max_cols + max_cols
      BY <1>0, NextRow
    <3>3. (cursor_y - 1) + 1 = cursor_y /\ (cursor_y - 1) * max_cols \in Int BY <1>0
    <3>4. (cursor_y - 1) * max_cols >= 0 BY <1>0, <2>3
    <3> HIDE DEF y, x
    <3> QED BY <1>0, <2>1, <2>3, <3>1, <3>2, <3>3, <3>4 DEF At
  <2>4. CASE cursor_x = 0 /\ cursor_y = 0
    <3>1. y = 0 /\ x = 0 BY <2>4 DEF Before
    <3>2. 0 * max_cols + 0 = 0 BY <1>0
    <3> QED BY <2>4, <3>1, <3>2 DEF At
  <2> QED BY <1>0, <2>2, <2>3, <2>4
<1>4. Grid(Stored(w, Blank)) = [Grid(tela) EXCEPT ![At(y, x)] = Blank]
  BY <1>2, CellStored
<1> HIDE DEF b, y, x, w
<1>5. terminal' = Abstract!scroll([cells |-> Grid(Stored(w, Blank)), at |-> At(y, x)])
  <2>1. y \in 0..max_rows /\ x \in 0..max_cols /\ (y = max_rows => x = 0)
    BY <1>0, <1>2 DEF Rows, Cols
  <2> QED BY <1>1, <2>1, ArrivedTerminal
<1>6. At(y, x) < Abstract!Area
  <2>1. At(y, x) \in 0..(max_cols * max_rows - 1) /\ max_cols * max_rows \in Int
    BY <1>0, <1>2, CellHasPosition DEF At
  <2> QED BY <2>1, TerminalIs
<1>7. terminal' = [cells |-> [Grid(tela) EXCEPT ![At(y, x)] = Blank], at |-> At(y, x)]
  BY <1>4, <1>5, <1>6 DEF Abstract!scroll
<1>8. terminal = [cells |-> Grid(tela), at |-> at] /\ Abstract!Blank = Blank BY TerminalIs
<1> HIDE DEF at
<1>9. Abstract!Erase # Abstract!NewLine BY DEF Abstract!Erase, Abstract!NewLine
<1>10. Abstract!PutChar(terminal, Abstract!Erase)
         = LET p == IF terminal.at > 0 THEN terminal.at - 1 ELSE 0
           IN  [cells |-> [terminal.cells EXCEPT ![p] = Abstract!Blank], at |-> p]
  BY <1>9 DEF Abstract!PutChar
<1>11. terminal.cells = Grid(tela) /\ terminal.at = at BY <1>8
<1> QED BY <1>3, <1>7, <1>8, <1>10, <1>11

\* A tab blanks what is left of its width in the row.
LEMMA TabIsTab ==
  ASSUME DisplayInv, Tab
  PROVE  Abstract!PutTab
<1> DEFINE n == IF TabWidth < max_cols - cursor_x THEN TabWidth ELSE max_cols - cursor_x
           w == {<<cursor_y, x>> : x \in {c \in cursor_x..(cursor_x + TabWidth - 1) : c < max_cols}}
           y == cursor_y
           x1 == cursor_x + Cardinality(w)
           at == At(cursor_y, cursor_x)
<1>0. /\ cursor_y \in Rows /\ cursor_y \in 0..(max_rows - 1)
      /\ cursor_x \in Cols /\ cursor_x \in 0..(max_cols - 1)
      /\ max_cols \in Nat \ {0} /\ max_rows \in Nat \ {0} /\ TabWidth \in Nat \ {0}
  BY DisplayAssumption DEF DisplayInv, TypeOK, Rows, Cols
<1>1. Arrive(Stored(w, Blank), Shown(w, Blank), y, x1) BY DEF Tab
<1>2. /\ n \in Nat \ {0} /\ cursor_x + n <= max_cols
      /\ w = {<<cursor_y, x>> : x \in cursor_x..(cursor_x + n - 1)}
      /\ Cardinality(w) = n
  BY TabCells
<1>3. at \in Positions /\ at \div max_cols = cursor_y /\ at % max_cols = cursor_x
  BY CursorAt
<1>4. cursor_y * max_cols \in Int /\ at = cursor_y * max_cols + cursor_x
  BY <1>0 DEF At
<1> HIDE DEF n, w, at
<1>5. y \in 0..max_rows /\ x1 \in 0..max_cols /\ (y = max_rows => x1 = 0)
  BY <1>0, <1>2
<1>6. At(y, x1) = at + n BY <1>0, <1>2, <1>4 DEF At
<1>7. ASSUME NEW p \in Positions
      PROVE  <<p \div max_cols, p % max_cols>> \in w <=> p \in at..(at + n - 1)
  <2>1. ASSUME <<p \div max_cols, p % max_cols>> \in w PROVE p \in at..(at + n - 1)
    <3>1. p \div max_cols = cursor_y /\ p % max_cols \in cursor_x..(cursor_x + n - 1)
      BY <1>2, <2>1
    <3>2. p = (p \div max_cols) * max_cols + (p % max_cols)
      BY PositionHasCell DEF Positions
    <3>3. p = cursor_y * max_cols + (p % max_cols) BY <3>1, <3>2
    <3> DEFINE m == p % max_cols
               base == cursor_y * max_cols
    <3>4. /\ m \in cursor_x..(cursor_x + n - 1) /\ p = base + m
          /\ base \in Int /\ at = base + cursor_x
      BY <1>4, <3>1, <3>3
    <3> HIDE DEF m, base
    <3> QED BY <1>0, <1>2, <3>4
  <2>2. ASSUME p \in at..(at + n - 1) PROVE <<p \div max_cols, p % max_cols>> \in w
    <3> DEFINE a == p - cursor_y * max_cols
    <3>1. a \in cursor_x..(cursor_x + n - 1) BY <1>0, <1>2, <1>4, <2>2
    <3>2. a \in Cols BY <1>0, <1>2, <3>1 DEF Cols
    <3>3. p = cursor_y * max_cols + a BY <1>0, <1>4, <1>2, <2>2
    <3> HIDE DEF a
    <3>4. p \div max_cols = cursor_y /\ p % max_cols = a
      <4>1. cursor_y \in Nat BY <1>0
      <4> QED BY <3>2, <3>3, <4>1, RowAndColumn
    <3> QED BY <1>2, <3>1, <3>4
  <2> QED BY <2>1, <2>2
<1>8. Grid(Stored(w, Blank))
        = [k \in Positions |-> IF k \in at..(at + n - 1) THEN Blank ELSE Grid(tela)[k]]
  <2>1. Grid(Stored(w, Blank))
          = [p \in Positions |-> IF <<p \div max_cols, p % max_cols>> \in w
                                 THEN Blank ELSE Grid(tela)[p]]
    BY StoredGrid
  <2>2. \A p \in Positions :
          (IF <<p \div max_cols, p % max_cols>> \in w THEN Blank ELSE Grid(tela)[p])
            = IF p \in at..(at + n - 1) THEN Blank ELSE Grid(tela)[p]
    BY <1>7
  <2> QED BY <2>1, <2>2
<1>9. terminal' = Abstract!scroll([cells |-> Grid(Stored(w, Blank)), at |-> At(y, x1)])
  <2> HIDE DEF y, x1
  <2> QED BY <1>1, <1>5, ArrivedTerminal
<1>10. /\ terminal.cells = Grid(tela) /\ terminal.at = at
       /\ Abstract!Area = max_cols * max_rows /\ Abstract!Blank = Blank
  BY TerminalIs DEF at
<1>11. (IF TabWidth < max_cols - (terminal.at % max_cols)
        THEN TabWidth ELSE max_cols - (terminal.at % max_cols)) = n
  BY <1>3, <1>10 DEF n
<1>12. Positions = 0..(Abstract!Area - 1) BY <1>10 DEF Positions
<1>13. terminal' = Abstract!scroll(
         [cells |-> [k \in 0..(Abstract!Area - 1) |->
                       IF k \in terminal.at..(terminal.at + n - 1) THEN Abstract!Blank
                       ELSE terminal.cells[k]],
          at |-> terminal.at + n])
  <2>1. [k \in Positions |-> IF k \in at..(at + n - 1) THEN Blank ELSE Grid(tela)[k]]
          = [k \in 0..(Abstract!Area - 1) |->
               IF k \in terminal.at..(terminal.at + n - 1) THEN Abstract!Blank
               ELSE terminal.cells[k]]
    BY <1>10, <1>12
  <2> QED BY <1>6, <1>8, <1>9, <1>10, <2>1
<1> QED BY <1>11, <1>13 DEF Abstract!PutTab

\* The cursor set outside print stays in the grid.
LEMMA MoveIsMove ==
  ASSUME DisplayInv, NEW x \in Int, NEW y \in Int, set_cursor_pos(x, y)
  PROVE  \E p \in 0..(Abstract!Area - 1) : terminal' = Abstract!set_cursor_pos(terminal, p)
<1> DEFINE p == At(cursor_y', cursor_x')
<1>1. cursor_x' \in Cols /\ cursor_y' \in Rows
  BY DisplayAssumption DEF set_cursor_pos, Clip, Cols, Rows
<1>2. p \in 0..(Abstract!Area - 1) BY <1>1, CellHasPosition, TerminalIs DEF At
<1>3. terminal' = [cells |-> Grid(tela), at |-> p]
  BY DEF set_cursor_pos, terminal, Grid, At, Positions
<1> HIDE DEF p
<1>4. terminal' = Abstract!set_cursor_pos(terminal, p)
  BY <1>3, TerminalIs DEF Abstract!set_cursor_pos
<1> QED BY <1>2, <1>4

\* A cleared grid.
LEMMA BlankGrid ==
  ASSUME NEW c
  PROVE  [cells |-> Grid([a \in Cells |-> <<Blank, c>>]), at |-> At(0, 0)] = Abstract!limpatela
<1>1. ASSUME NEW p \in Positions
      PROVE  Grid([a \in Cells |-> <<Blank, c>>])[p] = Blank
  <2>1. <<p \div max_cols, p % max_cols>> \in Cells
    BY PositionHasCell, CellsArePairs DEF Positions
  <2> QED BY <2>1 DEF Grid
<1>2. Grid([a \in Cells |-> <<Blank, c>>]) = [p \in Positions |-> Blank]
  <2>1. Grid([a \in Cells |-> <<Blank, c>>])
          = [p \in Positions |-> Grid([a \in Cells |-> <<Blank, c>>])[p]]
    BY DEF Grid
  <2> QED BY <1>1, <2>1
<1>3. At(0, 0) = 0 BY DisplayAssumption DEF At
<1>4. Positions = 0..(Abstract!Area - 1) BY TerminalIs DEF Positions
<1> QED BY <1>2, <1>3, <1>4, TerminalIs DEF Abstract!limpatela

\* Every step of the display is one of the terminal, or changes nothing there.
LEMMA StepIsScreen ==
  DisplayInv /\ [Next]_vars => [Abstract!ScreenNext]_terminal
<1> SUFFICES ASSUME DisplayInv, [Next]_vars
             PROVE  Abstract!ScreenNext \/ terminal' = terminal
  OBVIOUS
<1>1. CASE UNCHANGED vars
  BY <1>1 DEF vars, terminal
<1>2. CASE \E x \in -1..max_cols, y \in -1..max_rows : set_cursor_pos(x, y)
  BY <1>2, MoveIsMove, DisplayAssumption DEF Abstract!ScreenNext
<1>3. CASE (\E c \in Colours : cor(c)) \/ BeginPrint \/ EndPrint
  BY <1>3 DEF cor, BeginPrint, EndPrint, terminal
<1>4. CASE limpatela
  <2>1. tela' = [a \in Cells |-> <<Blank, setcolor>>] /\ cursor_y' = 0 /\ cursor_x' = 0
    BY <1>4 DEF limpatela
  <2>2. terminal' = [cells |-> Grid(tela'), at |-> At(cursor_y', cursor_x')]
    BY DEF terminal, Grid, At, Positions
  <2>3. terminal' = Abstract!limpatela BY <2>1, <2>2, BlankGrid
  <2> QED BY <2>3 DEF Abstract!ScreenNext
<1>5. CASE \E ch \in Chars : PutChar(ch)
  <2>1. PICK ch \in Chars : PutChar(ch) BY <1>5
  <2>2. terminal' = Abstract!PutChar(terminal, ch) BY <2>1, PutIsPut
  <2>3. ch \in Letters \cup {Abstract!Blank, Abstract!NewLine, Abstract!Erase}
    BY TerminalIs DEF Chars
  <2> QED BY <2>2, <2>3 DEF Abstract!ScreenNext
<1>6. CASE NewLine \/ Backspace
  BY <1>6, NewLineIsPut, BackspaceIsPut DEF Abstract!ScreenNext
<1>7. CASE Tab
  BY <1>7, TabIsTab DEF Abstract!ScreenNext
<1> QED BY <1>1, <1>2, <1>3, <1>4, <1>5, <1>6, <1>7 DEF Next, Step

\* vga.c implements the terminal of Screen: every step of print is one character
\* of it, whatever the framebuffer waits for (vga.c, 874-1014).
THEOREM DisplayImplementsScreen == Spec => IsScreen
<1>1. Init => Abstract!ScreenInit
  <2> SUFFICES ASSUME Init PROVE terminal = Abstract!limpatela
    BY DEF Abstract!ScreenInit
  <2>1. /\ tela = [a \in Cells |-> <<Blank, setcolor>>] /\ cursor_y = 0 /\ cursor_x = 0
    BY DEF Init
  <2> QED BY <2>1, TerminalIs, BlankGrid
<1> QED BY <1>1, StepIsScreen, DisplayInvInductive, PTL DEF Spec, IsScreen, Abstract!ScreenSpec

-----------------------------------------------------------------------------
(* Paging: addresses and their parts.                                       *)

\* What the sizes give.
LEMMA Sizes ==
  /\ PAGE \in Nat \ {0} /\ ENTRIES \in Nat \ {0}
  /\ TableBytes \in Nat \ {0} /\ DirBytes \in Nat \ {0} /\ FB_VIRT_BASE \in Nat
  /\ Top = 4 * DirBytes
  /\ TableBytes = ENTRIES * PAGE /\ DirBytes = ENTRIES * TableBytes
<1>1. PAGE \in Nat \ {0} /\ ENTRIES \in Nat \ {0} BY SizesAssumption
<1>2. ASSUME NEW m \in Nat \ {0}, NEW n \in Nat \ {0} PROVE m * n \in Nat \ {0}
  OBVIOUS
<1>3. TableBytes \in Nat \ {0} BY <1>1, <1>2 DEF TableBytes
<1>4. DirBytes \in Nat \ {0} BY <1>1, <1>2, <1>3 DEF DirBytes
<1>5. FB_PD \in Nat BY SizesAssumption
<1>6. FB_PD * TableBytes \in Nat BY <1>3, <1>5
<1>7. FB_VIRT_BASE \in Nat BY <1>4, <1>6 DEF FB_VIRT_BASE
<1> QED BY <1>1, <1>3, <1>4, <1>7 DEF Top, TableBytes, DirBytes

\* Products grow with their factors.
LEMMA Products ==
  ASSUME NEW m \in Nat, NEW a \in Nat, NEW b \in Nat, a <= b
  PROVE  a * m <= b * m
<1>1. PICK c \in Nat : b = a + c BY b - a \in Nat
<1>2. b * m = a * m + c * m BY <1>1
<1>3. c * m \in Nat /\ a * m \in Nat OBVIOUS
<1> QED BY <1>2, <1>3

\* Quotient and remainder are what they are.
LEMMA DivMod ==
  ASSUME NEW m \in Nat \ {0}, NEW q \in Nat, NEW r \in 0..(m - 1)
  PROVE  (q * m + r) \div m = q /\ (q * m + r) % m = r
<1> DEFINE n == q * m + r
<1>1. n \in Nat
  <2>1. q * m \in Nat OBVIOUS
  <2> QED BY <2>1
<1> DEFINE d == n \div m
<1> DEFINE k == n % m
<1>2. d \in Nat /\ k \in 0..(m - 1) /\ n = m * d + k
  BY <1>1, Z3
<1>3. m * d = d * m BY <1>2
<1> HIDE DEF d, k
<1>4. ~(d < q)
  <2> SUFFICES ASSUME d < q PROVE FALSE OBVIOUS
  <2>1. (d + 1) * m <= q * m BY <1>2, Products
  <2>2. (d + 1) * m = d * m + m BY <1>2
  <2>3. d * m \in Nat /\ q * m \in Nat BY <1>2
  <2> QED BY <1>2, <1>3, <2>1, <2>2, <2>3 DEF n
<1>5. ~(q < d)
  <2> SUFFICES ASSUME q < d PROVE FALSE OBVIOUS
  <2>1. (q + 1) * m <= d * m BY <1>2, Products
  <2>2. (q + 1) * m = q * m + m OBVIOUS
  <2>3. d * m \in Nat /\ q * m \in Nat BY <1>2
  <2> QED BY <1>2, <1>3, <2>1, <2>2, <2>3 DEF n
<1>6. d = q BY <1>2, <1>4, <1>5
<1>7. k = r
  <2>1. m * d = q * m BY <1>3, <1>6
  <2>2. q * m \in Nat OBVIOUS
  <2> QED BY <1>2, <2>1, <2>2 DEF n
<1> QED BY <1>6, <1>7 DEF d, k, n

\* A number and its parts.
LEMMA Divides ==
  ASSUME NEW m \in Nat \ {0}, NEW n \in Nat
  PROVE  /\ n \div m \in Nat /\ n % m \in 0..(m - 1)
         /\ n = (n \div m) * m + (n % m)
<1>1. n \div m \in Nat /\ n % m \in 0..(m - 1) /\ n = m * (n \div m) + (n % m) BY Z3
<1>2. m * (n \div m) = (n \div m) * m BY <1>1
<1> QED BY <1>1, <1>2

\* The address of byte o of the page at entry i of the table at entry e of
\* directory d.
Address(d, e, i, o) == ((d * ENTRIES + e) * ENTRIES + i) * PAGE + o

Entries == 0..(ENTRIES - 1)
Bytes   == 0..(PAGE - 1)

\* Pages and tables of an address.
LEMMA Nested ==
  ASSUME NEW y \in Nat, NEW i \in Entries, NEW o \in Bytes
  PROVE  /\ (y * ENTRIES + i) * PAGE + o \in Nat
         /\ ((y * ENTRIES + i) * PAGE + o) \div PAGE = y * ENTRIES + i
         /\ ((y * ENTRIES + i) * PAGE + o) % PAGE = o
         /\ ((y * ENTRIES + i) * PAGE + o) \div TableBytes = y
         /\ i * PAGE + o \in 0..(TableBytes - 1)
         /\ (y * ENTRIES + i) * PAGE + o = y * TableBytes + (i * PAGE + o)
<1>0. /\ PAGE \in Nat \ {0} /\ ENTRIES \in Nat \ {0} /\ TableBytes \in Nat \ {0}
      /\ TableBytes = ENTRIES * PAGE
  BY Sizes
<1>1. i \in Nat /\ i + 1 <= ENTRIES /\ o \in 0..(PAGE - 1) /\ o \in Nat
  BY <1>0 DEF Entries, Bytes
<1>2. y * ENTRIES \in Nat /\ y * ENTRIES + i \in Nat BY <1>0, <1>1
<1>3. /\ ((y * ENTRIES + i) * PAGE + o) \div PAGE = y * ENTRIES + i
      /\ ((y * ENTRIES + i) * PAGE + o) % PAGE = o
  BY <1>0, <1>1, <1>2, DivMod
<1>4. i * PAGE + o \in 0..(TableBytes - 1)
  <2>1. (i + 1) * PAGE <= ENTRIES * PAGE BY <1>0, <1>1, Products
  <2>2. (i + 1) * PAGE = i * PAGE + PAGE BY <1>0, <1>1
  <2>3. i * PAGE \in Nat BY <1>0, <1>1
  <2> QED BY <1>0, <1>1, <2>1, <2>2, <2>3
<1>5. (y * ENTRIES + i) * PAGE = y * TableBytes + i * PAGE
  <2>1. (y * ENTRIES + i) * PAGE = (y * ENTRIES) * PAGE + i * PAGE BY <1>0, <1>1, <1>2
  <2>2. (y * ENTRIES) * PAGE = y * (ENTRIES * PAGE) BY <1>0
  <2> QED BY <1>0, <2>1, <2>2
<1>6. y * TableBytes \in Nat /\ i * PAGE \in Nat BY <1>0, <1>1
<1>7. (y * ENTRIES + i) * PAGE + o = y * TableBytes + (i * PAGE + o)
  BY <1>1, <1>5, <1>6
<1>8. (y * TableBytes + (i * PAGE + o)) \div TableBytes = y
  BY <1>0, <1>4, DivMod
<1> QED BY <1>1, <1>3, <1>4, <1>5, <1>6, <1>7, <1>8

\* What the CPU takes from an address.
LEMMA Parts ==
  ASSUME NEW d \in Nat, NEW e \in Entries, NEW i \in Entries, NEW o \in Bytes
  PROVE  /\ Address(d, e, i, o) \in Nat
         /\ Address(d, e, i, o) \div DirBytes = d
         /\ (Address(d, e, i, o) \div TableBytes) % ENTRIES = e
         /\ (Address(d, e, i, o) \div PAGE) % ENTRIES = i
         /\ Address(d, e, i, o) % PAGE = o
<1> DEFINE y == d * ENTRIES + e
<1> DEFINE v == (y * ENTRIES + i) * PAGE + o
<1>0. /\ PAGE \in Nat \ {0} /\ ENTRIES \in Nat \ {0} /\ TableBytes \in Nat \ {0}
      /\ DirBytes \in Nat \ {0} /\ DirBytes = ENTRIES * TableBytes
  BY Sizes
<1>1. e \in 0..(ENTRIES - 1) /\ i \in 0..(ENTRIES - 1) /\ e \in Nat /\ e + 1 <= ENTRIES
  BY <1>0 DEF Entries
<1>2. y \in Nat /\ y % ENTRIES = e
  <2>1. d * ENTRIES \in Nat BY <1>0
  <2> QED BY <1>0, <1>1, <2>1, DivMod
<1> HIDE DEF y
<1>3. /\ v \in Nat /\ v \div PAGE = y * ENTRIES + i /\ v % PAGE = o
      /\ v \div TableBytes = y /\ i * PAGE + o \in 0..(TableBytes - 1)
      /\ v = y * TableBytes + (i * PAGE + o)
  BY <1>2, Nested
<1>4. (y * ENTRIES + i) % ENTRIES = i BY <1>0, <1>1, <1>2, DivMod
<1>5. v \div DirBytes = d
  <2> DEFINE r == i * PAGE + o
  <2>0. r \in Nat /\ r + 1 <= TableBytes /\ v = y * TableBytes + r BY <1>0, <1>3
  <2> HIDE DEF r
  <2>1. y * TableBytes = d * DirBytes + e * TableBytes
    <3>1. y * TableBytes = (d * ENTRIES) * TableBytes + e * TableBytes
      BY <1>0, <1>1 DEF y
    <3>2. (d * ENTRIES) * TableBytes = d * (ENTRIES * TableBytes) BY <1>0
    <3> QED BY <1>0, <3>1, <3>2
  <2>2. e * TableBytes + r \in 0..(DirBytes - 1)
    <3>1. (e + 1) * TableBytes <= ENTRIES * TableBytes BY <1>0, <1>1, Products
    <3>2. (e + 1) * TableBytes = e * TableBytes + TableBytes BY <1>0, <1>1
    <3>3. e * TableBytes \in Nat BY <1>0, <1>1
    <3> QED BY <1>0, <2>0, <3>1, <3>2, <3>3
  <2>3. d * DirBytes \in Nat /\ e * TableBytes \in Nat BY <1>0, <1>1
  <2>4. v = d * DirBytes + (e * TableBytes + r) BY <2>0, <2>1, <2>3
  <2>5. (d * DirBytes + (e * TableBytes + r)) \div DirBytes = d
    BY <1>0, <2>2, DivMod
  <2> QED BY <2>4, <2>5
<1>6. Address(d, e, i, o) = v BY DEF Address, y
<1>7. (v \div TableBytes) % ENTRIES = e BY <1>2, <1>3
<1>8. (v \div PAGE) % ENTRIES = i BY <1>3, <1>4
<1> HIDE DEF v
<1> QED BY <1>3, <1>5, <1>6, <1>7, <1>8

\* Every byte of n tables is a byte of a page of one of them.
LEMMA TableParts ==
  ASSUME NEW n \in Nat, NEW x \in Nat, x < n * TableBytes
  PROVE  \E j \in 0..(n - 1), i \in Entries, o \in Bytes :
           /\ x = (j * ENTRIES + i) * PAGE + o
           /\ x \div PAGE = j * ENTRIES + i
<1> DEFINE X == x \div PAGE
<1> DEFINE j == X \div ENTRIES
<1>0. PAGE \in Nat \ {0} /\ ENTRIES \in Nat \ {0} /\ TableBytes \in Nat \ {0}
      /\ TableBytes = ENTRIES * PAGE
  BY Sizes
<1>1. X \in Nat /\ x % PAGE \in 0..(PAGE - 1) /\ x = X * PAGE + (x % PAGE)
  BY <1>0, Divides
<1> HIDE DEF X
<1>2. j \in Nat /\ X % ENTRIES \in 0..(ENTRIES - 1) /\ X = j * ENTRIES + (X % ENTRIES)
  BY <1>0, <1>1, Divides
<1> HIDE DEF j
<1> DEFINE i == X % ENTRIES
<1> DEFINE o == x % PAGE
<1>3. x = (j * ENTRIES + i) * PAGE + o BY <1>1, <1>2
<1>4. i \in Entries /\ o \in Bytes BY <1>1, <1>2 DEF Entries, Bytes
<1>5. j < n
  <2> SUFFICES ASSUME n <= j PROVE FALSE BY <1>2
  <2>1. n * TableBytes <= j * TableBytes BY <1>0, <1>2, Products
  <2> HIDE DEF i, o
  <2>2. (j * ENTRIES + i) * PAGE + o = j * TableBytes + (i * PAGE + o)
        /\ i * PAGE + o \in 0..(TableBytes - 1)
    BY <1>2, <1>4, Nested
  <2>3. n * TableBytes \in Nat /\ j * TableBytes \in Nat BY <1>0, <1>2
  <2> QED BY <1>0, <1>3, <2>1, <2>2, <2>3
<1> QED BY <1>2, <1>3, <1>4, <1>5 DEF X

\* Address by address: every number is the address of some byte.
LEMMA Located ==
  ASSUME NEW v \in Nat
  PROVE  \E i \in Entries, o \in Bytes :
           /\ (v \div TableBytes) % ENTRIES \in Entries
           /\ v \div DirBytes \in Nat
           /\ v = Address(v \div DirBytes, (v \div TableBytes) % ENTRIES, i, o)
<1> DEFINE Y == v \div TableBytes
<1>0. /\ PAGE \in Nat \ {0} /\ ENTRIES \in Nat \ {0} /\ TableBytes \in Nat \ {0}
      /\ DirBytes \in Nat \ {0}
  BY Sizes
<1>1. Y \in Nat /\ v % TableBytes \in 0..(TableBytes - 1)
      /\ v = Y * TableBytes + (v % TableBytes)
  BY <1>0, Divides
<1>2. v < (Y + 1) * TableBytes
  <2>1. (Y + 1) * TableBytes = Y * TableBytes + TableBytes BY <1>0, <1>1
  <2>2. Y * TableBytes \in Nat BY <1>0, <1>1
  <2> QED BY <1>0, <1>1, <2>1, <2>2
<1> HIDE DEF Y
<1>3. PICK y \in 0..Y, i \in Entries, o \in Bytes : v = (y * ENTRIES + i) * PAGE + o
  <2> DEFINE n == Y + 1
  <2>1. n \in Nat /\ 0..(n - 1) = 0..Y /\ v < n * TableBytes BY <1>1, <1>2
  <2> HIDE DEF n
  <2>2. \E y \in 0..(n - 1), i \in Entries, o \in Bytes : v = (y * ENTRIES + i) * PAGE + o
    BY <2>1, TableParts
  <2> QED BY <2>1, <2>2
<1>4. y \in Nat BY <1>1, <1>3
<1>5. v \div TableBytes = y BY <1>3, <1>4, Nested
<1>6. y \div ENTRIES \in Nat /\ y % ENTRIES \in Entries
      /\ y = (y \div ENTRIES) * ENTRIES + (y % ENTRIES)
  BY <1>0, <1>4, Divides DEF Entries
<1> DEFINE d == y \div ENTRIES
<1> DEFINE e == y % ENTRIES
<1>7. d \in Nat /\ e \in Entries /\ y = d * ENTRIES + e BY <1>6
<1> HIDE DEF d
<1>8. v = Address(d, e, i, o) BY <1>3, <1>7 DEF Address
<1> HIDE DEF e
<1>9. Address(d, e, i, o) \div DirBytes = d BY <1>3, <1>7, Parts
<1>10. v \div DirBytes = d BY <1>8, <1>9
<1>11. (v \div TableBytes) % ENTRIES = e BY <1>5 DEF e
<1> QED BY <1>3, <1>7, <1>8, <1>10, <1>11

\* The bytes of a table in directory 3.
LEMMA InTable ==
  ASSUME NEW e \in Entries, NEW j \in Nat, e + j \in Entries, NEW i \in Entries, NEW o \in Bytes
  PROVE  Address(3, e + j, i, o)
           = (3 * DirBytes + e * TableBytes) + ((j * ENTRIES + i) * PAGE + o)
<1>0. /\ PAGE \in Nat \ {0} /\ ENTRIES \in Nat \ {0} /\ TableBytes \in Nat \ {0}
      /\ DirBytes \in Nat \ {0} /\ DirBytes = ENTRIES * TableBytes
  BY Sizes
<1>1. e \in Nat /\ 3 * ENTRIES + (e + j) \in Nat BY <1>0 DEF Entries
<1>2. Address(3, e + j, i, o)
        = (3 * ENTRIES + (e + j)) * TableBytes + (i * PAGE + o)
  BY <1>1, Nested DEF Address
<1>3. (j * ENTRIES + i) * PAGE + o = j * TableBytes + (i * PAGE + o) BY Nested
<1>4. (3 * ENTRIES + (e + j)) * TableBytes
        = 3 * DirBytes + e * TableBytes + j * TableBytes
  <2>1. (3 * ENTRIES + (e + j)) * TableBytes
          = (3 * ENTRIES) * TableBytes + e * TableBytes + j * TableBytes
    BY <1>0, <1>1
  <2>2. (3 * ENTRIES) * TableBytes = 3 * (ENTRIES * TableBytes) BY <1>0
  <2> QED BY <1>0, <2>1, <2>2
<1>5. /\ 3 * DirBytes \in Nat /\ e * TableBytes \in Nat /\ j * TableBytes \in Nat
      /\ i * PAGE + o \in Nat
  BY <1>0, <1>1 DEF Entries, Bytes
<1> QED BY <1>2, <1>3, <1>4, <1>5

\* The bytes of a table in directory 0.
LEMMA InLowTable ==
  ASSUME NEW e \in Entries, NEW i \in Entries, NEW o \in Bytes
  PROVE  /\ Address(0, e, i, o) = (e * ENTRIES + i) * PAGE + o
         /\ Address(0, e, i, o) = e * TableBytes + i * PAGE + o
<1>0. PAGE \in Nat \ {0} /\ ENTRIES \in Nat \ {0} /\ TableBytes \in Nat \ {0} BY Sizes
<1>1. e \in Nat /\ i \in Nat /\ o \in Nat BY <1>0 DEF Entries, Bytes
<1>2. 0 * ENTRIES + e = e BY <1>0, <1>1
<1>3. Address(0, e, i, o) = (e * ENTRIES + i) * PAGE + o BY <1>2 DEF Address
<1>4. (e * ENTRIES + i) * PAGE + o = e * TableBytes + (i * PAGE + o) BY <1>1, Nested
<1>5. e * TableBytes \in Nat /\ i * PAGE \in Nat BY <1>0, <1>1
<1> QED BY <1>1, <1>3, <1>4, <1>5

\* What the CPU finds at an address.
LEMMA Walk ==
  ASSUME paging,
         NEW d \in Nat, NEW e \in Entries, NEW i \in Entries, NEW o \in Bytes
  PROVE  Translate(Address(d, e, i, o))
           = {p + o : p \in UNION {pts[t][i] : t \in Directory(Address(d, e, i, o))[e]}}
<1> DEFINE v == Address(d, e, i, o)
<1>1. (v \div TableBytes) % ENTRIES = e /\ (v \div PAGE) % ENTRIES = i /\ v % PAGE = o
  BY Parts
<1> HIDE DEF v
<1>2. Translate(v) = {p + o : p \in UNION {pts[t][i] : t \in Directory(v)[e]}}
  BY <1>1 DEF Translate
<1> QED BY <1>2 DEF v

\* Where an entry of a directory and one of its table are present: low memory
\* and directory 3.
LEMMA LowWalk ==
  ASSUME paging, NEW e \in Entries, NEW i \in Entries, NEW o \in Bytes, NEW t, NEW p,
         low_pd[e] = {t}, pts[t][i] = {p}
  PROVE  Translate(Address(0, e, i, o)) = {p + o}
<1>1. Address(0, e, i, o) \div DirBytes = 0 BY Parts
<1>2. Directory(Address(0, e, i, o)) = low_pd BY <1>1 DEF Directory
<1>3. Translate(Address(0, e, i, o)) = {q + o : q \in UNION {pts[u][i] : u \in low_pd[e]}}
  <2>1. 0 \in Nat OBVIOUS
  <2>2. Translate(Address(0, e, i, o))
          = {q + o : q \in UNION {pts[u][i] : u \in Directory(Address(0, e, i, o))[e]}}
    BY <2>1, Walk
  <2> QED BY <1>2, <2>2
<1>4. UNION {pts[u][i] : u \in {t}} = {p} OBVIOUS
<1>5. {q + o : q \in {p}} = {p + o} OBVIOUS
<1> QED BY <1>3, <1>4, <1>5

LEMMA HighWalk ==
  ASSUME paging, NEW e \in Entries, NEW i \in Entries, NEW o \in Bytes, NEW t, NEW p,
         fb_pd[e] = {t}, pts[t][i] = {p}
  PROVE  Translate(Address(3, e, i, o)) = {p + o}
<1>1. Address(3, e, i, o) \div DirBytes = 3 BY Parts
<1>2. Directory(Address(3, e, i, o)) = fb_pd BY <1>1 DEF Directory
<1>3. Translate(Address(3, e, i, o)) = {q + o : q \in UNION {pts[u][i] : u \in fb_pd[e]}}
  <2>1. 3 \in Nat OBVIOUS
  <2>2. Translate(Address(3, e, i, o))
          = {q + o : q \in UNION {pts[u][i] : u \in Directory(Address(3, e, i, o))[e]}}
    BY <2>1, Walk
  <2> QED BY <1>2, <2>2
<1>4. UNION {pts[u][i] : u \in {t}} = {p} OBVIOUS
<1>5. {q + o : q \in {p}} = {p + o} OBVIOUS
<1> QED BY <1>3, <1>4, <1>5

-----------------------------------------------------------------------------
(* Paging: the invariant.                                                   *)

\* What has been done at each point.
PhaseInv ==
  /\ pc \in {"video", "usb", "run"} /\ paging \in BOOLEAN
  /\ pc = "video" => ~paging
  /\ pc # "run" => mmio = NoMmio /\ ~bar.moved

\* Low memory is mapped to itself.
LowInv ==
  paging => \A e \in 0..(LOW_TABLES - 1) :
              /\ low_pd[e] = {<<"low", e>>}
              /\ \A i \in Entries : pts[<<"low", e>>][i] = {e * TableBytes + i * PAGE}

\* The tables of the framebuffer hold its pages; they are in their directory as
\* long as no BAR of the firmware lies in the window.
FbInv ==
  /\ fb.phys \in Nat /\ fb.bytes \in Nat
  /\ ~paging => fb.addr = fb.phys
  /\ paging =>
       /\ fb.addr = FB_VIRT_BASE + (fb.phys % PAGE)
       /\ \A j \in 0..(FB_TABLES - 1), i \in Entries :
            j * ENTRIES + i < FbPages(fb.phys, MinOf(fb.bytes, FB_MAX_MAP_SIZE))
              => pts[<<"fb", j>>][i] = {PageBase(fb.phys) + (j * ENTRIES + i) * PAGE}
       /\ mmio.base \notin FbWindow =>
            \A j \in 0..(FB_TABLES - 1) : fb_pd[FB_PD + j] = {<<"fb", j>>}

\* The pages of a region from base, at the tables of directory 3 from entry e.
RegionAt(base, size, e) ==
  /\ e \in Entries /\ base = 3 * DirBytes + e * TableBytes
  /\ \A j \in Nat, i \in Entries :
       (j * ENTRIES + i) * PAGE < size =>
         /\ e + j \in Entries
         /\ fb_pd[e + j] = {<<"mmio", j>>}
         /\ pts[<<"mmio", j>>][i] = {base + (j * ENTRIES + i) * PAGE}

\* A BAR that was moved is where the driver puts it, and its region is mapped.
MovedInv ==
  bar.moved /\ mmio # NoMmio =>
    /\ bar.addr = LOW_MMIO_BASE /\ mmio.base = LOW_MMIO_BASE /\ bar.size \in Nat \ {0}
    /\ LOW_MMIO_MIN <= LOW_MMIO_BASE /\ LOW_MMIO_BASE + bar.size <= LOW_MMIO_LIMIT
    /\ paging => \E e \in Entries : RegionAt(LOW_MMIO_BASE, bar.size, e)

PagingInv == PhaseInv /\ LowInv /\ FbInv /\ MovedInv

-----------------------------------------------------------------------------
(* Paging: what the invariant says of an address.                           *)

\* Without paging an address is that of the byte.
LEMMA Untranslated ==
  ASSUME ~paging, NEW a, NEW n \in Nat PROVE Mapped(a, a, n)
BY DEF Mapped, Translate

\* The bytes the hex command reads.
LEMMA HexReached ==
  ASSUME PagingInv PROVE HexDumpIsMapped
<1>0. /\ PAGE \in Nat \ {0} /\ ENTRIES \in Nat \ {0} /\ TableBytes \in Nat \ {0}
      /\ DirBytes \in Nat \ {0}
  BY Sizes
<1>1. /\ LOW_TABLES \in Nat /\ LOW_TABLES <= ENTRIES /\ LOW_TABLES * TableBytes \in Nat
      /\ HEX_SAFE_MAX \in Nat /\ HEX_DUMP_MAX_BYTES \in Nat /\ HEX_SAFE_MIN \in Nat
      /\ HEX_SAFE_MAX <= LOW_TABLES * TableBytes
  <2>1. LOW_TABLES \in Nat /\ LOW_TABLES <= ENTRIES BY SizesAssumption
  <2>2. LOW_TABLES * TableBytes \in Nat BY <1>0, <2>1
  <2>3. HEX_SAFE_MAX \in Nat /\ HEX_DUMP_MAX_BYTES \in Nat /\ HEX_SAFE_MIN \in Nat
    BY SizesAssumption
  <2>4. HEX_SAFE_MAX <= LOW_TABLES * TableBytes BY HexAssumption
  <2> QED BY <2>1, <2>2, <2>3, <2>4
<1> SUFFICES ASSUME NEW a \in 0..(HEX_SAFE_MAX + HEX_DUMP_MAX_BYTES),
                    NEW n \in 1..HEX_DUMP_MAX_BYTES, cmd_hex(a, n)
             PROVE  Mapped(a, a, n)
  BY DEF HexDumpIsMapped
<1>2. a \in Nat /\ n \in Nat /\ a + n <= HEX_SAFE_MAX BY <1>1 DEF cmd_hex
<1>3. CASE ~paging BY <1>2, <1>3, Untranslated
<1>4. CASE paging
  <2> SUFFICES ASSUME NEW k \in 0..(n - 1) PROVE Translate(a + k) = {a + k}
    BY DEF Mapped
  <2> DEFINE v == a + k
  <2>1. v \in Nat /\ v < LOW_TABLES * TableBytes BY <1>1, <1>2
  <2> HIDE DEF v
  <2>2. PICK e \in 0..(LOW_TABLES - 1), i \in Entries, o \in Bytes :
          v = (e * ENTRIES + i) * PAGE + o
    BY <1>1, <2>1, TableParts
  <2>3. e \in Entries BY <1>0, <1>1 DEF Entries
  <2>4. v = Address(0, e, i, o) /\ v = e * TableBytes + i * PAGE + o
    BY <2>2, <2>3, InLowTable
  <2>5. low_pd[e] = {<<"low", e>>} /\ pts[<<"low", e>>][i] = {e * TableBytes + i * PAGE}
    BY <1>4 DEF PagingInv, LowInv
  <2>8. Translate(Address(0, e, i, o)) = {(e * TableBytes + i * PAGE) + o}
    <3> DEFINE t == <<"low", e>>
    <3> DEFINE p == e * TableBytes + i * PAGE
    <3>1. low_pd[e] = {t} /\ pts[t][i] = {p} BY <2>5
    <3> HIDE DEF t, p
    <3>2. Translate(Address(0, e, i, o)) = {p + o} BY <1>4, <2>3, <3>1, LowWalk
    <3> QED BY <3>2 DEF p
  <2>9. Translate(v) = {v} BY <2>4, <2>8
  <2> QED BY <2>9 DEF v
<1> QED BY <1>3, <1>4

\* The tables of the framebuffer lie in directory 3.
LEMMA FbTables ==
  /\ FB_TABLES \in Nat \ {0} /\ FB_PD \in Entries
  /\ \A j \in 0..(FB_TABLES - 1) : j \in Nat /\ FB_PD + j \in Entries
  /\ FB_MAX_MAP_SIZE = FB_TABLES * TableBytes /\ FB_MAX_MAP_SIZE \in Nat
  /\ FB_VIRT_BASE \in Nat \ {0}
  /\ FbWindow = FB_VIRT_BASE..(FB_VIRT_BASE + FB_MAX_MAP_SIZE - 1)
<1>0. ENTRIES \in Nat \ {0} /\ TableBytes \in Nat \ {0} /\ DirBytes \in Nat \ {0}
  BY Sizes
<1>1. FB_TABLES \in Nat \ {0} /\ FB_PD \in Nat /\ FB_PD + FB_TABLES <= ENTRIES
      /\ FB_MAX_MAP_SIZE = FB_TABLES * TableBytes
  BY SizesAssumption
<1>2. FB_MAX_MAP_SIZE \in Nat BY <1>0, <1>1
<1>3. FB_PD * TableBytes \in Nat BY <1>0, <1>1
<1>4. FB_VIRT_BASE \in Nat \ {0} BY <1>0, <1>3 DEF FB_VIRT_BASE
<1>5. FbWindow = FB_VIRT_BASE..(FB_VIRT_BASE + FB_MAX_MAP_SIZE - 1)
  BY <1>1 DEF FbWindow
<1> QED BY <1>0, <1>1, <1>2, <1>4, <1>5 DEF Entries

\* Rounding up leaves room for every one.
LEMMA CeilDiv ==
  ASSUME NEW m \in Nat \ {0}, NEW x \in Nat, NEW n \in Nat, x < n
  PROVE  x \div m < (n + m - 1) \div m
<1> DEFINE k == n + m - 1
<1> DEFINE c == k \div m
<1> DEFINE b == x \div m
<1>1. b \in Nat /\ x % m \in 0..(m - 1) /\ x = b * m + (x % m) BY Divides
<1>2. k \in Nat OBVIOUS
<1>3. c \in Nat /\ k % m \in 0..(m - 1) /\ k = c * m + (k % m) BY <1>2, Divides
<1> HIDE DEF c, b
<1>4. c * m \in Nat /\ b * m \in Nat BY <1>1, <1>3
<1>5. n <= c * m BY <1>3, <1>4
<1>6. b * m <= x BY <1>1, <1>4
<1>7. ~(c <= b)
  <2> SUFFICES ASSUME c <= b PROVE FALSE OBVIOUS
  <2>1. c * m <= b * m BY <1>1, <1>3, Products
  <2> QED BY <1>4, <1>5, <1>6, <2>1
<1>8. b < c BY <1>1, <1>3, <1>7
<1> QED BY <1>8 DEF b, c

\* A page that holds a byte of a region is one of the pages of the region.
LEMMA PageOfByte ==
  ASSUME NEW x \in Nat, NEW n \in Nat, x < n
  PROVE  x \div PAGE < PagesOf(n)
BY Sizes, CeilDiv DEF PagesOf

\* The number of pages is a number.
LEMMA PagesAreNat ==
  ASSUME NEW n \in Nat PROVE PagesOf(n) \in Nat
<1>0. PAGE \in Nat \ {0} BY Sizes
<1>1. n + PAGE - 1 \in Nat BY <1>0
<1> QED BY <1>0, <1>1, Divides DEF PagesOf

\* The bytes of the framebuffer.
LEMMA FbReached ==
  ASSUME PagingInv PROVE FramebufferMapped
<1>0. /\ PAGE \in Nat \ {0} /\ ENTRIES \in Nat \ {0} /\ TableBytes \in Nat \ {0}
      /\ DirBytes \in Nat \ {0}
  BY Sizes
<1> DEFINE w == fb.phys % PAGE
<1>1. fb.phys \in Nat /\ fb.bytes \in Nat BY DEF PagingInv, FbInv
<1>2. fb.phys \div PAGE \in Nat /\ w \in 0..(PAGE - 1)
      /\ fb.phys = (fb.phys \div PAGE) * PAGE + w
  BY <1>0, <1>1, Divides
<1> SUFFICES ASSUME fb.bytes + w <= FB_MAX_MAP_SIZE, ~InWindow(mmio)
             PROVE  Mapped(fb.addr, fb.phys, fb.bytes)
  BY DEF FramebufferMapped
<1>3. CASE ~paging
  <2>1. fb.addr = fb.phys BY <1>3 DEF PagingInv, FbInv
  <2> QED BY <1>1, <1>3, <2>1, Untranslated
<1>4. CASE paging
  <2> DEFINE base == PageBase(fb.phys)
  <2>0. base = fb.phys - w /\ base \in Nat
    <3>1. (fb.phys \div PAGE) * PAGE \in Nat BY <1>0, <1>2
    <3>2. base = fb.phys - w BY DEF PageBase
    <3> QED BY <1>1, <1>2, <3>1, <3>2
  <2>1. mmio.base \notin FbWindow BY <1>4 DEF InWindow
  <2>2. /\ fb.addr = FB_VIRT_BASE + w
        /\ \A j \in 0..(FB_TABLES - 1), i \in Entries :
             j * ENTRIES + i < FbPages(fb.phys, MinOf(fb.bytes, FB_MAX_MAP_SIZE))
               => pts[<<"fb", j>>][i] = {PageBase(fb.phys) + (j * ENTRIES + i) * PAGE}
        /\ \A j \in 0..(FB_TABLES - 1) : fb_pd[FB_PD + j] = {<<"fb", j>>}
    BY <1>4, <2>1 DEF PagingInv, FbInv
  <2> HIDE DEF base, w
  <2>3. MinOf(fb.bytes, FB_MAX_MAP_SIZE) = fb.bytes BY <1>1, <1>2, FbTables DEF MinOf
  <2>4. FbPages(fb.phys, fb.bytes) = MinOf(PagesOf(fb.bytes + w), FB_TABLES * ENTRIES)
    BY DEF FbPages, w
  <2> SUFFICES ASSUME NEW k \in 0..(fb.bytes - 1)
               PROVE  Translate(fb.addr + k) = {fb.phys + k}
    BY DEF Mapped
  <2> DEFINE x == w + k
  <2>5. x \in Nat /\ x < fb.bytes + w /\ x < FB_TABLES * TableBytes /\ fb.bytes + w \in Nat
    BY <1>1, <1>2, FbTables
  <2> HIDE DEF x
  <2>6. PICK j \in 0..(FB_TABLES - 1), i \in Entries, o \in Bytes :
          x = (j * ENTRIES + i) * PAGE + o /\ x \div PAGE = j * ENTRIES + i
    BY <2>5, FbTables, TableParts
  <2>7. j \in Nat /\ j + 1 <= FB_TABLES /\ i \in Nat /\ i + 1 <= ENTRIES /\ o \in Nat
    BY <1>0, FbTables DEF Entries, Bytes
  <2>8. j * ENTRIES + i < FbPages(fb.phys, fb.bytes)
    <3>1. j * ENTRIES + i < PagesOf(fb.bytes + w) BY <2>5, <2>6, PageOfByte
    <3>2. j * ENTRIES + i < FB_TABLES * ENTRIES
      <4>1. (j + 1) * ENTRIES <= FB_TABLES * ENTRIES BY <1>0, <2>7, FbTables, Products
      <4>2. (j + 1) * ENTRIES = j * ENTRIES + ENTRIES BY <1>0, <2>7
      <4>3. j * ENTRIES \in Nat /\ FB_TABLES * ENTRIES \in Nat BY <1>0, <2>7, FbTables
      <4> QED BY <1>0, <2>7, <4>1, <4>2, <4>3
    <3> QED BY <2>4, <3>1, <3>2 DEF MinOf
  <2>9. pts[<<"fb", j>>][i] = {base + (j * ENTRIES + i) * PAGE}
    BY <2>2, <2>3, <2>8 DEF base
  <2>10. fb_pd[FB_PD + j] = {<<"fb", j>>} BY <2>2
  <2>11. FB_PD \in Entries /\ FB_PD + j \in Entries BY FbTables
  <2>14. Translate(Address(3, FB_PD + j, i, o)) = {(base + (j * ENTRIES + i) * PAGE) + o}
    <3> DEFINE e == FB_PD + j
    <3> DEFINE t == <<"fb", j>>
    <3> DEFINE p == base + (j * ENTRIES + i) * PAGE
    <3>1. e \in Entries /\ fb_pd[e] = {t} /\ pts[t][i] = {p} BY <2>9, <2>10, <2>11
    <3> HIDE DEF e, t, p
    <3>2. Translate(Address(3, e, i, o)) = {p + o} BY <1>4, <3>1, HighWalk
    <3> QED BY <3>2 DEF e, p
  <2>15. Address(3, FB_PD + j, i, o) = FB_VIRT_BASE + x
    BY <2>6, <2>7, <2>11, InTable DEF FB_VIRT_BASE
  <2>16. fb.addr + k = FB_VIRT_BASE + x
    BY <1>1, <1>2, <2>2, FbTables DEF x
  <2>17. (base + (j * ENTRIES + i) * PAGE) + o = fb.phys + k
    <3>1. (j * ENTRIES + i) * PAGE \in Nat BY <1>0, <2>7
    <3>2. (base + (j * ENTRIES + i) * PAGE) + o = base + x BY <2>0, <2>6, <2>7, <3>1
    <3>3. base + x = fb.phys + k BY <1>1, <1>2, <2>0 DEF x
    <3> QED BY <3>2, <3>3
  <2> QED BY <2>14, <2>15, <2>16, <2>17
<1> QED BY <1>3, <1>4

\* A region mapped to itself.
LEMMA RegionReached ==
  ASSUME paging, NEW base \in Nat, NEW size \in Nat \ {0}, NEW e \in Entries,
         RegionAt(base, size, e)
  PROVE  Mapped(base, base, size)
<1>0. /\ PAGE \in Nat \ {0} /\ ENTRIES \in Nat \ {0} /\ TableBytes \in Nat \ {0}
      /\ DirBytes \in Nat \ {0}
  BY Sizes
<1> SUFFICES ASSUME NEW k \in 0..(size - 1)
             PROVE  Translate(base + k) = {base + k}
  BY DEF Mapped
<1>2. k \in Nat /\ k < size OBVIOUS
<1>3. k < size * TableBytes
  <2>1. size * 1 <= size * TableBytes
    <3>1. 1 * size <= TableBytes * size BY <1>0, Products
    <3> QED BY <1>0, <3>1
  <2>2. size * TableBytes \in Nat BY <1>0
  <2> QED BY <1>2, <2>1, <2>2
<1>4. PICK j \in 0..(size - 1), i \in Entries, o \in Bytes :
        k = (j * ENTRIES + i) * PAGE + o
  BY <1>2, <1>3, TableParts
<1>5. j \in Nat /\ i \in Nat /\ o \in Nat BY <1>0 DEF Entries, Bytes
<1>6. (j * ENTRIES + i) * PAGE \in Nat BY <1>0, <1>5
<1>7. (j * ENTRIES + i) * PAGE < size BY <1>2, <1>4, <1>5, <1>6
<1>8. /\ e + j \in Entries /\ fb_pd[e + j] = {<<"mmio", j>>}
      /\ pts[<<"mmio", j>>][i] = {base + (j * ENTRIES + i) * PAGE}
      /\ base = 3 * DirBytes + e * TableBytes
  BY <1>5, <1>7 DEF RegionAt
<1>9. Translate(Address(3, e + j, i, o))
         = {(base + (j * ENTRIES + i) * PAGE) + o}
  <2> DEFINE f == e + j
  <2> DEFINE t == <<"mmio", j>>
  <2> DEFINE p == base + (j * ENTRIES + i) * PAGE
  <2>1. f \in Entries /\ fb_pd[f] = {t} /\ pts[t][i] = {p} BY <1>8
  <2> HIDE DEF f, t, p
  <2>2. Translate(Address(3, f, i, o)) = {p + o} BY <2>1, HighWalk
  <2> QED BY <2>2 DEF f, p
<1>10. Address(3, e + j, i, o) = base + k
  <2>1. Address(3, e + j, i, o)
          = (3 * DirBytes + e * TableBytes) + ((j * ENTRIES + i) * PAGE + o)
    BY <1>5, <1>8, InTable
  <2> QED BY <1>4, <1>8, <2>1
<1>11. (base + (j * ENTRIES + i) * PAGE) + o = base + k
  BY <1>0, <1>4, <1>5, <1>6
<1> QED BY <1>9, <1>10, <1>11

\* The bytes of a BAR that was moved.
LEMMA MovedReached ==
  ASSUME PagingInv PROVE MovedBarMapped
<1>0. /\ PAGE \in Nat \ {0} /\ ENTRIES \in Nat \ {0} /\ TableBytes \in Nat \ {0}
      /\ DirBytes \in Nat \ {0} /\ LOW_MMIO_BASE \in Nat
  BY Sizes, SizesAssumption
<1> SUFFICES ASSUME bar.moved, mmio # NoMmio
             PROVE  /\ Mapped(bar.addr, bar.addr, bar.size)
                    /\ LOW_MMIO_MIN <= bar.addr /\ bar.addr + bar.size <= LOW_MMIO_LIMIT
                    /\ ~InWindow(mmio)
  BY DEF MovedBarMapped
<1>1. /\ bar.addr = LOW_MMIO_BASE /\ mmio.base = LOW_MMIO_BASE /\ bar.size \in Nat \ {0}
      /\ LOW_MMIO_MIN <= LOW_MMIO_BASE /\ LOW_MMIO_BASE + bar.size <= LOW_MMIO_LIMIT
      /\ paging => \E e \in Entries : RegionAt(LOW_MMIO_BASE, bar.size, e)
  BY DEF PagingInv, MovedInv
<1>2. mmio.base \notin FbWindow
  BY <1>0, <1>1, FbTables, WindowAssumption
<1>3. ~InWindow(mmio) BY <1>2 DEF InWindow
<1>4. Mapped(LOW_MMIO_BASE, LOW_MMIO_BASE, bar.size)
  <2>1. CASE ~paging BY <1>1, <2>1, Untranslated
  <2>2. CASE paging
    <3>1. PICK e \in Entries : RegionAt(LOW_MMIO_BASE, bar.size, e) BY <1>1, <2>2
    <3> QED BY <1>0, <1>1, <2>2, <3>1, RegionReached
  <2> QED BY <2>1, <2>2
<1> QED BY <1>1, <1>3, <1>4

-----------------------------------------------------------------------------
(* Paging: filling tables.                                                  *)

\* Tables of another kind stay as they are.
LEMMA FilledOther ==
  ASSUME NEW kind, NEW n, NEW base, NEW t \in Tables, t[1] # kind
  PROVE  Filled(kind, n, base)[t] = pts[t]
BY DEF Filled

\* Those of the kind hold the first n pages.
LEMMA FilledPages ==
  ASSUME NEW kind, NEW n, NEW base, NEW j, <<kind, j>> \in Tables,
         NEW i \in Entries, j * ENTRIES + i < n
  PROVE  Filled(kind, n, base)[<<kind, j>>][i] = {base + (j * ENTRIES + i) * PAGE}
<1>1. Filled(kind, n, base)[<<kind, j>>]
        = [k \in 0..(ENTRIES - 1) |->
             IF j * ENTRIES + k < n THEN {base + (j * ENTRIES + k) * PAGE}
             ELSE pts[<<kind, j>>][k]]
  BY DEF Filled
<1> QED BY <1>1 DEF Entries

\* Which tables there are.
LEMMA TableNames ==
  /\ \A j \in 0..(LOW_TABLES - 1) : <<"low", j>> \in Tables
  /\ \A j \in 0..(FB_TABLES - 1) : <<"fb", j>> \in Tables
  /\ \A j \in 0..(MMIO_TABLES - 1) : <<"mmio", j>> \in Tables
BY DEF Tables

\* As many pages, or tables, as it takes and no more.
LEMMA RoundedUp ==
  ASSUME NEW m \in Nat \ {0}, NEW n \in Nat, NEW c \in Nat, n <= c * m
  PROVE  (n + m - 1) \div m \in Nat /\ (n + m - 1) \div m <= c
<1> DEFINE k == n + m - 1
<1> DEFINE d == k \div m
<1>1. k \in Nat OBVIOUS
<1>2. d \in Nat /\ k % m \in 0..(m - 1) /\ k = d * m + (k % m) BY <1>1, Divides
<1> HIDE DEF d
<1>3. ~(c < d)
  <2> SUFFICES ASSUME c < d PROVE FALSE OBVIOUS
  <2>1. (c + 1) * m <= d * m BY <1>2, Products
  <2>2. (c + 1) * m = c * m + m OBVIOUS
  <2>3. c * m \in Nat /\ d * m \in Nat BY <1>2
  <2> QED BY <1>2, <2>1, <2>2, <2>3
<1>4. d \in Nat /\ d <= c BY <1>2, <1>3
<1> QED BY <1>4 DEF d

\* The tables that vga_map_mmio_region enters, from which entry.
UsedTables(a, size) == (PagesOf(size + (a % PAGE)) + ENTRIES - 1) \div ENTRIES
FirstEntry(a) == (a \div TableBytes) % ENTRIES

\* They are none of the framebuffer's.
Apart(a, size) ==
  paging /\ a \div DirBytes = 3 /\ a \notin FbWindow =>
    \A n \in FirstEntry(a)..(FirstEntry(a) + UsedTables(a, size) - 1) :
      n \notin FB_PD..(FB_PD + FB_TABLES - 1)

\* A region of 64 KiB takes one table, the one its first byte is in.
LEMMA DefaultApart ==
  ASSUME NEW a \in Nat PROVE Apart(a, BAR_DEFAULT)
<1>0. /\ PAGE \in Nat \ {0} /\ ENTRIES \in Nat \ {0} /\ TableBytes \in Nat \ {0}
      /\ DirBytes \in Nat \ {0} /\ TableBytes = ENTRIES * PAGE
  BY Sizes
<1> SUFFICES ASSUME a \div DirBytes = 3, a \notin FbWindow,
                    NEW n \in FirstEntry(a)..(FirstEntry(a) + UsedTables(a, BAR_DEFAULT) - 1),
                    n \in FB_PD..(FB_PD + FB_TABLES - 1)
             PROVE  FALSE
  BY DEF Apart
<1> DEFINE s == BAR_DEFAULT + (a % PAGE)
<1>1. s \in Nat /\ s <= ENTRIES * PAGE
  <2>1. a % PAGE \in 0..(PAGE - 1) BY <1>0, Divides
  <2>2. BAR_DEFAULT \in Nat BY SizesAssumption
  <2>3. BAR_DEFAULT + PAGE <= TableBytes BY WindowAssumption
  <2> QED BY <1>0, <2>1, <2>2, <2>3
<1>2. PagesOf(s) \in Nat /\ PagesOf(s) <= ENTRIES
  BY <1>0, <1>1, RoundedUp DEF PagesOf
<1>3. UsedTables(a, BAR_DEFAULT) \in Nat /\ UsedTables(a, BAR_DEFAULT) <= 1
  <2> DEFINE p == PagesOf(s)
  <2>1. p \in Nat /\ p <= 1 * ENTRIES BY <1>0, <1>2
  <2> HIDE DEF p, s
  <2>2. (p + ENTRIES - 1) \div ENTRIES \in Nat /\ (p + ENTRIES - 1) \div ENTRIES <= 1
    BY <1>0, <2>1, RoundedUp
  <2> QED BY <2>2 DEF UsedTables, p, s
<1>4. PICK i \in Entries, o \in Bytes :
        FirstEntry(a) \in Entries /\ a = Address(3, FirstEntry(a), i, o)
  BY Located DEF FirstEntry
<1>5. n = FirstEntry(a) BY <1>0, <1>3, <1>4 DEF Entries
<1> DEFINE j == n - FB_PD
<1>6. j \in 0..(FB_TABLES - 1) /\ j \in Nat /\ FB_PD + j = FirstEntry(a) /\ j + 1 <= FB_TABLES
      /\ FB_PD \in Entries /\ FB_PD + j \in Entries
  BY <1>0, <1>4, <1>5, FbTables DEF Entries
<1> HIDE DEF j
<1>7. a = FB_VIRT_BASE + ((j * ENTRIES + i) * PAGE + o)
  BY <1>4, <1>6, InTable DEF FB_VIRT_BASE
<1>8. i * PAGE + o \in 0..(TableBytes - 1)
      /\ (j * ENTRIES + i) * PAGE + o = j * TableBytes + (i * PAGE + o)
  BY <1>6, Nested
<1>9. j * TableBytes + TableBytes <= FB_MAX_MAP_SIZE
  <2>1. (j + 1) * TableBytes <= FB_TABLES * TableBytes BY <1>0, <1>6, FbTables, Products
  <2>2. (j + 1) * TableBytes = j * TableBytes + TableBytes BY <1>0, <1>6
  <2> QED BY <2>1, <2>2, FbTables
<1>10. j * TableBytes \in Nat BY <1>0, <1>6
<1>11. a \in FbWindow
  <2> DEFINE r == i * PAGE + o
  <2> DEFINE q == j * TableBytes
  <2>1. a = FB_VIRT_BASE + (q + r) BY <1>7, <1>8
  <2>2. r \in 0..(TableBytes - 1) /\ q \in Nat /\ q + TableBytes <= FB_MAX_MAP_SIZE
    BY <1>8, <1>9, <1>10
  <2> HIDE DEF q, r
  <2>3. a \in FB_VIRT_BASE..(FB_VIRT_BASE + FB_MAX_MAP_SIZE - 1)
    BY <1>0, <2>1, <2>2, FbTables
  <2> QED BY <2>3, FbTables
<1> QED BY <1>11

\* The address for BARs begins a table behind those of the framebuffer, if it
\* is in directory 3 at all.
LEMMA HoleBeginsTable ==
  ASSUME LOW_MMIO_BASE \div DirBytes = 3
  PROVE  /\ FirstEntry(LOW_MMIO_BASE) \in Entries
         /\ LOW_MMIO_BASE = 3 * DirBytes + FirstEntry(LOW_MMIO_BASE) * TableBytes
         /\ LOW_MMIO_BASE % PAGE = 0
         /\ FB_PD + FB_TABLES <= FirstEntry(LOW_MMIO_BASE)
<1> DEFINE a == LOW_MMIO_BASE
<1> DEFINE e == FirstEntry(LOW_MMIO_BASE)
<1>0. /\ PAGE \in Nat \ {0} /\ ENTRIES \in Nat \ {0} /\ TableBytes \in Nat \ {0}
      /\ DirBytes \in Nat \ {0} /\ DirBytes = ENTRIES * TableBytes
  BY Sizes
<1>1. a \in Nat /\ a % TableBytes = 0 /\ FB_VIRT_BASE + FB_MAX_MAP_SIZE <= a
      /\ a \div DirBytes = 3
  BY SizesAssumption, WindowAssumption
<1>2. PICK i \in Entries, o \in Bytes : e \in Entries /\ a = Address(3, e, i, o)
  BY <1>1, Located DEF FirstEntry
<1>3. a % PAGE = o BY <1>2, Parts
<1> HIDE DEF a, e
<1>4. e \in Nat /\ i \in Nat /\ o \in Nat BY <1>0, <1>2 DEF Entries, Bytes
<1> DEFINE y == 3 * ENTRIES + e
<1> DEFINE r == i * PAGE + o
<1>5. a = y * TableBytes + r /\ r \in 0..(TableBytes - 1) /\ y \in Nat
  <2>1. y \in Nat BY <1>0, <1>4
  <2>2. r \in 0..(TableBytes - 1) /\ (y * ENTRIES + i) * PAGE + o = y * TableBytes + r
    BY <2>1, Nested
  <2> QED BY <1>2, <2>1, <2>2 DEF Address
<1>6. r = 0
  <2> HIDE DEF y, r
  <2>1. (y * TableBytes + r) % TableBytes = r BY <1>0, <1>5, DivMod
  <2> QED BY <1>1, <1>5, <2>1
<1>7. o = 0
  <2>1. i * PAGE \in Nat BY <1>0, <1>4
  <2> QED BY <1>4, <1>6, <2>1
<1>8. e * TableBytes \in Nat /\ 3 * DirBytes \in Nat BY <1>0, <1>4
<1>9. a = 3 * DirBytes + e * TableBytes
  <2>1. y * TableBytes = (3 * ENTRIES) * TableBytes + e * TableBytes BY <1>0, <1>4
  <2>2. (3 * ENTRIES) * TableBytes = 3 * (ENTRIES * TableBytes) BY <1>0
  <2>3. y * TableBytes = 3 * DirBytes + e * TableBytes BY <1>0, <2>1, <2>2
  <2> HIDE DEF y, r
  <2> QED BY <1>5, <1>6, <1>8, <2>3
<1>10. FB_PD + FB_TABLES <= e
  <2> SUFFICES ASSUME e + 1 <= FB_PD + FB_TABLES PROVE FALSE
    BY <1>4, FbTables, SizesAssumption
  <2>0. FB_PD \in Nat /\ FB_TABLES \in Nat BY SizesAssumption
  <2>1. (e + 1) * TableBytes <= (FB_PD + FB_TABLES) * TableBytes
    BY <1>0, <1>4, <2>0, Products
  <2>2. (e + 1) * TableBytes = e * TableBytes + TableBytes BY <1>0, <1>4
  <2>3. (FB_PD + FB_TABLES) * TableBytes = FB_PD * TableBytes + FB_TABLES * TableBytes
    BY <1>0, <2>0
  <2>4. FB_PD * TableBytes \in Nat /\ FB_TABLES * TableBytes \in Nat BY <1>0, <2>0
  <2>5. 3 * DirBytes + FB_PD * TableBytes + FB_TABLES * TableBytes <= a
    BY <1>1, FbTables DEF FB_VIRT_BASE
  <2> QED BY <1>0, <1>8, <1>9, <2>1, <2>2, <2>3, <2>4, <2>5
<1> QED BY <1>2, <1>3, <1>7, <1>9, <1>10 DEF a, e

LEMMA HoleApart ==
  ASSUME NEW size PROVE Apart(LOW_MMIO_BASE, size)
<1> SUFFICES ASSUME LOW_MMIO_BASE \div DirBytes = 3,
                    NEW n \in FirstEntry(LOW_MMIO_BASE)
                              ..(FirstEntry(LOW_MMIO_BASE) + UsedTables(LOW_MMIO_BASE, size) - 1)
             PROVE  n \notin FB_PD..(FB_PD + FB_TABLES - 1)
  BY DEF Apart
<1>1. FB_PD + FB_TABLES <= FirstEntry(LOW_MMIO_BASE) /\ FirstEntry(LOW_MMIO_BASE) \in Nat
  BY Sizes, HoleBeginsTable DEF Entries
<1>2. FB_PD \in Nat /\ FB_TABLES \in Nat BY SizesAssumption
<1> QED BY <1>1, <1>2

-----------------------------------------------------------------------------
(* Paging: the invariant is kept.                                           *)

LEMMA PagingStarts ==
  ASSUME PagingInit PROVE PagingInv
BY DEF PagingInit, PagingInv, PhaseInv, LowInv, FbInv, MovedInv, NoFb

LEMMA SetupKeeps ==
  ASSUME PagingInv, NEW phys \in FbAddrs, NEW bytes \in FbBytes, SetupFramebuffer(phys, bytes)
  PROVE  PagingInv'
<1> DEFINE size == MinOf(bytes, FB_MAX_MAP_SIZE)
<1>0. phys \in Nat /\ bytes \in Nat BY FirmwareAssumption
<1>1. /\ pc = "video" /\ pc' = "usb" /\ ~paging /\ mmio' = NoMmio /\ ~bar'.moved
      /\ fb'.phys = phys /\ fb'.bytes = bytes
  BY DEF SetupFramebuffer, PagingInv, PhaseInv
<1>2. MovedInv' BY <1>1 DEF MovedInv
<1>3. CASE UNCHANGED <<paging, tables>> /\ fb'.addr = phys
  <2>1. ~paging' BY <1>1, <1>3
  <2> QED BY <1>0, <1>1, <1>2, <1>3, <2>1 DEF PagingInv, PhaseInv, LowInv, FbInv
<1>4. CASE map_framebuffer(phys, size) /\ fb'.addr = FB_VIRT_BASE + (phys % PAGE)
  <2>1. paging' = TRUE BY <1>4 DEF map_framebuffer
  <2>2. ASSUME NEW e \in 0..(LOW_TABLES - 1)
        PROVE  /\ low_pd'[e] = {<<"low", e>>}
               /\ \A i \in Entries : pts'[<<"low", e>>][i] = {e * TableBytes + i * PAGE}
    <3>1. e \in 0..(ENTRIES - 1) /\ e < LOW_TABLES BY SizesAssumption
    <3>2. low_pd'[e] = {<<"low", e>>} BY <1>4, <3>1 DEF map_framebuffer
    <3>3. pts'[<<"low", e>>] = [i \in 0..(ENTRIES - 1) |-> {e * TableBytes + i * PAGE}]
      BY <1>4, TableNames DEF map_framebuffer
    <3> QED BY <3>2, <3>3 DEF Entries
  <2>3. LowInv' BY <2>2 DEF LowInv
  <2>4. ASSUME NEW j \in 0..(FB_TABLES - 1), NEW i \in Entries,
               j * ENTRIES + i < FbPages(phys, size)
        PROVE  pts'[<<"fb", j>>][i] = {PageBase(phys) + (j * ENTRIES + i) * PAGE}
    <3>1. <<"fb", j>> \in Tables BY TableNames
    <3>2. pts'[<<"fb", j>>] = Filled("fb", FbPages(phys, size), PageBase(phys))[<<"fb", j>>]
      BY <1>4, <3>1 DEF map_framebuffer
    <3> HIDE DEF size
    <3>3. Filled("fb", FbPages(phys, size), PageBase(phys))[<<"fb", j>>][i]
            = {PageBase(phys) + (j * ENTRIES + i) * PAGE}
      BY <2>4, <3>1, FilledPages
    <3> QED BY <3>2, <3>3
  <2>5. ASSUME NEW j \in 0..(FB_TABLES - 1) PROVE fb_pd'[FB_PD + j] = {<<"fb", j>>}
    <3>1. fb_pd' = [i \in 0..(ENTRIES - 1) |->
                      IF i \in FB_PD..(FB_PD + FB_TABLES - 1) THEN {<<"fb", i - FB_PD>>} ELSE {}]
      BY <1>4 DEF map_framebuffer
    <3> DEFINE e == FB_PD + j
    <3>2. e \in 0..(ENTRIES - 1) /\ e \in FB_PD..(FB_PD + FB_TABLES - 1) /\ e - FB_PD = j
      BY SizesAssumption
    <3> HIDE DEF e
    <3>3. fb_pd'[e] = {<<"fb", e - FB_PD>>} BY <3>1, <3>2
    <3>4. fb_pd'[e] = {<<"fb", j>>} BY <3>2, <3>3
    <3> QED BY <3>4 DEF e
  <2>6. FbInv' BY <1>0, <1>1, <1>4, <2>1, <2>4, <2>5 DEF FbInv
  <2>7. PhaseInv' BY <1>1, <2>1 DEF PhaseInv
  <2> QED BY <1>2, <2>3, <2>6, <2>7 DEF PagingInv
<1> QED BY <1>3, <1>4 DEF SetupFramebuffer

\* Nothing but pc moves on.
LEMMA PassKeeps ==
  ASSUME PagingInv, UNCHANGED <<paging, tables, fb, mmio>>,
         ~bar'.moved \/ mmio = NoMmio,
         (pc' = "usb" /\ UNCHANGED bar /\ pc = "video") \/ pc' = "run"
  PROVE  PagingInv'
<1>1. /\ paging' = paging /\ low_pd' = low_pd /\ fb_pd' = fb_pd /\ pts' = pts
      /\ fb' = fb /\ mmio' = mmio
  BY DEF tables
<1>2. PhaseInv' BY <1>1 DEF PagingInv, PhaseInv
<1>3. LowInv' BY <1>1 DEF PagingInv, LowInv
<1>4. FbInv' BY <1>1 DEF PagingInv, FbInv
<1>5. MovedInv' BY <1>1 DEF MovedInv
<1> QED BY <1>2, <1>3, <1>4, <1>5 DEF PagingInv

\* The region of the controller is entered: the other tables stay as they are.
LEMMA MmioKeeps ==
  ASSUME PagingInv, mmio = NoMmio, fb' = fb, NEW a \in Nat, NEW size \in Nat,
         vga_map_mmio_region(a, size), Apart(a, size)
  PROVE  paging' = paging /\ LowInv' /\ FbInv'
<1>1. CASE ~paging
  <2>1. ~paging' /\ paging' = paging BY <1>1 DEF vga_map_mmio_region
  <2> QED BY <2>1 DEF PagingInv, LowInv, FbInv
<1>2. CASE paging /\ MmioRefused(a, PagesOf(size + (a % PAGE)))
  <2>1. /\ paging' = paging /\ mmio' = mmio /\ low_pd' = low_pd /\ fb_pd' = fb_pd
        /\ pts' = pts
    BY <1>2 DEF vga_map_mmio_region, tables
  <2> QED BY <2>1 DEF PagingInv, LowInv, FbInv
<1>3. CASE paging /\ ~MmioRefused(a, PagesOf(size + (a % PAGE)))
  <2> DEFINE f == FirstEntry(a)
  <2> DEFINE u == UsedTables(a, size)
  <2> DEFINE n == PagesOf(size + (a % PAGE))
  <2>1. /\ fb_pd' = [i \in 0..(ENTRIES - 1) |->
                       IF i \in f..(f + u - 1) THEN {<<"mmio", i - f>>} ELSE fb_pd[i]]
        /\ pts' = Filled("mmio", n, PageBase(a))
        /\ mmio' = [base |-> a, size |-> size] /\ paging' = paging /\ low_pd' = low_pd
    BY <1>3 DEF vga_map_mmio_region, FirstEntry, UsedTables
  <2>2. a \div DirBytes = 3 BY <1>3 DEF MmioRefused
  <2> HIDE DEF f, u, n
  <2>3. \A j \in 0..(LOW_TABLES - 1) : pts'[<<"low", j>>] = pts[<<"low", j>>]
    BY <2>1, TableNames, FilledOther
  <2>4. \A j \in 0..(FB_TABLES - 1) : pts'[<<"fb", j>>] = pts[<<"fb", j>>]
    BY <2>1, TableNames, FilledOther
  <2>5. LowInv' BY <2>1, <2>3 DEF PagingInv, LowInv
  <2>6. ASSUME mmio'.base \notin FbWindow, NEW j \in 0..(FB_TABLES - 1)
        PROVE  fb_pd'[FB_PD + j] = {<<"fb", j>>}
    <3>1. a \notin FbWindow BY <2>1, <2>6
    <3>2. FB_PD + j \in FB_PD..(FB_PD + FB_TABLES - 1) /\ FB_PD + j \in 0..(ENTRIES - 1)
      BY SizesAssumption
    <3>3. FB_PD + j \notin f..(f + u - 1) BY <1>3, <2>2, <3>1, <3>2 DEF Apart, f, u
    <3>4. fb_pd'[FB_PD + j] = fb_pd[FB_PD + j] BY <2>1, <3>2, <3>3
    <3>5. mmio.base \notin FbWindow BY FbTables DEF NoMmio
    <3>6. fb_pd[FB_PD + j] = {<<"fb", j>>} BY <1>3, <3>5 DEF PagingInv, FbInv
    <3> QED BY <3>4, <3>6
  <2>7. FbInv' BY <1>3, <2>1, <2>4, <2>6 DEF PagingInv, FbInv
  <2> QED BY <2>1, <2>5, <2>7
<1> QED BY <1>1, <1>2, <1>3 DEF vga_map_mmio_region

\* The region of a BAR that was moved is at the tables of its directory entries.
LEMMA RegionEntered ==
  ASSUME paging, NEW size \in Nat \ {0}, vga_map_mmio_region(LOW_MMIO_BASE, size),
         ~MmioRefused(LOW_MMIO_BASE, PagesOf(size + (LOW_MMIO_BASE % PAGE)))
  PROVE  \E e \in Entries : RegionAt(LOW_MMIO_BASE, size, e)'
<1> DEFINE a == LOW_MMIO_BASE
<1> DEFINE f == FirstEntry(a)
<1> DEFINE u == UsedTables(a, size)
<1> DEFINE n == PagesOf(size + (a % PAGE))
<1>0. /\ PAGE \in Nat \ {0} /\ ENTRIES \in Nat \ {0} /\ TableBytes \in Nat \ {0}
      /\ DirBytes \in Nat \ {0} /\ a \in Nat /\ MMIO_TABLES \in Nat \ {0}
  BY Sizes, SizesAssumption
<1>1. a \div DirBytes = 3 /\ n <= MMIO_TABLES * ENTRIES /\ f + u <= ENTRIES
      /\ n \in Nat
  <2>1. a \div DirBytes = 3 /\ ~(n > MMIO_TABLES * ENTRIES) /\ ~(f + u > ENTRIES)
    BY DEF MmioRefused, FirstEntry, UsedTables
  <2>2. a % PAGE \in Nat BY <1>0, Divides
  <2>3. n \in Nat BY <2>2, PagesAreNat
  <2>4. MMIO_TABLES * ENTRIES \in Nat BY <1>0
  <2>5. f \in Nat BY <1>0, <2>1, HoleBeginsTable DEF Entries
  <2> HIDE DEF n
  <2>6. u \in Nat
    <3>1. n + ENTRIES - 1 \in Nat BY <1>0, <2>3
    <3>2. (n + ENTRIES - 1) \div ENTRIES \in Nat BY <1>0, <3>1, Divides
    <3> QED BY <3>2 DEF UsedTables, n
  <2> HIDE DEF a, f, u
  <2> QED BY <1>0, <2>1, <2>3, <2>4, <2>5, <2>6
<1>2. f \in Entries /\ a = 3 * DirBytes + f * TableBytes /\ a % PAGE = 0
  BY <1>1, HoleBeginsTable
<1>3. n = PagesOf(size) /\ u = (n + ENTRIES - 1) \div ENTRIES /\ PageBase(a) = a
  BY <1>0, <1>2 DEF UsedTables, PageBase
<1>4. /\ fb_pd' = [i \in 0..(ENTRIES - 1) |->
                     IF i \in f..(f + u - 1) THEN {<<"mmio", i - f>>} ELSE fb_pd[i]]
      /\ pts' = Filled("mmio", n, a)
  BY <1>3 DEF vga_map_mmio_region, FirstEntry, UsedTables
<1> HIDE DEF a, f, u, n
<1>5. ASSUME NEW j \in Nat, NEW i \in Entries, (j * ENTRIES + i) * PAGE < size
      PROVE  /\ f + j \in Entries
             /\ fb_pd'[f + j] = {<<"mmio", j>>}
             /\ pts'[<<"mmio", j>>][i] = {a + (j * ENTRIES + i) * PAGE}
  <2> DEFINE p == j * ENTRIES + i
  <2>1. i \in 0..(ENTRIES - 1) /\ 0 \in Bytes /\ p \in Nat /\ p * PAGE \in Nat
        /\ j * ENTRIES \in Nat /\ p * PAGE + 0 = p * PAGE
    BY <1>0 DEF Entries, Bytes
  <2>2. p < n
    <3>1. (p * PAGE + 0) \div PAGE = p BY <2>1, Nested
    <3> HIDE DEF p
    <3>2. (p * PAGE) \div PAGE < PagesOf(size) BY <1>5, <2>1, PageOfByte DEF p
    <3> QED BY <1>3, <2>1, <3>1, <3>2
  <2>3. j < MMIO_TABLES
    <3> SUFFICES ASSUME MMIO_TABLES <= j PROVE FALSE BY <1>0
    <3>1. MMIO_TABLES * ENTRIES <= j * ENTRIES BY <1>0, Products
    <3>2. MMIO_TABLES * ENTRIES \in Nat BY <1>0
    <3> QED BY <1>0, <1>1, <2>1, <2>2, <3>1, <3>2
  <2>4. p \div ENTRIES = j BY <1>0, <2>1, DivMod
  <2>5. j < u
    <3> HIDE DEF p
    <3>1. p \div ENTRIES < (n + ENTRIES - 1) \div ENTRIES BY <1>0, <1>1, <2>1, <2>2, CeilDiv
    <3> QED BY <1>3, <2>4, <3>1
  <2>6. u \in Nat /\ f \in 0..(ENTRIES - 1)
    <3>1. n + ENTRIES - 1 \in Nat BY <1>0, <1>1
    <3> QED BY <1>0, <1>2, <1>3, <3>1, Divides DEF Entries
  <2> DEFINE e == f + j
  <2>7. e \in 0..(ENTRIES - 1) /\ e \in f..(f + u - 1) /\ e - f = j
    BY <1>0, <1>1, <2>5, <2>6
  <2> HIDE DEF e, p
  <2>8. fb_pd'[e] = {<<"mmio", j>>} BY <1>4, <2>7
  <2>9. <<"mmio", j>> \in Tables BY <1>0, <2>3, TableNames
  <2>10. Filled("mmio", n, a)[<<"mmio", j>>][i] = {a + (j * ENTRIES + i) * PAGE}
    BY <2>2, <2>9, FilledPages DEF p
  <2> QED BY <1>4, <2>7, <2>8, <2>10 DEF e, Entries
<1>6. RegionAt(a, size, f)' BY <1>2, <1>5 DEF RegionAt
<1> QED BY <1>2, <1>6 DEF a

\* A BAR that stays where it is.
LEMMA LowKeeps ==
  ASSUME PagingInv, NEW a \in BarAddrs, NEW size \in BarSizes, UsbInitLow(a, size)
  PROVE  PagingInv'
<1>1. a \in Nat /\ BAR_DEFAULT \in Nat BY FirmwareAssumption, SizesAssumption
<1>2. /\ pc = "usb" /\ pc' = "run" /\ ~bar'.moved /\ fb' = fb
      /\ vga_map_mmio_region(a, BAR_DEFAULT) /\ mmio = NoMmio
  BY DEF UsbInitLow, PagingInv, PhaseInv
<1>3. Apart(a, BAR_DEFAULT) BY <1>1, DefaultApart
<1>4. paging' = paging /\ LowInv' /\ FbInv' BY <1>1, <1>2, <1>3, MmioKeeps
<1>5. PhaseInv' BY <1>2, <1>4 DEF PagingInv, PhaseInv
<1>6. MovedInv' BY <1>2 DEF MovedInv
<1> QED BY <1>4, <1>5, <1>6 DEF PagingInv

\* Where a BAR is moved to.
LEMMA RelocatedTo ==
  ASSUME NEW size \in BarSizes, NEW b \in Relocated(size)
  PROVE  /\ b = [addr |-> LOW_MMIO_BASE, size |-> size, moved |-> TRUE]
         /\ LOW_MMIO_MIN <= LOW_MMIO_BASE /\ LOW_MMIO_BASE + size <= LOW_MMIO_LIMIT
         /\ size \in Nat \ {0}
<1>0. LOW_MMIO_BASE \in Nat /\ LOW_MMIO_LIMIT \in Nat /\ LOW_MMIO_MIN \in Nat /\ BAR_MAX \in Nat
      /\ size \in Nat \ {0}
  BY SizesAssumption, FirmwareAssumption
<1> DEFINE base == align_down(LOW_MMIO_BASE, size)
<1>1. /\ ~(size > BAR_MAX) /\ ~RelocationRefused(base, size)
      /\ b = [addr |-> HwBar(base, size), size |-> size, moved |-> TRUE]
  BY DEF Relocated
<1>2. LOW_MMIO_BASE % size = 0 BY <1>0, <1>1, WindowAssumption
<1>3. base = LOW_MMIO_BASE BY <1>0, <1>2 DEF align_down
<1>4. HwBar(base, size) = LOW_MMIO_BASE BY <1>0, <1>2, <1>3 DEF HwBar
<1>5. LOW_MMIO_MIN <= LOW_MMIO_BASE /\ LOW_MMIO_BASE + size <= LOW_MMIO_LIMIT
  BY <1>0, <1>1, <1>3 DEF RelocationRefused
<1> QED BY <1>0, <1>1, <1>4, <1>5

\* A BAR above 4 GiB.
LEMMA HighKeeps ==
  ASSUME PagingInv, NEW a \in BarAddrs, NEW size \in BarSizes, UsbInitHigh(a, size)
  PROVE  PagingInv'
<1>1. pc = "usb" /\ pc' = "run" /\ fb' = fb /\ mmio = NoMmio /\ ~bar.moved
  BY DEF UsbInitHigh, PagingInv, PhaseInv
<1>2. CASE UNCHANGED <<bar, mmio, paging, tables>>
  BY <1>1, <1>2, PassKeeps
<1>3. CASE bar' \in Relocated(size) /\ vga_map_mmio_region(bar'.addr, size)
  <2>1. /\ bar' = [addr |-> LOW_MMIO_BASE, size |-> size, moved |-> TRUE]
        /\ LOW_MMIO_MIN <= LOW_MMIO_BASE /\ LOW_MMIO_BASE + size <= LOW_MMIO_LIMIT
        /\ size \in Nat \ {0}
    BY <1>3, RelocatedTo
  <2>2. bar'.addr = LOW_MMIO_BASE /\ bar'.size = size BY <2>1
  <2>3. vga_map_mmio_region(LOW_MMIO_BASE, size) BY <1>3, <2>2
  <2>4. LOW_MMIO_BASE \in Nat /\ size \in Nat BY <2>1, SizesAssumption
  <2>5. Apart(LOW_MMIO_BASE, size) BY HoleApart
  <2>6. paging' = paging /\ LowInv' /\ FbInv' BY <1>1, <2>3, <2>4, <2>5, MmioKeeps
  <2>7. PhaseInv' BY <1>1, <2>6 DEF PagingInv, PhaseInv
  <2>8. ASSUME mmio' # NoMmio PROVE mmio'.base = LOW_MMIO_BASE
    BY <1>1, <2>3, <2>8 DEF vga_map_mmio_region
  <2>9. ASSUME mmio' # NoMmio, paging'
        PROVE  \E e \in Entries : RegionAt(LOW_MMIO_BASE, size, e)'
    <3>1. ~MmioRefused(LOW_MMIO_BASE, PagesOf(size + (LOW_MMIO_BASE % PAGE)))
      BY <1>1, <2>3, <2>6, <2>9 DEF vga_map_mmio_region
    <3>2. paging BY <2>6, <2>9
    <3> QED BY <2>1, <2>3, <3>1, <3>2, RegionEntered
  <2>10. ASSUME mmio' # NoMmio, paging'
         PROVE  \E e \in Entries : RegionAt(LOW_MMIO_BASE, bar.size, e)'
    BY <2>2, <2>9, <2>10 DEF RegionAt
  <2>11. MovedInv' BY <2>1, <2>2, <2>8, <2>10 DEF MovedInv
  <2> QED BY <2>6, <2>7, <2>11 DEF PagingInv
<1> QED BY <1>2, <1>3 DEF UsbInitHigh

LEMMA PagingKeeps ==
  ASSUME PagingInv, [PagingNext]_pagingVars PROVE PagingInv'
<1>1. ASSUME NEW phys \in FbAddrs, NEW bytes \in FbBytes, SetupFramebuffer(phys, bytes)
      PROVE  PagingInv'
  BY <1>1, SetupKeeps
<1>2. CASE TextMode
  <2>1. /\ UNCHANGED <<paging, tables, fb, mmio>> /\ pc' = "usb" /\ UNCHANGED bar /\ pc = "video"
        /\ mmio = NoMmio
    BY <1>2 DEF TextMode, PagingInv, PhaseInv
  <2> QED BY <2>1, PassKeeps
<1>3. ASSUME NEW a \in BarAddrs, NEW size \in BarSizes, UsbInitLow(a, size)
      PROVE  PagingInv'
  BY <1>3, LowKeeps
<1>4. ASSUME NEW a \in BarAddrs, NEW size \in BarSizes, UsbInitHigh(a, size)
      PROVE  PagingInv'
  BY <1>4, HighKeeps
<1>5. CASE UsbAbsent
  <2>1. /\ UNCHANGED <<paging, tables, fb, mmio>> /\ pc' = "run" /\ mmio = NoMmio
    BY <1>5 DEF UsbAbsent, PagingInv, PhaseInv
  <2> QED BY <2>1, PassKeeps
<1>6. CASE UNCHANGED pagingVars
  BY <1>6 DEF pagingVars, tables, PagingInv, PhaseInv, LowInv, FbInv, MovedInv, RegionAt
<1> QED BY <1>1, <1>2, <1>3, <1>4, <1>5, <1>6 DEF PagingNext

\* What the program writes into its page tables, for every layout of them that
\* the assumptions allow and whatever the firmware set up.
LEMMA PagingInvariant == PagingSpec => []PagingInv
<1>1. PagingInit => PagingInv BY PagingStarts
<1>2. PagingInv /\ [PagingNext]_pagingVars => PagingInv' BY PagingKeeps
<1> QED BY <1>1, <1>2, PTL DEF PagingSpec

\* Every byte that the hex command agrees to dump is mapped, and to itself, with
\* the tables of vga.c and whatever was mapped since.
THEOREM HexReadsItsRange == PagingSpec => []HexDumpIsMapped
<1>1. PagingInv => HexDumpIsMapped BY HexReached
<1> QED BY <1>1, PagingInvariant, PTL

\* Through fb_addr the program reaches the framebuffer, and through the address
\* of a BAR that it moved the registers of the controller: each device is behind
\* its window, and the windows stay apart.
THEOREM WindowsReachDevices == PagingSpec => []WindowsMapped
<1>1. PagingInv => WindowsMapped BY FbReached, MovedReached DEF WindowsMapped
<1> QED BY <1>1, PagingInvariant, PTL
=============================================================================
