-------------------------- MODULE LineEditor_proofs --------------------------
(***************************************************************************)
(* For every line length, history size, grid, keyboard map and command     *)
(* list: the editor's buffer, count and cursor describe one line, a letter *)
(* lands in it, the history is the last runs, and the screen shows the     *)
(* line.                                                                   *)
(***************************************************************************)
EXTENDS LineEditor, SequenceTheorems, FiniteSetTheorems, WellFoundedInduction, TLAPS

-----------------------------------------------------------------------------
(* The word moves: Max and Min of a set of positions are in the set.        *)

\* A set of naturals has a least element: the intervals 0..x are ordered by strict
\* inclusion as their bounds are by <.
LEMMA LeastElement ==
  ASSUME NEW S \in SUBSET Nat, S # {}
  PROVE  \E x \in S : \A y \in S : x <= y
<1> DEFINE T == {0..x : x \in S}
<1>1. T \subseteq FiniteSubsetsOf(Nat)
  <2> SUFFICES ASSUME NEW x \in S PROVE 0..x \in FiniteSubsetsOf(Nat)
    OBVIOUS
  <2>1. IsFiniteSet(0..x)
    BY FS_Interval
  <2>2. 0..x \in SUBSET Nat
    OBVIOUS
  <2> QED
    BY <2>1, <2>2 DEF FiniteSubsetsOf
<1>2. PICK I \in T : \A J \in T : <<J, I>> \notin StrictSubsetOrdering(Nat)
  <2>1. T # {}
    OBVIOUS
  <2> HIDE DEF T
  <2> QED
    BY <1>1, <2>1, FS_StrictSubsetOrderingWellFounded, WFMin
<1>3. PICK x \in S : I = 0..x
  OBVIOUS
<1>4. ASSUME NEW y \in S PROVE x <= y
  <2> SUFFICES ASSUME y < x PROVE FALSE
    OBVIOUS
  <2>1. 0..y \in SUBSET Nat /\ 0..x \in SUBSET Nat /\ 0..y \subseteq 0..x
    OBVIOUS
  <2>2. x \in 0..x /\ x \notin 0..y
    OBVIOUS
  <2>3. <<0..y, 0..x>> \in StrictSubsetOrdering(Nat)
    BY <2>1, <2>2 DEF StrictSubsetOrdering
  <2> QED
    BY <1>2, <1>3, <2>3
<1> QED
  BY <1>4

LEMMA MinInSet ==
  ASSUME NEW S \in SUBSET Nat, S # {}
  PROVE  Min(S) \in S /\ \A y \in S : Min(S) <= y
BY LeastElement DEF Min

LEMMA MaxInSet ==
  ASSUME NEW n \in Nat, NEW S \in SUBSET (0..n), S # {}
  PROVE  Max(S) \in S /\ \A y \in S : Max(S) >= y
<1> DEFINE T == {k \in Nat : \E q \in S : k = n - q}
<1>1. T \in SUBSET Nat /\ T # {}
  <2>1. PICK q \in S : TRUE
    OBVIOUS
  <2>2. n - q \in T
    OBVIOUS
  <2> QED
    BY <2>2
<1>2. PICK x \in T : \A y \in T : x <= y
  BY <1>1, LeastElement
<1>3. PICK m \in S : x = n - m
  BY <1>2
<1>4. \A q \in S : m >= q
  <2> TAKE q \in S
  <2>1. n - q \in T
    OBVIOUS
  <2>2. x <= n - q
    BY <1>2, <2>1
  <2> QED
    BY <2>2, <1>3
<1> QED
  BY <1>4 DEF Max

LEMMA WordLeftBound ==
  ASSUME cursor_buffer \in Nat
  PROVE  WordLeft \in 0..cursor_buffer
<1> DEFINE from == Max({q \in 0..cursor_buffer : q = 0 \/ buffer[q] # Blank})
<1>1. from \in 0..cursor_buffer
  <2> DEFINE S == {q \in 0..cursor_buffer : q = 0 \/ buffer[q] # Blank}
  <2>1. S \in SUBSET (0..cursor_buffer) /\ 0 \in S
    OBVIOUS
  <2>2. Max(S) \in S
    BY <2>1, MaxInSet
  <2> QED
    BY <2>2
<1> DEFINE S2 == {q \in 0..from : q = 0 \/ buffer[q] = Blank}
<1>2. WordLeft = Max(S2)
  BY DEF WordLeft
<1> HIDE DEF from
<1>3. S2 \in SUBSET (0..from) /\ 0 \in S2 /\ from \in Nat
  BY <1>1
<1>4. Max(S2) \in S2
  BY <1>3, MaxInSet
<1> QED
  BY <1>1, <1>2, <1>4

LEMMA WordRightBound ==
  ASSUME buffer_index \in Nat, cursor_buffer \in 0..buffer_index
  PROVE  WordRight \in cursor_buffer..buffer_index
<1> DEFINE S1 == {q \in cursor_buffer..buffer_index :
                    q = buffer_index \/ buffer[q + 1] # Blank}
           from == Min(S1)
           S2 == {q \in from..buffer_index :
                    q = buffer_index \/ buffer[q + 1] = Blank}
<1>1. S1 \in SUBSET Nat /\ buffer_index \in S1
  OBVIOUS
<1>2. from \in S1
  BY <1>1, MinInSet
<1>3. WordRight = Min(S2)
  BY DEF WordRight
<1>4. from \in cursor_buffer..buffer_index
  BY <1>2
<1> HIDE DEF from, S1
<1>5. S2 \in SUBSET Nat /\ buffer_index \in S2
  BY <1>4
<1>6. Min(S2) \in S2
  BY <1>5, MinInSet
<1> QED
  BY <1>3, <1>4, <1>6

\* One step left or right stops at the line's ends.
LEMMA OneLeftBound ==
  ASSUME NEW c \in Nat
  PROVE  Max({c, 1}) - 1 \in 0..c
<1>1. {c, 1} \in SUBSET (0..(c + 1))
  OBVIOUS
<1>2. Max({c, 1}) \in {c, 1} /\ Max({c, 1}) >= 1
  BY <1>1, MaxInSet
<1> QED
  BY <1>2

LEMMA OneRightBound ==
  ASSUME NEW c \in Nat, NEW n \in Nat, c <= n
  PROVE  Min({c + 1, n}) \in c..n
<1>1. {c + 1, n} \in SUBSET Nat
  OBVIOUS
<1>2. Min({c + 1, n}) \in {c + 1, n} /\ Min({c + 1, n}) <= n
  BY <1>1, MinInSet
<1> QED
  BY <1>2

-----------------------------------------------------------------------------
(* What the branches build is again a line.                                 *)

\* A part of a line is a line, of the length its bounds say.
LEMMA PartOfLine ==
  ASSUME NEW s \in Seq(Chars), NEW a \in 1..(Len(s) + 1), NEW b \in 0..Len(s)
  PROVE  /\ SubSeq(s, a, b) \in Seq(Chars)
         /\ Len(SubSeq(s, a, b)) = IF a <= b THEN b - a + 1 ELSE 0
<1>1. \A i \in a..b : s[i] \in Chars
  BY ElementOfSeq
<1> QED
  BY <1>1, SubSeqProperties

\* cmd_autocomplete's only match is a command's name.
LEMMA MatchIsLine ==
  ASSUME Cardinality(Matches) = 1
  PROVE  (CHOOSE n \in Matches : TRUE) \in Lines
<1>1. Matches # {}
  BY FS_EmptySet
<1>2. Matches \subseteq Names
  BY DEF Matches
<1> QED
  BY <1>1, <1>2, NamesAssumption, LineAssumption, SeqMonotonic DEF Lines

\* The characters of the two keyboard maps.
LEMMA KeyIsChar ==
  ASSUME NEW code \in LetterKeys
  PROVE  keyboard_map[code] \in Chars /\ keyboard_map_shift[code] \in Chars
BY DEF Chars

LEMMA HistoryKept ==
  ASSUME NEW texto \in Lines, historico \in Seq(Lines),
         historico_adicionar(texto)
  PROVE  historico' \in Seq(Lines) /\ historico_pos' \in -1..Len(historico')
<1> DEFINE h == IF historico # << >> /\ historico[Len(historico)] = texto
                THEN historico
                ELSE IF Len(historico) < KBD_HISTORY_SIZE
                THEN Append(historico, texto)
                ELSE Append(Tail(historico), texto)
<1>1. historico' = h /\ historico_pos' = Len(h)
  BY DEF historico_adicionar
<1>2. Append(historico, texto) \in Seq(Lines)
  BY AppendProperties
<1>3. historico # << >> => Append(Tail(historico), texto) \in Seq(Lines)
  BY HeadTailProperties, AppendProperties
<1>4. historico = << >> => Len(historico) < KBD_HISTORY_SIZE
  BY LineAssumption, EmptySeq
<1>5. h \in Seq(Lines)
  BY <1>2, <1>3, <1>4
<1>6. Len(h) \in Nat
  BY <1>5, LenProperties
<1> HIDE DEF h
<1> QED
  BY <1>1, <1>5, <1>6

\* Recalling a line replaces string, count and cursor together.
LEMMA LoadedLine ==
  ASSUME NEW texto \in Lines, carregar_linha(texto)
  PROVE  /\ buffer' \in Lines
         /\ buffer_index' \in 0..MaxLine /\ cursor_buffer' \in 0..buffer_index'
         /\ buffer_index' \in {0, Len(buffer')}
<1>1. Len(texto) \in Nat /\ Len(texto) <= MaxLine
  BY LenProperties DEF Lines
<1> QED
  BY <1>1, LineAssumption DEF carregar_linha

-----------------------------------------------------------------------------
\* The editor starts with an empty line and an empty history.
LEMMA LineInit == Init => LineInv
<1>1. << >> \in Lines /\ << >> \in Seq(Lines) /\ Len(<< >>) = 0
  BY EmptySeq, LineAssumption DEF Lines
<1> QED
  BY <1>1, LineAssumption DEF Init, LineInv

\* Each branch of processar_set1 keeps the line one line.
LEMMA LineNext == LineInv /\ [Next]_vars => LineInv'
<1> SUFFICES ASSUME LineInv, [Next]_vars PROVE LineInv'
  OBVIOUS
<1>0. /\ buffer \in Seq(Chars) /\ Len(buffer) \in Nat /\ Len(buffer) <= MaxLine
      /\ MaxLine \in Nat /\ buffer_index \in 0..Len(buffer)
      /\ cursor_buffer \in 0..buffer_index /\ cursor_buffer \in 0..Len(buffer)
      /\ Len(historico) \in Nat
  BY LenProperties, LineAssumption DEF LineInv, Lines
<1>e. << >> \in Lines /\ << >> \in Seq(Lines) /\ Len(<< >>) = 0
  BY EmptySeq, LineAssumption DEF Lines
<1>1. CASE UNCHANGED <<line, recall>>
  BY <1>1 DEF LineInv, line, recall
<1>2. CASE UNCHANGED vars
  BY <1>1, <1>2 DEF vars
<1>3. ASSUME NEW code \in Scancodes, processar_set1(code) PROVE LineInv'
  <2>1. CASE Answer(code)
    BY <1>1, <2>1 DEF Answer
  <2>2. CASE Modifier(code)
    BY <1>1, <2>2 DEF Modifier
  <2>3. CASE Prefix(code)
    BY <1>1, <2>3 DEF Prefix
  <2>4. CASE Reboot(code)
    BY <2>4, <1>e, LineAssumption DEF Reboot, Boot, LineInv
  <2>5. CASE MoveLeft(code)
    <3>1. cursor_buffer' \in 0..cursor_buffer
      <4>1. CASE ctrlon
        BY <4>1, <2>5, <1>0, WordLeftBound DEF MoveLeft
      <4>2. CASE ~ctrlon
        BY <4>2, <2>5, <1>0, OneLeftBound DEF MoveLeft
      <4> QED
        BY <4>1, <4>2
    <3> QED
      BY <3>1, <2>5, <1>0 DEF MoveLeft, LineInv, recall
  <2>6. CASE MoveRight(code)
    <3>1. cursor_buffer' \in cursor_buffer..buffer_index
      <4>1. CASE ctrlon
        BY <4>1, <2>6, <1>0, WordRightBound DEF MoveRight
      <4>2. CASE ~ctrlon
        BY <4>2, <2>6, <1>0, OneRightBound DEF MoveRight
      <4> QED
        BY <4>1, <4>2
    <3> QED
      BY <3>1, <2>6, <1>0 DEF MoveRight, LineInv, recall
  <2>7. CASE historico_subir(code)
    <3> DEFINE pos == IF historico_pos < 0 \/ historico_pos > Len(historico)
                      THEN Len(historico) ELSE historico_pos
    <3>1. pos \in 0..Len(historico)
      BY <1>0 DEF LineInv
    <3>2. historico' = historico
      BY <2>7 DEF historico_subir
    <3>3. CASE historico = << >> \/ pos = 0
      BY <3>1, <3>2, <3>3, <2>7, <1>0 DEF historico_subir, LineInv, line
    <3>4. CASE historico # << >> /\ pos # 0
      <4>1. historico_pos' = pos - 1 /\ carregar_linha(historico[pos])
        BY <3>4, <2>7 DEF historico_subir
      <4>2. historico[pos] \in Lines
        BY <3>1, <3>4, ElementOfSeq DEF LineInv
      <4> QED
        BY <3>1, <3>2, <3>4, <4>1, <4>2, <1>0, LoadedLine DEF LineInv
    <3> QED
      BY <3>3, <3>4
  <2>8. CASE historico_descer(code)
    <3>1. historico' = historico
      BY <2>8 DEF historico_descer
    <3>2. CASE historico = << >> \/ historico_pos < 0
      BY <3>1, <3>2, <2>8 DEF historico_descer, LineInv, line
    <3>3. CASE /\ ~(historico = << >> \/ historico_pos < 0)
               /\ historico_pos < Len(historico) - 1
      <4>1. /\ historico_pos' = historico_pos + 1
            /\ carregar_linha(historico[historico_pos + 2])
        BY <3>3, <2>8 DEF historico_descer
      <4>2. historico_pos + 2 \in 1..Len(historico)
        BY <3>3, <1>0 DEF LineInv
      <4>3. historico[historico_pos + 2] \in Lines
        BY <4>2, ElementOfSeq DEF LineInv
      <4> QED
        BY <3>1, <3>3, <4>1, <4>2, <4>3, <1>0, LoadedLine DEF LineInv
    <3>4. CASE /\ ~(historico = << >> \/ historico_pos < 0)
               /\ ~(historico_pos < Len(historico) - 1)
      <4>1. historico_pos' = Len(historico) /\ carregar_linha(<< >>)
        BY <3>4, <2>8 DEF historico_descer
      <4> QED
        BY <3>1, <4>1, <1>e, <1>0, LoadedLine DEF LineInv
    <3> QED
      BY <3>2, <3>3, <3>4
  <2>9. CASE OtherExtended(code)
    BY <1>1, <2>9 DEF OtherExtended
  <2>10. CASE NoEffect(code)
    BY <1>1, <2>10 DEF NoEffect
  <2>11. CASE executar_buffer(code)
    <3>1. buffer' = << >> /\ buffer_index' = 0 /\ cursor_buffer' = 0
      BY <2>11 DEF executar_buffer
    <3>2. historico' \in Seq(Lines) /\ historico_pos' \in -1..Len(historico')
      <4>1. CASE buffer_index > 0
        <5>1. Text \in Lines
          BY <1>0, PartOfLine DEF Text, Lines
        <5>2. historico_adicionar(Text)
          BY <4>1, <2>11 DEF executar_buffer
        <5> QED
          BY <5>1, <5>2, HistoryKept DEF LineInv
      <4>2. CASE ~(buffer_index > 0)
        BY <4>2, <2>11 DEF executar_buffer, recall, LineInv
      <4> QED
        BY <4>1, <4>2
    <3> QED
      BY <3>1, <3>2, <1>e, <1>0 DEF LineInv
  <2>12. CASE CtrlL(code)
    BY <2>12, <1>0 DEF CtrlL, LineInv, recall
  <2>13. CASE CtrlC(code)
    BY <1>1, <2>13 DEF CtrlC
  <2>14. CASE Backspace(code)
    <3>1. cursor_buffer' \in 0..cursor_buffer
      BY <2>14, <1>0, WordLeftBound, OneLeftBound DEF Backspace
    <3>2. buffer_index' = buffer_index - (cursor_buffer - cursor_buffer')
      BY <2>14 DEF Backspace
    <3>3. CASE cursor_buffer = 0
      <4>1. cursor_buffer' = 0 /\ buffer_index' = buffer_index
        BY <3>1, <3>2, <3>3, <1>0
      <4>2. buffer' = buffer /\ UNCHANGED recall
        BY <3>3, <2>14 DEF Backspace
      <4> QED
        BY <4>1, <4>2, <1>0 DEF LineInv, recall
    <3>4. CASE cursor_buffer # 0
      <4>1. buffer' = SubSeq(buffer, 1, cursor_buffer') \o After
        BY <3>4, <2>14 DEF Backspace
      <4>2. /\ SubSeq(buffer, 1, cursor_buffer') \in Seq(Chars)
            /\ Len(SubSeq(buffer, 1, cursor_buffer')) = cursor_buffer'
        <5>1. cursor_buffer' \in 0..Len(buffer)
          BY <3>1, <1>0
        <5>2. \A c \in 0..Len(buffer) : /\ SubSeq(buffer, 1, c) \in Seq(Chars)
                                        /\ Len(SubSeq(buffer, 1, c)) = c
          BY <1>0, PartOfLine
        <5> QED
          BY <5>1, <5>2
      <4>3. After \in Seq(Chars) /\ Len(After) = buffer_index - cursor_buffer
        BY <1>0, PartOfLine DEF After
      <4>4. buffer' \in Seq(Chars) /\ Len(buffer') = buffer_index'
        BY <4>1, <4>2, <4>3, <3>1, <3>2, <1>0, ConcatProperties
      <4> QED
        <5>1. UNCHANGED recall
          BY <2>14 DEF Backspace
        <5>2. buffer_index' \in 0..MaxLine /\ cursor_buffer' \in 0..buffer_index'
          <6>1. \A n \in 0..MaxLine, c \in 0..MaxLine, d \in 0..MaxLine :
                  c <= n /\ d <= c => n - (c - d) \in 0..MaxLine /\ d \in 0..(n - (c - d))
            BY <1>0
          <6>2. /\ buffer_index \in 0..MaxLine /\ cursor_buffer \in 0..MaxLine
                /\ cursor_buffer' \in 0..MaxLine
                /\ cursor_buffer <= buffer_index /\ cursor_buffer' <= cursor_buffer
            BY <3>1, <1>0
          <6> QED
            BY <6>1, <6>2, <3>2
        <5> QED
          BY <4>4, <5>1, <5>2, <1>0 DEF LineInv, Lines, recall
    <3> QED
      BY <3>3, <3>4
  <2>15. CASE Tab(code)
    <3>1. buffer_index' = Len(buffer')
      BY <2>15 DEF Tab
    <3>2. CASE /\ Cardinality(Matches) = 1
               /\ buffer' = (CHOOSE n \in Matches : TRUE)
               /\ cursor_buffer' = Len(buffer')
      <4>1. buffer' \in Lines
        BY <3>2, MatchIsLine
      <4>2. Len(buffer') \in 0..MaxLine
        BY <4>1, <1>0, LenProperties DEF Lines
      <4> QED
        BY <3>1, <3>2, <4>1, <4>2, <2>15 DEF Tab, LineInv, recall
    <3>3. CASE UNCHANGED <<buffer, cursor_buffer>>
      BY <3>1, <3>3, <2>15, <1>0 DEF Tab, LineInv, recall
    <3> QED
      BY <3>2, <3>3, <2>15 DEF Tab
  <2>16. CASE Letter(code)
    <3>1. UNCHANGED recall
      BY <2>16 DEF Letter
    <3>2. CASE ~(buffer_index < MaxLine)
      BY <1>1, <3>1, <3>2, <2>16 DEF Letter
    <3>3. CASE buffer_index < MaxLine
      <4> DEFINE letra == IF shifton THEN keyboard_map_shift[code]
                          ELSE keyboard_map[code]
      <4>1. /\ buffer' = Before \o <<letra>> \o After
            /\ buffer_index' = buffer_index + 1
            /\ cursor_buffer' = cursor_buffer + 1
        BY <3>3, <2>16 DEF Letter
      <4>2. letra \in Chars
        BY <2>16, KeyIsChar DEF Letter
      <4> HIDE DEF letra
      <4>3. <<letra>> \in Seq(Chars) /\ Len(<<letra>>) = 1
        BY <4>2
      <4>4. Before \in Seq(Chars) /\ Len(Before) = cursor_buffer
        BY <1>0, PartOfLine DEF Before
      <4>5. After \in Seq(Chars) /\ Len(After) = buffer_index - cursor_buffer
        BY <1>0, PartOfLine DEF After
      <4>6. /\ Before \o <<letra>> \in Seq(Chars)
            /\ Len(Before \o <<letra>>) = cursor_buffer + 1
        BY <4>3, <4>4, <1>0, ConcatProperties
      <4>7. buffer' \in Seq(Chars) /\ Len(buffer') = buffer_index + 1
        <5>1. Len((Before \o <<letra>>) \o After)
                = Len(Before \o <<letra>>) + Len(After)
          BY <4>5, <4>6, ConcatProperties
        <5>3. (cursor_buffer + 1) + (buffer_index - cursor_buffer) = buffer_index + 1
          BY <1>0
        <5>2. (Before \o <<letra>>) \o After \in Seq(Chars)
          BY <4>5, <4>6, ConcatProperties
        <5> QED
          BY <4>1, <4>5, <4>6, <5>1, <5>2, <5>3
      <4> QED
        BY <3>1, <3>3, <4>1, <4>7, <1>0 DEF LineInv, Lines, recall
    <3> QED
      BY <3>2, <3>3
  <2> QED
    BY <1>3, <2>1, <2>2, <2>3, <2>4, <2>5, <2>6, <2>7, <2>8, <2>9, <2>10, <2>11,
       <2>12, <2>13, <2>14, <2>15, <2>16 DEF processar_set1
<1> QED
  BY <1>2, <1>3 DEF Next

\* OneLine (kbd.c, every branch of processar_set1): the cursor is within the
\* line and buffer_index is the length of the string in buffer, or zero after
\* Ctrl+L, whatever codes arrive in whatever order.
THEOREM EditsOneLine == Spec => []OneLine
<1>1. LineInv => OneLine
  <2> SUFFICES ASSUME LineInv PROVE OneLine
    OBVIOUS
  <2>1. buffer_index \in Nat /\ cursor_buffer \in 0..buffer_index
    BY LineAssumption DEF LineInv
  <2> QED
    BY <2>1 DEF LineInv, OneLine
<1> QED
  BY LineInit, LineNext, <1>1, PTL DEF Spec

-----------------------------------------------------------------------------
(* A letter that has room lands in the line.                                *)

\* The prefix is pending only when the keyboard sent it, step by step.
LEMMA DecoderNext == DecoderInv /\ [Next]_vars => DecoderInv'
<1> SUFFICES ASSUME DecoderInv, [Next]_vars PROVE DecoderInv'
  OBVIOUS
<1>1. CASE UNCHANGED <<estendido, prefix>>
  BY <1>1 DEF DecoderInv
<1>2. CASE UNCHANGED vars
  BY <1>1, <1>2 DEF vars
<1>3. ASSUME NEW code \in Scancodes, processar_set1(code) PROVE DecoderInv'
  <2>1. CASE Modifier(code)
    BY <2>1 DEF Modifier, DecoderInv
  <2>2. CASE Prefix(code)
    BY <2>2 DEF Prefix, DecoderInv
  <2>3. CASE Reboot(code)
    BY <2>3 DEF Reboot, Boot, DecoderInv
  <2>4. CASE Extended(code)
    BY <2>4 DEF Extended, DecoderInv
  <2>5. CASE Plain(code) \/ Answer(code)
    BY <1>1, <2>5 DEF Plain, Answer
  <2> QED
    BY <1>3, <2>1, <2>2, <2>3, <2>4, <2>5
    DEF processar_set1, MoveLeft, MoveRight, historico_subir, historico_descer,
        OtherExtended, NoEffect, executar_buffer, CtrlL, CtrlC, CtrlChar, Backspace, Tab,
        Letter
<1> QED
  BY <1>2, <1>3 DEF Next

LEMMA LetterInLine ==
  ASSUME LineInv, DecoderInv, NEW code \in LetterKeys, processar_set1(code),
         prefix = "none", ~ctrlon, buffer_index < MaxLine
  PROVE  /\ buffer_index' = buffer_index + 1
         /\ buffer'[cursor_buffer'] \in {keyboard_map[code], keyboard_map_shift[code]}
<1>1. ~estendido
  BY DEF DecoderInv
<1>2. code \notin {"Ack", "E0", "Ctrl", "CtrlUp", "Shift", "ShiftUp", "Alt", "AltUp",
                   "Release", "Left", "Right", "Up", "Down", "Enter", "Back", "Tab"}
  BY KeysAssumption
<1>3. Letter(code)
  BY <1>1, <1>2 DEF processar_set1, Answer, Modifier, Modifiers, Prefix, Reboot, Reboots,
     Extended, MoveLeft, MoveRight, historico_subir, historico_descer,
     OtherExtended, NoEffect, executar_buffer, CtrlL, CtrlC, CtrlChar, Backspace, Tab
<1> DEFINE letra == IF shifton THEN keyboard_map_shift[code] ELSE keyboard_map[code]
<1>4. /\ buffer' = Before \o <<letra>> \o After
      /\ buffer_index' = buffer_index + 1 /\ cursor_buffer' = cursor_buffer + 1
  BY <1>3 DEF Letter
<1>5. letra \in Chars /\ letra \in {keyboard_map[code], keyboard_map_shift[code]}
  BY KeyIsChar
<1> HIDE DEF letra
<1>6. /\ buffer \in Seq(Chars) /\ Len(buffer) \in Nat /\ buffer_index \in 0..Len(buffer)
      /\ cursor_buffer \in 0..Len(buffer) /\ cursor_buffer \in Nat
  BY LineAssumption, LenProperties DEF LineInv, Lines
<1>7. Before \in Seq(Chars) /\ Len(Before) = cursor_buffer /\ After \in Seq(Chars)
  BY <1>6, PartOfLine DEF Before, After
<1>8. (Before \o <<letra>>) \o After \in Seq(Chars)
      /\ (Before \o <<letra>> \o After)[cursor_buffer + 1] = letra
  <2>1. <<letra>> \in Seq(Chars) /\ Len(<<letra>>) = 1 /\ <<letra>>[1] = letra
    BY <1>5
  <2>2. /\ Before \o <<letra>> \in Seq(Chars) /\ Len(Before \o <<letra>>) = cursor_buffer + 1
        /\ (Before \o <<letra>>)[cursor_buffer + 1] = letra
    BY <1>6, <1>7, <2>1, ConcatProperties
  <2> QED
    BY <1>6, <1>7, <2>2, ConcatProperties
<1> QED
  BY <1>4, <1>5, <1>8

\* LetterLands (kbd.c, the letter branch of processar_set1): a letter typed with no
\* prefix pending and room in the line is in the line, before the cursor, for every
\* keyboard map and line length.
THEOREM LettersLand == Spec => LetterLands
<1>1. Init => LineInv /\ DecoderInv
  BY LineInit DEF Init, DecoderInv
<1>2. LineInv /\ DecoderInv /\ [Next]_vars => (LineInv /\ DecoderInv)'
  BY LineNext, DecoderNext
<1>3. LineInv /\ DecoderInv /\ [Next]_vars =>
        [\A code \in LetterKeys :
           (/\ processar_set1(code) /\ keys' # keys
            /\ prefix = "none" /\ ~ctrlon /\ buffer_index < MaxLine)
           => /\ buffer_index' = buffer_index + 1
              /\ buffer'[cursor_buffer'] \in {keyboard_map[code], keyboard_map_shift[code]}
        ]_vars
  BY LetterInLine
<1> QED
  BY <1>1, <1>2, <1>3, PTL DEF Spec, LetterLands

-----------------------------------------------------------------------------
(* The history is the recent runs.                                          *)

LEMMA HistoryInit == Init => HistoryInv
<1> SUFFICES ASSUME Init PROVE HistoryInv
  OBVIOUS
<1>1. historico = << >> /\ ran = << >> /\ << >> \in Seq(Lines) /\ Len(<< >>) = 0
  BY EmptySeq DEF Init
<1>2. DOMAIN ran = {} BY <1>1
<1>3. FreshRuns = {} BY <1>2 DEF FreshRuns
<1>4. Cardinality(FreshRuns) = 0 BY <1>3, FS_EmptySet
<1>5. Min({0, KBD_HISTORY_SIZE}) = 0
  <2>1. {0, KBD_HISTORY_SIZE} \in SUBSET Nat BY LineAssumption
  <2>2. Min({0, KBD_HISTORY_SIZE}) \in Nat /\ Min({0, KBD_HISTORY_SIZE}) <= 0
    BY <2>1, MinInSet
  <2> QED BY <2>2
<1> QED BY <1>1, <1>3, <1>4, <1>5 DEF HistoryInv, HistoryIsRecentRuns

\* The lesser of two counts.
LEMMA MinOfTwo ==
  ASSUME NEW a \in Nat, NEW b \in Nat
  PROVE  Min({a, b}) = IF a <= b THEN a ELSE b
<1>1. {a, b} \in SUBSET Nat /\ {a, b} # {}
  OBVIOUS
<1>2. Min({a, b}) \in {a, b} /\ Min({a, b}) <= a /\ Min({a, b}) <= b
  BY <1>1, MinInSet
<1> QED BY <1>2

\* Running a line that is not the one run last.
LEMMA RunGrows ==
  ASSUME NEW texto \in Lines, ran \in Seq(Lines), ran' = Append(ran, texto),
         NEW n \in Nat, n = Len(ran), n # 0 => ran[n] # texto
  PROVE  /\ FreshRuns' = FreshRuns \cup {n + 1} /\ n + 1 \notin FreshRuns
         /\ IsFiniteSet(FreshRuns) /\ FreshRuns \subseteq 1..n
         /\ Cardinality(FreshRuns') = Cardinality(FreshRuns) + 1
         /\ Newer(n + 1)' = 1
         /\ \A k \in FreshRuns : Newer(k)' = Newer(k) + 1
<1>1. /\ DOMAIN ran = 1..n /\ DOMAIN ran' = 1..(n + 1)
      /\ \A k \in 1..n : ran'[k] = ran[k]
      /\ ran'[n + 1] = texto
  OBVIOUS
<1>2. FreshRuns \subseteq 1..n /\ n + 1 \notin 1..n
  BY <1>1 DEF FreshRuns
<1>3. IsFiniteSet(FreshRuns)
  <2>1. IsFiniteSet(1..n) BY FS_Interval
  <2> QED BY <1>2, <2>1, FS_Subset
<1>4. FreshRuns' = FreshRuns \cup {n + 1}
  <2>1. \A k \in 1..n : k = 1 \/ k - 1 \in 1..n
    BY <1>1
  <2>2. \A k \in 1..n : k \in FreshRuns' <=> k \in FreshRuns
    BY <1>1, <2>1 DEF FreshRuns
  <2>3. n + 1 \in FreshRuns'
    <3>1. n + 1 \in DOMAIN ran' BY <1>1
    <3>2. n + 1 = 1 \/ ran'[n + 1 - 1] # ran'[n + 1]
      <4>1. CASE n = 0 BY <4>1
      <4>2. CASE n # 0
        <5>1. n \in 1..n /\ n + 1 - 1 = n BY <4>2
        <5> QED BY <1>1, <4>2, <5>1
      <4> QED BY <4>1, <4>2
    <3> QED BY <3>1, <3>2 DEF FreshRuns
  <2>4. FreshRuns' \subseteq 1..(n + 1)
    BY <1>1 DEF FreshRuns
  <2>5. 1..(n + 1) = (1..n) \cup {n + 1}
    OBVIOUS
  <2> QED BY <1>2, <2>2, <2>3, <2>4, <2>5
<1>5. Cardinality(FreshRuns') = Cardinality(FreshRuns) + 1
  BY <1>2, <1>3, <1>4, FS_AddElement
<1>6. ASSUME NEW k \in FreshRuns
      PROVE  Cardinality({j \in FreshRuns' : j >= k}) = Cardinality({j \in FreshRuns : j >= k}) + 1
  <2> DEFINE S == {j \in FreshRuns : j >= k}
  <2>1. {j \in FreshRuns' : j >= k} = S \cup {n + 1}
    BY <1>1, <1>2, <1>4
  <2>2. IsFiniteSet(S) /\ n + 1 \notin S
    BY <1>2, <1>3, FS_Subset
  <2> HIDE DEF S
  <2>3. Cardinality(S \cup {n + 1}) = Cardinality(S) + 1
    BY <2>2, FS_AddElement
  <2> QED BY <2>1, <2>3 DEF S
<1>7. {j \in FreshRuns' : j >= n + 1} = {n + 1}
  <2>1. \A j \in FreshRuns : ~(j >= n + 1)
    <3>1. \A j \in 1..n : ~(j >= n + 1) OBVIOUS
    <3> QED BY <1>2, <3>1
  <2>2. n + 1 >= n + 1 OBVIOUS
  <2> QED BY <1>4, <2>1, <2>2
<1>8. Cardinality({n + 1}) = 1
  BY FS_Singleton
<1>9. Newer(n + 1)' = 1
  BY <1>7, <1>8 DEF Newer
<1>10. \A k \in FreshRuns : Newer(k)' = Newer(k) + 1
  BY <1>6 DEF Newer
<1> QED BY <1>2, <1>3, <1>4, <1>5, <1>9, <1>10

\* How many runs are newer: at least the run itself, at most all of them.
LEMMA NewerBounds ==
  ASSUME IsFiniteSet(FreshRuns), NEW k \in FreshRuns, FreshRuns \subseteq Nat
  PROVE  Newer(k) \in 1..Cardinality(FreshRuns) /\ Cardinality(FreshRuns) \in Nat
<1> DEFINE S == {j \in FreshRuns : j >= k}
<1>1. S \subseteq FreshRuns /\ k \in S
  OBVIOUS
<1> HIDE DEF S
<1>2. IsFiniteSet(S) /\ Cardinality(S) <= Cardinality(FreshRuns)
  BY <1>1, FS_Subset
<1>3. Cardinality(S) # 0
  BY <1>1, <1>2, FS_EmptySet
<1>4. Cardinality(S) \in Nat /\ Cardinality(FreshRuns) \in Nat
  BY <1>2, FS_CardinalityType
<1> QED BY <1>2, <1>3, <1>4 DEF Newer, S

\* A new entry at the end, the oldest gone when the history was full.
LEMMA HistoryGrows ==
  ASSUME historico \in Seq(Lines), NEW texto \in Lines, NEW m \in Nat, m = Len(historico),
         m <= KBD_HISTORY_SIZE, historico_adicionar(texto),
         m # 0 => historico[m] # texto
  PROVE  LET d == IF m < KBD_HISTORY_SIZE THEN 0 ELSE 1
         IN  /\ historico' \in Seq(Lines) /\ Len(historico') = m + 1 - d
             /\ historico'[m + 1 - d] = texto
             /\ \A i \in 1..m : i - d >= 1 => historico'[i - d] = historico[i]
<1>1. m # 0 <=> historico # << >>
  BY EmptySeq
<1>2. CASE m < KBD_HISTORY_SIZE
  <2>1. historico' = Append(historico, texto)
    BY <1>1, <1>2 DEF historico_adicionar
  <2>2. /\ historico' \in Seq(Lines) /\ Len(historico') = m + 1 /\ historico'[m + 1] = texto
        /\ \A i \in 1..m : historico'[i] = historico[i]
    BY <2>1, AppendProperties
  <2>3. m + 1 - 0 = m + 1 /\ \A i \in 1..m : i - 0 = i
    OBVIOUS
  <2> QED BY <1>2, <2>2, <2>3
<1>3. CASE ~(m < KBD_HISTORY_SIZE)
  <2>1. m = KBD_HISTORY_SIZE /\ m # 0 /\ historico # << >>
    BY <1>1, <1>3, LineAssumption
  <2>2. historico' = Append(Tail(historico), texto)
    BY <1>3, <2>1 DEF historico_adicionar
  <2>3. /\ Tail(historico) \in Seq(Lines) /\ Len(Tail(historico)) = m - 1
        /\ \A i \in 1..(m - 1) : Tail(historico)[i] = historico[i + 1]
    BY <2>1, HeadTailProperties
  <2>4. /\ historico' \in Seq(Lines) /\ Len(historico') = m - 1 + 1
        /\ historico'[m - 1 + 1] = texto
        /\ \A i \in 1..(m - 1) : historico'[i] = Tail(historico)[i]
    BY <2>2, <2>3, AppendProperties
  <2>5. m - 1 + 1 = m + 1 - 1
    OBVIOUS
  <2>6. ASSUME NEW i \in 1..m, i - 1 >= 1 PROVE historico'[i - 1] = historico[i]
    <3>1. i - 1 \in 1..(m - 1) /\ (i - 1) + 1 = i BY <2>6
    <3> QED BY <2>3, <2>4, <3>1
  <2> QED BY <1>3, <2>4, <2>5, <2>6
<1> QED BY <1>2, <1>3

\* Running a line keeps the history the recent runs.
LEMMA HistoryAdds ==
  ASSUME HistoryInv, NEW texto \in Lines, historico_adicionar(texto),
         ran' = Append(ran, texto)
  PROVE  HistoryInv'
<1>n. PICK n : n = Len(ran) OBVIOUS
<1>m. PICK m : m = Len(historico) OBVIOUS
<1> DEFINE C == Cardinality(FreshRuns)
<1>0. /\ ran \in Seq(Lines) /\ historico \in Seq(Lines) /\ n \in Nat /\ m \in Nat
      /\ (n = 0 <=> ran = << >>) /\ (m = 0 <=> historico = << >>)
      /\ ran' \in Seq(Lines) /\ Len(ran') = n + 1 /\ ran'[n + 1] = texto
      /\ \A k \in 1..n : ran'[k] = ran[k]
      /\ DOMAIN ran = 1..n /\ DOMAIN ran' = 1..(n + 1) /\ ran' # << >>
  BY <1>n, <1>m DEF HistoryInv
<1>1. IsFiniteSet(FreshRuns) /\ FreshRuns \subseteq 1..n /\ FreshRuns \subseteq Nat /\ C \in Nat
  <2>1. FreshRuns \subseteq 1..n BY <1>0 DEF FreshRuns
  <2>2. IsFiniteSet(1..n) BY <1>0, FS_Interval
  <2>3. IsFiniteSet(FreshRuns) BY <2>1, <2>2, FS_Subset
  <2>4. C \in Nat BY <2>3, FS_CardinalityType
  <2> QED BY <1>0, <2>1, <2>3, <2>4
<1>2. m = IF C <= KBD_HISTORY_SIZE THEN C ELSE KBD_HISTORY_SIZE
  <2>1. m = Min({C, KBD_HISTORY_SIZE}) BY <1>m DEF HistoryInv, HistoryIsRecentRuns
  <2> HIDE DEF C
  <2> QED BY <1>1, <2>1, MinOfTwo, LineAssumption
<1>3. n # 0 => m # 0 /\ historico[m] = ran[n]
  BY <1>n, <1>m, <1>0 DEF HistoryInv
<1>4. n = 0 => m = 0
  <2> SUFFICES ASSUME n = 0 PROVE m = 0
    OBVIOUS
  <2>1. FreshRuns = {} BY <1>1
  <2>2. C = 0 BY <2>1, FS_EmptySet
  <2> QED BY <1>2, <2>2, LineAssumption
<1> HIDE DEF C
<1>5. CASE n # 0 /\ ran[n] = texto
  <2>1. historico' = historico /\ historico # << >>
    BY <1>m, <1>0, <1>3, <1>5 DEF historico_adicionar
  <2>2. FreshRuns' = FreshRuns
    <3>1. n + 1 \notin FreshRuns'
      <4>1. n + 1 # 1 /\ n + 1 - 1 = n /\ n \in 1..n BY <1>0, <1>5
      <4> QED BY <1>0, <1>5, <4>1 DEF FreshRuns
    <3>2. \A k \in 1..n : k = 1 \/ k - 1 \in 1..n BY <1>0
    <3>3. \A k \in 1..n : k \in FreshRuns' <=> k \in FreshRuns
      <4>1. \A k \in 1..n : k \in DOMAIN ran /\ k \in DOMAIN ran' BY <1>0
      <4> QED BY <1>0, <3>2, <4>1 DEF FreshRuns
    <3>4. FreshRuns' \subseteq 1..(n + 1) BY <1>0 DEF FreshRuns
    <3>5. 1..(n + 1) = (1..n) \cup {n + 1} BY <1>0
    <3> QED BY <1>1, <3>1, <3>3, <3>4, <3>5
  <2>3. \A k : Newer(k)' = Newer(k) BY <2>2 DEF Newer
  <2>4. \A k \in FreshRuns : ran'[k] = ran[k] BY <1>0, <1>1
  <2>5. HistoryIsRecentRuns'
    BY <2>1, <2>2, <2>3, <2>4 DEF HistoryInv, HistoryIsRecentRuns
  <2>6. historico'[Len(historico')] = ran'[Len(ran')]
    BY <1>m, <1>0, <1>3, <1>5, <2>1
  <2> QED BY <1>0, <2>1, <2>5, <2>6 DEF HistoryInv
<1>6. CASE n = 0 \/ ran[n] # texto
  <2> DEFINE d == IF m < KBD_HISTORY_SIZE THEN 0 ELSE 1
  <2>1. m # 0 => historico[m] # texto
    BY <1>3, <1>4, <1>6
  <2>2. m <= KBD_HISTORY_SIZE BY <1>1, <1>2, LineAssumption
  <2>3. /\ historico' \in Seq(Lines) /\ Len(historico') = m + 1 - d
        /\ historico'[m + 1 - d] = texto
        /\ \A i \in 1..m : i - d >= 1 => historico'[i - d] = historico[i]
    BY <1>m, <1>0, <2>1, <2>2, HistoryGrows
  <2>4. /\ FreshRuns' = FreshRuns \cup {n + 1} /\ n + 1 \notin FreshRuns
        /\ Cardinality(FreshRuns') = C + 1
        /\ Newer(n + 1)' = 1
        /\ \A k \in FreshRuns : Newer(k)' = Newer(k) + 1
    BY <1>n, <1>0, <1>6, RunGrows DEF C
  <2>5. Len(historico') = Min({Cardinality(FreshRuns'), KBD_HISTORY_SIZE})
    <3>1. m + 1 - d = IF C + 1 <= KBD_HISTORY_SIZE THEN C + 1 ELSE KBD_HISTORY_SIZE
      BY <1>0, <1>1, <1>2, LineAssumption
    <3>2. C + 1 \in Nat /\ KBD_HISTORY_SIZE \in Nat BY <1>1, LineAssumption
    <3>3. Min({C + 1, KBD_HISTORY_SIZE}) = IF C + 1 <= KBD_HISTORY_SIZE THEN C + 1 ELSE KBD_HISTORY_SIZE
      BY <3>2, MinOfTwo
    <3> QED BY <2>3, <2>4, <3>1, <3>3
  <2>6. ASSUME NEW k \in FreshRuns, Newer(k)' <= KBD_HISTORY_SIZE
        PROVE  historico'[Len(historico') + 1 - Newer(k)'] = ran'[k]
    <3>1. Newer(k) \in 1..C BY <1>1, NewerBounds DEF C
    <3>2. Newer(k)' = Newer(k) + 1 /\ ran'[k] = ran[k] BY <1>0, <1>1, <2>4
    <3> DEFINE w == Newer(k)
    <3>3. w + 1 <= KBD_HISTORY_SIZE /\ w \in 1..C BY <2>6, <3>1, <3>2
    <3>4. historico[m + 1 - w] = ran[k]
      <4>1. w <= KBD_HISTORY_SIZE BY <1>1, <3>3, LineAssumption
      <4> QED BY <1>m, <4>1 DEF HistoryInv, HistoryIsRecentRuns
    <3>5. Len(historico') + 1 - Newer(k)' = (m + 1 - d) + 1 - (w + 1)
      BY <2>3, <3>2
    <3> HIDE DEF w
    <3>6. m + 1 - w \in 1..m /\ (m + 1 - w) - d >= 1 /\ (m + 1 - d) + 1 - (w + 1) = (m + 1 - w) - d
      BY <1>0, <1>1, <1>2, <3>3, LineAssumption
    <3>7. historico'[(m + 1 - w) - d] = historico[m + 1 - w]
      <4> HIDE DEF d
      <4> QED BY <2>3, <3>6
    <3> QED BY <3>2, <3>4, <3>5, <3>6, <3>7
  <2>7. historico'[Len(historico') + 1 - Newer(n + 1)'] = ran'[n + 1]
    <3>1. Len(historico') + 1 - Newer(n + 1)' = m + 1 - d
      BY <1>0, <2>3, <2>4
    <3> QED BY <1>0, <2>3, <3>1
  <2> HIDE DEF d
  <2>8. ASSUME NEW k \in FreshRuns', Newer(k)' <= KBD_HISTORY_SIZE
        PROVE  historico'[Len(historico') + 1 - Newer(k)'] = ran'[k]
    <3>1. CASE k = n + 1
      <4>1. Newer(k)' = Newer(n + 1)' BY <3>1 DEF Newer
      <4> QED BY <2>7, <3>1, <4>1
    <3>2. CASE k \in FreshRuns
      BY <2>6, <2>8, <3>2
    <3> QED BY <2>4, <3>1, <3>2
  <2>9. HistoryIsRecentRuns'
    BY <2>5, <2>8 DEF HistoryIsRecentRuns
  <2>10. historico'[Len(historico')] = ran'[Len(ran')] /\ historico' # << >>
    <3>1. Len(historico') # 0 BY <1>0, <1>2, <2>3, LineAssumption DEF d
    <3>2. historico' # << >> BY <3>1, EmptySeq
    <3> QED BY <1>0, <2>3, <3>2
  <2> QED BY <1>0, <2>3, <2>9, <2>10 DEF HistoryInv
<1> QED BY <1>5, <1>6

LEMMA HistoryNext == LineInv /\ HistoryInv /\ [Next]_vars => HistoryInv'
<1> SUFFICES ASSUME LineInv, HistoryInv, [Next]_vars PROVE HistoryInv'
  OBVIOUS
<1>1. CASE UNCHANGED <<historico, ran>>
  <2>1. FreshRuns' = FreshRuns BY <1>1 DEF FreshRuns
  <2>2. \A k : Newer(k)' = Newer(k) BY <2>1 DEF Newer
  <2> QED BY <1>1, <2>1, <2>2 DEF HistoryInv, HistoryIsRecentRuns
<1>2. CASE UNCHANGED vars
  BY <1>1, <1>2 DEF vars, recall
<1>3. ASSUME NEW code \in Scancodes, processar_set1(code) PROVE HistoryInv'
  <2>1. CASE Answer(code) \/ Modifier(code) \/ Prefix(code) \/ OtherExtended(code)
    BY <1>1, <2>1 DEF Answer, Modifier, Prefix, OtherExtended, Extended, recall
  <2>2. CASE Reboot(code)
    <3>1. historico' = << >> /\ ran' = << >> /\ << >> \in Seq(Lines) /\ Len(<< >>) = 0
      BY <2>2, EmptySeq DEF Reboot, Boot
    <3>2. DOMAIN ran' = {} BY <3>1
    <3>3. FreshRuns' = {} BY <3>2 DEF FreshRuns
    <3>4. Cardinality(FreshRuns') = 0 BY <3>3, FS_EmptySet
    <3>5. Min({0, KBD_HISTORY_SIZE}) = 0 BY MinOfTwo, LineAssumption
    <3> QED BY <3>1, <3>3, <3>4, <3>5 DEF HistoryInv, HistoryIsRecentRuns
  <2>3. CASE MoveLeft(code) \/ MoveRight(code)
    BY <1>1, <2>3 DEF MoveLeft, MoveRight, Extended, recall
  <2>4. CASE historico_subir(code) \/ historico_descer(code)
    BY <1>1, <2>4 DEF historico_subir, historico_descer, Extended
  <2>5. CASE NoEffect(code) \/ CtrlL(code) \/ CtrlC(code)
    BY <1>1, <2>5 DEF NoEffect, CtrlL, CtrlC, recall
  <2>6. CASE Backspace(code) \/ Tab(code) \/ Letter(code)
    BY <1>1, <2>6 DEF Backspace, Tab, Letter, recall
  <2>7. CASE executar_buffer(code)
    <3>1. CASE buffer_index > 0
      <4>1. historico_adicionar(Text) /\ ran' = Append(ran, Text)
        BY <2>7, <3>1 DEF executar_buffer
      <4>2. Text \in Lines
        <5>1. /\ buffer \in Seq(Chars) /\ Len(buffer) \in Nat /\ Len(buffer) <= MaxLine
              /\ MaxLine \in Nat /\ buffer_index \in 0..Len(buffer)
          BY LenProperties, LineAssumption DEF LineInv, Lines
        <5> QED BY <5>1, PartOfLine DEF Text, Lines
      <4> QED BY <4>1, <4>2, HistoryAdds
    <3>2. CASE ~(buffer_index > 0)
      BY <1>1, <2>7, <3>2 DEF executar_buffer, recall
    <3> QED BY <3>1, <3>2
  <2> QED BY <1>3, <2>1, <2>2, <2>3, <2>4, <2>5, <2>6, <2>7 DEF processar_set1
<1> QED BY <1>2, <1>3 DEF Next

\* HistoryIsRecentRuns (kbd.c, historico_adicionar): for every history size and
\* whatever is typed, recalled and edited, the history is the last lines that were
\* run, a repeated line counted once.
THEOREM HistoryKeepsRuns == Spec => []HistoryIsRecentRuns
<1>1. Init => LineInv /\ HistoryInv
  BY LineInit, HistoryInit
<1>2. LineInv /\ HistoryInv /\ [Next]_vars => (LineInv /\ HistoryInv)'
  BY LineNext, HistoryNext
<1>3. HistoryInv => HistoryIsRecentRuns
  BY DEF HistoryInv
<1> QED BY <1>1, <1>2, <1>3, PTL DEF Spec

-----------------------------------------------------------------------------
(* print and movfront as recursive functions: what holds before the first   *)
(* character and after one more holds after all, as there is no least       *)
(* number of characters after which it does not.                            *)

\* What the terminal shows after n characters, if f says so.
ShowsUpTo(f, t, msg, n) ==
  f = [k \in 0..n |-> IF k = 0 THEN t ELSE PutChar(f[k - 1], msg[k])]

LEMMA ShownExists ==
  ASSUME NEW t, NEW msg, NEW m \in Nat
  PROVE  \E f : ShowsUpTo(f, t, msg, m)
<1> DEFINE S == {n \in Nat : ~\E f : ShowsUpTo(f, t, msg, n)}
<1> SUFFICES ASSUME S # {} PROVE FALSE
  OBVIOUS
<1>1. PICK n \in S : \A k \in S : n <= k
  BY LeastElement
<1>2. CASE n = 0
  <2> DEFINE g == [k \in 0..0 |-> t]
  <2>1. g = [k \in 0..0 |-> IF k = 0 THEN t ELSE PutChar(g[k - 1], msg[k])]
    OBVIOUS
  <2> HIDE DEF g
  <2> QED BY <1>2, <2>1 DEF ShowsUpTo
<1>3. CASE n # 0
  <2>1. n - 1 \in Nat /\ n - 1 \notin S /\ n \in Nat
    BY <1>1, <1>3
  <2>2. PICK f : ShowsUpTo(f, t, msg, n - 1)
    BY <2>1
  <2> DEFINE g == [k \in 0..n |-> IF k = n THEN PutChar(f[n - 1], msg[n]) ELSE f[k]]
  <2>3. g = [k \in 0..n |-> IF k = 0 THEN t ELSE PutChar(g[k - 1], msg[k])]
    <3> SUFFICES ASSUME NEW k \in 0..n
                 PROVE  g[k] = IF k = 0 THEN t ELSE PutChar(g[k - 1], msg[k])
      OBVIOUS
    <3>1. \A j \in 0..(n - 1) : f[j] = IF j = 0 THEN t ELSE PutChar(f[j - 1], msg[j])
      BY <2>2, <2>1 DEF ShowsUpTo
    <3>2. k # 0 => k - 1 \in 0..(n - 1) /\ g[k - 1] = f[k - 1]
      BY <2>1
    <3>3. CASE k = n
      BY <3>2, <3>3, <1>3
    <3>4. CASE k # n
      <4>1. k \in 0..(n - 1) BY <3>4, <2>1
      <4>2. g[k] = f[k] BY <3>4
      <4> QED BY <3>1, <3>2, <4>1, <4>2
    <3> QED BY <3>3, <3>4
  <2> HIDE DEF g
  <2> QED BY <2>3 DEF ShowsUpTo
<1> QED BY <1>2, <1>3

\* print, one character at a time.
LEMMA PrintingIs ==
  ASSUME NEW t, NEW msg, Len(msg) \in Nat
  PROVE  /\ Printing(t, msg)[0] = t
         /\ \A n \in 1..Len(msg) :
              Printing(t, msg)[n] = PutChar(Printing(t, msg)[n - 1], msg[n])
<1> DEFINE P(f) == f = [n \in 0..Len(msg) |->
                          IF n = 0 THEN t ELSE PutChar(f[n - 1], msg[n])]
<1>0. PICK h : ShowsUpTo(h, t, msg, Len(msg))
  BY ShownExists
<1>1. PICK g : P(g)
  <2>1. P(h) BY <1>0 DEF ShowsUpTo
  <2> QED BY <2>1
<1>2. P(CHOOSE f : P(f))
  <2> HIDE DEF P
  <2> QED BY <1>1, Zenon
<1>3. Printing(t, msg) = CHOOSE f : P(f)
  BY DEF Printing
<1> HIDE DEF P
<1>4. P(Printing(t, msg))
  BY <1>2, <1>3
<1> USE DEF P
<1> DEFINE pr == Printing(t, msg)
<1>5. pr = [n \in 0..Len(msg) |-> IF n = 0 THEN t ELSE PutChar(pr[n - 1], msg[n])]
  BY <1>4
<1> HIDE DEF pr, P
<1>6. pr[0] = t
  BY <1>5
<1>7. \A n \in 1..Len(msg) : pr[n] = PutChar(pr[n - 1], msg[n])
  BY <1>5
<1> QED BY <1>6, <1>7 DEF pr

LEMMA PrintOne ==
  ASSUME NEW t, NEW c
  PROVE  print(t, <<c>>) = PutChar(t, c)
<1>1. Len(<<c>>) = 1 /\ <<c>>[1] = c OBVIOUS
<1>2. Printing(t, <<c>>)[1] = PutChar(Printing(t, <<c>>)[0], c)
  <2> DEFINE m == <<c>>
  <2>1. Len(m) = 1 /\ m[1] = c BY <1>1
  <2> HIDE DEF m
  <2>2. /\ Printing(t, m)[0] = t
        /\ \A n \in 1..1 : Printing(t, m)[n] = PutChar(Printing(t, m)[n - 1], m[n])
    BY <2>1, PrintingIs
  <2>3. Printing(t, m)[1] = PutChar(Printing(t, m)[1 - 1], m[1]) BY <2>2
  <2> QED BY <2>1, <2>3 DEF m
<1>3. Printing(t, <<c>>)[0] = t BY <1>1, PrintingIs
<1> QED BY <1>1, <1>2, <1>3 DEF print

LEMMA PrintTwo ==
  ASSUME NEW t, NEW c, NEW d
  PROVE  print(t, <<c, d>>) = PutChar(PutChar(t, c), d)
<1> DEFINE m == <<c, d>>
<1>1. Len(m) = 2 /\ m[1] = c /\ m[2] = d OBVIOUS
<1> HIDE DEF m
<1>2. /\ Printing(t, m)[0] = t
      /\ \A n \in 1..2 : Printing(t, m)[n] = PutChar(Printing(t, m)[n - 1], m[n])
  BY <1>1, PrintingIs
<1>3. Printing(t, m)[1] = PutChar(Printing(t, m)[1 - 1], m[1]) BY <1>2
<1>4. Printing(t, m)[2] = PutChar(Printing(t, m)[2 - 1], m[2]) BY <1>2
<1>5. print(t, m) = PutChar(PutChar(t, c), d) BY <1>1, <1>2, <1>3, <1>4 DEF print
<1> QED BY <1>5 DEF m

LEMMA PrintNone ==
  ASSUME NEW t
  PROVE  print(t, << >>) = t
<1> DEFINE m == << >>
<1>1. Len(m) = 0 OBVIOUS
<1> HIDE DEF m
<1>2. Printing(t, m)[0] = t BY <1>1, PrintingIs
<1>3. print(t, m) = t BY <1>1, <1>2 DEF print
<1> QED BY <1>3 DEF m

-----------------------------------------------------------------------------
(* One character.                                                           *)

LEMMA GridFacts ==
  /\ max_cols \in Nat \ {0} /\ max_rows \in Nat \ {0}
  /\ Area \in Nat /\ LastRow \in Nat /\ LastRow + max_cols = Area
  /\ MaxLine \in Nat \ {0} /\ MaxLine < LastRow
  /\ ">" # NewLine /\ ">" # Erase /\ "!" # NewLine /\ "!" # Erase
  /\ Blank # NewLine /\ Blank # Erase
<1>1. \A c \in Nat, r \in Nat : r # 0 => c * r \in Nat /\ (r - 1) * c \in Nat /\ (r - 1) * c + c = c * r
  OBVIOUS
<1>2. Area \in Nat /\ LastRow \in Nat /\ LastRow + max_cols = Area
  BY <1>1, GridAssumption DEF Area, LastRow
<1>3. MaxLine < LastRow
  BY <1>2, GridAssumption, LineAssumption, FitsAssumption
<1>4. /\ ">" # NewLine /\ ">" # Erase /\ "!" # NewLine /\ "!" # Erase
      /\ Blank # NewLine /\ Blank # Erase
  BY DEF NewLine, Erase, Blank
<1> QED BY <1>2, <1>3, <1>4, GridAssumption, LineAssumption

\* What is on the screen is no control character.
LEMMA GlyphsAreShown == \A c \in Glyphs : c # NewLine /\ c # Erase
BY GridFacts, KeysAssumption DEF Glyphs

\* One row up: what was on the last row but one is now above the blank last row.
LEMMA ScrolledUp ==
  ASSUME NEW g \in [0..(Area - 1) -> Glyphs], NEW a \in Area..(Area + max_cols - 1),
         NEW u, u = scroll([cells |-> g, at |-> a])
  PROVE  /\ u \in Terminals /\ u.at = a - max_cols
         /\ \A p \in 0..(LastRow - 1) : u.cells[p] = g[p + max_cols]
         /\ \A p \in LastRow..(Area - 1) : u.cells[p] = Blank
<1> DEFINE h == [k \in 0..(Area - 1) |-> IF k < LastRow THEN g[k + max_cols] ELSE Blank]
<1>1. u = [cells |-> h, at |-> a - max_cols]
  <2>1. ~(a < Area) BY GridFacts
  <2> QED BY <2>1 DEF scroll
<1>2. \A k \in 0..(LastRow - 1) : k + max_cols \in 0..(Area - 1) /\ k \in 0..(Area - 1)
  BY GridFacts
<1>3. Blank \in Glyphs
  BY DEF Glyphs
<1>4. h \in [0..(Area - 1) -> Glyphs]
  <2> SUFFICES ASSUME NEW k \in 0..(Area - 1) PROVE h[k] \in Glyphs
    OBVIOUS
  <2>1. k < LastRow => k \in 0..(LastRow - 1) BY GridFacts
  <2> QED BY <2>1, <1>2, <1>3
<1>5. a - max_cols \in 0..(Area - 1)
  BY GridFacts
<1>6. \A p \in 0..(LastRow - 1) : h[p] = g[p + max_cols]
  BY <1>2, GridFacts
<1>7. \A p \in LastRow..(Area - 1) : h[p] = Blank
  BY GridFacts
<1> HIDE DEF h
<1>8. u.cells = h /\ u.at = a - max_cols
  BY <1>1
<1>9. u \in Terminals
  BY <1>1, <1>4, <1>5 DEF Terminals
<1> QED BY <1>8, <1>9, <1>6, <1>7

\* A glyph is written at the cursor, which goes on or comes back to the last row.
LEMMA PutGlyph ==
  ASSUME NEW t \in Terminals, NEW c \in Glyphs, NEW u, u = PutChar(t, c)
  PROVE  /\ u \in Terminals
         /\ t.at + 1 < Area =>
              u.at = t.at + 1 /\ u.cells = [t.cells EXCEPT ![t.at] = c]
         /\ t.at + 1 >= Area =>
              /\ u.at = LastRow /\ t.at + 1 = Area
              /\ \A p \in 0..(LastRow - 1) :
                   u.cells[p] = [t.cells EXCEPT ![t.at] = c][p + max_cols]
              /\ \A p \in LastRow..(Area - 1) : u.cells[p] = Blank
<1> DEFINE g == [t.cells EXCEPT ![t.at] = c]
<1>1. t.at \in 0..(Area - 1) /\ g \in [0..(Area - 1) -> Glyphs] /\ t.at + 1 \in Nat
  BY DEF Terminals
<1>2. u = scroll([cells |-> g, at |-> t.at + 1])
  BY GlyphsAreShown DEF PutChar
<1>3. CASE t.at + 1 < Area
  <2>1. u = [cells |-> g, at |-> t.at + 1]
    BY <1>2, <1>3 DEF scroll
  <2>2. t.at + 1 \in 0..(Area - 1)
    BY <1>1, <1>3, GridFacts
  <2>3. u \in Terminals
    BY <1>1, <2>1, <2>2 DEF Terminals
  <2>4. u.at = t.at + 1 /\ u.cells = g
    BY <2>1
  <2>5. ~(t.at + 1 >= Area)
    BY <1>1, <1>3, GridFacts
  <2> QED BY <2>3, <2>4, <2>5
<1>4. CASE ~(t.at + 1 < Area)
  <2> DEFINE a == t.at + 1
  <2>1. /\ a = Area /\ a \in Area..(Area + max_cols - 1) /\ a - max_cols = LastRow
        /\ a \in Nat
    BY <1>1, <1>4, GridFacts
  <2>2. u = scroll([cells |-> g, at |-> a]) /\ g \in [0..(Area - 1) -> Glyphs]
    BY <1>1, <1>2
  <2> HIDE DEF a, g
  <2>3. /\ u \in Terminals /\ u.at = a - max_cols
        /\ \A p \in 0..(LastRow - 1) : u.cells[p] = g[p + max_cols]
        /\ \A p \in LastRow..(Area - 1) : u.cells[p] = Blank
    BY <2>1, <2>2, ScrolledUp
  <2>4. u.at = LastRow
    BY <2>1, <2>3
  <2> QED BY <1>4, <2>1, <2>3, <2>4 DEF a, g
<1> QED BY <1>3, <1>4

\* Where the row after the one of p begins.
LEMMA NextRowStarts ==
  ASSUME NEW p \in 0..(Area - 1)
  PROVE  /\ RowOf(p) \in Nat
         /\ (RowOf(p) + 1) * max_cols \in (p + 1)..Area
<1> DEFINE r == p \div max_cols
<1>1. p \in Nat /\ max_cols \in Nat \ {0} /\ max_rows \in Nat \ {0}
  BY GridFacts
<1>2. r \in Nat /\ p % max_cols \in 0..(max_cols - 1) /\ p = (max_cols * r) + (p % max_cols)
  BY <1>1
<1> HIDE DEF r
<1>3. max_cols * r \in Nat /\ (r + 1) * max_cols = max_cols * r + max_cols
  BY <1>1, <1>2
<1>4. p < (r + 1) * max_cols
  BY <1>1, <1>2, <1>3
<1>5. r + 1 <= max_rows
  <2> SUFFICES ASSUME r >= max_rows PROVE FALSE
    BY <1>1, <1>2
  <2>1. PICK d \in Nat : r = max_rows + d
    <3>1. r - max_rows \in Nat /\ r = max_rows + (r - max_rows) BY <1>1, <1>2
    <3> QED BY <3>1
  <2>2. max_cols * r = max_cols * max_rows + max_cols * d /\ max_cols * d \in Nat
    BY <1>1, <2>1
  <2>3. Area = max_cols * max_rows BY DEF Area
  <2> QED BY <1>1, <1>2, <2>2, <2>3, GridFacts
<1>6. (r + 1) * max_cols <= Area
  <2>1. PICK d \in Nat : max_rows = r + 1 + d
    <3>1. max_rows - (r + 1) \in Nat /\ max_rows = r + 1 + (max_rows - (r + 1))
      BY <1>1, <1>2, <1>5
    <3> QED BY <3>1
  <2>2. max_cols * max_rows = (r + 1) * max_cols + max_cols * d /\ max_cols * d \in Nat
    BY <1>1, <1>2, <2>1
  <2>3. Area = max_cols * max_rows BY DEF Area
  <2> QED BY <1>1, <1>2, <1>3, <2>2, <2>3
<1>7. RowOf(p) = r BY DEF RowOf, r
<1> QED BY <1>1, <1>2, <1>3, <1>4, <1>6, <1>7, GridFacts

\* The end of a line: what was blank from a position of the cursor's row on is
\* blank from the cursor on.
LEMMA PutNewLine ==
  ASSUME NEW t \in Terminals
  PROVE  /\ PutChar(t, NewLine) \in Terminals
         /\ \A e \in 0..(Area - 1) :
              /\ RowOf(e) = RowOf(t.at)
              /\ \A p \in e..(Area - 1) : t.cells[p] = Blank
              => \A p \in PutChar(t, NewLine).at..(Area - 1) :
                   PutChar(t, NewLine).cells[p] = Blank
<1> DEFINE n == (RowOf(t.at) + 1) * max_cols
           u == PutChar(t, NewLine)
<1>1. t.at \in 0..(Area - 1) /\ t.cells \in [0..(Area - 1) -> Glyphs]
      /\ t = [cells |-> t.cells, at |-> t.at]
  BY DEF Terminals
<1>2. n \in (t.at + 1)..Area
  BY <1>1, NextRowStarts
<1>3. u = scroll([cells |-> t.cells, at |-> n])
  <2>1. [t EXCEPT !.at = (RowOf(@) + 1) * max_cols] = [cells |-> t.cells, at |-> n]
    BY <1>1
  <2> QED BY <2>1 DEF PutChar
<1>4. ASSUME NEW e \in 0..(Area - 1), RowOf(e) = RowOf(t.at) PROVE e < n
  <2>1. (RowOf(e) + 1) * max_cols \in (e + 1)..Area
    BY NextRowStarts
  <2> QED BY <2>1, <1>4, GridFacts
<1> HIDE DEF n
<1>5. CASE n < Area
  <2>1. u = [cells |-> t.cells, at |-> n]
    BY <1>3, <1>5 DEF scroll
  <2>2. u \in Terminals
    BY <2>1, <1>1, <1>2, <1>5, GridFacts DEF Terminals
  <2>3. u.at = n /\ u.cells = t.cells
    BY <2>1
  <2> HIDE DEF u
  <2> QED BY <2>2, <2>3, <1>4, <1>2, <1>1, GridFacts DEF u
<1>6. CASE n = Area
  <2>1. n \in Area..(Area + max_cols - 1) /\ n - max_cols = LastRow
    BY <1>6, GridFacts
  <2>2. /\ u \in Terminals /\ u.at = n - max_cols
        /\ \A p \in LastRow..(Area - 1) : u.cells[p] = Blank
    BY <1>1, <1>3, <2>1, ScrolledUp
  <2> QED BY <2>1, <2>2
<1> QED BY <1>2, <1>5, <1>6, <1>1, GridFacts

-----------------------------------------------------------------------------
(* A text of glyphs.                                                        *)

\* The cells and all that follows them, with n characters of msg written from the
\* cursor on, as if the grid had no end.
Tape(t, msg, n, q) ==
  IF q \in t.at..(t.at + n - 1) THEN msg[q - t.at + 1]
  ELSE IF q < Area THEN t.cells[q] ELSE Blank

\* u is the part of the tape that d rows' worth of cells going up left on the
\* grid.  Nothing goes up if the text ends on the grid.
ShiftedBy(t, msg, n, u, d) ==
  /\ u.at + d = t.at + n
  /\ d > 0 => t.at + n >= Area /\ u.at >= LastRow
  /\ \A p \in 0..(Area - 1) : u.cells[p] = Tape(t, msg, n, p + d)

\* One more glyph.
LEMMA OneMoreShown ==
  ASSUME NEW t \in Terminals, NEW msg, NEW n \in Nat, msg[n + 1] \in Glyphs,
         NEW u \in Terminals, NEW d \in Nat, ShiftedBy(t, msg, n, u, d)
  PROVE  /\ PutChar(u, msg[n + 1]) \in Terminals
         /\ \E e \in Nat : ShiftedBy(t, msg, n + 1, PutChar(u, msg[n + 1]), e)
<1> DEFINE c == msg[n + 1]
           v == PutChar(u, c)
           g == [u.cells EXCEPT ![u.at] = c]
<1>1. /\ t.at \in 0..(Area - 1) /\ u.at \in 0..(Area - 1)
      /\ u.cells \in [0..(Area - 1) -> Glyphs]
  BY DEF Terminals
<1>2. /\ v \in Terminals
      /\ u.at + 1 < Area => v.at = u.at + 1 /\ v.cells = g
      /\ u.at + 1 >= Area =>
           /\ v.at = LastRow /\ u.at + 1 = Area
           /\ \A p \in 0..(LastRow - 1) : v.cells[p] = g[p + max_cols]
           /\ \A p \in LastRow..(Area - 1) : v.cells[p] = Blank
  BY PutGlyph
<1>3. u.at + d = t.at + n /\ (d > 0 => t.at + n >= Area /\ u.at >= LastRow)
  BY DEF ShiftedBy
<1>4. \A p \in 0..(Area - 1) : g[p] = Tape(t, msg, n + 1, p + d)
  <2> SUFFICES ASSUME NEW p \in 0..(Area - 1) PROVE g[p] = Tape(t, msg, n + 1, p + d)
    OBVIOUS
  <2>1. u.cells[p] = Tape(t, msg, n, p + d)
    BY DEF ShiftedBy
  <2>2. CASE p = u.at
    <3>1. g[p] = c
      BY <2>2, <1>1
    <3>2. p + d \in t.at..(t.at + (n + 1) - 1) /\ (p + d) - t.at + 1 = n + 1
      BY <2>2, <1>1, <1>3, GridFacts
    <3> QED BY <3>1, <3>2 DEF Tape
  <2>3. CASE p # u.at
    <3>1. g[p] = u.cells[p]
      BY <2>3, <1>1
    <3>2. p + d \in t.at..(t.at + (n + 1) - 1) <=> p + d \in t.at..(t.at + n - 1)
      BY <2>3, <1>1, <1>3, GridFacts
    <3> QED BY <2>1, <3>1, <3>2 DEF Tape
  <2> QED BY <2>2, <2>3
<1> HIDE DEF g, v, c
<1>5. CASE u.at + 1 < Area
  <2>1. \A p \in 0..(Area - 1) : v.cells[p] = Tape(t, msg, n + 1, p + d)
    BY <1>2, <1>4, <1>5
  <2>2. /\ v.at + d = t.at + (n + 1)
        /\ d > 0 => t.at + (n + 1) >= Area /\ v.at >= LastRow
    <3>1. v.at = u.at + 1 BY <1>2, <1>5
    <3>2. u.at \in 0..(Area - 1) /\ t.at \in 0..(Area - 1) BY <1>1
    <3>3. v.at + d = t.at + (n + 1) BY <3>1, <3>2, <1>3, GridFacts
    <3>4. d > 0 => t.at + (n + 1) >= Area /\ v.at >= LastRow
      BY <3>1, <3>2, <1>3, GridFacts
    <3> QED BY <3>3, <3>4
  <2>3. ShiftedBy(t, msg, n + 1, v, d)
    BY <2>1, <2>2 DEF ShiftedBy
  <2> QED BY <1>2, <2>3 DEF v, c
<1>6. CASE ~(u.at + 1 < Area)
  <2> DEFINE e == d + max_cols
  <2>1. /\ v.at = LastRow /\ u.at + 1 = Area
        /\ \A p \in 0..(LastRow - 1) : v.cells[p] = g[p + max_cols]
        /\ \A p \in LastRow..(Area - 1) : v.cells[p] = Blank
    BY <1>1, <1>2, <1>6, GridFacts
  <2>2. \A p \in 0..(Area - 1) : v.cells[p] = Tape(t, msg, n + 1, p + e)
    <3> SUFFICES ASSUME NEW p \in 0..(Area - 1)
                 PROVE  v.cells[p] = Tape(t, msg, n + 1, p + e)
      OBVIOUS
    <3>1. CASE p < LastRow
      <4>1. p \in 0..(LastRow - 1) /\ p + max_cols \in 0..(Area - 1)
            /\ (p + max_cols) + d = p + e
        BY <3>1, GridFacts
      <4>2. v.cells[p] = g[p + max_cols]
        BY <2>1, <4>1
      <4>3. g[p + max_cols] = Tape(t, msg, n + 1, (p + max_cols) + d)
        BY <1>4, <4>1
      <4> QED BY <4>1, <4>2, <4>3
    <3>2. CASE ~(p < LastRow)
      <4>1. /\ p \in LastRow..(Area - 1) /\ ~(p + e < Area)
            /\ p + e \notin t.at..(t.at + (n + 1) - 1)
        <5> DEFINE a == t.at
                   b == u.at
        <5>1. /\ a \in Nat /\ b \in Nat /\ b + 1 = Area /\ b + d = a + n
              /\ p \in Nat /\ p <= Area - 1
          BY <2>1, <1>1, <1>3, GridFacts
        <5> HIDE DEF a, b
        <5>2. LastRow <= p /\ LastRow \in Nat /\ max_cols \in Nat /\ LastRow + max_cols = Area
          BY <3>2, <5>1, GridFacts
        <5>3. p + e >= Area /\ p + e > a + n
          BY <5>1, <5>2
        <5>4. p \in LastRow..(Area - 1) /\ ~(p + e < Area) /\ ~(p + e <= a + (n + 1) - 1)
          BY <5>1, <5>2, <5>3
        <5> QED BY <5>4 DEF a
      <4>2. Tape(t, msg, n + 1, p + e) = Blank
        BY <4>1 DEF Tape
      <4> QED BY <2>1, <4>1, <4>2
    <3> QED BY <3>1, <3>2
  <2>3. /\ e \in Nat /\ v.at + e = t.at + (n + 1)
        /\ t.at + (n + 1) >= Area /\ v.at >= LastRow
    <3>1. v.at = LastRow /\ u.at + 1 = Area BY <2>1
    <3>2. u.at \in 0..(Area - 1) /\ t.at \in 0..(Area - 1) BY <1>1
    <3>3. e \in Nat BY GridFacts
    <3>4. v.at + e = t.at + (n + 1) BY <3>1, <3>2, <1>3, GridFacts
    <3>5. t.at + (n + 1) >= Area BY <3>1, <3>2, <1>3, GridFacts
    <3>6. v.at >= LastRow BY <3>1, GridFacts
    <3> QED BY <3>3, <3>4, <3>5, <3>6
  <2> HIDE DEF e
  <2>4. ShiftedBy(t, msg, n + 1, v, e)
    BY <2>2, <2>3 DEF ShiftedBy
  <2> QED BY <1>2, <2>3, <2>4 DEF v, c
<1> QED BY <1>5, <1>6

\* The text as a whole.
LEMMA GlyphsShown ==
  ASSUME NEW t \in Terminals, NEW msg \in Seq(Glyphs)
  PROVE  /\ print(t, msg) \in Terminals
         /\ \E d \in Nat : ShiftedBy(t, msg, Len(msg), print(t, msg), d)
<1> DEFINE pr == Printing(t, msg)
           Done(n) == /\ pr[n] \in Terminals
                      /\ \E d \in Nat : ShiftedBy(t, msg, n, pr[n], d)
           S == {n \in 0..Len(msg) : ~Done(n)}
<1>1. /\ Len(msg) \in Nat /\ pr[0] = t
      /\ \A n \in 1..Len(msg) : pr[n] = PutChar(pr[n - 1], msg[n]) /\ msg[n] \in Glyphs
  <2>1. Len(msg) \in Nat BY LenProperties
  <2>2. \A n \in 1..Len(msg) : msg[n] \in Glyphs BY ElementOfSeq
  <2> QED BY <2>1, <2>2, PrintingIs
<1>2. Done(0)
  <2>1. \A p \in 0..(Area - 1) : t.cells[p] = Tape(t, msg, 0, p + 0)
    <3> SUFFICES ASSUME NEW p \in 0..(Area - 1)
                 PROVE  t.cells[p] = Tape(t, msg, 0, p + 0)
      OBVIOUS
    <3>1. t.at \in Nat /\ p + 0 = p /\ p < Area /\ p \notin t.at..(t.at + 0 - 1)
      BY GridFacts DEF Terminals
    <3> QED BY <3>1 DEF Tape
  <2>2. t.at + 0 = t.at + 0 /\ ~(0 > 0)
    OBVIOUS
  <2>3. ShiftedBy(t, msg, 0, t, 0)
    BY <2>1, <2>2 DEF ShiftedBy
  <2> QED BY <1>1, <2>3
<1>3. ASSUME NEW n \in 0..Len(msg), n # 0, Done(n - 1) PROVE Done(n)
  <2>1. n - 1 \in Nat /\ (n - 1) + 1 = n /\ n \in 1..Len(msg)
    BY <1>1, <1>3
  <2>2. PICK d \in Nat : ShiftedBy(t, msg, n - 1, pr[n - 1], d)
    BY <1>3
  <2>3. /\ PutChar(pr[n - 1], msg[(n - 1) + 1]) \in Terminals
        /\ \E e \in Nat :
             ShiftedBy(t, msg, (n - 1) + 1, PutChar(pr[n - 1], msg[(n - 1) + 1]), e)
    <3>1. msg[(n - 1) + 1] \in Glyphs /\ pr[n - 1] \in Terminals
      BY <1>1, <1>3, <2>1
    <3> HIDE DEF pr
    <3> QED BY <3>1, <2>1, <2>2, OneMoreShown
  <2>4. pr[n] = PutChar(pr[n - 1], msg[n])
    BY <1>1, <2>1
  <2> QED BY <2>1, <2>3, <2>4
<1>4. S = {}
  <2> SUFFICES ASSUME S # {} PROVE FALSE
    OBVIOUS
  <2>1. S \in SUBSET Nat BY <1>1
  <2> HIDE DEF Done
  <2>2. PICK n \in S : \A k \in S : n <= k
    <3> HIDE DEF S
    <3> QED BY <2>1, LeastElement
  <2>3. n # 0 BY <1>2, <2>2
  <2>4. n - 1 \in 0..Len(msg) /\ n - 1 < n /\ n \in 0..Len(msg)
    BY <1>1, <2>2, <2>3
  <2>5. Done(n - 1)
    BY <2>2, <2>4
  <2> QED BY <1>3, <2>2, <2>3, <2>4, <2>5
<1>5. Done(Len(msg))
  <2>1. Len(msg) \in 0..Len(msg) BY <1>1
  <2> HIDE DEF Done
  <2> QED BY <1>4, <2>1
<1> QED BY <1>5 DEF print

-----------------------------------------------------------------------------
(* Any text, and the cursor moves.                                          *)

\* Whatever is printed, the cursor stays on the grid and the grid stays one.
LEMMA PutKeepsTerminal ==
  ASSUME NEW t \in Terminals, NEW c \in Glyphs \cup {NewLine, Erase}
  PROVE  PutChar(t, c) \in Terminals
<1>1. CASE c \in Glyphs
  BY <1>1, PutGlyph
<1>2. CASE c = NewLine
  BY <1>2, PutNewLine
<1>3. CASE c = Erase
  <2> DEFINE p == IF t.at > 0 THEN t.at - 1 ELSE 0
             g == [t.cells EXCEPT ![p] = Blank]
  <2>1. PutChar(t, c) = [cells |-> g, at |-> p]
    BY <1>3 DEF PutChar, NewLine, Erase
  <2>2. t.at \in 0..(Area - 1) /\ t.cells \in [0..(Area - 1) -> Glyphs]
    BY DEF Terminals
  <2>3. p \in 0..(Area - 1)
    BY <2>2, GridFacts
  <2>4. g \in [0..(Area - 1) -> Glyphs]
    BY <2>2, <2>3 DEF Glyphs
  <2> HIDE DEF p, g
  <2> QED BY <2>1, <2>3, <2>4 DEF Terminals
<1> QED BY <1>1, <1>2, <1>3

LEMMA PrintKeepsTerminal ==
  ASSUME NEW t \in Terminals, NEW msg \in Seq(Glyphs \cup {NewLine, Erase})
  PROVE  print(t, msg) \in Terminals
<1> DEFINE pr == Printing(t, msg)
           S == {n \in 0..Len(msg) : pr[n] \notin Terminals}
<1>1. /\ Len(msg) \in Nat /\ pr[0] = t
      /\ \A n \in 1..Len(msg) :
           pr[n] = PutChar(pr[n - 1], msg[n]) /\ msg[n] \in Glyphs \cup {NewLine, Erase}
  <2>1. Len(msg) \in Nat BY LenProperties
  <2>2. \A n \in 1..Len(msg) : msg[n] \in Glyphs \cup {NewLine, Erase} BY ElementOfSeq
  <2> QED BY <2>1, <2>2, PrintingIs
<1> HIDE DEF pr
<1>2. S = {}
  <2> SUFFICES ASSUME S # {} PROVE FALSE
    OBVIOUS
  <2>1. S \in SUBSET Nat BY <1>1
  <2>2. PICK n \in S : \A k \in S : n <= k
    <3> HIDE DEF S
    <3> QED BY <2>1, LeastElement
  <2>3. n # 0 BY <1>1, <2>2
  <2>4. n - 1 \in 0..Len(msg) /\ n - 1 < n /\ n \in 1..Len(msg)
    BY <1>1, <2>2, <2>3
  <2>5. pr[n - 1] \in Terminals
    BY <2>2, <2>4
  <2>6. pr[n] = PutChar(pr[n - 1], msg[n]) /\ msg[n] \in Glyphs \cup {NewLine, Erase}
    BY <1>1, <2>4
  <2>7. pr[n] \in Terminals
    BY <2>5, <2>6, PutKeepsTerminal
  <2> QED BY <2>2, <2>7
<1>3. Len(msg) \in 0..Len(msg) BY <1>1
<1> QED BY <1>2, <1>3 DEF print, pr

\* Characters are erased one by one up to the left.
LEMMA ErasesShown ==
  ASSUME NEW t \in Terminals, NEW n \in Nat, n <= t.at, NEW u, u = print(t, Erases(n))
  PROVE  /\ u.at = t.at - n
         /\ \A p \in 0..(Area - 1) :
              u.cells[p] = IF p \in (t.at - n)..(t.at - 1) THEN Blank ELSE t.cells[p]
<1> DEFINE msg == Erases(n)
           pr == Printing(t, msg)
           Done(m) == /\ pr[m] \in Terminals /\ pr[m].at = t.at - m
                      /\ \A p \in 0..(Area - 1) :
                           pr[m].cells[p] = IF p \in (t.at - m)..(t.at - 1) THEN Blank
                                            ELSE t.cells[p]
           S == {m \in 0..n : ~Done(m)}
<1>0. t.at \in 0..(Area - 1) /\ t.cells \in [0..(Area - 1) -> Glyphs]
  BY DEF Terminals
<1>1. /\ Len(msg) = n /\ pr[0] = t
      /\ \A m \in 1..n : pr[m] = PutChar(pr[m - 1], Erase)
  <2>1. Len(msg) = n /\ \A m \in 1..n : msg[m] = Erase BY DEF Erases
  <2> HIDE DEF msg
  <2>2. /\ pr[0] = t
        /\ \A m \in 1..n : pr[m] = PutChar(pr[m - 1], msg[m])
    BY <2>1, PrintingIs
  <2> QED BY <2>1, <2>2
<1> HIDE DEF pr
<1>2. Done(0)
  BY <1>0, <1>1, GridFacts
<1>3. ASSUME NEW m \in 1..n, Done(m - 1) PROVE Done(m)
  <2> DEFINE v == pr[m - 1]
             a == t.at - m
             g == [v.cells EXCEPT ![a] = Blank]
  <2>1. /\ v \in Terminals /\ v.at = t.at - (m - 1)
        /\ \A p \in 0..(Area - 1) :
             v.cells[p] = IF p \in (t.at - (m - 1))..(t.at - 1) THEN Blank ELSE t.cells[p]
    BY <1>3
  <2>2. v.cells \in [0..(Area - 1) -> Glyphs] BY <2>1 DEF Terminals
  <2>3. a \in 0..(Area - 1) /\ v.at > 0 /\ v.at - 1 = a /\ t.at - (m - 1) = a + 1
    BY <1>0, <2>1, GridFacts
  <2>4. pr[m] = PutChar(v, Erase) BY <1>1
  <2> HIDE DEF v, a
  <2>5. pr[m] = [cells |-> g, at |-> a]
    BY <2>3, <2>4 DEF PutChar, NewLine, Erase
  <2>6. g \in [0..(Area - 1) -> Glyphs]
    BY <2>2, <2>3 DEF Glyphs
  <2>7. \A p \in 0..(Area - 1) :
          g[p] = IF p \in a..(t.at - 1) THEN Blank ELSE t.cells[p]
    <3> SUFFICES ASSUME NEW p \in 0..(Area - 1)
                 PROVE  g[p] = IF p \in a..(t.at - 1) THEN Blank ELSE t.cells[p]
      OBVIOUS
    <3>1. CASE p = a
      <4>1. g[p] = Blank /\ p \in a..(t.at - 1)
        <5>1. g[p] = Blank BY <3>1, <2>2
        <5>2. a <= t.at - 1 BY <1>0 DEF a
        <5> QED BY <5>1, <5>2, <3>1, <2>3, <1>0
      <4> QED BY <4>1
    <3>2. CASE p # a
      <4>1. g[p] = v.cells[p] BY <3>2, <2>2
      <4>2. p \in a..(t.at - 1) <=> p \in (a + 1)..(t.at - 1)
        BY <3>2, <2>3
      <4>3. v.cells[p] = IF p \in (a + 1)..(t.at - 1) THEN Blank ELSE t.cells[p]
        BY <2>1, <2>3
      <4> QED BY <4>1, <4>2, <4>3
    <3> QED BY <3>1, <3>2
  <2>8. pr[m].cells = g /\ pr[m].at = a
    BY <2>5
  <2>9. pr[m] \in Terminals
    BY <2>3, <2>5, <2>6 DEF Terminals
  <2> HIDE DEF g
  <2> QED BY <2>7, <2>8, <2>9 DEF a
<1>4. S = {}
  <2> SUFFICES ASSUME S # {} PROVE FALSE
    OBVIOUS
  <2>1. S \in SUBSET Nat OBVIOUS
  <2> HIDE DEF Done
  <2>2. PICK m \in S : \A k \in S : m <= k
    <3> HIDE DEF S
    <3> QED BY <2>1, LeastElement
  <2>3. m # 0 BY <1>2, <2>2
  <2>4. m - 1 \in 0..n /\ m - 1 < m /\ m \in 1..n
    BY <2>2, <2>3
  <2>5. Done(m - 1)
    BY <2>2, <2>4
  <2> QED BY <1>3, <2>2, <2>4, <2>5
<1>5. Done(n)
  <2>1. n \in 0..n OBVIOUS
  <2> HIDE DEF Done
  <2> QED BY <1>4, <2>1
<1>6. u = pr[n]
  BY <1>1 DEF print, pr
<1> QED BY <1>5, <1>6

\* Where n moves to the right lead, if f says so.
StepsUpTo(f, a, n) ==
  f = [k \in 0..n |-> IF k = 0 THEN a ELSE StepRight(f[k - 1])]

LEMMA StepsExist ==
  ASSUME NEW a, NEW n \in Nat
  PROVE  \E f : StepsUpTo(f, a, n)
<1> DEFINE S == {m \in Nat : ~\E f : StepsUpTo(f, a, m)}
<1> SUFFICES ASSUME S # {} PROVE FALSE
  OBVIOUS
<1>1. PICK m \in S : \A k \in S : m <= k
  BY LeastElement
<1>2. CASE m = 0
  <2> DEFINE g == [k \in 0..0 |-> a]
  <2>1. g = [k \in 0..0 |-> IF k = 0 THEN a ELSE StepRight(g[k - 1])]
    OBVIOUS
  <2> HIDE DEF g
  <2> QED BY <1>1, <1>2, <2>1 DEF StepsUpTo
<1>3. CASE m # 0
  <2>1. m - 1 \in Nat /\ m - 1 \notin S /\ m \in Nat
    BY <1>1, <1>3
  <2>2. PICK f : StepsUpTo(f, a, m - 1)
    BY <2>1
  <2> DEFINE g == [k \in 0..m |-> IF k = m THEN StepRight(f[m - 1]) ELSE f[k]]
  <2>3. g = [k \in 0..m |-> IF k = 0 THEN a ELSE StepRight(g[k - 1])]
    <3> SUFFICES ASSUME NEW k \in 0..m
                 PROVE  g[k] = IF k = 0 THEN a ELSE StepRight(g[k - 1])
      OBVIOUS
    <3>1. \A j \in 0..(m - 1) : f[j] = IF j = 0 THEN a ELSE StepRight(f[j - 1])
      BY <2>2, <2>1 DEF StepsUpTo
    <3>2. k # 0 => k - 1 \in 0..(m - 1) /\ g[k - 1] = f[k - 1]
      BY <2>1
    <3>3. CASE k = m
      BY <3>2, <3>3, <1>3
    <3>4. CASE k # m
      <4>1. k \in 0..(m - 1) BY <3>4, <2>1
      <4>2. g[k] = f[k] BY <3>4
      <4> QED BY <3>1, <3>2, <4>1, <4>2
    <3> QED BY <3>3, <3>4
  <2> HIDE DEF g
  <2> QED BY <1>1, <2>3 DEF StepsUpTo
<1> QED BY <1>2, <1>3

LEMMA SteppingIs ==
  ASSUME NEW a \in 0..(Area - 1), NEW n \in Nat
  PROVE  /\ Stepping(a, n)[0] = a
         /\ \A k \in 1..n : Stepping(a, n)[k] = StepRight(Stepping(a, n)[k - 1])
<1> DEFINE P(f) == f = [k \in 0..n |-> IF k = 0 THEN a ELSE StepRight(f[k - 1])]
<1>0. PICK h : StepsUpTo(h, a, n)
  BY StepsExist
<1>1. P(h)
  BY <1>0 DEF StepsUpTo
<1> HIDE DEF P
<1>2. P(CHOOSE f : P(f))
  BY <1>1, Zenon
<1>3. Stepping(a, n) = CHOOSE f : P(f)
  BY DEF Stepping, P
<1> DEFINE st == Stepping(a, n)
<1>4. P(st)
  BY <1>2, <1>3
<1> HIDE DEF st
<1>5. st = [k \in 0..n |-> IF k = 0 THEN a ELSE StepRight(st[k - 1])]
  BY <1>4 DEF P
<1>6. st[0] = a
  BY <1>5
<1>7. \A k \in 1..n : st[k] = StepRight(st[k - 1])
  BY <1>5
<1> QED BY <1>6, <1>7 DEF st

\* They stay on the grid, and go along the line short of its end.
LEMMA StepsForward ==
  ASSUME NEW a \in 0..(Area - 1), NEW n \in Nat
  PROVE  /\ Stepping(a, n)[n] \in 0..(Area - 1)
         /\ a + n < Area => Stepping(a, n)[n] = a + n
<1> DEFINE st == Stepping(a, n)
           Good(k) == st[k] \in 0..(Area - 1) /\ (a + n < Area => st[k] = a + k)
           S == {k \in 0..n : ~Good(k)}
<1>1. st[0] = a /\ \A k \in 1..n : st[k] = StepRight(st[k - 1])
  BY SteppingIs
<1> HIDE DEF st
<1>2. S = {}
  <2> SUFFICES ASSUME S # {} PROVE FALSE
    OBVIOUS
  <2>1. S \in SUBSET Nat OBVIOUS
  <2>2. PICK m \in S : \A k \in S : m <= k
    <3> HIDE DEF S
    <3> QED BY <2>1, LeastElement
  <2>3. m # 0 BY <1>1, <2>2, GridFacts
  <2>4. m - 1 \in 0..n /\ m - 1 < m /\ m \in 1..n
    BY <2>2, <2>3
  <2>5. st[m - 1] \in 0..(Area - 1) /\ (a + n < Area => st[m - 1] = a + (m - 1))
    BY <2>2, <2>4
  <2>6. st[m] = StepRight(st[m - 1])
    BY <1>1, <2>4
  <2>7. st[m] \in 0..(Area - 1)
    BY <2>5, <2>6, GridFacts DEF StepRight
  <2>8. a + n < Area => st[m] = a + m
    BY <2>4, <2>5, <2>6, GridFacts DEF StepRight
  <2> QED BY <2>2, <2>7, <2>8
<1>3. n \in 0..n OBVIOUS
<1> QED BY <1>2, <1>3 DEF st

-----------------------------------------------------------------------------
(* The line on the screen.                                                  *)

LEMMA ScreenGlyphs ==
  /\ ">" \in Glyphs /\ "!" \in Glyphs /\ Blank \in Glyphs /\ Chars \subseteq Glyphs
  /\ \A t \in Terminals : /\ t.at \in 0..(Area - 1) /\ t.at \in Nat
                          /\ t.cells \in [0..(Area - 1) -> Glyphs]
BY GridFacts DEF Glyphs, Terminals

\* A glyph put on a screen that is blank from the cursor on.
LEMMA PutClears ==
  ASSUME NEW t \in Terminals, NEW c \in Glyphs, ClearFrom(t, t.at), NEW u, u = PutChar(t, c)
  PROVE  /\ u \in Terminals /\ ClearFrom(u, u.at)
         /\ u.at >= 1 /\ u.cells[u.at - 1] = c
<1> DEFINE g == [t.cells EXCEPT ![t.at] = c]
<1>1. /\ u \in Terminals
      /\ t.at + 1 < Area => u.at = t.at + 1 /\ u.cells = g
      /\ t.at + 1 >= Area =>
           /\ u.at = LastRow /\ t.at + 1 = Area
           /\ \A p \in 0..(LastRow - 1) : u.cells[p] = g[p + max_cols]
           /\ \A p \in LastRow..(Area - 1) : u.cells[p] = Blank
  BY PutGlyph
<1>2. t.at \in 0..(Area - 1) /\ t.cells \in [0..(Area - 1) -> Glyphs] /\ t.at \in Nat
  BY ScreenGlyphs
<1>3. /\ g[t.at] = c
      /\ \A p \in 0..(Area - 1) : p # t.at => g[p] = t.cells[p]
  BY <1>2
<1> HIDE DEF g
<1>4. CASE t.at + 1 < Area
  <2>1. u.at = t.at + 1 /\ u.cells = g BY <1>1, <1>4
  <2>2. u.at - 1 = t.at /\ u.at >= 1 BY <2>1, <1>2
  <2>3. ASSUME NEW p \in u.at..(Area - 1) PROVE u.cells[p] = Blank
    <3>1. p \in t.at..(Area - 1) /\ p \in 0..(Area - 1) /\ p # t.at
      BY <2>1, <1>2, GridFacts
    <3> QED BY <3>1, <2>1, <1>3 DEF ClearFrom
  <2> QED BY <1>1, <1>3, <2>1, <2>2, <2>3 DEF ClearFrom
<1>5. CASE ~(t.at + 1 < Area)
  <2>0. t.at + 1 >= Area BY <1>2, <1>5, GridFacts
  <2>1. u.at = LastRow /\ t.at + 1 = Area BY <1>1, <2>0
  <2>2. /\ LastRow >= 1 /\ LastRow - 1 \in 0..(LastRow - 1)
        /\ (LastRow - 1) + max_cols = t.at
    BY <2>1, <1>2, GridFacts
  <2>3. u.cells[LastRow - 1] = g[(LastRow - 1) + max_cols] BY <1>1, <2>0, <2>2
  <2>4. ClearFrom(u, u.at) BY <1>1, <2>0, <2>1 DEF ClearFrom
  <2> QED BY <1>1, <1>3, <2>1, <2>2, <2>3, <2>4
<1> QED BY <1>4, <1>5

\* After the prompt the line is empty.
LEMMA EmptyLineShown ==
  ASSUME NEW t \in Terminals, ClearFrom(t, t.at), NEW u, u = PutChar(t, ">"), NEW s
  PROVE  u \in Terminals /\ ShowsLine(u, s, 0, 0)
<1>1. /\ u \in Terminals /\ ClearFrom(u, u.at)
      /\ u.at >= 1 /\ u.cells[u.at - 1] = ">"
  BY ScreenGlyphs, PutClears
<1>2. u.at \in 0..(Area - 1) /\ u.at - 0 = u.at /\ u.at + 0 = u.at
  BY <1>1, ScreenGlyphs, GridFacts
<1>3. u.at < Area BY <1>2, GridFacts
<1> QED BY <1>1, <1>2, <1>3 DEF ShowsLine

\* The screen is blank behind the cursor's row or from a position of it on.
Tidy(t) == \E e \in 0..(Area - 1) : RowOf(e) = RowOf(t.at) /\ ClearFrom(t, e)

LEMMA NewLineTidies ==
  ASSUME NEW t \in Terminals, NEW u, u = PutChar(t, NewLine)
  PROVE  u \in Terminals /\ (Tidy(t) => ClearFrom(u, u.at))
BY PutNewLine DEF Tidy, ClearFrom

LEMMA PromptShown ==
  ASSUME NEW t \in Terminals, NEW u, u = prompt(t), NEW s
  PROVE  u \in Terminals /\ (Tidy(t) => ShowsLine(u, s, 0, 0))
<1> DEFINE v == PutChar(t, NewLine)
<1>2. u = PutChar(v, ">")
  <2>1. print(t, <<NewLine>>) = v BY PrintOne
  <2>2. print(v, <<">">>) = PutChar(v, ">") BY PrintOne
  <2> QED BY <2>1, <2>2 DEF prompt, Prompt
<1>3. v \in Terminals /\ (Tidy(t) => ClearFrom(v, v.at))
  BY NewLineTidies
<1> HIDE DEF v
<1>4. u \in Terminals
  BY <1>2, <1>3, ScreenGlyphs, PutKeepsTerminal
<1>5. ASSUME Tidy(t) PROVE ShowsLine(u, s, 0, 0)
  <2>1. ClearFrom(v, v.at) BY <1>3, <1>5
  <2> QED BY <1>2, <1>3, <2>1, EmptyLineShown
<1> QED BY <1>4, <1>5

LEMMA OutputShown ==
  ASSUME NEW t \in Terminals, NEW output \in {<< >>, <<NewLine, "!">>},
         NEW u, u = print(t, output)
  PROVE  u \in Terminals /\ (Tidy(t) => Tidy(u))
<1>1. CASE output = << >>
  BY <1>1, PrintNone
<1>2. CASE output = <<NewLine, "!">>
  <2> DEFINE v == PutChar(t, NewLine)
  <2>1. u = PutChar(v, "!")
    BY <1>2, PrintTwo
  <2>2. v \in Terminals /\ (Tidy(t) => ClearFrom(v, v.at))
    BY NewLineTidies
  <2> HIDE DEF v
  <2>3. u \in Terminals
    BY <2>1, <2>2, ScreenGlyphs, PutKeepsTerminal
  <2>4. ASSUME Tidy(t) PROVE Tidy(u)
    <3>1. ClearFrom(v, v.at) BY <2>2, <2>4
    <3>2. ClearFrom(u, u.at) BY <2>1, <2>2, <3>1, ScreenGlyphs, PutClears
    <3>3. u.at \in 0..(Area - 1) BY <2>3, ScreenGlyphs
    <3> QED BY <3>2, <3>3 DEF Tidy
  <2> QED BY <2>3, <2>4
<1> QED BY <1>1, <1>2

LEMMA FreshShown ==
  ASSUME NEW s
  PROVE  FreshScreen \in Terminals /\ ShowsLine(FreshScreen, s, 0, 0)
<1>1. limpatela \in Terminals
  BY GridFacts, ScreenGlyphs DEF limpatela, Terminals
<1>2. ClearFrom(limpatela, limpatela.at)
  BY GridFacts DEF limpatela, ClearFrom
<1>3. FreshScreen = PutChar(limpatela, ">")
  BY PrintOne DEF FreshScreen, Prompt
<1> QED BY <1>1, <1>2, <1>3, EmptyLineShown

\* A line seen to its end is tidy if the end is on the cursor's row.
LEMMA LineIsTidy ==
  ASSUME NEW t \in Terminals, NEW s, NEW n \in Nat, NEW c \in 0..n, ShowsLine(t, s, n, c),
         RowOf(t.at) = RowOf(t.at + n - c)
  PROVE  Tidy(t)
<1>1. t.at \in Nat /\ t.at - c >= 1 /\ (t.at - c) + n < Area /\ ClearFrom(t, (t.at - c) + n)
  BY ScreenGlyphs DEF ShowsLine
<1>2. (t.at - c) + n = t.at + n - c /\ t.at + n - c \in 0..(Area - 1)
  BY <1>1, GridFacts
<1> QED BY <1>1, <1>2 DEF Tidy

\* A text typed at the end of the line, which may scroll.
LEMMA LineTyped ==
  ASSUME NEW t \in Terminals, NEW s, NEW c \in Nat, ShowsLine(t, s, c, c),
         NEW msg \in Seq(Glyphs), NEW text, c + Len(msg) <= MaxLine,
         \A k \in 1..c : text[k] = s[k],
         \A k \in 1..Len(msg) : text[c + k] = msg[k],
         NEW u, u = print(t, msg)
  PROVE  u \in Terminals /\ ShowsLine(u, text, c + Len(msg), c + Len(msg))
<1> DEFINE m == Len(msg)
           a == t.at
           b == u.at
<1>1. m \in Nat /\ u \in Terminals
  BY GlyphsShown, LenProperties
<1>2. PICK d \in Nat : ShiftedBy(t, msg, m, u, d)
  BY GlyphsShown
<1>3. /\ b + d = a + m
      /\ d > 0 => b >= LastRow
      /\ \A p \in 0..(Area - 1) : u.cells[p] = Tape(t, msg, m, p + d)
  BY <1>2 DEF ShiftedBy
<1>4. a \in Nat /\ a < Area /\ b \in Nat /\ b < Area /\ Area \in Nat
  <2>1. t.at \in 0..(Area - 1) /\ u.at \in 0..(Area - 1) BY <1>1, ScreenGlyphs
  <2> QED BY <2>1, GridFacts
<1>5. /\ a - c >= 1 /\ t.cells[(a - c) - 1] = ">"
      /\ \A k \in 1..c : t.cells[(a - c) + k - 1] = s[k]
      /\ ClearFrom(t, (a - c) + c)
  BY DEF ShowsLine
<1>6. c + m <= MaxLine /\ \A k \in 1..m : text[c + k] = msg[k]
  OBVIOUS
<1>7. \A q \in Nat : Tape(t, msg, m, q) = IF q \in a..(a + m - 1) THEN msg[q - a + 1]
                                        ELSE IF q < Area THEN t.cells[q] ELSE Blank
  BY DEF Tape
<1> HIDE DEF m, a, b
<1>n. m \in Nat /\ c \in Nat /\ d \in Nat /\ a \in Nat /\ b \in Nat /\ Area \in Nat
  BY <1>1, <1>4
<1> DEFINE start == a - c
           left == b - (c + m)
<1>8. start \in Nat /\ start >= 1 /\ start + c = a
  BY <1>n, <1>5
<1>9. left \in Nat /\ left >= 1 /\ left + d = start /\ left + (c + m) = b
  <2>1. left + d = start /\ left + (c + m) = b
    BY <1>n, <1>3
  <2>2. left >= 1
    <3>1. CASE d = 0
      BY <2>1, <3>1, <1>8, <1>n
    <3>2. CASE d > 0
      BY <3>2, <1>3, <1>n, <1>6, GridFacts
    <3> QED BY <3>1, <3>2
  <2> QED BY <2>1, <2>2, <1>n
<1> HIDE DEF start, left
<1>10. u.cells[left - 1] = ">"
  <2>1. /\ left - 1 \in 0..(Area - 1) /\ (left - 1) + d = start - 1 /\ start - 1 \in Nat
        /\ start - 1 < Area /\ start - 1 \notin a..(a + m - 1)
    BY <1>n, <1>4, <1>8, <1>9
  <2>2. u.cells[left - 1] = Tape(t, msg, m, start - 1)
    BY <2>1, <1>3
  <2>3. t.cells[start - 1] = ">"
    BY <1>5 DEF start
  <2> QED BY <1>7, <2>1, <2>2, <2>3
<1>11. ASSUME NEW k \in 1..(c + m) PROVE u.cells[left + k - 1] = text[k]
  <2>1. /\ left + k - 1 \in 0..(Area - 1) /\ (left + k - 1) + d = start + k - 1
        /\ start + k - 1 \in Nat
    BY <1>n, <1>4, <1>8, <1>9
  <2>2. u.cells[left + k - 1] = Tape(t, msg, m, start + k - 1)
    BY <2>1, <1>3
  <2>3. CASE k <= c
    <3>1. /\ start + k - 1 < Area /\ start + k - 1 \notin a..(a + m - 1)
          /\ k \in 1..c
      BY <2>3, <1>n, <1>4, <1>8
    <3>2. t.cells[start + k - 1] = s[k] /\ text[k] = s[k]
      BY <3>1, <1>5 DEF start
    <3> QED BY <1>7, <2>1, <2>2, <3>1, <3>2
  <2>4. CASE ~(k <= c)
    <3>1. /\ start + k - 1 \in a..(a + m - 1) /\ (start + k - 1) - a + 1 = k - c
          /\ k - c \in 1..m /\ c + (k - c) = k
      BY <2>4, <1>n, <1>8
    <3>2. text[c + (k - c)] = msg[k - c]
      BY <3>1, <1>6
    <3> QED BY <1>7, <2>1, <2>2, <3>1, <3>2
  <2> QED BY <2>3, <2>4
<1>12. ASSUME NEW p \in b..(Area - 1) PROVE u.cells[p] = Blank
  <2>1. /\ p \in 0..(Area - 1) /\ p + d \in Nat /\ p + d \notin a..(a + m - 1)
        /\ p + d < Area => p + d \in a..(Area - 1)
    BY <1>n, <1>3, <1>4
  <2>2. u.cells[p] = Tape(t, msg, m, p + d)
    BY <1>3, <2>1
  <2>3. ClearFrom(t, a)
    <3>1. (a - c) + c = a BY <1>n
    <3> QED BY <3>1, <1>5
  <2> QED BY <1>7, <2>1, <2>2, <2>3 DEF ClearFrom
<1>13. ShowsLine(u, text, c + m, c + m)
  <2>1. left + (c + m) < Area /\ ClearFrom(u, left + (c + m))
    BY <1>9, <1>12, <1>4 DEF ClearFrom
  <2>2. u.at - (c + m) = left
    BY DEF left, b
  <2> QED BY <1>9, <1>10, <1>11, <2>1, <2>2 DEF ShowsLine
<1> QED BY <1>1, <1>13 DEF m

\* A text that ends on the grid leaves the rest of it where it was.
LEMMA TextOnGrid ==
  ASSUME NEW t \in Terminals, NEW msg \in Seq(Glyphs), t.at + Len(msg) < Area,
         NEW u, u = print(t, msg)
  PROVE  /\ u \in Terminals /\ u.at = t.at + Len(msg)
         /\ \A p \in 0..(Area - 1) :
              u.cells[p] = IF p \in t.at..(t.at + Len(msg) - 1) THEN msg[p - t.at + 1]
                           ELSE t.cells[p]
<1> DEFINE m == Len(msg)
           a == t.at
<1>1. m \in Nat /\ u \in Terminals
  BY GlyphsShown, LenProperties
<1>2. PICK d \in Nat : ShiftedBy(t, msg, m, u, d)
  BY GlyphsShown
<1>3. /\ u.at + d = a + m
      /\ d > 0 => a + m >= Area
      /\ \A p \in 0..(Area - 1) : u.cells[p] = Tape(t, msg, m, p + d)
  BY <1>2 DEF ShiftedBy
<1>4. \A p \in 0..(Area - 1) :
        Tape(t, msg, m, p) = IF p \in a..(a + m - 1) THEN msg[p - a + 1] ELSE t.cells[p]
  BY GridFacts DEF Tape
<1>5. a \in Nat /\ u.at \in Nat /\ Area \in Nat /\ a + m < Area
  BY <1>1, ScreenGlyphs, GridFacts
<1> HIDE DEF m, a
<1>6. d = 0
  BY <1>1, <1>3, <1>5
<1>7. u.at = a + m
  BY <1>1, <1>3, <1>5, <1>6
<1>8. \A p \in 0..(Area - 1) : p + d = p
  BY <1>6, <1>5
<1> QED BY <1>1, <1>3, <1>4, <1>7, <1>8 DEF m, a

LEMMA SpacesAre ==
  ASSUME NEW n \in Nat
  PROVE  /\ Spaces(n) \in Seq(Glyphs) /\ Len(Spaces(n)) = n
         /\ \A k \in 1..n : Spaces(n)[k] = Blank
BY ScreenGlyphs DEF Spaces

\* limpar_linha_atual: back to the prompt, and nothing behind it.
LEMMA LineCleared ==
  ASSUME NEW t \in Terminals, NEW s, NEW n \in Nat, NEW c \in 0..n, ShowsLine(t, s, n, c),
         NEW v, v = print(t, Erases(c)), v \in Terminals,
         NEW w, w = print(v, Spaces(n)),
         NEW u, u = print(w, Erases(n)), NEW r
  PROVE  ShowsLine(u, r, 0, 0)
<1> DEFINE a == t.at
           start == a - c
<1>1. /\ start >= 1 /\ t.cells[start - 1] = ">"
      /\ start + n < Area /\ ClearFrom(t, start + n)
  BY DEF ShowsLine
<1>2. a \in Nat /\ a < Area /\ Area \in Nat /\ c \in Nat /\ c <= n
  <2>1. t.at \in 0..(Area - 1) BY ScreenGlyphs
  <2> QED BY <2>1, GridFacts
<1> HIDE DEF a
<1>3. start \in Nat /\ c <= a /\ start + c = a
  BY <1>1, <1>2
<1>4. /\ v.at = start
      /\ \A p \in 0..(Area - 1) :
           v.cells[p] = IF p \in start..(a - 1) THEN Blank ELSE t.cells[p]
  BY <1>2, <1>3, ErasesShown DEF a
<1> HIDE DEF start
<1>5. /\ w \in Terminals /\ w.at = start + n
      /\ \A p \in 0..(Area - 1) :
           w.cells[p] = IF p \in start..(start + n - 1) THEN Spaces(n)[p - start + 1]
                        ELSE v.cells[p]
  BY <1>1, <1>4, SpacesAre, TextOnGrid
<1>6. /\ u.at = start
      /\ \A p \in 0..(Area - 1) :
           u.cells[p] = IF p \in start..(start + n - 1) THEN Blank ELSE w.cells[p]
  <2>1. n <= w.at /\ w.at - n = start /\ w.at - 1 = start + n - 1
    BY <1>3, <1>5
  <2>2. /\ u.at = w.at - n
        /\ \A p \in 0..(Area - 1) :
             u.cells[p] = IF p \in (w.at - n)..(w.at - 1) THEN Blank ELSE w.cells[p]
    BY <1>5, <2>1, ErasesShown
  <2> QED BY <2>1, <2>2
<1>7. u.cells[start - 1] = ">"
  <2>1. /\ start - 1 \in 0..(Area - 1) /\ start - 1 \notin start..(start + n - 1)
        /\ start - 1 \notin start..(a - 1)
    BY <1>1, <1>2, <1>3
  <2>2. u.cells[start - 1] = w.cells[start - 1] BY <1>6, <2>1
  <2>3. w.cells[start - 1] = v.cells[start - 1] BY <1>5, <2>1
  <2>4. v.cells[start - 1] = t.cells[start - 1] BY <1>4, <2>1
  <2> QED BY <1>1, <2>2, <2>3, <2>4
<1>8. ASSUME NEW p \in start..(Area - 1) PROVE u.cells[p] = Blank
  <2>0. p \in 0..(Area - 1)
    BY <1>2, <1>3
  <2>1. CASE p \in start..(start + n - 1)
    BY <2>0, <2>1, <1>6
  <2>2. CASE p \notin start..(start + n - 1)
    <3>1. p \notin start..(a - 1) /\ p \in (start + n)..(Area - 1)
      BY <2>2, <1>2, <1>3
    <3>2. u.cells[p] = w.cells[p] BY <2>0, <2>2, <1>6
    <3>3. w.cells[p] = v.cells[p] BY <2>0, <2>2, <1>5
    <3>4. v.cells[p] = t.cells[p] BY <2>0, <3>1, <1>4
    <3>5. t.cells[p] = Blank BY <3>1, <1>1 DEF ClearFrom
    <3> QED BY <3>2, <3>3, <3>4, <3>5
  <2> QED BY <2>1, <2>2
<1>9. u.at - 0 = start /\ start + 0 = start /\ start < Area
  BY <1>1, <1>2, <1>3, <1>6
<1> QED BY <1>1, <1>7, <1>8, <1>9 DEF ShowsLine, ClearFrom

\* redesenhar and the insertion: the line from the cursor on is written again, over
\* at least as much as was there, and the cursor is put where it belongs.
LEMMA LineRedrawn ==
  ASSUME NEW v \in Terminals, NEW start \in Nat, start >= 1, v.cells[start - 1] = ">",
         NEW n \in Nat, ClearFrom(v, start + n),
         NEW k0 \in Nat, v.at = start + k0,
         NEW text, \A k \in 1..k0 : v.cells[start + k - 1] = text[k],
         NEW msg \in Seq(Glyphs), n <= k0 + Len(msg), start + k0 + Len(msg) < Area,
         NEW m \in Nat, m >= k0, m <= k0 + Len(msg),
         \A k \in 1..Len(msg) : msg[k] = IF k0 + k <= m THEN text[k0 + k] ELSE Blank,
         NEW c \in 0..m, NEW u, u = set_cursor_pos(print(v, msg), start + c)
  PROVE  u \in Terminals /\ ShowsLine(u, text, m, c)
<1> DEFINE w == print(v, msg)
           l == Len(msg)
<1>1. l \in Nat /\ Area \in Nat /\ v.at + l < Area
  <2>1. l \in Nat BY LenProperties
  <2> QED BY <2>1, GridFacts
<1>2. /\ w \in Terminals
      /\ \A p \in 0..(Area - 1) :
           w.cells[p] = IF p \in v.at..(v.at + l - 1) THEN msg[p - v.at + 1] ELSE v.cells[p]
  <2>1. v.at + Len(msg) < Area BY <1>1
  <2>2. /\ w \in Terminals
        /\ \A p \in 0..(Area - 1) :
             w.cells[p] = IF p \in v.at..(v.at + Len(msg) - 1) THEN msg[p - v.at + 1]
                          ELSE v.cells[p]
    <3>1. w = print(v, msg) OBVIOUS
    <3> HIDE DEF w
    <3>2. /\ w \in Terminals /\ w.at = v.at + Len(msg)
          /\ \A p \in 0..(Area - 1) :
               w.cells[p] = IF p \in v.at..(v.at + Len(msg) - 1) THEN msg[p - v.at + 1]
                            ELSE v.cells[p]
      BY ONLY v \in Terminals, msg \in Seq(Glyphs), <2>1, <3>1, TextOnGrid
    <3> QED BY <3>2
  <2> QED BY <2>2
<1>3. /\ n <= k0 + l /\ start + k0 + l < Area /\ m <= k0 + l
      /\ \A k \in 1..l : msg[k] = IF k0 + k <= m THEN text[k0 + k] ELSE Blank
  OBVIOUS
<1> HIDE DEF w, l
<1>4. start + c \in 0..(Area - 1)
  BY <1>1, <1>3
<1>5. /\ u.at = start + c /\ u.cells = w.cells /\ u \in Terminals
  <2>1. u = [w EXCEPT !.at = start + c]
    BY DEF set_cursor_pos, w
  <2>2. w = [cells |-> w.cells, at |-> w.at] /\ w.cells \in [0..(Area - 1) -> Glyphs]
    BY <1>2 DEF Terminals
  <2>3. u = [cells |-> w.cells, at |-> start + c]
    BY <2>1, <2>2
  <2>4. u \in Terminals
    BY <2>2, <2>3, <1>4 DEF Terminals
  <2> QED BY <2>3, <2>4
<1>6. u.cells[start - 1] = ">"
  <2>1. start - 1 \in 0..(Area - 1) /\ start - 1 \notin v.at..(v.at + l - 1)
    BY <1>1, <1>3
  <2> QED BY <2>1, <1>2, <1>5
<1>7. ASSUME NEW k \in 1..m PROVE u.cells[start + k - 1] = text[k]
  <2>0. start + k - 1 \in 0..(Area - 1)
    BY <1>1, <1>3
  <2>1. CASE k <= k0
    <3>1. start + k - 1 \notin v.at..(v.at + l - 1) /\ k \in 1..k0
      BY <2>1, <1>1
    <3> QED BY <3>1, <2>0, <1>2, <1>5
  <2>2. CASE ~(k <= k0)
    <3>1. /\ start + k - 1 \in v.at..(v.at + l - 1) /\ (start + k - 1) - v.at + 1 = k - k0
          /\ k - k0 \in 1..l /\ k0 + (k - k0) = k /\ k0 + (k - k0) <= m
      BY <2>2, <1>1, <1>3
    <3>2. msg[k - k0] = text[k]
      BY <3>1, <1>3
    <3> QED BY <3>1, <3>2, <2>0, <1>2, <1>5
  <2> QED BY <2>1, <2>2
<1>8. ASSUME NEW p \in (start + m)..(Area - 1) PROVE u.cells[p] = Blank
  <2>0. p \in 0..(Area - 1)
    BY <1>1
  <2>1. CASE p \in v.at..(v.at + l - 1)
    <3>0. p \in Nat /\ p >= start + m /\ p >= start + k0 /\ p <= (start + k0) + l - 1
      BY <2>0, <2>1, <1>1
    <3>1. /\ p - v.at + 1 \in 1..l /\ ~(k0 + (p - v.at + 1) <= m)
      <4>1. p - (start + k0) + 1 \in 1..l /\ k0 + (p - (start + k0) + 1) = p - start + 1
        BY <3>0, <1>1
      <4>2. ~(p - start + 1 <= m)
        BY <3>0
      <4> QED BY <4>1, <4>2
    <3>2. msg[p - v.at + 1] = Blank
      BY <3>1, <1>3
    <3> QED BY <3>2, <2>0, <2>1, <1>2, <1>5
  <2>2. CASE p \notin v.at..(v.at + l - 1)
    <3>1. p \in (start + n)..(Area - 1)
      BY <2>2, <1>1, <1>3
    <3>2. v.cells[p] = Blank
      BY <3>1 DEF ClearFrom
    <3> QED BY <3>2, <2>0, <2>2, <1>2, <1>5
  <2> QED BY <2>1, <2>2
<1>9. u.at - c = start /\ start + m < Area
  BY <1>1, <1>3, <1>5
<1> QED BY <1>5, <1>6, <1>7, <1>8, <1>9 DEF ShowsLine, ClearFrom

-----------------------------------------------------------------------------
(* Each branch of processar_set1 keeps the screen true to the line.         *)

LEMMA LineFacts ==
  ASSUME LineInv
  PROVE  /\ buffer \in Seq(Chars) /\ buffer \in Lines
         /\ Len(buffer) \in Nat /\ Len(buffer) <= MaxLine
         /\ buffer_index \in Nat /\ buffer_index <= MaxLine /\ buffer_index <= Len(buffer)
         /\ buffer_index \in {0, Len(buffer)}
         /\ cursor_buffer \in Nat /\ cursor_buffer \in 0..buffer_index
         /\ MaxLine \in Nat
BY LenProperties, LineAssumption DEF LineInv, Lines

LEMMA CharsAreGlyphs == \A s \in Seq(Chars) : s \in Seq(Glyphs)
<1> SUFFICES ASSUME NEW s \in Seq(Chars) PROVE s \in Seq(Glyphs)
  OBVIOUS
<1>1. s \in [1..Len(s) -> Chars] /\ Len(s) \in Nat
  BY LenProperties
<1>2. s \in [1..Len(s) -> Glyphs]
  BY <1>1, ScreenGlyphs
<1> QED BY <1>1, <1>2, SeqDef

LEMMA ScreenSettled ==
  ASSUME screen' \in Terminals,
         torn' \/ ShowsLine(screen', buffer', buffer_index', cursor_buffer')
  PROVE  ScreenInv'
BY DEF ScreenInv, ShowsLine, ClearFrom

LEMMA ScreenMeans ==
  ASSUME ScreenInv
  PROVE  /\ screen \in Terminals
         /\ torn \/ ShowsLine(screen, buffer, buffer_index, cursor_buffer)
BY DEF ScreenInv

LEMMA ScreenInit == Init => ScreenInv
<1> SUFFICES ASSUME Init PROVE ScreenInv
  OBVIOUS
<1>1. screen = FreshScreen /\ buffer_index = 0 /\ cursor_buffer = 0
  BY DEF Init, FreshScreen
<1> QED BY <1>1, FreshShown DEF ScreenInv

LEMMA KeptStays ==
  ASSUME ScreenInv, UNCHANGED <<line, screen, torn>>
  PROVE  ScreenInv'
<1>1. /\ screen' = screen /\ torn' = torn /\ buffer' = buffer
      /\ buffer_index' = buffer_index /\ cursor_buffer' = cursor_buffer
  BY DEF line
<1> QED BY <1>1, ScreenMeans, ScreenSettled

LEMMA BootShown ==
  ASSUME Boot PROVE ScreenInv'
<1>1. screen' = FreshScreen /\ buffer_index' = 0 /\ cursor_buffer' = 0
  BY DEF Boot, FreshScreen
<1>2. ShowsLine(screen', buffer', buffer_index', cursor_buffer') /\ screen' \in Terminals
  BY <1>1, FreshShown
<1> QED BY <1>2, ScreenSettled

\* The cursor moves over the line; what is shown stays.
LEMMA CursorMoved ==
  ASSUME NEW t \in Terminals, NEW s, NEW n \in Nat, NEW c \in Nat, ShowsLine(t, s, n, c),
         NEW d \in Nat, NEW u \in Terminals, u.cells = t.cells, u.at - d = t.at - c
  PROVE  ShowsLine(u, s, n, d)
BY DEF ShowsLine, ClearFrom

LEMMA AtMoved ==
  ASSUME NEW t \in Terminals, NEW a \in 0..(Area - 1)
  PROVE  LET u == [t EXCEPT !.at = a]
         IN  u \in Terminals /\ u.cells = t.cells /\ u.at = a
BY DEF Terminals

LEMMA MoveLeftShown ==
  ASSUME LineInv, ScreenInv, NEW code, MoveLeft(code)
  PROVE  ScreenInv'
<1>0. /\ cursor_buffer \in Nat /\ cursor_buffer \in 0..buffer_index /\ buffer_index \in Nat
      /\ screen.at \in Nat /\ screen.at < Area /\ screen \in Terminals /\ Area \in Nat
  BY LineFacts, ScreenMeans, ScreenGlyphs, GridFacts
<1>1. cursor_buffer' \in 0..cursor_buffer
  <2>1. CASE ctrlon
    BY <2>1, <1>0, WordLeftBound DEF MoveLeft
  <2>2. CASE ~ctrlon
    BY <2>2, <1>0, OneLeftBound DEF MoveLeft
  <2> QED BY <2>1, <2>2
<1>2. /\ screen' = movback(screen, cursor_buffer - cursor_buffer')
      /\ buffer' = buffer /\ buffer_index' = buffer_index /\ torn' = torn
  BY DEF MoveLeft, Extended
<1> DEFINE n == cursor_buffer - cursor_buffer'
           a == IF n <= screen.at THEN screen.at - n ELSE 0
<1>3. n \in Nat
  <2>1. \A x \in Nat : \A y \in 0..x : x - y \in Nat
    OBVIOUS
  <2> QED BY <2>1, <1>0, <1>1
<1>4. a \in 0..(Area - 1)
  BY <1>0, <1>3
<1>5. screen' = [screen EXCEPT !.at = a]
  BY <1>2 DEF movback
<1>6. screen' \in Terminals /\ screen'.cells = screen.cells /\ screen'.at = a
  <2> HIDE DEF a
  <2> QED BY <1>0, <1>4, <1>5, AtMoved
<1>7. ASSUME ~torn PROVE ShowsLine(screen', buffer', buffer_index', cursor_buffer')
  <2>1. ShowsLine(screen, buffer, buffer_index, cursor_buffer)
    BY <1>7, ScreenMeans
  <2>2. screen.at - cursor_buffer >= 1
    BY <2>1 DEF ShowsLine
  <2>3. a - cursor_buffer' = screen.at - cursor_buffer /\ cursor_buffer' \in Nat
    BY <2>2, <1>0, <1>1
  <2> HIDE DEF a
  <2>4. ShowsLine(screen', buffer, buffer_index, cursor_buffer')
    BY <2>1, <2>3, <1>0, <1>6, CursorMoved
  <2> QED BY <2>4, <1>2
<1> QED BY <1>2, <1>6, <1>7, ScreenSettled

LEMMA MoveRightShown ==
  ASSUME LineInv, ScreenInv, NEW code, MoveRight(code)
  PROVE  ScreenInv'
<1>0. /\ cursor_buffer \in Nat /\ cursor_buffer \in 0..buffer_index /\ buffer_index \in Nat
      /\ screen.at \in Nat /\ screen.at < Area /\ screen \in Terminals /\ Area \in Nat
  BY LineFacts, ScreenMeans, ScreenGlyphs, GridFacts
<1>1. cursor_buffer' \in cursor_buffer..buffer_index
  <2>1. CASE ctrlon
    BY <2>1, <1>0, WordRightBound DEF MoveRight
  <2>2. CASE ~ctrlon
    BY <2>2, <1>0, OneRightBound DEF MoveRight
  <2> QED BY <2>1, <2>2
<1>2. /\ screen' = movfront(screen, cursor_buffer' - cursor_buffer)
      /\ buffer' = buffer /\ buffer_index' = buffer_index /\ torn' = torn
  BY DEF MoveRight, Extended
<1> DEFINE n == cursor_buffer' - cursor_buffer
           a == Stepping(screen.at, n)[n]
<1>3. n \in Nat /\ n <= buffer_index - cursor_buffer
  <2>1. \A x \in Nat, z \in Nat : \A y \in x..z : y - x \in Nat /\ y - x <= z - x
    OBVIOUS
  <2> QED BY <2>1, <1>0, <1>1
<1>5. screen' = [screen EXCEPT !.at = a]
  BY <1>2 DEF movfront
<1> HIDE DEF n
<1>4. a \in 0..(Area - 1)
  BY <1>0, <1>3, StepsForward
<1>6. screen' \in Terminals /\ screen'.cells = screen.cells /\ screen'.at = a
  <2> HIDE DEF a
  <2> QED BY <1>0, <1>4, <1>5, AtMoved
<1>7. ASSUME ~torn PROVE ShowsLine(screen', buffer', buffer_index', cursor_buffer')
  <2>1. ShowsLine(screen, buffer, buffer_index, cursor_buffer)
    BY <1>7, ScreenMeans
  <2>2. screen.at - cursor_buffer + buffer_index < Area
    BY <2>1 DEF ShowsLine
  <2>3. screen.at + n < Area
    BY <2>2, <1>0, <1>3
  <2>4. a = screen.at + n
    BY <2>3, <1>0, <1>3, StepsForward
  <2>5. a - cursor_buffer' = screen.at - cursor_buffer /\ cursor_buffer' \in Nat
    BY <2>4, <1>0, <1>1 DEF n
  <2> HIDE DEF a
  <2>6. ShowsLine(screen', buffer, buffer_index, cursor_buffer')
    BY <2>1, <2>5, <1>0, <1>6, CursorMoved
  <2> QED BY <2>6, <1>2
<1> QED BY <1>2, <1>6, <1>7, ScreenSettled

\* A part of a line: its characters.
LEMMA PartIs ==
  ASSUME NEW s \in Seq(Chars), NEW a \in 1..(Len(s) + 1), NEW b \in 0..Len(s)
  PROVE  \A k \in 1..(b - a + 1) : SubSeq(s, a, b)[k] = s[a + k - 1]
<1>1. Len(s) \in Nat
  BY LenProperties
<1>2. a \in Int /\ b \in Int /\ \A i \in a..b : i \in 1..Len(s)
  BY <1>1
<1>3. \A i \in a..b : s[i] \in Chars
  BY <1>2, ElementOfSeq
<1> QED BY <1>2, <1>3, SubSeqProperties

\* What redesenhar prints: the rest of the line and the blanks.
LEMMA RestIs ==
  ASSUME NEW s \in Seq(Chars), NEW a \in 0..Len(s), NEW n \in Nat,
         NEW msg, msg = SubSeq(s, a + 1, Len(s)) \o Spaces(n)
  PROVE  /\ msg \in Seq(Glyphs) /\ Len(msg) = (Len(s) - a) + n
         /\ \A k \in 1..Len(msg) : msg[k] = IF a + k <= Len(s) THEN s[a + k] ELSE Blank
<1> DEFINE r == SubSeq(s, a + 1, Len(s))
           l == Len(s)
<1>1. l \in Nat /\ a \in Nat /\ a <= l
  BY LenProperties
<1>2. a + 1 \in 1..(l + 1) /\ l \in 0..l
  BY <1>1
<1>3. r \in Seq(Chars) /\ Len(r) = l - a
  <2>1. r \in Seq(Chars) /\ Len(r) = IF a + 1 <= l THEN l - (a + 1) + 1 ELSE 0
    BY <1>2, PartOfLine
  <2> HIDE DEF r, l
  <2>2. (IF a + 1 <= l THEN l - (a + 1) + 1 ELSE 0) = l - a
    BY <1>1
  <2> QED BY <2>1, <2>2
<1>4. \A k \in 1..(l - (a + 1) + 1) : r[k] = s[(a + 1) + k - 1]
  BY <1>2, PartIs
<1>5. r \in Seq(Glyphs)
  BY <1>3, CharsAreGlyphs
<1>6. /\ Spaces(n) \in Seq(Glyphs) /\ Len(Spaces(n)) = n
      /\ \A k \in 1..n : Spaces(n)[k] = Blank
  BY SpacesAre
<1>7. msg = r \o Spaces(n)
  OBVIOUS
<1> HIDE DEF r, l
<1>8. /\ r \o Spaces(n) \in Seq(Glyphs) /\ Len(r \o Spaces(n)) = Len(r) + Len(Spaces(n))
      /\ \A i \in 1..(Len(r) + Len(Spaces(n))) :
           (r \o Spaces(n))[i] = IF i <= Len(r) THEN r[i] ELSE Spaces(n)[i - Len(r)]
  BY <1>5, <1>6, ConcatProperties
<1>9. /\ msg \in Seq(Glyphs) /\ Len(msg) = (l - a) + n
      /\ \A i \in 1..((l - a) + n) :
           msg[i] = IF i <= l - a THEN r[i] ELSE Spaces(n)[i - (l - a)]
  BY <1>3, <1>6, <1>7, <1>8
<1>10. ASSUME NEW k \in 1..((l - a) + n)
       PROVE  msg[k] = IF a + k <= l THEN s[a + k] ELSE Blank
  <2>1. CASE a + k <= l
    <3>1. k <= l - a /\ k \in 1..(l - (a + 1) + 1) /\ (a + 1) + k - 1 = a + k
      BY <2>1, <1>1
    <3> QED BY <2>1, <3>1, <1>4, <1>9
  <2>2. CASE ~(a + k <= l)
    <3>1. ~(k <= l - a) /\ k - (l - a) \in 1..n
      BY <2>2, <1>1
    <3> QED BY <2>2, <3>1, <1>6, <1>9
  <2> QED BY <2>1, <2>2
<1> QED BY <1>9, <1>10 DEF l

LEMMA LoadShown ==
  ASSUME LineInv, ScreenInv, NEW texto \in Lines, carregar_linha(texto), torn' = torn
  PROVE  ScreenInv'
<1>0. /\ cursor_buffer \in Nat /\ cursor_buffer \in 0..buffer_index /\ buffer_index \in Nat
      /\ screen \in Terminals
  BY LineFacts, ScreenMeans
<1>t. texto \in Seq(Chars) /\ Len(texto) <= MaxLine
  BY DEF Lines
<1>t2. texto \in Seq(Glyphs) /\ Len(texto) \in Nat
  BY <1>t, CharsAreGlyphs, LenProperties
<1> DEFINE v == print(screen, Erases(cursor_buffer))
           w == print(v, Spaces(buffer_index))
           x == print(w, Erases(buffer_index))
<1>1. /\ buffer' = texto /\ buffer_index' = Len(texto) /\ cursor_buffer' = Len(texto)
      /\ screen' = print(x, texto)
  BY DEF carregar_linha, limpar_linha_atual
<1>2. \A n \in Nat, t \in Terminals : print(t, Erases(n)) \in Terminals
  <2> SUFFICES ASSUME NEW n \in Nat, NEW t \in Terminals
               PROVE  print(t, Erases(n)) \in Terminals
    OBVIOUS
  <2>1. Erases(n) \in Seq(Glyphs \cup {NewLine, Erase})
    BY DEF Erases
  <2> QED BY <2>1, PrintKeepsTerminal
<1>3. v \in Terminals BY <1>0, <1>2
<1>4. w \in Terminals
  <2> HIDE DEF v
  <2>1. Spaces(buffer_index) \in Seq(Glyphs) BY <1>0, SpacesAre
  <2> QED BY <1>3, <2>1, GlyphsShown
<1>5. x \in Terminals
  <2> HIDE DEF w
  <2> QED BY <1>0, <1>2, <1>4
<1>6. screen' \in Terminals
  <2> HIDE DEF x
  <2> QED BY <1>1, <1>5, <1>t2, GlyphsShown
<1>7. ASSUME ~torn PROVE ShowsLine(screen', buffer', buffer_index', cursor_buffer')
  <2>1. ShowsLine(screen, buffer, buffer_index, cursor_buffer)
    BY <1>7, ScreenMeans
  <2>2. ShowsLine(x, texto, 0, 0)
    <3>1. v = print(screen, Erases(cursor_buffer)) /\ w = print(v, Spaces(buffer_index))
          /\ x = print(w, Erases(buffer_index))
      OBVIOUS
    <3> HIDE DEF v, w, x
    <3> QED BY <2>1, <3>1, <1>0, <1>3, LineCleared
  <2> HIDE DEF x
  <2>3. /\ 0 + Len(texto) <= MaxLine /\ \A k \in 1..0 : texto[k] = texto[k]
        /\ \A k \in 1..Len(texto) : texto[0 + k] = texto[k]
    BY <1>t, <1>t2
  <2>4. ShowsLine(screen', texto, 0 + Len(texto), 0 + Len(texto))
    BY <2>2, <2>3, <1>1, <1>5, <1>t2, LineTyped
  <2>5. 0 + Len(texto) = Len(texto)
    BY <1>t2
  <2> QED BY <2>4, <2>5, <1>1
<1> QED BY <1>6, <1>7, ScreenSettled

LEMMA RecallShown ==
  ASSUME LineInv, ScreenInv, NEW code, historico_subir(code) \/ historico_descer(code)
  PROVE  ScreenInv'
<1>0. Len(historico) \in Nat /\ historico \in Seq(Lines) /\ historico_pos \in -1..Len(historico)
  BY LenProperties DEF LineInv
<1>1. torn' = torn
  BY DEF historico_subir, historico_descer, Extended
<1>2. CASE UNCHANGED <<line, screen>>
  BY <1>1, <1>2, KeptStays
<1>3. CASE \E texto \in Lines : carregar_linha(texto)
  BY <1>1, <1>3, LoadShown
<1>4. CASE historico_subir(code)
  <2> DEFINE pos == IF historico_pos < 0 \/ historico_pos > Len(historico)
                    THEN Len(historico) ELSE historico_pos
  <2>1. pos \in 0..Len(historico)
    BY <1>0
  <2>2. CASE historico = << >> \/ pos = 0
    <3>1. UNCHANGED <<line, screen>> BY <1>4, <2>2 DEF historico_subir
    <3> QED BY <3>1, <1>2
  <2>3. CASE ~(historico = << >> \/ pos = 0)
    <3>1. carregar_linha(historico[pos])
      BY <1>4, <2>3 DEF historico_subir
    <3>2. historico[pos] \in Lines
      BY <2>1, <2>3, <1>0, ElementOfSeq
    <3> QED BY <3>1, <3>2, <1>3
  <2> QED BY <2>2, <2>3
<1>5. CASE historico_descer(code)
  <2>1. CASE historico = << >> \/ historico_pos < 0
    <3>1. UNCHANGED <<line, screen>> BY <1>5, <2>1 DEF historico_descer
    <3> QED BY <3>1, <1>2
  <2>2. CASE ~(historico = << >> \/ historico_pos < 0) /\ historico_pos < Len(historico) - 1
    <3>1. carregar_linha(historico[historico_pos + 2])
      BY <1>5, <2>2 DEF historico_descer
    <3>2. historico_pos + 2 \in 1..Len(historico)
      BY <2>2, <1>0
    <3>3. historico[historico_pos + 2] \in Lines
      BY <3>2, <1>0, ElementOfSeq
    <3> QED BY <3>1, <3>3, <1>3
  <2>3. CASE ~(historico = << >> \/ historico_pos < 0) /\ ~(historico_pos < Len(historico) - 1)
    <3>1. carregar_linha(<< >>)
      BY <1>5, <2>3 DEF historico_descer
    <3>2. << >> \in Lines
      BY EmptySeq, LineAssumption DEF Lines
    <3> QED BY <3>1, <3>2, <1>3
  <2> QED BY <2>1, <2>2, <2>3
<1> QED BY <1>4, <1>5

LEMMA EnterShown ==
  ASSUME LineInv, ScreenInv, NEW code, executar_buffer(code)
  PROVE  ScreenInv'
<1>0. /\ cursor_buffer \in Nat /\ cursor_buffer \in 0..buffer_index /\ buffer_index \in Nat
      /\ screen \in Terminals
  BY LineFacts, ScreenMeans
<1>1. buffer' = << >> /\ buffer_index' = 0 /\ cursor_buffer' = 0
  BY DEF executar_buffer
<1>2. ASSUME ~torn, ~EndsBelowCursor PROVE Tidy(screen)
  <2>1. ShowsLine(screen, buffer, buffer_index, cursor_buffer)
    BY <1>2, ScreenMeans
  <2>2. RowOf(screen.at) = RowOf(screen.at + buffer_index - cursor_buffer)
    BY <1>2 DEF EndsBelowCursor
  <2> QED BY <2>1, <2>2, <1>0, LineIsTidy
<1>3. CASE ~(buffer_index > 0)
  <2>1. screen' = prompt(screen) /\ torn' = torn
    BY <1>3 DEF executar_buffer
  <2>2. screen.at + buffer_index - cursor_buffer = screen.at
    BY <1>0, <1>3, ScreenGlyphs
  <2>3. ~EndsBelowCursor
    BY <2>2 DEF EndsBelowCursor
  <2>4. screen' \in Terminals /\ (Tidy(screen) => ShowsLine(screen', buffer', 0, 0))
    BY <2>1, <1>0, PromptShown
  <2> QED BY <1>1, <1>2, <2>1, <2>3, <2>4, ScreenSettled
<1>4. CASE buffer_index > 0
  <2>1. PICK output \in {<< >>, <<NewLine, "!">>} : screen' = pcmd(screen, Text, output)
    BY <1>4 DEF executar_buffer
  <2>2. torn' = (Text \notin ClearNames /\ (torn \/ EndsBelowCursor \/ AllBlank(Text)))
    BY <1>4 DEF executar_buffer
  <2>3. CASE AllBlank(Text)
    <3>1. Text \notin ClearNames
      <4> SUFFICES ASSUME Text \in ClearNames PROVE FALSE
        OBVIOUS
      <4>1. Text \in Seq(Chars \ {Blank}) /\ Len(Text) >= 1
        BY NamesAssumption
      <4>2. 1 \in DOMAIN Text /\ Text[1] \in Chars \ {Blank}
        BY <4>1, LenProperties, ElementOfSeq
      <4> QED BY <4>2, <2>3 DEF AllBlank
    <3>2. torn'
      BY <2>2, <2>3, <3>1
    <3>3. screen' = screen
      BY <2>1, <2>3 DEF pcmd
    <3> QED BY <3>2, <3>3, <1>0, ScreenSettled
  <2>4. CASE ~AllBlank(Text) /\ Text \in ClearNames
    <3>1. screen' = FreshScreen
      BY <2>1, <2>4 DEF pcmd
    <3>2. screen' \in Terminals /\ ShowsLine(screen', buffer', 0, 0)
      BY <3>1, FreshShown
    <3> QED BY <3>2, <1>1, ScreenSettled
  <2>5. CASE ~AllBlank(Text) /\ Text \notin ClearNames
    <3> DEFINE t == print(screen, output)
    <3>1. screen' = prompt(t)
      BY <2>1, <2>5 DEF pcmd
    <3>2. t \in Terminals /\ (Tidy(screen) => Tidy(t))
      BY <1>0, OutputShown
    <3> HIDE DEF t
    <3>3. screen' \in Terminals /\ (Tidy(t) => ShowsLine(screen', buffer', 0, 0))
      BY <3>1, <3>2, PromptShown
    <3>4. torn' \/ (~torn /\ ~EndsBelowCursor)
      BY <2>2, <2>5
    <3> QED BY <1>1, <1>2, <3>2, <3>3, <3>4, ScreenSettled
  <2> QED BY <2>3, <2>4, <2>5
<1> QED BY <1>3, <1>4

LEMMA CtrlLShown ==
  ASSUME NEW code, CtrlL(code)
  PROVE  ScreenInv'
<1>1. screen' = FreshScreen /\ buffer_index' = 0 /\ cursor_buffer' = 0
  BY DEF CtrlL
<1>2. screen' \in Terminals /\ ShowsLine(screen', buffer', 0, 0)
  BY <1>1, FreshShown
<1> QED BY <1>1, <1>2, ScreenSettled

LEMMA CtrlCShown ==
  ASSUME LineInv, ScreenInv, NEW code, CtrlC(code)
  PROVE  ScreenInv'
<1>0. /\ cursor_buffer \in Nat /\ cursor_buffer \in 0..buffer_index /\ buffer_index \in Nat
      /\ screen \in Terminals
  BY LineFacts, ScreenMeans
<1>1. /\ screen' = prompt(screen) /\ torn' = (torn \/ buffer_index > 0)
      /\ buffer' = buffer /\ buffer_index' = buffer_index /\ cursor_buffer' = cursor_buffer
  BY DEF CtrlC, line
<1>2. screen' \in Terminals /\ (Tidy(screen) => ShowsLine(screen', buffer', 0, 0))
  BY <1>0, <1>1, PromptShown
<1>3. ASSUME ~torn, ~(buffer_index > 0)
      PROVE  ShowsLine(screen', buffer', buffer_index', cursor_buffer')
  <2>1. buffer_index = 0 /\ cursor_buffer = 0
    BY <1>0, <1>3
  <2>2. ShowsLine(screen, buffer, 0, 0)
    BY <1>3, <2>1, ScreenMeans
  <2>3. RowOf(screen.at) = RowOf(screen.at + 0 - 0)
    BY <1>0, ScreenGlyphs
  <2>4. Tidy(screen)
    BY <2>2, <2>3, <1>0, LineIsTidy
  <2> QED BY <1>1, <1>2, <2>1, <2>4
<1>4. torn' \/ (~torn /\ ~(buffer_index > 0))
  BY <1>1
<1> QED BY <1>2, <1>3, <1>4, ScreenSettled

\* What TAB found: the line is the start of every match, and ends at the cursor.
LEMMA MatchExtends ==
  ASSUME NEW n \in Matches, buffer \in Seq(Chars)
  PROVE  /\ cursor_buffer = Len(buffer) /\ n \in Seq(Chars) /\ n \in Names
         /\ Len(buffer) <= Len(n)
         /\ \A k \in 1..Len(buffer) : n[k] = buffer[k]
<1>1. cursor_buffer = Len(buffer) /\ n \in Names /\ IsPrefix(buffer, n)
  BY DEF Matches
<1>2. n \in Seq(Chars)
  <2>1. n \in Seq(Chars \ {Blank}) BY <1>1, NamesAssumption
  <2> QED BY <2>1, SeqMonotonic
<1>3. Len(buffer) <= Len(n) /\ SubSeq(buffer, 1, Len(buffer)) = SubSeq(n, 1, Len(buffer))
  BY <1>1 DEF IsPrefix
<1>4. Len(buffer) \in Nat /\ Len(n) \in Nat /\ Len(buffer) \in 0..Len(n)
  BY <1>2, <1>3, LenProperties
<1>5. ASSUME NEW k \in 1..Len(buffer) PROVE n[k] = buffer[k]
  <2>1. k \in 1..(Len(buffer) - 1 + 1) /\ 1 + k - 1 = k
    BY <1>4
  <2>2. SubSeq(n, 1, Len(buffer))[k] = n[k]
    BY <2>1, <1>2, <1>4, PartIs
  <2>3. SubSeq(buffer, 1, Len(buffer))[k] = buffer[k]
    BY <2>1, <1>4, PartIs
  <2> QED BY <1>3, <2>2, <2>3
<1> QED BY <1>1, <1>2, <1>3, <1>5

LEMMA TabShown ==
  ASSUME LineInv, LineInv', ScreenInv, NEW code, Tab(code)
  PROVE  ScreenInv'
<1>0. /\ buffer \in Seq(Chars) /\ Len(buffer) \in Nat /\ Len(buffer) <= MaxLine
      /\ cursor_buffer \in Nat /\ cursor_buffer \in 0..buffer_index /\ buffer_index \in Nat
      /\ buffer_index <= Len(buffer)
      /\ screen \in Terminals
  BY LineFacts, ScreenMeans
<1>1. buffer_index' = Len(buffer') /\ torn' = (torn \/ Stale)
  BY DEF Tab
<1>2. /\ torn' \/ ~torn
      /\ ~torn' => /\ buffer_index = Len(buffer)
                   /\ ShowsLine(screen, buffer, buffer_index, cursor_buffer)
  <2>1. torn' \/ (~torn /\ ~Stale)
    BY <1>1
  <2>2. ~Stale => buffer_index = Len(buffer)
    BY <1>0 DEF Stale
  <2> QED BY <2>1, <2>2, ScreenMeans
<1>3. CASE /\ Cardinality(Matches) = 1
           /\ buffer' = CHOOSE n \in Matches : TRUE
           /\ cursor_buffer' = Len(buffer')
           /\ screen' = print(screen, SubSeq(buffer', cursor_buffer + 1, Len(buffer')))
  <2> DEFINE name == CHOOSE n \in Matches : TRUE
             msg  == SubSeq(name, cursor_buffer + 1, Len(name))
             l    == Len(name)
  <2>1. name \in Matches
    <3>1. Matches # {} BY <1>3, FS_EmptySet
    <3> QED BY <3>1
  <2> HIDE DEF name
  <2>2. /\ cursor_buffer = Len(buffer) /\ name \in Seq(Chars) /\ name \in Names
        /\ Len(buffer) <= Len(name)
        /\ \A k \in 1..Len(buffer) : name[k] = buffer[k]
    BY <2>1, <1>0, MatchExtends
  <2>3. l \in Nat /\ l <= MaxLine /\ cursor_buffer <= l
    BY <2>2, NamesAssumption, LenProperties, LineAssumption
  <2>4. /\ buffer' = name /\ buffer_index' = l /\ cursor_buffer' = l
        /\ screen' = print(screen, msg)
    BY <1>1, <1>3 DEF name
  <2>5. cursor_buffer + 1 \in 1..(l + 1) /\ l \in 0..l
    BY <2>3, <1>0
  <2>6. /\ msg \in Seq(Chars)
        /\ Len(msg) = IF cursor_buffer + 1 <= l THEN l - (cursor_buffer + 1) + 1 ELSE 0
    BY <2>2, <2>5, PartOfLine
  <2>7. \A k \in 1..(l - (cursor_buffer + 1) + 1) :
          msg[k] = name[(cursor_buffer + 1) + k - 1]
    BY <2>2, <2>5, PartIs
  <2>8. msg \in Seq(Glyphs)
    BY <2>6, CharsAreGlyphs
  <2> HIDE DEF msg, l
  <2>9. screen' \in Terminals
    BY <1>0, <2>4, <2>8, GlyphsShown
  <2>10. ASSUME ~torn' PROVE ShowsLine(screen', buffer', buffer_index', cursor_buffer')
    <3> DEFINE cb == cursor_buffer
               m  == Len(msg)
    <3>1. cb \in Nat /\ ShowsLine(screen, buffer, cb, cb)
      BY <1>0, <1>2, <2>2, <2>10
    <3>2. m = l - cb /\ cb + m = l
      BY <1>0, <2>3, <2>6
    <3>3. ASSUME NEW k \in 1..m PROVE name[cb + k] = msg[k]
      <4>1. k \in 1..(l - (cb + 1) + 1) /\ (cb + 1) + k - 1 = cb + k
        BY <3>2, <1>0, <2>3
      <4> QED BY <4>1, <2>7
    <3>4. cb + m <= MaxLine /\ \A k \in 1..cb : name[k] = buffer[k]
      BY <2>2, <2>3, <3>2
    <3>5. ShowsLine(screen', name, cb + m, cb + m)
      <4> HIDE DEF cb
      <4> QED BY <3>1, <3>3, <3>4, <1>0, <2>4, <2>8, LineTyped
    <3> HIDE DEF cb, m
    <3> QED BY <3>2, <3>5, <2>4
  <2> QED BY <2>9, <2>10, ScreenSettled
<1>4. CASE /\ Cardinality(Matches) > 1
           /\ screen' = print(prompt(print(screen, <<NewLine, "!">>)), buffer)
           /\ UNCHANGED <<buffer, cursor_buffer>>
  <2> DEFINE t == print(screen, <<NewLine, "!">>)
             u == prompt(t)
             l == Len(buffer)
  <2>1. t \in Terminals /\ (Tidy(screen) => Tidy(t))
    BY <1>0, OutputShown
  <2>2. u \in Terminals /\ (Tidy(t) => ShowsLine(u, buffer, 0, 0))
    <3> HIDE DEF t
    <3> QED BY <2>1, PromptShown
  <2>3. screen' = print(u, buffer) /\ buffer' = buffer /\ cursor_buffer' = cursor_buffer
    BY <1>4
  <2> HIDE DEF t, u
  <2>4. buffer \in Seq(Glyphs)
    BY <1>0, CharsAreGlyphs
  <2>5. screen' \in Terminals
    BY <2>2, <2>3, <2>4, GlyphsShown
  <2>6. ASSUME ~torn' PROVE ShowsLine(screen', buffer', buffer_index', cursor_buffer')
    <3>1. cursor_buffer = l
      <4>1. Matches # {} BY <1>4, FS_EmptySet
      <4> QED BY <4>1, <1>0, MatchExtends
    <3>2. ShowsLine(screen, buffer, l, l)
      BY <1>2, <2>6, <3>1
    <3>3. Tidy(screen)
      <4>1. RowOf(screen.at) = RowOf(screen.at + l - l) /\ l \in Nat /\ l \in 0..l
        BY <1>0, ScreenGlyphs
      <4> HIDE DEF l
      <4> QED BY <3>2, <4>1, <1>0, LineIsTidy
    <3>4. ShowsLine(u, buffer, 0, 0)
      BY <3>3, <2>1, <2>2
    <3>5. /\ 0 + Len(buffer) <= MaxLine /\ \A k \in 1..0 : buffer[k] = buffer[k]
          /\ \A k \in 1..Len(buffer) : buffer[0 + k] = buffer[k]
      BY <1>0
    <3>6. ShowsLine(screen', buffer, 0 + Len(buffer), 0 + Len(buffer))
      BY <3>4, <3>5, <2>2, <2>3, <2>4, LineTyped
    <3>7. 0 + Len(buffer) = l
      BY <1>0
    <3> QED BY <3>1, <3>6, <3>7, <1>1, <2>3
  <2> QED BY <2>5, <2>6, ScreenSettled
<1>5. CASE UNCHANGED <<screen, buffer, cursor_buffer>>
  <2>1. screen' = screen /\ buffer' = buffer /\ cursor_buffer' = cursor_buffer
    BY <1>5
  <2>2. ASSUME ~torn' PROVE ShowsLine(screen', buffer', buffer_index', cursor_buffer')
    BY <1>1, <1>2, <2>1, <2>2
  <2> QED BY <1>0, <2>1, <2>2, ScreenSettled
<1> QED BY <1>3, <1>4, <1>5 DEF Tab

\* The terminal that a set_cursor_pos after a print leaves.
LEMMA PrintThenPlace ==
  ASSUME NEW t \in Terminals, NEW msg \in Seq(Glyphs), NEW a \in 0..(Area - 1)
  PROVE  set_cursor_pos(print(t, msg), a) \in Terminals
<1> DEFINE w == print(t, msg)
<1>1. w \in Terminals
  BY GlyphsShown
<1>2. [w EXCEPT !.at = a] \in Terminals
  <2> HIDE DEF w
  <2> QED BY <1>1, AtMoved
<1> QED BY <1>2 DEF set_cursor_pos

\* Backspace takes d characters out before the cursor.
LEMMA BackspaceFacts ==
  ASSUME LineInv, LineInv', NEW code, Backspace(code)
  PROVE  /\ cursor_buffer' \in 0..cursor_buffer
         /\ \E d \in Nat : /\ cursor_buffer - cursor_buffer' = d
                           /\ cursor_buffer = cursor_buffer' + d
                           /\ buffer_index - buffer_index' = d
                           /\ buffer_index = buffer_index' + d
         /\ ~Stale => /\ Len(buffer') = buffer_index'
                      /\ \A k \in 1..cursor_buffer' : buffer'[k] = buffer[k]
<1>0. /\ buffer \in Seq(Chars) /\ Len(buffer) \in Nat
      /\ cursor_buffer \in Nat /\ cursor_buffer \in 0..buffer_index /\ buffer_index \in Nat
      /\ buffer_index <= Len(buffer)
  BY LineFacts
<1>1. cursor_buffer' \in 0..cursor_buffer
  <2>1. CASE ctrlon
    BY <2>1, <1>0, WordLeftBound DEF Backspace
  <2>2. CASE ~ctrlon
    BY <2>2, <1>0, OneLeftBound DEF Backspace
  <2> QED BY <2>1, <2>2
<1>2. /\ buffer' = IF cursor_buffer = 0 THEN buffer
                   ELSE SubSeq(buffer, 1, cursor_buffer') \o After
      /\ buffer_index' = buffer_index - (cursor_buffer - cursor_buffer')
  BY DEF Backspace
<1>3. \A i, x, y \in Nat : y <= x /\ x <= i =>
        /\ x - y \in Nat /\ x = y + (x - y)
        /\ i - (i - (x - y)) = x - y /\ i = (i - (x - y)) + (x - y)
  OBVIOUS
<1>4. \E d \in Nat : /\ cursor_buffer - cursor_buffer' = d
                     /\ cursor_buffer = cursor_buffer' + d
                     /\ buffer_index - buffer_index' = d
                     /\ buffer_index = buffer_index' + d
  <2> DEFINE x == cursor_buffer
             y == cursor_buffer'
             i == buffer_index
             j == buffer_index'
  <2>1. x \in Nat /\ y \in Nat /\ i \in Nat /\ y <= x /\ x <= i /\ j = i - (x - y)
    <3>1. y \in 0..x BY <1>1
    <3>2. j = i - (x - y) BY <1>2
    <3> HIDE DEF y, j
    <3> QED BY <3>1, <3>2, <1>0
  <2> HIDE DEF x, y, i, j
  <2>2. x - y \in Nat /\ x = y + (x - y) /\ i - j = x - y /\ i = j + (x - y)
    BY <2>1, <1>3
  <2>3. \E d \in Nat : x - y = d /\ x = y + d /\ i - j = d /\ i = j + d
    BY <2>2
  <2> QED BY <2>3 DEF x, y, i, j
<1>5. ASSUME ~Stale
      PROVE  /\ Len(buffer') = buffer_index'
             /\ \A k \in 1..cursor_buffer' : buffer'[k] = buffer[k]
  <2>0. buffer_index = Len(buffer)
    BY <1>0, <1>5 DEF Stale
  <2>1. CASE cursor_buffer = 0
    BY <2>0, <2>1, <1>0, <1>1, <1>2
  <2>2. CASE cursor_buffer # 0
    <3> DEFINE c == cursor_buffer'
               b == cursor_buffer
               l == Len(buffer)
               p == SubSeq(buffer, 1, c)
    <3>1. c \in Nat /\ c <= b /\ b <= l /\ b \in Nat /\ l \in Nat
      BY <1>0, <1>1
    <3>2. 1 \in 1..(l + 1) /\ c \in 0..l /\ b + 1 \in 1..(l + 1) /\ l \in 0..l
      BY <3>1
    <3>3. /\ p \in Seq(Chars) /\ Len(p) = IF 1 <= c THEN c - 1 + 1 ELSE 0
          /\ \A k \in 1..(c - 1 + 1) : p[k] = buffer[1 + k - 1]
      BY <3>2, <1>0, PartOfLine, PartIs
    <3>4. /\ After \in Seq(Chars)
          /\ Len(After) = IF b + 1 <= l THEN l - (b + 1) + 1 ELSE 0
      BY <3>2, <1>0, <2>0, PartOfLine DEF After
    <3>5. buffer' = p \o After /\ buffer_index' = l - (b - c)
      BY <1>2, <2>0, <2>2
    <3> HIDE DEF p, c, b, l
    <3>6. Len(p) = c /\ Len(After) = l - b /\ \A k \in 1..c : p[k] = buffer[k]
      <4>1. c - 1 + 1 = c /\ \A k \in 1..c : 1 + k - 1 = k
        BY <3>1
      <4>2. Len(p) = c
        BY <3>1, <3>3
      <4>3. Len(After) = l - b
        BY <3>1, <3>4
      <4> QED BY <3>3, <4>1, <4>2, <4>3
    <3>7. /\ Len(p \o After) = c + (l - b)
          /\ \A k \in 1..(c + (l - b)) : k <= c => (p \o After)[k] = p[k]
      BY <3>3, <3>4, <3>6, ConcatProperties
    <3>8. /\ c + (l - b) = l - (b - c)
          /\ \A k \in 1..c : k \in 1..(c + (l - b)) /\ k <= c
      BY <3>1
    <3>9. Len(buffer') = buffer_index' /\ \A k \in 1..c : buffer'[k] = buffer[k]
      BY <3>5, <3>6, <3>7, <3>8
    <3> QED BY <3>9 DEF c
  <2> QED BY <2>1, <2>2
<1> QED BY <1>1, <1>4, <1>5

LEMMA BackspaceShown ==
  ASSUME LineInv, LineInv', ScreenInv, NEW code, Backspace(code)
  PROVE  ScreenInv'
<1>0. /\ cursor_buffer \in Nat /\ cursor_buffer \in 0..buffer_index /\ buffer_index \in Nat
      /\ screen.at \in Nat /\ screen.at < Area /\ screen \in Terminals /\ Area \in Nat
  BY LineFacts, ScreenMeans, ScreenGlyphs, GridFacts
<1>1. /\ cursor_buffer' \in 0..cursor_buffer
      /\ ~Stale => /\ Len(buffer') = buffer_index'
                   /\ \A k \in 1..cursor_buffer' : buffer'[k] = buffer[k]
  BY BackspaceFacts
<1>2. PICK d \in Nat : /\ cursor_buffer - cursor_buffer' = d
                       /\ cursor_buffer = cursor_buffer' + d
                       /\ buffer_index - buffer_index' = d
                       /\ buffer_index = buffer_index' + d
  BY BackspaceFacts
<1>3. /\ buffer' \in Seq(Chars) /\ Len(buffer') \in Nat /\ buffer_index' \in Nat
      /\ cursor_buffer' \in Nat /\ cursor_buffer' <= buffer_index'
      /\ cursor_buffer' \in 0..Len(buffer')
  BY LenProperties DEF LineInv, Lines
<1> DEFINE a   == IF d <= screen.at THEN screen.at - d ELSE 0
           v   == [screen EXCEPT !.at = a]
           msg == SubSeq(buffer', cursor_buffer' + 1, Len(buffer')) \o Spaces(d)
<1>4. screen' = set_cursor_pos(print(v, msg), v.at) /\ torn' = (torn \/ Stale)
  BY <1>2 DEF Backspace, redesenhar, movback
<1>5. a \in 0..(Area - 1) /\ a \in Nat
  BY <1>0
<1>6. v \in Terminals /\ v.cells = screen.cells /\ v.at = a
  <2> HIDE DEF a
  <2> QED BY <1>0, <1>5, AtMoved
<1>7. /\ msg \in Seq(Glyphs) /\ Len(msg) = (Len(buffer') - cursor_buffer') + d
      /\ \A k \in 1..Len(msg) :
           msg[k] = IF cursor_buffer' + k <= Len(buffer') THEN buffer'[cursor_buffer' + k]
                    ELSE Blank
  <2>1. msg = SubSeq(buffer', cursor_buffer' + 1, Len(buffer')) \o Spaces(d)
    OBVIOUS
  <2> HIDE DEF msg
  <2> QED BY <2>1, <1>3, RestIs
<1> HIDE DEF v, msg
<1>8. screen' \in Terminals
  BY <1>4, <1>5, <1>6, <1>7, PrintThenPlace
<1>9. ASSUME ~torn, ~Stale
      PROVE  ShowsLine(screen', buffer', buffer_index', cursor_buffer')
  <2> DEFINE start == screen.at - cursor_buffer
             c     == cursor_buffer'
             m     == buffer_index'
             n     == buffer_index
  <2>1. /\ start >= 1 /\ screen.cells[start - 1] = ">"
        /\ \A k \in 1..n : screen.cells[start + k - 1] = buffer[k]
        /\ start + n < Area /\ ClearFrom(screen, start + n)
    BY <1>9, ScreenMeans DEF ShowsLine
  <2>2. c \in Nat /\ m \in Nat /\ n \in Nat /\ c <= m /\ n = m + d /\ c \in 0..m
    <3>1. c \in Nat /\ m \in Nat /\ n \in Nat /\ c <= m BY <1>0, <1>3
    <3>2. n = m + d BY <1>2
    <3> HIDE DEF c, m, n
    <3> QED BY <3>1, <3>2
  <2>3. start \in Nat /\ a = start + c
    <3>1. cursor_buffer = c + d BY <1>2
    <3>2. start + cursor_buffer = screen.at /\ start \in Nat BY <2>1, <1>0
    <3> HIDE DEF c, start
    <3> QED BY <3>1, <3>2, <2>2, <1>0
  <2>4. Len(buffer') = m /\ \A k \in 1..c : buffer'[k] = buffer[k]
    BY <1>1, <1>9
  <2> HIDE DEF start, m, n, a
  <2>5. /\ Len(msg) = (m - c) + d
        /\ \A k \in 1..Len(msg) : msg[k] = IF c + k <= m THEN buffer'[c + k] ELSE Blank
    BY <1>7, <2>4
  <2>6. v.cells[start - 1] = ">" /\ ClearFrom(v, start + n) /\ v.at = start + c
    BY <1>6, <2>1, <2>3 DEF ClearFrom
  <2>7. \A k \in 1..c : v.cells[start + k - 1] = buffer'[k]
    <3> HIDE DEF c
    <3>1. \A k \in 1..c : k \in 1..n
      BY <2>2
    <3> QED BY <3>1, <1>6, <2>1, <2>4
  <2>8. /\ n <= c + Len(msg) /\ start + c + Len(msg) < Area
        /\ m >= c /\ m <= c + Len(msg)
    <3> HIDE DEF c
    <3>1. c + Len(msg) = n /\ start + c + Len(msg) = start + n /\ m <= n
      BY <2>2, <2>3, <2>5
    <3> QED BY <3>1, <2>1, <2>2
  <2>9. screen' = set_cursor_pos(print(v, msg), start + c)
    BY <1>4, <2>6
  <2> HIDE DEF c
  <2>10. ShowsLine(screen', buffer', m, c)
    BY <1>6, <1>7, <2>1, <2>2, <2>3, <2>5, <2>6, <2>7, <2>8, <2>9, LineRedrawn
  <2> QED BY <2>10 DEF m, c
<1>10. torn' \/ (~torn /\ ~Stale)
  BY <1>4
<1> QED BY <1>8, <1>9, <1>10, ScreenSettled

\* The letter and what was after the cursor, as they are printed and as they
\* are in the line.
LEMMA LetterFacts ==
  ASSUME LineInv, NEW letra \in Chars
  PROVE  LET msg  == <<letra>> \o After
             text == Before \o <<letra>> \o After
         IN  /\ msg \in Seq(Glyphs) /\ Len(msg) = (buffer_index - cursor_buffer) + 1
             /\ \A k \in 1..cursor_buffer : text[k] = buffer[k]
             /\ \A k \in 1..Len(msg) : text[cursor_buffer + k] = msg[k]
<1> DEFINE b == cursor_buffer
           i == buffer_index
           l == Len(buffer)
           one == <<letra>>
           msg == one \o After
<1>0. /\ buffer \in Seq(Chars) /\ l \in Nat /\ b \in Nat /\ i \in Nat /\ b <= i /\ i <= l
  BY LineFacts
<1>1. one \in Seq(Chars) /\ Len(one) = 1
  OBVIOUS
<1>2. 1 \in 1..(l + 1) /\ b \in 0..l /\ b + 1 \in 1..(l + 1) /\ i \in 0..l
  <2> HIDE DEF b, i, l
  <2> QED BY <1>0
<1>3. /\ Before \in Seq(Chars) /\ Len(Before) = IF 1 <= b THEN b - 1 + 1 ELSE 0
      /\ \A k \in 1..(b - 1 + 1) : Before[k] = buffer[1 + k - 1]
  BY <1>0, <1>2, PartOfLine, PartIs DEF Before
<1>4. After \in Seq(Chars) /\ Len(After) = IF b + 1 <= i THEN i - (b + 1) + 1 ELSE 0
  BY <1>0, <1>2, PartOfLine DEF After
<1> HIDE DEF b, i, l, one
<1>5. Len(Before) = b /\ \A k \in 1..b : Before[k] = buffer[k]
  <2>1. b - 1 + 1 = b /\ \A k \in 1..b : 1 + k - 1 = k
    BY <1>0
  <2>2. Len(Before) = b
    BY <1>0, <1>3
  <2> QED BY <1>3, <2>1, <2>2
<1>6. Len(After) = i - b
  BY <1>0, <1>4
<1>7. msg \in Seq(Chars) /\ Len(msg) = 1 + (i - b)
  BY <1>1, <1>4, <1>6, ConcatProperties
<1>8. Before \o one \o After = Before \o msg
  BY <1>1, <1>3, <1>4, ConcatAssociative
<1> HIDE DEF msg
<1>9. \A k \in 1..(b + (1 + (i - b))) :
        (Before \o msg)[k] = IF k <= b THEN Before[k] ELSE msg[k - b]
  <2>1. \A k \in 1..(Len(Before) + Len(msg)) :
          (Before \o msg)[k] = IF k <= Len(Before) THEN Before[k] ELSE msg[k - Len(Before)]
    BY <1>3, <1>7, ConcatProperties
  <2> QED BY <2>1, <1>5, <1>7
<1>10. \A k \in 1..b : (Before \o msg)[k] = buffer[k]
  <2>1. \A k \in 1..b : k \in 1..(b + (1 + (i - b))) /\ k <= b
    BY <1>0
  <2> QED BY <2>1, <1>5, <1>9
<1>11. \A k \in 1..Len(msg) : (Before \o msg)[b + k] = msg[k]
  <2>1. \A k \in 1..Len(msg) : /\ b + k \in 1..(b + (1 + (i - b))) /\ ~(b + k <= b)
                               /\ (b + k) - b = k
    BY <1>0, <1>7
  <2> QED BY <2>1, <1>9
<1>12. msg \in Seq(Glyphs) /\ Len(msg) = (i - b) + 1
  BY <1>0, <1>7, CharsAreGlyphs
<1> QED BY <1>8, <1>10, <1>11, <1>12 DEF b, i, one, msg

LEMMA LetterShown ==
  ASSUME LineInv, ScreenInv, NEW code, Letter(code)
  PROVE  ScreenInv'
<1>0. /\ cursor_buffer \in Nat /\ cursor_buffer \in 0..buffer_index /\ buffer_index \in Nat
      /\ screen.at \in Nat /\ screen.at < Area /\ screen \in Terminals /\ Area \in Nat
      /\ MaxLine \in Nat /\ cursor_buffer <= buffer_index
  BY LineFacts, ScreenMeans, ScreenGlyphs, GridFacts
<1> DEFINE letra == IF shifton THEN keyboard_map_shift[code] ELSE keyboard_map[code]
           msg   == <<letra>> \o After
           a     == StepRight(screen.at)
<1>1. letra \in Chars
  BY KeyIsChar DEF Letter
<1>2. CASE ~(buffer_index < MaxLine)
  BY <1>2, KeptStays DEF Letter
<1>3. CASE buffer_index < MaxLine
  <2>1. /\ buffer' = Before \o <<letra>> \o After
        /\ buffer_index' = buffer_index + 1 /\ cursor_buffer' = cursor_buffer + 1
        /\ screen' = set_cursor_pos(print(screen, msg), a)
        /\ torn' = (torn \/ (After # << >> /\ Scrolls(screen, msg)))
    BY <1>3 DEF Letter
  <2>m. msg = <<letra>> \o After
    OBVIOUS
  <2> HIDE DEF letra, msg
  <2>2. /\ msg \in Seq(Glyphs) /\ Len(msg) = (buffer_index - cursor_buffer) + 1
        /\ \A k \in 1..cursor_buffer : buffer'[k] = buffer[k]
        /\ \A k \in 1..Len(msg) : buffer'[cursor_buffer + k] = msg[k]
    BY <1>1, <2>1, <2>m, LetterFacts
  <2>3. a \in 0..(Area - 1)
    BY <1>0, GridFacts DEF StepRight
  <2> HIDE DEF a
  <2>4. screen' \in Terminals
    BY <1>0, <2>1, <2>2, <2>3, PrintThenPlace
  <2> DEFINE b == cursor_buffer
             i == buffer_index
             l == Len(msg)
             p == screen.at
  <2>5. b \in Nat /\ i \in Nat /\ b <= i /\ l = (i - b) + 1 /\ l \in Nat /\ b + l = i + 1
    <3>1. b \in Nat /\ i \in Nat /\ b <= i /\ l = (i - b) + 1 BY <1>0, <2>2
    <3> HIDE DEF b, i, l
    <3> QED BY <3>1
  <2>6. /\ \A k \in 1..b : buffer'[k] = buffer[k]
        /\ \A k \in 1..l : buffer'[b + k] = msg[k]
        /\ p \in Nat /\ p < Area /\ Area \in Nat
    BY <1>0, <2>2
  <2>7. ASSUME ~torn, ~Scrolls(screen, msg) PROVE ShowsLine(screen', buffer', i + 1, b + 1)
    <3> DEFINE start == p - b
    <3>1. /\ start >= 1 /\ screen.cells[start - 1] = ">"
          /\ \A k \in 1..i : screen.cells[start + k - 1] = buffer[k]
          /\ ClearFrom(screen, start + i)
      BY <2>7, ScreenMeans DEF ShowsLine
    <3>2. p + l < Area
      <4>1. ~(p + l >= Area) BY <2>7 DEF Scrolls
      <4> HIDE DEF p, l
      <4> QED BY <4>1, <2>5, <2>6
    <3>3. start \in Nat /\ p = start + b
      <4> HIDE DEF p, b
      <4> QED BY <3>1, <2>5, <2>6
    <3>4. a = start + (b + 1)
      <4>1. a = IF p + 1 = Area THEN LastRow ELSE p + 1 BY DEF a, StepRight
      <4>2. l >= 1
        <5> HIDE DEF l, i, b
        <5> QED BY <2>5
      <4> HIDE DEF p, b, l, start
      <4> QED BY <4>1, <4>2, <3>2, <3>3, <2>5, <2>6
    <3> HIDE DEF start, p, i, b
    <3>5. /\ i <= b + l /\ start + b + l < Area /\ i + 1 \in Nat /\ i + 1 >= b
          /\ i + 1 <= b + l /\ b + 1 \in 0..(i + 1)
      <4> HIDE DEF l
      <4> QED BY <3>2, <3>3, <2>5
    <3>6. \A k \in 1..b : screen.cells[start + k - 1] = buffer'[k]
      <4>1. \A k \in 1..b : k \in 1..i BY <2>5
      <4> QED BY <4>1, <3>1, <2>6
    <3>7. \A k \in 1..l : msg[k] = IF b + k <= i + 1 THEN buffer'[b + k] ELSE Blank
      <4>1. \A k \in 1..l : b + k <= i + 1
        <5> HIDE DEF l
        <5> QED BY <2>5
      <4> QED BY <4>1, <2>6
    <3>8. screen.at = start + b /\ screen' = set_cursor_pos(print(screen, msg), start + (b + 1))
      BY <2>1, <3>3, <3>4 DEF p
    <3> QED
      BY <1>0, <2>2, <2>5, <3>1, <3>3, <3>5, <3>6, <3>7, <3>8, LineRedrawn
  <2>8. ASSUME ~torn, After = << >>, Scrolls(screen, msg)
        PROVE  ShowsLine(screen', buffer', i + 1, b + 1)
    <3> DEFINE w == print(screen, msg)
    <3>1. msg = <<letra>>
      BY <1>1, <2>8, <2>m
    <3>2. l = 1 /\ b = i
      <4>1. Len(<<letra>>) = 1 OBVIOUS
      <4>2. l = 1 BY <3>1, <4>1
      <4> HIDE DEF l, b, i
      <4> QED BY <4>2, <2>5
    <3>3. ShowsLine(screen, buffer, b, b)
      BY <3>2, <2>8, ScreenMeans
    <3>4. b + l <= MaxLine
      BY <3>2, <1>0, <1>3
    <3>5. w \in Terminals /\ ShowsLine(w, buffer', b + l, b + l)
      <4> HIDE DEF b, i
      <4> QED BY <3>3, <3>4, <1>0, <2>2, <2>5, <2>6, LineTyped
    <3>6. w = PutChar(screen, letra) /\ letra \in Glyphs
      BY <3>1, <1>1, PrintOne, ScreenGlyphs
    <3>7. p + 1 >= Area
      BY <3>2, <2>8 DEF Scrolls
    <3>8. w.at = LastRow /\ p + 1 = Area
      <4> HIDE DEF w
      <4> QED BY <3>6, <3>7, <1>0, PutGlyph
    <3>9. a = w.at
      BY <3>8 DEF a, StepRight
    <3> HIDE DEF w
    <3>10. screen' = [w EXCEPT !.at = w.at]
      BY <2>1, <3>9 DEF set_cursor_pos, w
    <3>11. w.at \in 0..(Area - 1) /\ w.at \in Nat
      BY <3>5, ScreenGlyphs
    <3>12. screen'.cells = w.cells /\ screen'.at = w.at
      BY <3>5, <3>10, <3>11, AtMoved
    <3>13. b + l = i + 1 /\ b + 1 = i + 1 /\ i + 1 \in Nat
      BY <3>2, <2>5
    <3> HIDE DEF b, i, l
    <3>14. ShowsLine(w, buffer', i + 1, i + 1) /\ screen'.at - (i + 1) = w.at - (i + 1)
      BY <3>5, <3>12, <3>13
    <3> QED BY <2>4, <3>5, <3>12, <3>13, <3>14, CursorMoved
  <2>9. ASSUME ~torn' PROVE ShowsLine(screen', buffer', buffer_index', cursor_buffer')
    <3>1. ~torn /\ (After = << >> \/ ~Scrolls(screen, msg))
      <4>1. torn' \/ (~torn /\ (After = << >> \/ ~Scrolls(screen, msg)))
        BY <2>1
      <4> QED BY <4>1, <2>9
    <3>2. ShowsLine(screen', buffer', i + 1, b + 1)
      BY <3>1, <2>7, <2>8
    <3> QED BY <3>2, <2>1
  <2> QED BY <2>4, <2>9, ScreenSettled
<1> QED BY <1>2, <1>3

\* A line is shown to its end, which is on the grid.
LEMMA ScreenIsTrue == LineInv /\ ScreenInv => ScreenShowsLine
<1> SUFFICES ASSUME LineInv, ScreenInv, ~torn PROVE ScreenShowsLine
  BY DEF ScreenShowsLine
<1> DEFINE e == screen.at - cursor_buffer + buffer_index
<1>1. ShowsLine(screen, buffer, buffer_index, cursor_buffer)
  BY ScreenMeans
<1>2. screen.cells[e] = Blank
  <2>1. e < Area /\ ClearFrom(screen, e)
    BY <1>1 DEF ShowsLine
  <2>2. e \in e..(Area - 1)
    <3>1. e \in Int BY LineFacts, ScreenMeans, ScreenGlyphs
    <3> HIDE DEF e
    <3> QED BY <2>1, <3>1, GridFacts
  <2> HIDE DEF e
  <2> QED BY <2>1, <2>2 DEF ClearFrom
<1> QED BY <1>1, <1>2 DEF ShowsLine, ScreenShowsLine

\* Each branch of processar_set1 leaves the line on the screen.
LEMMA ScreenNext == LineInv /\ LineInv' /\ ScreenInv /\ [Next]_vars => ScreenInv'
<1> SUFFICES ASSUME LineInv, LineInv', ScreenInv, [Next]_vars PROVE ScreenInv'
  OBVIOUS
<1>1. CASE UNCHANGED <<line, screen, torn>>
  BY <1>1, KeptStays
<1>2. CASE UNCHANGED vars
  BY <1>1, <1>2 DEF vars
<1>3. ASSUME NEW code \in Scancodes, processar_set1(code) PROVE ScreenInv'
  <2>1. CASE Answer(code) \/ Modifier(code) \/ Prefix(code) \/ NoEffect(code)
    BY <1>1, <2>1 DEF Answer, Modifier, Prefix, NoEffect
  <2>2. CASE Reboot(code)
    BY <2>2, BootShown DEF Reboot
  <2>3. CASE MoveLeft(code)
    BY <2>3, MoveLeftShown
  <2>4. CASE MoveRight(code)
    BY <2>4, MoveRightShown
  <2>5. CASE historico_subir(code) \/ historico_descer(code)
    BY <2>5, RecallShown
  <2>6. CASE OtherExtended(code)
    BY <1>1, <2>6 DEF OtherExtended, Extended
  <2>7. CASE executar_buffer(code)
    BY <2>7, EnterShown
  <2>8. CASE CtrlL(code) \/ CtrlC(code)
    BY <2>8, CtrlLShown, CtrlCShown
  <2>9. CASE Backspace(code)
    BY <2>9, BackspaceShown
  <2>10. CASE Tab(code)
    BY <2>10, TabShown
  <2>11. CASE Letter(code)
    BY <2>11, LetterShown
  <2> QED
    BY <1>3, <2>1, <2>2, <2>3, <2>4, <2>5, <2>6, <2>7, <2>8, <2>9, <2>10, <2>11
    DEF processar_set1
<1> QED
  BY <1>2, <1>3 DEF Next

\* What the user sees is the line that Enter will run: after every scancode the
\* screen shows the prompt, the whole line and a blank after it, with the cursor
\* on its character, but for the cases that torn records.
THEOREM LineIsOnScreen == Spec => []ScreenShowsLine
<1>1. Init => LineInv /\ ScreenInv
  BY LineInit, ScreenInit
<1>2. LineInv /\ ScreenInv /\ [Next]_vars => (LineInv /\ ScreenInv)'
  BY LineNext, ScreenNext
<1>3. LineInv /\ ScreenInv => ScreenShowsLine
  BY ScreenIsTrue
<1> QED
  BY <1>1, <1>2, <1>3, PTL DEF Spec
=============================================================================
