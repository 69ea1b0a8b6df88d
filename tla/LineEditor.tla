---------------------------- MODULE LineEditor ----------------------------
(***************************************************************************)
(* The command-line editor of src/src/kbd.c: processar_set1 decodes set-1  *)
(* scancodes and edits `buffer`, keeping the terminal's picture of the     *)
(* line up to date by hand.  One action per branch of processar_set1.      *)
(*                                                                         *)
(* buffer is the C string, the bytes before the first NUL; nothing reads   *)
(* past it.  buffer_index is the code's own count of that string, which    *)
(* Ctrl+L resets without touching the string.  Scancodes are named for     *)
(* their key: "Left" is 4B, "E0" the prefix, "CtrlUp" 9D and so on.  The   *)
(* prompt is one glyph, and the output of a command one line.              *)
(***************************************************************************)
EXTENDS Terminal, SequencesExt, FiniteSetsExt, FiniteSets, Integers

CONSTANTS MaxLine,            \* 254: the bound on buffer_index
          KBD_HISTORY_SIZE,   \* 16
          keyboard_map, keyboard_map_shift,  \* key -> character
          Names,              \* command names and aliases, as strings
          ClearNames,         \* those that run cmd_cls
          Scancodes,          \* the codes that arrive
          MaxKeys             \* bound: codes in a behaviour

LetterKeys == DOMAIN keyboard_map
Chars == {keyboard_map[k] : k \in LetterKeys}
           \cup {keyboard_map_shift[k] : k \in LetterKeys}

ASSUME LineAssumption == MaxLine \in Nat \ {0} /\ KBD_HISTORY_SIZE \in Nat \ {0}
ASSUME KeysAssumption ==
  /\ DOMAIN keyboard_map_shift = LetterKeys
  /\ LetterKeys \cap {"Ack", "E0", "Ctrl", "CtrlUp", "Shift", "ShiftUp", "Alt", "AltUp",
                      "Release", "Left", "Right", "Up", "Down", "Enter", "Back", "Tab"} = {}
  /\ Chars \cap {NewLine, Erase} = {}
  /\ MaxKeys \in Nat
\* Names of commands are words.
ASSUME NamesAssumption ==
  /\ \A n \in Names : n \in Seq(Chars \ {Blank}) /\ Len(n) \in 1..MaxLine
  /\ ClearNames \subseteq Names
\* A line leaves a row of the grid free: 254 characters on 80 x 25 cells.
ASSUME FitsAssumption == MaxLine + max_cols < Area

VARIABLES
  shifton, ctrlon, alton, estendido,
  buffer, buffer_index, cursor_buffer,
  historico, historico_pos,
  screen,    \* the terminal
  keys,      \* codes received so far
  prefix,    \* history: "E0" after the prefix, "stray" once a modifier
             \* followed it, else "none"
  ran,       \* history: the lines given to pcmd
  torn       \* history: one of the known disagreements of line and screen

modifiers == <<shifton, ctrlon, alton>>
line      == <<buffer, buffer_index, cursor_buffer>>
recall    == <<historico, historico_pos>>
vars == <<modifiers, estendido, line, recall, screen, keys, prefix, ran, torn>>

Prompt == <<">">>

\* kernel_main, after prompt(), buffer_index = 0 and buffer[0] = 0.
Boot ==
  /\ shifton' = FALSE /\ ctrlon' = FALSE /\ alton' = FALSE /\ estendido' = FALSE
  /\ buffer' = << >> /\ buffer_index' = 0 /\ cursor_buffer' = 0
  /\ historico' = << >> /\ historico_pos' = -1
  /\ screen' = print(limpatela, Prompt)
  /\ prefix' = "none" /\ ran' = << >> /\ torn' = FALSE

Init ==
  /\ shifton = FALSE /\ ctrlon = FALSE /\ alton = FALSE /\ estendido = FALSE
  /\ buffer = << >> /\ buffer_index = 0 /\ cursor_buffer = 0
  /\ historico = << >> /\ historico_pos = -1
  /\ screen = print(limpatela, Prompt)
  /\ keys = 0 /\ prefix = "none" /\ ran = << >> /\ torn = FALSE

-----------------------------------------------------------------------------
(* What the branches are built from.                                        *)

\* buffer[0..buffer_index-1], and its parts around the cursor.
Text   == SubSeq(buffer, 1, buffer_index)
Before == SubSeq(buffer, 1, cursor_buffer)
After  == SubSeq(buffer, cursor_buffer + 1, buffer_index)

\* Ctrl+L forgot a line that is still in buffer.
Stale == buffer_index < Len(buffer)

Spaces(n) == [k \in 1..n |-> Blank]
Erases(n) == [k \in 1..n |-> Erase]

\* Where Ctrl+Left stops: over the blanks before the cursor, then the word.
WordLeft ==
  LET from == Max({q \in 0..cursor_buffer : q = 0 \/ buffer[q] # Blank})
  IN  Max({q \in 0..from : q = 0 \/ buffer[q] = Blank})

\* Where Ctrl+Right stops: over the blanks after the cursor, then the word.
WordRight ==
  LET from == Min({q \in cursor_buffer..buffer_index :
                     q = buffer_index \/ buffer[q + 1] # Blank})
  IN  Min({q \in from..buffer_index : q = buffer_index \/ buffer[q + 1] = Blank})

\* prompt(), and the prompt that limpatela's callers print themselves.
prompt(t)   == print(print(t, <<NewLine>>), Prompt)
FreshScreen == print(limpatela, Prompt)

\* Fault: what was deleted stays on the screen.
redesenhar_NoSpaces(t, text, at, n) ==
  set_cursor_pos(print(t, SubSeq(text, at + 1, Len(text))), t.at)

\* redesenhar_linha_a_partir_cursor: the string from `at`, n blanks, cursor back.
redesenhar(t, text, at, n) ==
  set_cursor_pos(print(t, SubSeq(text, at + 1, Len(text)) \o Spaces(n)), t.at)

\* limpar_linha_atual: erase back to the line's start, blank it, come back.
limpar_linha_atual(t) ==
  LET start == print(t, Erases(cursor_buffer))
  IN  print(print(start, Spaces(buffer_index)), Erases(buffer_index))

carregar_linha(texto) ==
  /\ buffer' = texto /\ buffer_index' = Len(texto) /\ cursor_buffer' = Len(texto)
  /\ screen' = print(limpar_linha_atual(screen), texto)

\* Fault: a full history loses its newest entry, not its oldest.
historico_adicionar_Overwrites(texto) ==
  LET h == IF historico # << >> /\ historico[Len(historico)] = texto
           THEN historico
           ELSE IF Len(historico) < KBD_HISTORY_SIZE
           THEN Append(historico, texto)
           ELSE [historico EXCEPT ![KBD_HISTORY_SIZE] = texto]
  IN  historico' = h /\ historico_pos' = Len(h)

\* A repeat is not added; a full history loses its oldest entry.
historico_adicionar(texto) ==
  LET h == IF historico # << >> /\ historico[Len(historico)] = texto
           THEN historico
           ELSE IF Len(historico) < KBD_HISTORY_SIZE
           THEN Append(historico, texto)
           ELSE Append(Tail(historico), texto)
  IN  historico' = h /\ historico_pos' = Len(h)

AllBlank(texto) == \A k \in DOMAIN texto : texto[k] = Blank

\* What pcmd leaves on the screen: a line of blanks has no arguments and no
\* prompt follows it; cls clears; any other command may print before the prompt.
pcmd(t, texto, output) ==
  IF AllBlank(texto)
  THEN t
  ELSE IF texto \in ClearNames
  THEN FreshScreen
  ELSE prompt(print(t, output))

-----------------------------------------------------------------------------
(* processar_set1: the codes that only set a flag.                          *)

Modifiers == {"Ctrl", "CtrlUp", "Shift", "ShiftUp", "Alt", "AltUp"}

\* FA and FE, the keyboard's answers.
Answer(code) ==
  /\ code = "Ack"
  /\ UNCHANGED <<modifiers, estendido, line, recall, screen, prefix, ran, torn>>

Modifier(code) ==
  /\ code \in Modifiers
  /\ ctrlon'  = IF code \in {"Ctrl", "CtrlUp"} THEN code = "Ctrl" ELSE ctrlon
  /\ shifton' = IF code \in {"Shift", "ShiftUp"} THEN code = "Shift" ELSE shifton
  /\ alton'   = IF code \in {"Alt", "AltUp"} THEN code = "Alt" ELSE alton
  /\ prefix'  = IF prefix = "none" THEN "none" ELSE "stray"
  /\ UNCHANGED <<estendido, line, recall, screen, ran, torn>>

Prefix(code) ==
  /\ code = "E0"
  /\ estendido' = TRUE /\ prefix' = "E0"
  /\ UNCHANGED <<modifiers, line, recall, screen, ran, torn>>

\* Neither an answer, nor a modifier, nor the prefix.
Ordinary(code) == code \notin Modifiers \cup {"Ack", "E0"}

\* Ctrl+Shift+Alt+Q pulses the reset line: the machine boots again.
Reboots(code) == ctrlon /\ shifton /\ alton /\ code = "Q"

Reboot(code) == Ordinary(code) /\ Reboots(code) /\ Boot

-----------------------------------------------------------------------------
(* The codes after E0: the arrows.                                          *)

Extended(code) ==
  /\ Ordinary(code) /\ ~Reboots(code) /\ estendido
  /\ estendido' = FALSE /\ prefix' = "none"
  /\ UNCHANGED <<modifiers, ran, torn>>

MoveLeft(code) ==
  /\ Extended(code) /\ code = "Left"
  /\ cursor_buffer' = IF ctrlon THEN WordLeft ELSE Max({cursor_buffer, 1}) - 1
  /\ screen' = movback(screen, cursor_buffer - cursor_buffer')
  /\ UNCHANGED <<buffer, buffer_index, recall>>

MoveRight(code) ==
  /\ Extended(code) /\ code = "Right"
  /\ cursor_buffer' = IF ctrlon THEN WordRight
                      ELSE Min({cursor_buffer + 1, buffer_index})
  /\ screen' = movfront(screen, cursor_buffer' - cursor_buffer)
  /\ UNCHANGED <<buffer, buffer_index, recall>>

historico_subir(code) ==
  /\ Extended(code) /\ code = "Up"
  /\ LET pos == IF historico_pos < 0 \/ historico_pos > Len(historico)
                THEN Len(historico) ELSE historico_pos
     IN  IF historico = << >>
         THEN UNCHANGED <<line, screen, historico_pos>>
         ELSE IF pos = 0
         THEN historico_pos' = 0 /\ UNCHANGED <<line, screen>>
         ELSE historico_pos' = pos - 1 /\ carregar_linha(historico[pos])
  /\ UNCHANGED historico

historico_descer(code) ==
  /\ Extended(code) /\ code = "Down"
  /\ IF historico = << >> \/ historico_pos < 0
     THEN UNCHANGED <<line, screen, historico_pos>>
     ELSE IF historico_pos < Len(historico) - 1
     THEN historico_pos' = historico_pos + 1
          /\ carregar_linha(historico[historico_pos + 2])
     ELSE historico_pos' = Len(historico) /\ carregar_linha(<< >>)
  /\ UNCHANGED historico

\* Fault: an extended code without a meaning leaves the prefix pending.
OtherExtended_StaysPending(code) ==
  /\ Ordinary(code) /\ ~Reboots(code) /\ estendido
  /\ code \notin {"Left", "Right", "Up", "Down"}
  /\ prefix' = "none"
  /\ UNCHANGED <<modifiers, estendido, line, recall, screen, ran, torn>>

OtherExtended(code) ==
  /\ Extended(code) /\ code \notin {"Left", "Right", "Up", "Down"}
  /\ UNCHANGED <<line, recall, screen>>

-----------------------------------------------------------------------------
(* The plain codes.                                                         *)

Plain(code) ==
  /\ Ordinary(code) /\ ~Reboots(code) /\ ~estendido
  /\ UNCHANGED <<modifiers, estendido, prefix>>

\* A release, or a key keyboard_map has no character for.
NoEffect(code) ==
  /\ Plain(code) /\ code \in {"Release", "Left", "Right", "Up", "Down"}
  /\ UNCHANGED <<line, recall, screen, ran, torn>>

\* Output would start above the line's end and run over its last rows.
EndsBelowCursor ==
  RowOf(screen.at) # RowOf(screen.at + buffer_index - cursor_buffer)

executar_buffer(code) ==
  /\ Plain(code) /\ code = "Enter"
  /\ IF buffer_index > 0
     THEN /\ historico_adicionar(Text)
          /\ \E output \in {<< >>, <<NewLine, "!">>} :
               screen' = pcmd(screen, Text, output)
          /\ ran' = Append(ran, Text)
          /\ torn' = (/\ Text \notin ClearNames
                      /\ torn \/ EndsBelowCursor \/ AllBlank(Text))
     ELSE /\ screen' = prompt(screen)
          /\ UNCHANGED <<recall, ran, torn>>
  /\ buffer' = << >> /\ buffer_index' = 0 /\ cursor_buffer' = 0

CtrlChar(code, c) ==
  Plain(code) /\ ctrlon /\ code \in LetterKeys /\ keyboard_map[code] = c

\* The screen is cleared and the count reset; buffer keeps its string.
CtrlL(code) ==
  /\ CtrlChar(code, "l")
  /\ screen' = FreshScreen /\ torn' = FALSE
  /\ buffer_index' = 0 /\ cursor_buffer' = 0
  /\ UNCHANGED <<buffer, recall, ran>>

\* A new prompt, with the old line still to be edited and run.
CtrlC(code) ==
  /\ CtrlChar(code, "c")
  /\ screen' = prompt(screen) /\ torn' = (torn \/ buffer_index > 0)
  /\ UNCHANGED <<line, recall, ran>>

\* Fault: the characters go, but buffer_index still counts them.
Backspace_KeepsCount(code) ==
  /\ Plain(code) /\ code = "Back"
  /\ cursor_buffer' = IF ctrlon THEN WordLeft ELSE Max({cursor_buffer, 1}) - 1
  /\ buffer' = IF cursor_buffer = 0
               THEN buffer
               ELSE SubSeq(buffer, 1, cursor_buffer') \o After
  /\ UNCHANGED buffer_index
  /\ screen' = redesenhar(movback(screen, cursor_buffer - cursor_buffer'), buffer',
                          cursor_buffer', cursor_buffer - cursor_buffer')
  /\ torn' = (torn \/ Stale)
  /\ UNCHANGED <<recall, ran>>

\* removchar and movback for each character, then one redraw.  After Ctrl+L the
\* redraw shows the string that Ctrl+L forgot.
Backspace(code) ==
  /\ Plain(code) /\ code = "Back"
  /\ cursor_buffer' = IF ctrlon THEN WordLeft ELSE Max({cursor_buffer, 1}) - 1
  /\ buffer' = IF cursor_buffer = 0
               THEN buffer
               ELSE SubSeq(buffer, 1, cursor_buffer') \o After
  /\ buffer_index' = buffer_index - (cursor_buffer - cursor_buffer')
  /\ screen' = redesenhar(movback(screen, cursor_buffer - cursor_buffer'), buffer',
                          cursor_buffer', buffer_index - buffer_index')
  /\ torn' = (torn \/ Stale)
  /\ UNCHANGED <<recall, ran>>

\* cmd_autocomplete looks up a line with no blank, from its end.
Matches ==
  IF cursor_buffer # Len(buffer) \/ Blank \in {buffer[k] : k \in DOMAIN buffer}
  THEN {}
  ELSE {n \in Names : IsPrefix(buffer, n)}

\* tentar_autocomplete: one match completes the line, several are listed above
\* a copy of it.  Each outcome recounts buffer_index from the string.
Tab(code) ==
  /\ Plain(code) /\ code = "Tab"
  /\ \/ /\ Cardinality(Matches) = 1
        /\ buffer' = CHOOSE n \in Matches : TRUE
        /\ cursor_buffer' = Len(buffer')
        /\ screen' = print(screen, SubSeq(buffer', cursor_buffer + 1, Len(buffer')))
     \/ /\ Cardinality(Matches) > 1
        /\ screen' = print(prompt(print(screen, <<NewLine, "!">>)), buffer)
        /\ UNCHANGED <<buffer, cursor_buffer>>
     \/ /\ Matches = {}
        /\ UNCHANGED <<screen, buffer, cursor_buffer>>
  /\ buffer_index' = Len(buffer')
  /\ torn' = (torn \/ Stale)
  /\ UNCHANGED <<recall, ran>>

\* Insert at the cursor and redraw the tail.  The cursor is put back from the
\* row it had BEFORE the redraw, which may have scrolled.
Letter(code) ==
  /\ Plain(code) /\ code \in LetterKeys
  /\ ~(ctrlon /\ keyboard_map[code] \in {"l", "c"})
  /\ LET letra == IF shifton THEN keyboard_map_shift[code] ELSE keyboard_map[code]
     IN  IF buffer_index < MaxLine
         THEN /\ buffer' = Before \o <<letra>> \o After
              /\ buffer_index' = buffer_index + 1
              /\ cursor_buffer' = cursor_buffer + 1
              /\ screen' = set_cursor_pos(print(screen, <<letra>> \o After),
                                          StepRight(screen.at))
              /\ torn' = (torn \/ (After # << >>
                                     /\ Scrolls(screen, <<letra>> \o After)))
         ELSE UNCHANGED <<line, screen, torn>>
  /\ UNCHANGED <<recall, ran>>

-----------------------------------------------------------------------------
processar_set1(code) ==
  \/ Answer(code) \/ Modifier(code) \/ Prefix(code) \/ Reboot(code)
  \/ MoveLeft(code) \/ MoveRight(code)
  \/ historico_subir(code) \/ historico_descer(code) \/ OtherExtended(code)
  \/ NoEffect(code) \/ executar_buffer(code) \/ CtrlL(code) \/ CtrlC(code)
  \/ Backspace(code) \/ Tab(code) \/ Letter(code)

Next == /\ keys < MaxKeys /\ keys' = keys + 1
        /\ \E code \in Scancodes : processar_set1(code)

Spec == Init /\ [][Next]_vars

-----------------------------------------------------------------------------
(* Properties, and what they need to be inductive.                          *)

\* The lines that fit, and the editor's part of the state: what OneLine needs
\* to be inductive.
Lines == {s \in Seq(Chars) : Len(s) <= MaxLine}

LineInv ==
  /\ buffer \in Lines
  /\ buffer_index \in 0..MaxLine /\ cursor_buffer \in 0..buffer_index
  /\ buffer_index \in {0, Len(buffer)}
  /\ historico \in Seq(Lines)
  /\ historico_pos \in -1..Len(historico)

\* buffer, buffer_index and cursor_buffer describe one line: the count is the
\* string's length, or zero with the string of before Ctrl+L still there, and
\* no branch leaves the cursor past the count.  Every branch writes the string
\* and the two counters separately; the loops of removchar, of the insertion
\* and of the word moves index buffer by them.
OneLine ==
  /\ cursor_buffer <= buffer_index
  /\ buffer_index \in {0, Len(buffer)}

\* The user sees the line that Enter will run: the prompt, then the line, with
\* the cursor on the right character, and nothing of a longer line after it.
\* The screen is kept up to date by prints and cursor moves of the branch at
\* hand, never redrawn from buffer.  torn names the cases where the code does
\* not: Ctrl+C with a line typed, Backspace or TAB after Ctrl+L, a letter put
\* in mid-line that scrolls, a line of blanks, a run from above the line's end.
ScreenShowsLine ==
  torn \/
  LET start == screen.at - cursor_buffer
  IN  /\ start >= 1 /\ screen.cells[start - 1] = ">"
      /\ \A k \in 1..buffer_index : screen.cells[start + k - 1] = buffer[k]
      /\ screen.cells[start + buffer_index] = Blank

\* The terminals there are: the screen is always one of them.
Glyphs    == Chars \cup {Blank, ">", "!"}
Terminals == [cells : [0..(Area - 1) -> Glyphs], at : 0..(Area - 1)]

ClearFrom(t, e) == \A p \in e..(Area - 1) : t.cells[p] = Blank

\* t shows the first n characters of text after the prompt, and nothing behind
\* them, with the cursor after c of them.
ShowsLine(t, text, n, c) ==
  LET start == t.at - c
  IN  /\ start >= 1 /\ t.cells[start - 1] = ">"
      /\ \A k \in 1..n : t.cells[start + k - 1] = text[k]
      /\ start + n < Area /\ ClearFrom(t, start + n)

\* Strengthening of ScreenShowsLine: the line ends on the grid, and all that
\* follows it is blank.
ScreenInv ==
  /\ screen \in Terminals
  /\ torn \/ ShowsLine(screen, buffer, buffer_index, cursor_buffer)

\* The runs that did not repeat the one before, and how many there are from the
\* k-th run on.
FreshRuns == {k \in DOMAIN ran : k = 1 \/ ran[k - 1] # ran[k]}
Newer(k)  == Cardinality({j \in FreshRuns : j >= k})

\* The history is the last KBD_HISTORY_SIZE lines that were run, a line run
\* several times in a row counted once, whatever was recalled and edited.
HistoryIsRecentRuns ==
  /\ Len(historico) = Min({Cardinality(FreshRuns), KBD_HISTORY_SIZE})
  /\ \A k \in FreshRuns : Newer(k) <= KBD_HISTORY_SIZE =>
       historico[Len(historico) + 1 - Newer(k)] = ran[k]

\* A letter typed while no prefix is pending and the line has room is never
\* swallowed: it is in the line, before the cursor.  A modifier with an E0
\* prefix (right Ctrl, PrintScreen) leaves the prefix pending: "stray".
LetterLands ==
  [][\A code \in LetterKeys :
       (/\ processar_set1(code) /\ keys' # keys
        /\ prefix = "none" /\ ~ctrlon /\ buffer_index < MaxLine)
       => /\ buffer_index' = buffer_index + 1
          /\ buffer'[cursor_buffer'] \in {keyboard_map[code], keyboard_map_shift[code]}
    ]_vars

\* Strengthening of HistoryIsRecentRuns: the newest entry is the line run last.
HistoryInv ==
  /\ historico \in Seq(Lines) /\ ran \in Seq(Lines)
  /\ ran # << >> => historico # << >> /\ historico[Len(historico)] = ran[Len(ran)]
  /\ HistoryIsRecentRuns

\* Why LetterLands: a pending prefix is one the keyboard sent.
DecoderInv == estendido => prefix # "none"
=============================================================================
