-------------------------------- MODULE Echo --------------------------------
(***************************************************************************)
(* cmd_echo (src/src/cmd.c, 128-177) on the arguments that CmdParser finds *)
(* in the line: they are printed with a blank between them, and after      *)
(* every $ the first registered name that follows it is replaced by its    *)
(* value.  One step per character of an argument, as in the loop, whose    *)
(* counters a and i are `arg` and `pos` here.                              *)
(***************************************************************************)
EXTENDS CmdParser, FiniteSetsExt, SequencesExt

CONSTANTS Names,   \* uptime, then lista_vars in the order of init_vars
          Values   \* Values[k]: what is printed for Names[k]
ASSUME NamesAssumption ==
  /\ Names \in Seq(Seq(Chars)) /\ Values \in Seq(Seq(Chars)) /\ Len(Values) = Len(Names)
  /\ \A k \in DOMAIN Names : Names[k] # << >> /\ ~Contains(Names[k], "$")

\* A name that begins with another one comes before it.
ASSUME OrderAssumption ==
  \A j, k \in DOMAIN Names : IsPrefix(Names[j], Names[k]) => k <= j

VARIABLES
  args,      \* argv as pcmd hands it over
  arg,       \* the argument being printed, 0 while the line is being typed
  pos,       \* characters of it done
  printed    \* printed so far

echoVars == <<args, arg, pos, printed>>

EchoInit == Init /\ args = << >> /\ arg = 0 /\ pos = 0 /\ printed = << >>

-----------------------------------------------------------------------------
\* The line goes on.
Type(c) == arg = 0 /\ Read(c) /\ UNCHANGED echoVars

\* Enter: pcmd finds its first word to be echo.
Dispatch ==
  /\ arg = 0 /\ pcmd_status = "OK" /\ parse.argv # << >>
  /\ args' = argv /\ arg' = 2 /\ UNCHANGED <<vars, pos, printed>>

\* strdifb(var_ptr, nome, len) == 0, the text before position at being done.
Match(text, at) ==
  {k \in DOMAIN Names : IsPrefix(Names[k], SubSeq(text, at + 1, Len(text)))}

\* Fault: the name is printed again after its value.
Skip_Nothing(k) == 1

\* i += len, and the i++ of the loop.
Skip(k) == Len(Names[k]) + 1

\* One character; a $ with a name after it goes with that name.
Char ==
  LET text  == args[arg]
      found == Match(text, pos + 1)
  IN  /\ arg \in 2..Len(args) /\ pos < Len(text)
      /\ IF text[pos + 1] = "$" /\ found # {}
         THEN printed' = printed \o Values[Min(found)] /\ pos' = pos + Skip(Min(found))
         ELSE printed' = Append(printed, text[pos + 1]) /\ pos' = pos + 1
      /\ UNCHANGED <<vars, args, arg>>

Separator == IF arg < Len(args) THEN <<SPACE>> ELSE << >>

NextArg ==
  /\ arg \in 2..Len(args) /\ pos = Len(args[arg])
  /\ arg' = arg + 1 /\ pos' = 0 /\ printed' = printed \o Separator
  /\ UNCHANGED <<vars, args>>

cmd_echo == Char \/ NextArg

EchoNext == (\E c \in Chars : Type(c)) \/ Dispatch \/ cmd_echo

EchoSpec == EchoInit /\ [][EchoNext]_<<vars, echoVars>>

-----------------------------------------------------------------------------
(* What echo should print, said of the whole text: every $ with names after *)
(* it stands for the longest of them, and nothing else changes.             *)
Longest(text, p) ==
  CHOOSE k \in Match(text, p) : \A j \in Match(text, p) : Len(Names[j]) <= Len(Names[k])

IsReference(text, p) == text[p] = "$" /\ Match(text, p) # {}

Covered(text, p) ==
  \E q \in 1..(p - 1) : IsReference(text, q) /\ p <= q + Len(Names[Longest(text, q)])

Pieces(text) ==
  [p \in DOMAIN text |->
     IF Covered(text, p) THEN << >>
     ELSE IF IsReference(text, p) THEN Values[Longest(text, p)]
     ELSE <<text[p]>>]

Expanded(text) == FlattenSeq(Pieces(text))

\* The words with a blank between them.
Spaced(words) ==
  [k \in DOMAIN words |-> (IF k = 1 THEN << >> ELSE <<SPACE>>) \o Expanded(words[k])]

\* The first name in the list that fits is the longest one, and the text after it
\* is read on from the right place: what echo prints is the expansion of the
\* line's arguments, by the reference definitions of both (cmd.c, 138-175).
EchoExpands ==
  /\ arg \in 2..Len(args) => pos <= Len(args[arg])
  /\ arg > 0 /\ arg > Len(args) => printed = FlattenSeq(Spaced(Tail(Tokens(line))))
=============================================================================
