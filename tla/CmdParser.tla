----------------------------- MODULE CmdParser ------------------------------
(***************************************************************************)
(* The two scanners pcmd runs over a command line (src/src/cmd.c):         *)
(* has_extra_arg_over_limit, which only counts, and parse_args, which      *)
(* splits the line into argv.  Both are loops over the characters with     *)
(* flags for quotes, escapes and "inside an argument", written twice, and  *)
(* pcmd relies on their agreement: what the first lets pass the second     *)
(* must find room for in argv[CMD_MAX_ARGS].                               *)
(*                                                                         *)
(* One step gives the next character of the line to both loops; each loop  *)
(* depends on nothing but the characters, so running them side by side     *)
(* gives for every prefix what pcmd would get for it.                      *)
(***************************************************************************)
EXTENDS Naturals, Sequences, FiniteSets

CONSTANTS Letters,        \* ordinary characters
          CMD_MAX_ARGS,   \* 10
          CMD_INPUT_MAX,  \* 256, the size of input_copy
          MaxLine         \* longest line the editor hands over, 254

SPACE  == " "
QUOTE  == "\""
ESCAPE == "\\"
PIPE   == "|"
NUL    == "0"
Chars == Letters \cup {SPACE, QUOTE, ESCAPE, PIPE}

ASSUME LimitAssumption == CMD_MAX_ARGS \in Nat /\ CMD_MAX_ARGS >= 1
ASSUME SizeAssumption  == /\ MaxLine \in Nat /\ CMD_INPUT_MAX \in Nat
                          /\ MaxLine < CMD_INPUT_MAX
ASSUME CharAssumption  == Letters \cap {SPACE, QUOTE, ESCAPE, PIPE, NUL} = {}

VARIABLES line,    \* the characters read so far
          parse,   \* locals of parse_args
          extra    \* locals of has_extra_arg_over_limit

vars == <<line, parse, extra>>

Init ==
  /\ line = << >>
  /\ parse = [ret |-> "RUN", argv |-> << >>, out |-> << >>,
              quote |-> FALSE, escape |-> FALSE, in_arg |-> FALSE]
  /\ extra = [ret |-> FALSE, argc |-> 0,
              quote |-> FALSE, escape |-> FALSE, in_arg |-> FALSE]

-----------------------------------------------------------------------------
(* parse_args.  argv holds the positions in out where arguments begin.      *)

\* Fault: one argument more than argv holds.
StartArg_OffByOne(p) ==
  IF p.in_arg THEN p
  ELSE IF Len(p.argv) > CMD_MAX_ARGS THEN [p EXCEPT !.ret = "USAGE"]
  ELSE [p EXCEPT !.argv = Append(p.argv, Len(p.out)), !.in_arg = TRUE]

\* The first character of an argument takes an entry of argv, if there is one.
StartArg(p) ==
  IF p.in_arg THEN p
  ELSE IF Len(p.argv) >= CMD_MAX_ARGS THEN [p EXCEPT !.ret = "USAGE"]
  ELSE [p EXCEPT !.argv = Append(p.argv, Len(p.out)), !.in_arg = TRUE]

append_char(p, c) ==
  IF p.ret # "RUN" THEN p
  ELSE IF Len(p.out) >= CMD_INPUT_MAX - 1 THEN [p EXCEPT !.ret = "PARSE"]
  ELSE [p EXCEPT !.out = Append(p.out, c)]

ToggleQuote(p) ==
  IF p.ret # "RUN" THEN p ELSE [p EXCEPT !.quote = ~p.quote]

\* One iteration of the loop of parse_args.
ParseStep(p, c) ==
  CASE p.ret # "RUN"               -> p
    [] p.ret = "RUN" /\ p.escape   -> [append_char(StartArg(p), c) EXCEPT !.escape = FALSE]
    [] p.ret = "RUN" /\ ~p.escape ->
       CASE c = ESCAPE             -> [p EXCEPT !.escape = TRUE]
         [] c = QUOTE              -> ToggleQuote(StartArg(p))
         [] c = PIPE /\ ~p.quote   -> [p EXCEPT !.ret = "PARSE"]
         [] c = SPACE /\ ~p.quote  -> IF p.in_arg
                                      THEN [append_char(p, NUL) EXCEPT !.in_arg = FALSE]
                                      ELSE p
         [] OTHER                  -> append_char(StartArg(p), c)

\* What parse_args returns if the line ends here.
parse_args ==
  IF parse.ret # "RUN" THEN parse.ret
  ELSE IF parse.escape \/ parse.quote THEN "PARSE" ELSE "OK"

\* The string that begins at position `from` of the output.
ArgText(out, from) ==
  LET nuls == {i \in from..Len(out) : out[i] = NUL}
  IN  IF nuls = {} THEN SubSeq(out, from, Len(out))
      ELSE SubSeq(out, from, (CHOOSE i \in nuls : \A j \in nuls : i <= j) - 1)

argv == [k \in 1..Len(parse.argv) |-> ArgText(parse.out, parse.argv[k] + 1)]

-----------------------------------------------------------------------------
(* has_extra_arg_over_limit.                                                *)

CountArg(x) ==
  IF x.in_arg THEN x ELSE [x EXCEPT !.argc = x.argc + 1, !.in_arg = TRUE]

\* Fault: an escaped character does not begin an argument.
ExtraStep_EscapeNoArg(x, c) ==
  CASE x.ret                      -> x
    [] ~x.ret /\ x.escape         -> [x EXCEPT !.escape = FALSE]
    [] ~x.ret /\ ~x.escape ->
       CASE c = ESCAPE            -> [x EXCEPT !.escape = TRUE]
         [] c = QUOTE             -> [CountArg(x) EXCEPT !.quote = ~x.quote]
         [] c = SPACE /\ ~x.quote -> [x EXCEPT !.in_arg = FALSE]
         [] OTHER -> LET y == CountArg(x)
                     IN  [y EXCEPT !.ret = ~x.in_arg /\ y.argc > CMD_MAX_ARGS]

\* One iteration of its loop.  The limit is looked at only where an argument
\* begins with an ordinary character.
ExtraStep(x, c) ==
  CASE x.ret                      -> x
    [] ~x.ret /\ x.escape         -> [CountArg(x) EXCEPT !.escape = FALSE]
    [] ~x.ret /\ ~x.escape ->
       CASE c = ESCAPE            -> [x EXCEPT !.escape = TRUE]
         [] c = QUOTE             -> [CountArg(x) EXCEPT !.quote = ~x.quote]
         [] c = SPACE /\ ~x.quote -> [x EXCEPT !.in_arg = FALSE]
         [] OTHER -> LET y == CountArg(x)
                     IN  [y EXCEPT !.ret = ~x.in_arg /\ y.argc > CMD_MAX_ARGS]

-----------------------------------------------------------------------------
\* What pcmd makes of the two: a status, "OK" when argv goes to a command.
pcmd_status == IF extra.ret THEN "USAGE" ELSE parse_args

Read(c) ==
  /\ Len(line) < MaxLine
  /\ line' = Append(line, c)
  /\ parse' = ParseStep(parse, c)
  /\ extra' = ExtraStep(extra, c)

Next == \E c \in Chars : Read(c)

Spec == Init /\ [][Next]_vars

-----------------------------------------------------------------------------
(* A reference definition, by the positions of a line s instead of by flags. *)

\* Escaped(s)[i]: character i has an escape in front of it that is not itself one.
Escaped(s) ==
  LET escaped[i \in 1..Len(s)] == i > 1 /\ s[i - 1] = ESCAPE /\ ~escaped[i - 1]
  IN  escaped

\* Where c stands as a mark, not escaped.
Marks(s, c) ==
  LET escaped == Escaped(s) IN {i \in 1..Len(s) : s[i] = c /\ ~escaped[i]}

\* How many of the positions S come up to i.
Rank(S, i) == Cardinality({j \in S : j <= i})

\* Inside quotes: an odd number of them before.
Quoted(quotes, i) == Rank(quotes, i - 1) % 2 = 1

Separators(s) ==
  LET quotes == Marks(s, QUOTE) IN {i \in Marks(s, SPACE) : ~Quoted(quotes, i)}

\* First positions of the maximal runs without a separator.
Begins(s) ==
  LET seps == Separators(s)
  IN  {i \in 1..Len(s) : i \notin seps /\ (i = 1 \/ i - 1 \in seps)}

\* What remains without separators, quotes and escapes.
Kept(s) ==
  (1..Len(s)) \ (Separators(s) \cup Marks(s, QUOTE) \cup Marks(s, ESCAPE))

\* The characters of s at the positions S, in their order.
Picked(s, S) ==
  LET nth(n) == CHOOSE i \in {j \in S : Rank(S, j) = n} : TRUE
  IN  [n \in 1..Cardinality(S) |-> s[nth(n)]]

\* Argument k is what remains of run k.
Tokens(s) ==
  LET begins == Begins(s)
      kept   == Kept(s)
  IN  [k \in 1..Cardinality(begins) |-> Picked(s, {i \in kept : Rank(begins, i) = k})]

\* Quotes closed, nothing escaped but missing, no pipe outside quotes.
WellFormed(s) ==
  LET quotes == Marks(s, QUOTE)
  IN  /\ Cardinality(quotes) % 2 = 0
      /\ Len(s) \notin Marks(s, ESCAPE)
      /\ \A i \in Marks(s, PIPE) : Quoted(quotes, i)

-----------------------------------------------------------------------------
(* Properties.                                                              *)
\* argv never gets an entry past its end, and input_copy is never full: what
\* parse_args stores is no longer than what it read, so append_char's refusal is
\* never what a user sees.
ArgsFit ==
  /\ Len(parse.argv) <= CMD_MAX_ARGS
  /\ Len(parse.out) <= Len(line) /\ Len(parse.out) < CMD_INPUT_MAX

\* The two scanners agree: as long as parse_args goes on they have the same
\* flags and count, and a line the first one turns away the second would too.
ScannersAgree ==
  /\ parse.ret = "RUN" => /\ ~extra.ret
                          /\ extra.argc = Len(parse.argv)
                          /\ extra.quote = parse.quote
                          /\ extra.escape = parse.escape
                          /\ extra.in_arg = parse.in_arg
  /\ extra.ret => parse.ret # "RUN"

\* A line runs a command exactly when it is well formed and within the limit of
\* arguments, and the command gets the arguments of the reference definition,
\* empty ones and quoted spaces included.  Too many are reported as such,
\* whatever character the first one too many begins with (cmd.c, 914-934).
ArgsAreTokens ==
  LET n == Cardinality(Begins(line))
  IN  /\ pcmd_status = "OK" <=> WellFormed(line) /\ n <= CMD_MAX_ARGS
      /\ pcmd_status = "OK" => argv = Tokens(line)
      /\ WellFormed(line) /\ n > CMD_MAX_ARGS => pcmd_status = "USAGE"
=============================================================================
