---------------------------- MODULE MCCmdParser -----------------------------
(* Instance of Echo, and of the CmdParser in it, for TLC.  A line is typed  *)
(* with one of two alphabets: that of the parser, or that of echo's names.  *)
EXTENDS Echo

VARIABLE alphabet

MCLetters == {"a", "b", "$", "1", "2"}
MCNames   == << <<"b">>, <<"a", "b">>, <<"a">> >>
MCValues  == << <<"1">>, <<"2", "2">>, << >> >>

MCInit == /\ EchoInit
          /\ alphabet \in {{"a", SPACE, QUOTE, ESCAPE, PIPE}, {"a", "b", "$", SPACE}}
MCNext == /\ \/ \E c \in alphabet : Type(c)
             \/ ("$" \in alphabet /\ Dispatch)
             \/ cmd_echo
          /\ UNCHANGED alphabet
MCSpec == MCInit /\ [][MCNext]_<<vars, echoVars, alphabet>>
=============================================================================
