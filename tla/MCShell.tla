------------------------------ MODULE MCShell ------------------------------
(* Instance of Shell for TLC.  The words are shorter than every variable.    *)
EXTENDS Shell

MCLines ==
  { <<"oi">>, <<"nada">>, <<"CLEAR">>, <<"reboot">>, <<"rtc">>,
    <<"help", "CLEAR">>, <<"pci">>, <<"hex">>, <<"hex", "0">>, <<"idt", "20000">>,
    <<"color">>, <<"color", "rosa">>, <<"color", "20">>,
    <<"beep">>, <<"beep", "20">>,
    <<"set", "smod">>, <<"set", "name", "20">>, <<"set", "smod", "1">>, <<"set", "smod", "0">>,
    <<"set", "status", "20">>, <<"set", "20", "20">>,
    <<"panic">>, <<"panic", "--simulate", "irqstorm">> }

MCWords == {"clear"} \cup UNION { {l[k] : k \in DOMAIN l} : l \in MCLines }

MCmtom == [w \in MCWords |-> IF w = "CLEAR" THEN "clear" ELSE w]

MCatoi == [w \in MCWords |->
  CASE w = "1" -> 1 [] w = "20" -> 20 [] w = "20000" -> 20000 [] OTHER -> 0]

MCFirst == [w \in MCWords |->
  CASE w = "1" -> "1" [] w = "0" -> "0" [] OTHER -> "x"]

MCSize == [w \in MCWords |-> Len(w)]
=============================================================================
