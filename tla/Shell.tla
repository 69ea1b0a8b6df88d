------------------------------- MODULE Shell -------------------------------
(***************************************************************************)
(* The session: pcmd (src/src/cmd.c, 914-950), the commands that keep or   *)
(* change something, the variables, the text colour, the speaker and the   *)
(* prompt (src/src/lib.c, 457-472).  A line arrives as the two scanners    *)
(* leave it (CmdParser): blank, refused, or its words.  Commands that only *)
(* print are an outcome, their status.  Three commands sleep, and between  *)
(* two lines the USB driver, polled by the same loop, may wait: the delays *)
(* are Timer's, and its interrupts run all the time.                       *)
(***************************************************************************)
EXTENDS Timer, Sequences

LOCAL INSTANCE TLC

CONSTANTS Lines,      \* lines that parse: sequences of words
          Words,      \* the words in them
          mtom,       \* a word in small letters
          atoi,       \* the number a word begins with
          First,      \* its first character
          Size,       \* how many it has
          SHORT       \* 20, the ticks that commands sleep
ASSUME LinesAssumption ==
  /\ Lines \subseteq Seq(Words) \ {<< >>}
  /\ mtom \in [Words -> Words] /\ atoi \in [Words -> Nat]
  /\ {"0", "1"} \subseteq Words /\ DOMAIN First = Words /\ Size \in [Words -> Nat]
\* A word shorter than two characters begins with a 1 only by being "1".
ASSUME CharacterAssumption ==
  /\ Size["0"] = 1 /\ Size["1"] = 1
  /\ \A w \in Words : Size[w] < 2 => (First[w] = "1" <=> w = "1")
ASSUME SleepAssumption == Sleeps = {SHORT}

OK == 0
USAGE == 1
NOT_FOUND == 2
PARSE == 3
DENIED == 4
RANGE == 5
itoa == <<"0", "1", "2", "3", "4", "5">>     \* of a status, counted from 1

lista_aliases == [help |-> "ajuda", clear |-> "cls", shutdown |-> "desligar"]

\* The commands that change nothing and cannot fail.
Printers == {"oi", "cpuinfo", "uptime", "ticks", "echo", "bootinfo", "cpuregs", "irq",
             "memmap", "kbdinfo", "bench"}
Checked  == {"ajuda", "idt", "hex", "pci"}   \* that can fail
lista_comandos == Printers \cup Checked \cup
  {"cls", "reboot", "desligar", "beep", "fetch", "color", "set", "rtc", "panic"}

Colours == [verde |-> "VERDE", azul |-> "CIANO", vermelho |-> "VERMELHO",
            rosa |-> "MAGENTA", amarelo |-> "AMARELO", branco |-> "BRANCO"]

\* lista_vars, and the arrays its entries point to.
VarNames == {"ver", "name", "cx", "cy", "smod", "status"}
Room == [ver |-> 7, name |-> 8, cx |-> 10, cy |-> 10, smod |-> 2, status |-> 16]
CursorValue == "cursor"          \* what cursor() writes to cx and cy

\* attvar copies up to 127 characters into any of these arrays.  What a longer
\* value than its array destroys is undefined, and not modelled.
ASSUME FitsAssumption ==
  \A l \in Lines : Len(l) >= 3 /\ l[2] \in VarNames => Size[l[3]] < Room[l[2]]

VARIABLES
  pc,             \* "prompt", "polling" the driver, "beeping", "powering" down,
                  \* "returned" from a command, or "stopped"
  lista_vars,     \* the value of each variable
  ultimo_status,  \* status of the last line
  setcolor,       \* the text colour
  speaker,        \* divisor of PIT channel 2 while it sounds, else 0
  stopped,        \* "no", "panic", "panic-irqstorm", "reboot", "poweroff"
  prompt_style,   \* what the last prompt looked like
  running,        \* the command of the line, "none" if it has none
  status,         \* what it returned
  chosen          \* ghost: the last colour asked for

session == <<lista_vars, ultimo_status, setcolor, speaker, stopped, prompt_style>>
vars == <<pc, session, running, status, chosen, timerVars>>

\* After the boot: init_vars, cor(BRANCO), the first prompt.
Init ==
  /\ pc = "prompt"
  /\ lista_vars = [ver |-> "v0.2.5", name |-> "Amanita", cx |-> CursorValue,
                   cy |-> CursorValue, smod |-> "0", status |-> "0"]
  /\ ultimo_status = OK /\ setcolor = "BRANCO" /\ speaker = 0
  /\ stopped = "no" /\ prompt_style = "normal" /\ running = "none" /\ status = OK
  /\ chosen = "BRANCO" /\ TimerInit

-----------------------------------------------------------------------------
(* The prompt.                                                              *)

\* smod[0] == '1', read as one character.
Privileged(v) == First[v.smod] = "1"

Smod(v) == v.smod = "1"                       \* strdif(smod, "1") == 0

\* cx and cy follow the cursor.
Moved(v) == [v EXCEPT !.cx = CursorValue, !.cy = CursorValue]

\* prompt() leaves the text green when smod begins with a 1.
prompt ==
  /\ prompt_style' = IF Privileged(lista_vars') THEN "smod" ELSE "normal"
  /\ setcolor' = IF Privileged(lista_vars') THEN "VERDE" ELSE setcolor

\* The prompt pcmd prints itself after cls looks the same whatever smod is.
cls_prompt == prompt_style' = "fresh" /\ UNCHANGED setcolor

-----------------------------------------------------------------------------
(* The commands.  Each leaves its status; pcmd goes on in Finish.           *)
Resolve(w) == IF w \in DOMAIN lista_aliases THEN lista_aliases[w] ELSE w

Name(l) == Resolve(mtom[l[1]])

Returns(s) == pc' = "returned" /\ status' = s /\ UNCHANGED timerVars

PrintOnly(l) ==
  /\ Name(l) \in Printers /\ Returns(OK)
  /\ UNCHANGED <<session, chosen>>

\* ajuda looks its argument up; idt checks 0..255; hex and pci are Paging's and
\* the hardware's.
Check(l) ==
  /\ Name(l) \in Checked
  /\ \/ /\ Name(l) = "ajuda"
        /\ Returns(IF Len(l) = 1 \/ Resolve(mtom[l[2]]) \in lista_comandos
                   THEN OK ELSE NOT_FOUND)
     \/ /\ Name(l) = "idt"
        /\ Returns(IF Len(l) = 1 \/ atoi[l[2]] <= 255 THEN OK ELSE RANGE)
     \/ /\ Name(l) = "hex"
        /\ IF Len(l) = 1 THEN Returns(USAGE)
           ELSE \E s \in {OK, PARSE, RANGE} : Returns(s)
     \/ /\ Name(l) = "pci"
        /\ \E s \in {OK, NOT_FOUND} : Returns(s)
  /\ UNCHANGED <<session, chosen>>

\* Fault: the colour of the text on entry is not put back.
Restored_Not(old) == "CIANO"

\* cmd_time and cmd_fetch print in other colours and restore the one they found.
Restored(old) == old

Colourful(l) ==
  /\ Name(l) \in {"rtc", "fetch"} /\ Returns(OK)
  /\ setcolor' = Restored(setcolor)
  /\ UNCHANGED <<lista_vars, ultimo_status, speaker, stopped, prompt_style, chosen>>

cmd_cls(l) ==
  /\ Name(l) = "cls" /\ Returns(OK)
  /\ UNCHANGED <<session, chosen>>

cmd_color(l) ==
  /\ Name(l) = "color"
  /\ \/ /\ Len(l) = 1 /\ Returns(USAGE) /\ UNCHANGED <<setcolor, chosen>>
     \/ /\ Len(l) > 1 /\ mtom[l[2]] \in DOMAIN Colours /\ Returns(OK)
        /\ setcolor' = Colours[mtom[l[2]]] /\ chosen' = setcolor'
     \/ /\ Len(l) > 1 /\ mtom[l[2]] \notin DOMAIN Colours /\ Returns(NOT_FOUND)
        /\ UNCHANGED <<setcolor, chosen>>
  /\ UNCHANGED <<lista_vars, ultimo_status, speaker, stopped, prompt_style>>

BeepInRange(f) == f > 20 /\ f < 20000

\* som: the divisor of channel 2 is 16 bits wide.
Divisor(f) == (1193180 \div f) % 65536

cmd_beep(l) ==
  /\ Name(l) = "beep"
  /\ LET f == IF Len(l) = 1 THEN 750 ELSE atoi[l[2]]
     IN  IF BeepInRange(f)
         THEN /\ speaker' = Divisor(f) /\ sleep(SHORT)
              /\ pc' = "beeping" /\ UNCHANGED status
         ELSE Returns(RANGE) /\ UNCHANGED speaker
  /\ UNCHANGED <<lista_vars, ultimo_status, setcolor, stopped, prompt_style, chosen>>

\* parar_som.
BeepEnds ==
  /\ pc = "beeping" /\ Return /\ speaker' = 0
  /\ pc' = "returned" /\ status' = OK
  /\ UNCHANGED <<running, lista_vars, ultimo_status, setcolor, stopped, prompt_style, chosen>>

\* attvar: an unknown name is no error.
attvar(n, value) ==
  IF n \in VarNames
  THEN lista_vars' = [lista_vars EXCEPT ![n] = value]
  ELSE UNCHANGED lista_vars

\* With smod at 1 the screen is cleared, the text turns green, fetch restores that.
cmd_set(l) ==
  /\ Name(l) = "set"
  /\ IF Len(l) < 3
     THEN Returns(USAGE) /\ UNCHANGED <<lista_vars, setcolor>>
     ELSE /\ attvar(l[2], l[3]) /\ Returns(OK)
          /\ setcolor' = IF Smod(lista_vars') THEN "VERDE" ELSE setcolor
  /\ UNCHANGED <<ultimo_status, speaker, stopped, prompt_style, chosen>>

\* Fault: the guard is the one of the prompt before smod is set.
PanicAllowed_Always(v) == TRUE

PanicAllowed(v) == Smod(v)

cmd_panic(l) ==
  /\ Name(l) = "panic"
  /\ IF PanicAllowed(lista_vars)
     THEN /\ stopped' = IF Len(l) >= 3 /\ l[2] = "--simulate" /\ l[3] = "irqstorm"
                        THEN "panic-irqstorm" ELSE "panic"
          /\ pc' = "stopped" /\ UNCHANGED <<status, timerVars>>
     ELSE Returns(DENIED) /\ UNCHANGED stopped
  /\ UNCHANGED <<lista_vars, ultimo_status, setcolor, speaker, prompt_style, chosen>>

\* reboot and desligar wait a moment and do not return.
Power(l) ==
  /\ Name(l) \in {"reboot", "desligar"} /\ pc' = "powering" /\ sleep(SHORT)
  /\ UNCHANGED <<session, status, chosen>>

PowerEnds ==
  /\ pc = "powering" /\ Return /\ pc' = "stopped"
  /\ stopped' = IF running = "reboot" THEN "reboot" ELSE "poweroff"
  /\ UNCHANGED <<running, lista_vars, ultimo_status, setcolor, speaker, prompt_style,
                 status, chosen>>

Unknown(l) ==
  /\ Name(l) \notin lista_comandos /\ Returns(NOT_FOUND)
  /\ UNCHANGED <<session, chosen>>

Dispatch(l) ==
  /\ pc = "prompt" /\ running' = Name(l)
  /\ \/ PrintOnly(l) \/ Check(l) \/ Colourful(l) \/ cmd_cls(l) \/ cmd_color(l)
     \/ cmd_beep(l) \/ cmd_set(l) \/ cmd_panic(l) \/ Power(l) \/ Unknown(l)

\* A line the scanners refuse.  One with nothing in it changes nothing: pcmd
\* returns before any status or prompt.
Refuse(s) ==
  /\ pc = "prompt" /\ Returns(s) /\ running' = "none"
  /\ UNCHANGED <<session, chosen>>

-----------------------------------------------------------------------------
\* ultimo_status_str is where $status points.
print_status(s, v) == [v EXCEPT !.status = itoa[s + 1]]

\* What pcmd does after the command: its status, and a prompt.
Finish ==
  /\ pc = "returned" /\ pc' = "prompt"
  /\ ultimo_status' = status
  /\ lista_vars' = Moved(print_status(status, lista_vars))
  /\ IF running = "cls" THEN cls_prompt ELSE prompt
  /\ running' = "none" /\ status' = OK
  /\ UNCHANGED <<speaker, stopped, chosen, timerVars>>

-----------------------------------------------------------------------------
(* The rest of the main loop, and the delays.                               *)
usb_kbd_poll(n) ==
  /\ pc = "prompt" /\ pc' = "polling" /\ xhci_wait_ticks(n)
  /\ UNCHANGED <<session, running, status, chosen>>

PollEnds ==
  /\ pc = "polling" /\ Return /\ pc' = "prompt"
  /\ UNCHANGED <<session, running, status, chosen>>

DelayStep == (Test \/ Halt) /\ UNCHANGED <<pc, session, running, status, chosen>>

Irq ==
  /\ pc # "stopped"
  /\ TimerIrq \/ OtherIrq
  /\ UNCHANGED <<pc, session, running, status, chosen>>

Next ==
  \/ \E l \in Lines : Dispatch(l)
  \/ \E s \in {USAGE, PARSE} : Refuse(s)
  \/ \E n \in Waits : usb_kbd_poll(n)
  \/ PollEnds \/ BeepEnds \/ PowerEnds \/ Finish
  \/ DelayStep \/ Irq

Spec == Init /\ [][Next]_vars

\* The CPU executes what it is in, and the PIT runs.
LiveSpec == /\ Spec /\ WF_vars(DelayStep)
            /\ WF_vars(pc # "stopped" /\ TimerIrq
                         /\ UNCHANGED <<pc, session, running, status, chosen>>)

-----------------------------------------------------------------------------
(* Properties.                                                              *)
\* Type invariant.  smod has room for one character.
Values == Words \cup {"v0.2.5", "Amanita", CursorValue} \cup {itoa[s] : s \in DOMAIN itoa}
Divisors == 0..65535

TypeOK ==
  /\ pc \in {"prompt", "polling", "beeping", "powering", "returned", "stopped"}
  /\ lista_vars \in [VarNames -> Values]
  /\ lista_vars.smod \in {w \in Words : Size[w] < Room.smod}
  /\ ultimo_status \in OK..RANGE /\ status \in OK..RANGE /\ speaker \in Divisors
  /\ setcolor \in {Colours[c] : c \in DOMAIN Colours}
  /\ stopped \in {"no", "panic", "panic-irqstorm", "reboot", "poweroff"}
  /\ prompt_style \in {"normal", "smod", "fresh"}

\* Between two lines no command runs, a machine that is not stopped has not
\* panicked, and the last prompt still shows what smod is: no line has come
\* since that could have set it.
PromptIsTrue ==
  /\ pc # "stopped" => stopped = "no"
  /\ pc \in {"prompt", "polling"} =>
       /\ running = "none"
       /\ prompt_style = "normal" => ~Privileged(lista_vars)
       /\ prompt_style = "smod" => Privileged(lista_vars)

\* The inductive invariant behind PromptTellsPermission and ColourKept.
SessionInv == TypeOK /\ PromptIsTrue

\* The prompt, which looks at the first character of smod, and panic, which
\* compares all of it, agree: nothing panics from the normal prompt, and nothing
\* is denied at the other (lib.c:465, cmd.c:245).
PromptTellsPermission ==
  [][pc = "prompt" /\ running' = "panic" =>
       /\ prompt_style = "normal" => stopped' = "no"
       /\ prompt_style = "smod" => stopped' # "no"]_vars

\* No command changes the text colour in passing: away from smod it is the one
\* last asked for, or the green that smod left.  At smod the prompt makes it
\* green whatever `color` was asked for (cmd.c, 95-106, 371-391; lib.c, 466).
ColourKept ==
  [][lista_vars.smod # "1" /\ lista_vars'.smod # "1" =>
       setcolor' \in {setcolor, chosen'}]_vars
=============================================================================
