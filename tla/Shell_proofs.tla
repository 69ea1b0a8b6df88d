---------------------------- MODULE Shell_proofs ----------------------------
(***************************************************************************)
(* Theorems about Shell and the Timer it extends, for every size of the    *)
(* counter, every set of lines and every argument of a delay: the delays   *)
(* last as long as asked, and the prompt tells what `panic` will do.       *)
(***************************************************************************)
EXTENDS Shell, SequenceTheorems, TLAPS

-----------------------------------------------------------------------------
(* The counter, modulo W.                                                   *)

\* The counter after a tick.
LEMMA TickIs ==
  ASSUME NEW t \in 0..(W - 1)
  PROVE  /\ NextTick(t) = IF t = W - 1 THEN 0 ELSE t + 1
         /\ NextTick(t) \in 0..(W - 1)
<1>1. CASE t = W - 1
  <2>1. (0 + W) % W = 0 BY WAssumption
  <2>2. t + 1 = 0 + W BY <1>1, WAssumption
  <2> QED BY <2>1, <2>2, <1>1, WAssumption DEF NextTick
<1>2. CASE t # W - 1
  <2>1. t + 1 \in 0..(W - 1) BY <1>2, WAssumption
  <2>2. (t + 1) % W = t + 1 BY <2>1, WAssumption
  <2> QED BY <2>1, <2>2, <1>2 DEF NextTick
<1> QED BY <1>1, <1>2

\* Where a call began, from the counter and the ticks since.
LEMMA Back ==
  ASSUME NEW t \in 0..(W - 1), NEW e \in 0..(2 * W - 1)
  PROVE  (t - e) % W = IF e <= t THEN t - e
                       ELSE IF e <= t + W THEN t - e + W ELSE t - e + 2 * W
<1>1. CASE e <= t
  <2>1. t - e \in 0..(W - 1) BY <1>1, WAssumption
  <2> QED BY <2>1, <1>1, WAssumption
<1>2. CASE e > t /\ e <= t + W
  <2> DEFINE x == t - e + W
  <2>1. x \in 0..(W - 1) /\ t - e = x - W BY <1>2, WAssumption
  <2>2. (x - W) % W = x
    <3> HIDE DEF x
    <3> QED BY <2>1, WAssumption
  <2> QED BY <2>1, <2>2, <1>2, WAssumption
<1>3. CASE e > t + W
  <2> DEFINE x == t - e + 2 * W
  <2>1. x \in 0..(W - 1) /\ t - e = x - 2 * W BY <1>3, WAssumption
  <2>2. (x - 2 * W) % W = x
    <3> HIDE DEF x
    <3> QED BY <2>1, WAssumption
  <2> QED BY <2>1, <2>2, <1>3, WAssumption
<1> QED BY <1>1, <1>2, <1>3, WAssumption

\* The end that sleep computes.
LEMMA Ahead ==
  ASSUME NEW t \in 0..(W - 1), NEW n \in 0..(W - 1)
  PROVE  (t + n) % W = IF t + n < W THEN t + n ELSE t + n - W
<1>1. CASE t + n < W
  <2>1. t + n \in 0..(W - 1) BY <1>1, WAssumption
  <2> QED BY <2>1, <1>1, WAssumption
<1>2. CASE t + n >= W
  <2> DEFINE x == t + n - W
  <2>1. x \in 0..(W - 1) /\ t + n = x + W BY <1>2, WAssumption
  <2>2. (x + W) % W = x
    <3> HIDE DEF x
    <3> QED BY <2>1, WAssumption
  <2> QED BY <2>1, <2>2, <1>2, WAssumption
<1> QED BY <1>1, <1>2, WAssumption

\* The counter is where the call began, further by the ticks since, less the
\* laps it has made.
LEMMA BeganIs ==
  ASSUME TimerTypeOK, elapsed < 2 * W
  PROVE  /\ Began \in 0..(W - 1)
         /\ Began + elapsed \in {timer_ticks, timer_ticks + W, timer_ticks + 2 * W}
<1>1. timer_ticks \in 0..(W - 1) /\ elapsed \in 0..(2 * W - 1)
  BY WAssumption DEF TimerTypeOK
<1> QED BY <1>1, Back, WAssumption DEF Began

\* A tick does not change where the call in progress began.
LEMMA BeganKept ==
  ASSUME TimerTypeOK, elapsed + 1 < 2 * W,
         timer_ticks' = NextTick(timer_ticks), elapsed' = elapsed + 1
  PROVE  Began' = Began
<1>1. timer_ticks \in 0..(W - 1) /\ elapsed \in 0..(2 * W - 1)
  BY WAssumption DEF TimerTypeOK
<1>2. timer_ticks' = IF timer_ticks = W - 1 THEN 0 ELSE timer_ticks + 1
  BY <1>1, TickIs
<1>3. timer_ticks' \in 0..(W - 1) /\ elapsed' \in 0..(2 * W - 1)
  BY <1>1, <1>2, WAssumption
<1>4. (timer_ticks - elapsed) % W
        = IF elapsed <= timer_ticks THEN timer_ticks - elapsed
          ELSE IF elapsed <= timer_ticks + W THEN timer_ticks - elapsed + W
               ELSE timer_ticks - elapsed + 2 * W
  BY <1>1, Back
<1>5. (timer_ticks' - elapsed') % W
        = IF elapsed' <= timer_ticks' THEN timer_ticks' - elapsed'
          ELSE IF elapsed' <= timer_ticks' + W THEN timer_ticks' - elapsed' + W
               ELSE timer_ticks' - elapsed' + 2 * W
  BY <1>3, Back
<1>6. CASE timer_ticks = W - 1
  BY <1>1, <1>2, <1>4, <1>5, <1>6, WAssumption DEF Began
<1>7. CASE timer_ticks # W - 1
  BY <1>1, <1>2, <1>4, <1>5, <1>7, WAssumption DEF Began
<1> QED BY <1>6, <1>7

-----------------------------------------------------------------------------
(* The steps of a delay.                                                    *)

\* A tick: the call began where it did, and has one tick of grace at most.
LEMMA TickDelay == DelayInv /\ TimerIrq => DelayInv'
<1> SUFFICES ASSUME DelayInv, TimerIrq PROVE DelayInv'
  OBVIOUS
<1> USE WAssumption
<1>1. timer_ticks' \in 0..(W - 1)
  BY TickIs DEF DelayInv, TimerTypeOK, TimerIrq
<1>2. TimerTypeOK'
  <2>1. elapsed' \in 0..(2 * W) BY DEF DelayInv, TimerTypeOK, TimerIrq
  <2>2. ran' \in BOOLEAN BY DEF DelayInv, TimerTypeOK, TimerIrq
  <2>3. /\ delay' \in {"none", "test", "halting", "hlt", "done"}
        /\ delay' = "none" <=> delay = "none"
        /\ delay' \in {"halting", "hlt"} => delay \in {"halting", "hlt"}
        /\ call' = call
    BY DEF DelayInv, TimerTypeOK, TimerIrq
  <2> QED BY <1>1, <2>1, <2>2, <2>3 DEF DelayInv, TimerTypeOK, NoCall, Delay
<1>3. CASE delay = "none"
  <2>1. call' = NoCall BY <1>3 DEF DelayInv, TimerTypeOK, TimerIrq
  <2> QED BY <1>2, <2>1 DEF DelayInv, SleepOnTime, WaitOnTime, NoCall
<1>4. CASE delay # "none" /\ elapsed + 1 >= 2 * W
  <2>1. elapsed' >= 2 * W /\ elapsed' \in Int
    BY <1>4 DEF DelayInv, TimerTypeOK, TimerIrq
  <2> QED BY <1>2, <2>1 DEF DelayInv, SleepOnTime, WaitOnTime
<1>5. CASE delay # "none" /\ elapsed + 1 < 2 * W
  <2>1. elapsed \in Int /\ elapsed' = elapsed + 1 /\ ran' = FALSE /\ call' = call
    BY <1>5 DEF DelayInv, TimerTypeOK, TimerIrq
  <2>2. Began' = Began
    BY <1>5, <2>1, BeganKept DEF DelayInv, TimerIrq
  <2>3. Began \in 0..(W - 1)
    BY <1>5, <2>1, BeganIs DEF DelayInv
  <2>4. Grace' = 1 /\ (ran => Grace = 0)
    BY <2>1 DEF Grace
  <2>5. delay # "hlt" => ran /\ delay' = delay
    BY DEF TimerIrq
  <2>6. delay = "hlt" => delay' = "test"
    BY DEF TimerIrq
  <2>7. call.routine = "sleep" => call \in Delay
    BY <1>5 DEF DelayInv, TimerTypeOK
  <2>8. SleepOnTime'
    <3> SUFFICES ASSUME call.routine = "sleep" PROVE SleepOnTime'
      BY <2>1 DEF SleepOnTime
    <3> HIDE DEF Began
    <3>1. call.n \in Int BY <2>7 DEF Delay
    <3> QED BY <1>5, <2>1, <2>2, <2>3, <2>4, <2>5, <2>6, <3>1
            DEF DelayInv, SleepOnTime, TimerTypeOK
  <2>9. WaitOnTime'
    <3> SUFFICES ASSUME call.routine = "wait" PROVE WaitOnTime'
      BY <2>1 DEF WaitOnTime
    <3>1. call.n \in Int BY <1>5 DEF DelayInv, TimerTypeOK, Delay
    <3>2. delay # "hlt" BY DEF DelayInv, TimerTypeOK
    <3> QED BY <1>5, <2>1, <2>2, <2>3, <2>4, <2>5, <3>1, <3>2 DEF DelayInv, WaitOnTime, TimerTypeOK
  <2> QED BY <1>2, <2>8, <2>9 DEF DelayInv
<1> QED BY <1>3, <1>4, <1>5 DEF DelayInv, TimerTypeOK

\* Another interrupt ends a hlt before the sleep is due.
LEMMA OtherIrqDelay == DelayInv /\ OtherIrq => DelayInv'
<1> SUFFICES ASSUME DelayInv, OtherIrq PROVE DelayInv'
  OBVIOUS
<1>1. TimerTypeOK' BY DEF DelayInv, TimerTypeOK, OtherIrq
<1>2. Began' = Began /\ Grace' = Grace /\ call' = call /\ elapsed' = elapsed
  BY DEF OtherIrq, Began, Grace
<1>3. call \in Delay /\ call.routine = "sleep" /\ call.n \in Int
  BY DEF DelayInv, TimerTypeOK, OtherIrq, Delay
<1>4. Grace \in {0, 1} BY DEF Grace
<1>5. SleepOnTime'
  BY <1>2, <1>3, <1>4 DEF DelayInv, TimerTypeOK, SleepOnTime, OtherIrq
<1>6. WaitOnTime' BY <1>2, <1>3 DEF WaitOnTime
<1> QED BY <1>1, <1>5, <1>6 DEF DelayInv

\* A delay begins with its end or its start computed.
LEMMA BeginDelay ==
  ASSUME DelayInv, NEW n \in 1..(W - 1), sleep(n) \/ xhci_wait_ticks(n)
  PROVE  DelayInv'
<1> USE WAssumption
<1>1. timer_ticks \in 0..(W - 1) BY DEF DelayInv, TimerTypeOK
<1>2. SleepEnd(n) \in 0..(W - 1) BY <1>1, Ahead DEF SleepEnd
<1>3. /\ elapsed' = 0 /\ ran' = TRUE /\ timer_ticks' = timer_ticks /\ delay' = "test"
      /\ Began' = timer_ticks
  <2>1. (timer_ticks - 0) % W = timer_ticks BY <1>1
  <2> QED BY <1>1, <2>1 DEF sleep, xhci_wait_ticks, Begin, Began
<1>4. Grace' = 0 BY <1>3 DEF Grace
<1>5. CASE sleep(n)
  <2>1. call' = [routine |-> "sleep", n |-> n, from |-> (timer_ticks + n) % W]
    BY <1>5 DEF sleep, Begin, SleepEnd
  <2>2. TimerTypeOK'
    BY <1>1, <1>2, <1>3, <2>1 DEF TimerTypeOK, Delay, SleepEnd
  <2>3. SleepOnTime' BY <1>1, <1>3, <1>4, <2>1 DEF SleepOnTime
  <2>4. WaitOnTime' BY <2>1 DEF WaitOnTime
  <2> QED BY <2>2, <2>3, <2>4 DEF DelayInv
<1>6. CASE xhci_wait_ticks(n)
  <2>1. call' = [routine |-> "wait", n |-> n, from |-> timer_ticks]
    BY <1>6 DEF xhci_wait_ticks, Begin
  <2>2. TimerTypeOK' BY <1>1, <1>3, <2>1 DEF TimerTypeOK, Delay
  <2>3. SleepOnTime' BY <2>1 DEF SleepOnTime
  <2>4. WaitOnTime' BY <1>1, <1>3, <1>4, <2>1 DEF WaitOnTime
  <2> QED BY <2>2, <2>3, <2>4 DEF DelayInv
<1> QED BY <1>5, <1>6

\* The test sees the end when the call is due, if the counter has not come to
\* its own end meanwhile; the driver's sees it in any case.
LEMMA TestDelay == DelayInv /\ Test => DelayInv'
<1> SUFFICES ASSUME DelayInv, Test PROVE DelayInv'
  OBVIOUS
<1> USE WAssumption
<1>1. /\ call \in Delay /\ call.n \in 1..(W - 1) /\ call.from \in 0..(W - 1)
      /\ call.routine \in {"sleep", "wait"}
  BY DEF DelayInv, TimerTypeOK, Test, Delay
<1>2. Began' = Began /\ Grace' = 0 /\ call' = call /\ elapsed' = elapsed
  BY DEF Test, Began, Grace
<1>3. timer_ticks \in 0..(W - 1) /\ elapsed \in 0..(2 * W) /\ Grace \in {0, 1}
  BY DEF DelayInv, TimerTypeOK, Grace
<1>4. CASE call.routine = "sleep"
  <2>1. TimerTypeOK' BY <1>4 DEF DelayInv, TimerTypeOK, Test
  <2>2. WaitOnTime' BY <1>2, <1>4 DEF WaitOnTime
  <2>3. SleepOnTime'
    <3> SUFFICES ASSUME elapsed < 2 * W PROVE SleepOnTime'
      BY <1>2 DEF SleepOnTime
    <3>1. /\ Began \in 0..(W - 1)
          /\ Began + elapsed \in {timer_ticks, timer_ticks + W, timer_ticks + 2 * W}
      BY BeganIs DEF DelayInv
    <3>2. call.from = (Began + call.n) % W
      BY <1>4 DEF DelayInv, SleepOnTime
    <3>3. Began + call.n < W => call.from = Began + call.n
      <4>1. (Began + call.n) % W = IF Began + call.n < W THEN Began + call.n
                                   ELSE Began + call.n - W
        <5>1. call.n \in 0..(W - 1) BY <1>1
        <5> HIDE DEF Began
        <5> QED BY <5>1, <3>1, Ahead
      <4> QED BY <3>2, <4>1
    <3>4. delay = "test" /\ delay' = IF timer_ticks < call.from THEN "halting" ELSE "done"
      BY <1>4 DEF Test, SleepGoesOn
    <3>5. Began + call.n < W - 1 => elapsed <= call.n + Grace
      BY <1>4, <3>4 DEF DelayInv, SleepOnTime
    <3>6. delay' = "done" /\ Began + call.n < W => elapsed >= call.n
      BY <1>1, <1>3, <3>1, <3>3, <3>4
    <3>7. Began + call.n < W - 1 /\ delay' = "halting" => elapsed < call.n
      BY <1>1, <1>3, <3>1, <3>3, <3>4, <3>5
    <3> HIDE DEF Began
    <3> QED BY <1>1, <1>2, <1>3, <1>4, <3>1, <3>2, <3>4, <3>6, <3>7 DEF SleepOnTime
  <2> QED BY <2>1, <2>2, <2>3 DEF DelayInv
<1>5. CASE call.routine = "wait"
  <2>1. TimerTypeOK' BY <1>5 DEF DelayInv, TimerTypeOK, Test
  <2>2. SleepOnTime' BY <1>2, <1>5 DEF SleepOnTime
  <2>3. WaitOnTime'
    <3>1. elapsed < 2 * W => call'.from = Began'
      BY <1>2, <1>5 DEF DelayInv, WaitOnTime
    <3>2. ASSUME elapsed < W PROVE (timer_ticks - call.from) % W = elapsed
      <4>1. /\ Began \in 0..(W - 1)
            /\ Began + elapsed \in {timer_ticks, timer_ticks + W, timer_ticks + 2 * W}
        BY <3>2, <1>3, BeganIs DEF DelayInv
      <4>2. call.from = Began BY <1>3, <1>5, <3>2 DEF DelayInv, WaitOnTime
      <4> HIDE DEF Began
      <4>3. timer_ticks - call.from \in {elapsed, elapsed - W}
        BY <4>1, <4>2, <1>3, <3>2
      <4>4. elapsed \in 0..(W - 1) BY <1>3, <3>2
      <4>5. elapsed % W = elapsed /\ (elapsed - W) % W = elapsed BY <4>4
      <4> QED BY <4>3, <4>5
    <3>3. delay' = IF WaitGoesOn THEN "test" ELSE "done"
      BY <1>5 DEF Test
    <3>4. elapsed < W => (delay' = "test" <=> elapsed < call.n)
      BY <3>2, <3>3 DEF WaitGoesOn
    <3>5. elapsed < W /\ delay' = "done" => elapsed >= call.n
      BY <1>1, <1>3, <3>3, <3>4
    <3> QED BY <1>1, <1>2, <1>3, <1>5, <3>1, <3>4, <3>5 DEF WaitOnTime
  <2> QED BY <2>1, <2>2, <2>3 DEF DelayInv
<1> QED BY <1>1, <1>4, <1>5

\* Between the test and the hlt at most one tick came.
LEMMA HaltDelay == DelayInv /\ Halt => DelayInv'
<1> SUFFICES ASSUME DelayInv, Halt PROVE DelayInv'
  OBVIOUS
<1>1. TimerTypeOK' BY DEF DelayInv, TimerTypeOK, Halt
<1>2. Began' = Began /\ call' = call /\ elapsed' = elapsed
  BY DEF Halt, Began
<1>3. call.routine = "sleep" /\ call.n \in Int /\ elapsed \in Int
  BY DEF DelayInv, TimerTypeOK, Halt, Delay
<1>4. Grace \in {0, 1} BY DEF Grace
<1>5. SleepOnTime'
  BY <1>2, <1>3, <1>4 DEF DelayInv, SleepOnTime, Halt
<1>6. WaitOnTime' BY <1>2, <1>3 DEF WaitOnTime
<1> QED BY <1>1, <1>5, <1>6 DEF DelayInv

\* A call that returns leaves none.
LEMMA ReturnDelay == DelayInv /\ Return => DelayInv'
BY WAssumption DEF DelayInv, TimerTypeOK, SleepOnTime, WaitOnTime, Return, NoCall

\* What leaves the timer alone.
LEMMA QuietDelay == DelayInv /\ UNCHANGED timerVars => DelayInv'
BY DEF DelayInv, TimerTypeOK, SleepOnTime, WaitOnTime, timerVars, Began, Grace

-----------------------------------------------------------------------------
(* The shell and its delays.                                                *)

\* Every step of the shell does one of those things to the timer.
LEMMA StepTimer ==
  ASSUME [Next]_vars
  PROVE  \/ TimerIrq \/ OtherIrq \/ Test \/ Halt \/ Return \/ UNCHANGED timerVars
         \/ \E n \in 1..(W - 1) : sleep(n) \/ xhci_wait_ticks(n)
<1>0. SHORT \in 1..(W - 1) /\ Waits \subseteq 1..(W - 1)
  BY ArgsAssumption, SleepAssumption
<1>1. CASE \E l \in Lines : Dispatch(l)
  <2>1. PICK l \in Lines : Dispatch(l) BY <1>1
  <2>2. CASE PrintOnly(l) \/ Check(l) \/ Colourful(l) \/ cmd_cls(l) \/ cmd_color(l) \/ Unknown(l)
    BY <2>2 DEF PrintOnly, Check, Colourful, cmd_cls, cmd_color, Unknown, Returns
  <2>3. CASE cmd_beep(l) \/ Power(l)
    BY <2>3, <1>0 DEF cmd_beep, Power, Returns
  <2>4. CASE cmd_set(l) \/ cmd_panic(l)
    BY <2>4 DEF cmd_set, cmd_panic, Returns
  <2> QED BY <2>1, <2>2, <2>3, <2>4 DEF Dispatch
<1>2. CASE \E s \in {USAGE, PARSE} : Refuse(s)
  BY <1>2 DEF Refuse, Returns
<1>3. CASE \E n \in Waits : usb_kbd_poll(n)
  BY <1>3, <1>0 DEF usb_kbd_poll
<1>4. CASE PollEnds \/ BeepEnds \/ PowerEnds
  BY <1>4 DEF PollEnds, BeepEnds, PowerEnds
<1>5. CASE Finish
  BY <1>5 DEF Finish
<1>6. CASE DelayStep \/ Irq
  BY <1>6 DEF DelayStep, Irq
<1>7. CASE UNCHANGED vars
  BY <1>7 DEF vars
<1> QED BY <1>1, <1>2, <1>3, <1>4, <1>5, <1>6, <1>7 DEF Next

\* The invariant of the delays is one of the session.
LEMMA DelayInvInductive == Spec => []DelayInv
<1>1. Init => DelayInv
  BY WAssumption
  DEF Init, TimerInit, DelayInv, TimerTypeOK, SleepOnTime, WaitOnTime, NoCall
<1>2. DelayInv /\ [Next]_vars => DelayInv'
  <2> SUFFICES ASSUME DelayInv, [Next]_vars PROVE DelayInv'
    OBVIOUS
  <2>1. CASE \E n \in 1..(W - 1) : sleep(n) \/ xhci_wait_ticks(n)
    BY <2>1, BeginDelay
  <2>2. CASE TimerIrq \/ OtherIrq \/ Test \/ Halt \/ Return \/ UNCHANGED timerVars
    BY <2>2, TickDelay, OtherIrqDelay, TestDelay, HaltDelay, ReturnDelay, QuietDelay
  <2> QED BY <2>1, <2>2, StepTimer
<1> QED BY <1>1, <1>2, PTL DEF Spec

\* Type correctness of the timer, whatever the session does with it.
THEOREM TimerTypeCorrect == Spec => []TimerTypeOK
<1>1. DelayInv => TimerTypeOK BY DEF DelayInv
<1> QED BY <1>1, DelayInvInductive, PTL

\* Both kinds of delay last as long as asked, the driver's across the counter's
\* end too, however the interrupts fall between their instructions (lib.c,
\* 212-219; usb_kbd.c, 331-338).
THEOREM DelaysLastAsAsked == Spec => []DelaysLast
<1>1. DelayInv => DelaysLast
  <2> SUFFICES ASSUME DelayInv PROVE DelaysLast
    OBVIOUS
  <2>1. Grace \in {0, 1} BY DEF Grace
  <2>2. SleepLasts BY DEF DelayInv, SleepOnTime, SleepLasts
  <2>3. WaitLasts
    <3> SUFFICES ASSUME call.routine = "wait", elapsed < W PROVE WaitLasts
      BY DEF WaitLasts
    <3>1. delay = "test" => call.n \in Int /\ elapsed \in Int
      BY DEF DelayInv, TimerTypeOK, Delay
    <3> QED BY <2>1, <3>1 DEF DelayInv, WaitOnTime, WaitLasts
  <2> QED BY <2>2, <2>3 DEF DelaysLast
<1> QED BY <1>1, DelayInvInductive, PTL

-----------------------------------------------------------------------------
(* The session.                                                             *)

\* smod, read by its first character or compared as a whole, says the same.
LEMMA SmodAgrees ==
  ASSUME NEW v, v.smod \in {w \in Words : Size[w] < Room.smod}
  PROVE  /\ Privileged(v) <=> Smod(v)
         /\ Smod(v) <=> v.smod = "1"
BY CharacterAssumption DEF Privileged, Smod, Room

\* The words of a line.
LEMMA WordsOfLine ==
  ASSUME NEW l \in Lines, Len(l) >= 3
  PROVE  l[3] \in Words
BY LinesAssumption

\* A variable that is set keeps the variables what they are: a word, and in
\* smod one that fits.
LEMMA VarsAfterSet ==
  ASSUME TypeOK, NEW l \in Lines, Len(l) >= 3, attvar(l[2], l[3])
  PROVE  /\ lista_vars' \in [VarNames -> Values]
         /\ lista_vars'.smod \in {w \in Words : Size[w] < Room.smod}
<1>1. lista_vars \in [VarNames -> Values] BY DEF TypeOK
<1>2. lista_vars.smod \in {w \in Words : Size[w] < Room.smod} BY DEF TypeOK
<1>3. CASE l[2] \in VarNames
  <2>1. lista_vars' = [lista_vars EXCEPT ![l[2]] = l[3]] BY <1>3 DEF attvar
  <2>2. l[3] \in Words /\ Size[l[3]] < Room[l[2]]
    <3>1. Size[l[3]] < Room[l[2]] BY <1>3, FitsAssumption
    <3> QED BY <3>1, WordsOfLine
  <2>3. lista_vars' \in [VarNames -> Values] BY <1>1, <2>1, <2>2 DEF Values
  <2>4. l[2] = "smod" => lista_vars'.smod = l[3] BY <1>1, <1>3, <2>1
  <2>5. l[2] # "smod" => lista_vars'.smod = lista_vars.smod
    BY <1>1, <2>1 DEF VarNames
  <2>6. CASE l[2] = "smod"
    <3>1. Room[l[2]] = Room.smod BY <2>6
    <3> QED BY <2>2, <2>3, <2>4, <2>6, <3>1
  <2> QED BY <1>2, <2>3, <2>5, <2>6
<1>4. CASE l[2] \notin VarNames
  BY <1>1, <1>2, <1>4 DEF attvar
<1> QED BY <1>3, <1>4

\* Nor do the status and the cursor touch smod.
LEMMA VarsAfterFinish ==
  ASSUME TypeOK, NEW s \in OK..RANGE
  PROVE  LET v == Moved(print_status(s, lista_vars))
         IN  v \in [VarNames -> Values] /\ v.smod = lista_vars.smod
<1>1. lista_vars \in [VarNames -> Values] BY DEF TypeOK
<1>2. s + 1 \in DOMAIN itoa BY DEF itoa, OK, RANGE
<1>3. itoa[s + 1] \in Values /\ CursorValue \in Values BY <1>2 DEF Values
<1> QED BY <1>1, <1>3 DEF Moved, print_status, VarNames

-----------------------------------------------------------------------------
(* The steps of the session.                                                *)

\* A divisor fits the channel.
LEMMA DivisorFits ==
  ASSUME NEW f \in Nat, BeepInRange(f)
  PROVE  Divisor(f) \in Divisors
<1>1. \A a \in Nat, b \in Nat : b > 0 => a \div b \in Int BY SMT
<1>2. f > 0 BY SMT DEF BeepInRange
<1>3. 1193180 \div f \in Int BY <1>1, <1>2, SMT
<1>4. \A x \in Int : x % 65536 \in Divisors BY SMT DEF Divisors
<1> QED BY <1>3, <1>4, SMT DEF Divisor

\* A command that returns, or one still to end, keeps the types.
LEMMA CommandTypes ==
  ASSUME SessionInv, NEW l \in Lines, Dispatch(l)
  PROVE  TypeOK'
<1> USE DEF OK, USAGE, NOT_FOUND, PARSE, DENIED, RANGE
<1>0. TypeOK /\ pc = "prompt" BY DEF SessionInv, Dispatch
<1>1. CASE PrintOnly(l) \/ Check(l) \/ cmd_cls(l) \/ Unknown(l)
  <2>1. UNCHANGED session /\ pc' = "returned"
    BY <1>1 DEF PrintOnly, Check, cmd_cls, Unknown, Returns
  <2>2. status' \in OK..RANGE
    BY <1>1 DEF PrintOnly, Check, cmd_cls, Unknown, Returns
  <2> QED BY <1>0, <2>1, <2>2 DEF TypeOK, session
<1>2. CASE Colourful(l)
  BY <1>0, <1>2 DEF Colourful, Restored, Returns, TypeOK
<1>3. CASE cmd_color(l)
  BY <1>0, <1>3 DEF cmd_color, Returns, TypeOK
<1>4. CASE cmd_beep(l)
  <2> DEFINE f == IF Len(l) = 1 THEN 750 ELSE atoi[l[2]]
  <2>1. BeepInRange(f) => Divisor(f) \in Divisors
    <3>1. CASE Len(l) = 1 BY <3>1, DivisorFits
    <3>2. CASE Len(l) # 1
      <4>1. l[2] \in Words
        <5>1. l \in Seq(Words) /\ l # << >> BY LinesAssumption
        <5>2. Len(l) \in Nat \ {0} BY <5>1, EmptySeq, Zenon
        <5>3. \A k \in Nat \ {0} : k # 1 => 2 \in 1..k OBVIOUS
        <5>4. 2 \in 1..Len(l) BY <3>2, <5>2, <5>3, Zenon
        <5> QED BY <5>1, <5>4, ElementOfSeq
      <4>2. atoi[l[2]] \in Nat BY <4>1, LinesAssumption
      <4> QED BY <3>2, <4>2, DivisorFits
    <3> QED BY <3>1, <3>2
  <2>2. CASE BeepInRange(f)
    BY <1>0, <1>4, <2>1, <2>2 DEF cmd_beep, TypeOK
  <2>3. CASE ~BeepInRange(f)
    BY <1>0, <1>4, <2>3 DEF cmd_beep, Returns, TypeOK
  <2> QED BY <2>2, <2>3
<1>5. CASE cmd_set(l)
  <2>1. /\ pc' = "returned" /\ status' \in OK..RANGE
        /\ UNCHANGED <<ultimo_status, speaker, stopped, prompt_style>>
    BY <1>5 DEF cmd_set, Returns
  <2>2. setcolor' \in {Colours[c] : c \in DOMAIN Colours}
    BY <1>0, <1>5 DEF cmd_set, Colours, TypeOK
  <2>3. /\ lista_vars' \in [VarNames -> Values]
        /\ lista_vars'.smod \in {w \in Words : Size[w] < Room.smod}
    <3>1. CASE Len(l) < 3 BY <1>0, <1>5, <3>1 DEF cmd_set, TypeOK
    <3>2. CASE ~(Len(l) < 3)
      <4>1. Len(l) >= 3 BY <3>2, LinesAssumption
      <4>2. attvar(l[2], l[3]) BY <1>5, <3>2 DEF cmd_set
      <4> QED BY <1>0, <4>1, <4>2, VarsAfterSet
    <3> QED BY <3>1, <3>2
  <2> QED BY <1>0, <2>1, <2>2, <2>3 DEF TypeOK
<1>6. CASE cmd_panic(l)
  BY <1>0, <1>6 DEF cmd_panic, Returns, TypeOK
<1>7. CASE Power(l)
  BY <1>0, <1>7 DEF Power, session, TypeOK
<1> QED BY <1>1, <1>2, <1>3, <1>4, <1>5, <1>6, <1>7 DEF Dispatch

\* What every step but a command and its end leaves alone, and what a machine
\* that stops shows.
LEMMA StepTypes ==
  ASSUME SessionInv, [Next]_vars
  PROVE  TypeOK'
<1> USE DEF OK, USAGE, NOT_FOUND, PARSE, DENIED, RANGE
<1>0. TypeOK BY DEF SessionInv
<1>1. CASE \E l \in Lines : Dispatch(l)
  BY <1>1, CommandTypes
<1>2. CASE \E s \in {USAGE, PARSE} : Refuse(s)
  BY <1>0, <1>2 DEF Refuse, Returns, session, TypeOK
<1>3. CASE (\E n \in Waits : usb_kbd_poll(n)) \/ PollEnds
  BY <1>0, <1>3 DEF usb_kbd_poll, PollEnds, session, TypeOK
<1>4. CASE BeepEnds \/ PowerEnds
  <2>1. 0 \in Divisors BY SMT DEF Divisors
  <2> QED BY <1>0, <1>4, <2>1 DEF BeepEnds, PowerEnds, TypeOK
<1>5. CASE Finish
  <2>1. /\ lista_vars' \in [VarNames -> Values]
        /\ lista_vars'.smod = lista_vars.smod
    BY <1>0, <1>5, VarsAfterFinish DEF Finish, TypeOK
  <2>2. /\ prompt_style' \in {"normal", "smod", "fresh"}
        /\ setcolor' \in {setcolor, "VERDE"}
    BY <1>5 DEF Finish, cls_prompt, prompt
  <2>3. /\ pc' = "prompt" /\ ultimo_status' = status /\ status' = OK
        /\ UNCHANGED <<speaker, stopped>>
    BY <1>5 DEF Finish
  <2>4. "VERDE" \in {Colours[c] : c \in DOMAIN Colours}
    BY DEF Colours
  <2> QED BY <1>0, <2>1, <2>2, <2>3, <2>4 DEF TypeOK
<1>6. CASE DelayStep \/ Irq
  BY <1>0, <1>6 DEF DelayStep, Irq, session, TypeOK
<1>7. CASE UNCHANGED vars
  BY <1>0, <1>7 DEF vars, session, TypeOK
<1> QED BY <1>1, <1>2, <1>3, <1>4, <1>5, <1>6, <1>7 DEF Next

\* The prompt is printed after whatever a line did to smod.
LEMMA StepPrompt ==
  ASSUME SessionInv, [Next]_vars
  PROVE  PromptIsTrue'
<1>0. TypeOK /\ PromptIsTrue BY DEF SessionInv
<1>1. CASE \E l \in Lines : Dispatch(l)
  <2>1. PICK l \in Lines : Dispatch(l) BY <1>1
  <2>2. pc = "prompt" /\ stopped = "no" BY <1>0, <2>1 DEF Dispatch, PromptIsTrue
  <2>3. pc' \in {"returned", "beeping", "powering", "stopped"}
    <3>1. CASE PrintOnly(l) \/ Check(l) \/ Colourful(l) \/ cmd_cls(l) \/ cmd_color(l) \/ Unknown(l)
      BY <3>1 DEF PrintOnly, Check, Colourful, cmd_cls, cmd_color, Unknown, Returns
    <3>2. CASE cmd_beep(l) \/ cmd_set(l) \/ cmd_panic(l) \/ Power(l)
      BY <3>2 DEF cmd_beep, cmd_set, cmd_panic, Power, Returns
    <3> QED BY <2>1, <3>1, <3>2 DEF Dispatch
  <2>4. pc' # "stopped" => stopped' = stopped
    <3>1. CASE PrintOnly(l) \/ Check(l) \/ Colourful(l) \/ cmd_cls(l) \/ cmd_color(l) \/ Unknown(l)
      BY <3>1 DEF PrintOnly, Check, Colourful, cmd_cls, cmd_color, Unknown, session
    <3>2. CASE cmd_beep(l) \/ cmd_set(l) \/ cmd_panic(l) \/ Power(l)
      BY <3>2 DEF cmd_beep, cmd_set, cmd_panic, Power, session
    <3> QED BY <2>1, <3>1, <3>2 DEF Dispatch
  <2> QED BY <2>2, <2>3, <2>4 DEF PromptIsTrue
<1>2. CASE \E s \in {USAGE, PARSE} : Refuse(s)
  BY <1>0, <1>2 DEF Refuse, Returns, session, PromptIsTrue
<1>3. CASE (\E n \in Waits : usb_kbd_poll(n)) \/ PollEnds
  BY <1>0, <1>3 DEF usb_kbd_poll, PollEnds, session, PromptIsTrue, Privileged
<1>4. CASE BeepEnds \/ PowerEnds
  BY <1>0, <1>4 DEF BeepEnds, PowerEnds, PromptIsTrue
<1>5. CASE Finish
  <2>1. pc' = "prompt" /\ running' = "none" /\ stopped' = "no"
    BY <1>0, <1>5 DEF Finish, PromptIsTrue
  <2>2. CASE running = "cls"
    <3>1. prompt_style' = "fresh" BY <1>5, <2>2 DEF Finish, cls_prompt
    <3> QED BY <2>1, <3>1 DEF PromptIsTrue
  <2>3. CASE running # "cls"
    <3>1. prompt_style' = IF Privileged(lista_vars') THEN "smod" ELSE "normal"
      BY <1>5, <2>3 DEF Finish, prompt
    <3>2. CASE Privileged(lista_vars')
      BY <2>1, <3>1, <3>2 DEF PromptIsTrue, Privileged
    <3>3. CASE ~Privileged(lista_vars')
      BY <2>1, <3>1, <3>3 DEF PromptIsTrue, Privileged
    <3> QED BY <3>2, <3>3
  <2> QED BY <2>2, <2>3
<1>6. CASE DelayStep \/ Irq
  BY <1>0, <1>6 DEF DelayStep, Irq, session, PromptIsTrue, Privileged
<1>7. CASE UNCHANGED vars
  BY <1>0, <1>7 DEF vars, session, PromptIsTrue, Privileged
<1> QED BY <1>1, <1>2, <1>3, <1>4, <1>5, <1>6, <1>7 DEF Next

\* The session starts at a prompt for which smod is 0.
LEMMA SessionInit == Init => SessionInv
<1> SUFFICES ASSUME Init PROVE SessionInv
  OBVIOUS
<1>1. lista_vars.smod = "0" BY DEF Init
<1>2. "0" \in Words /\ Size["0"] = 1 /\ First["0"] # "1"
  BY LinesAssumption, CharacterAssumption
<1>3. itoa[1] = "0" /\ 1 \in DOMAIN itoa BY DEF itoa
<1>4. lista_vars \in [VarNames -> Values]
  BY <1>2 DEF Init, VarNames, Values
<1>5. "BRANCO" \in {Colours[c] : c \in DOMAIN Colours} /\ 0 \in Divisors
  <2>1. 0 \in Divisors BY SMT DEF Divisors
  <2> QED BY <2>1 DEF Colours
<1>6. TypeOK BY <1>1, <1>2, <1>4, <1>5 DEF Init, TypeOK, Room, OK, RANGE
<1>7. PromptIsTrue BY <1>1, <1>2 DEF Init, PromptIsTrue, Privileged
<1> QED BY <1>6, <1>7 DEF SessionInv

\* The invariant of the session.
LEMMA SessionInvInductive == Spec => []SessionInv
<1>1. SessionInv /\ [Next]_vars => SessionInv'
  BY StepTypes, StepPrompt DEF SessionInv
<1> QED BY <1>1, SessionInit, PTL DEF Spec

-----------------------------------------------------------------------------
(* The theorems.                                                            *)

\* A step that begins with a panic is a command, and the panic's.
LEMMA PanicIsDispatched ==
  ASSUME SessionInv, [Next]_vars, pc = "prompt", running' = "panic"
  PROVE  \E l \in Lines : cmd_panic(l)
<1>0. running = "none" BY DEF SessionInv, PromptIsTrue
<1>1. CASE \E l \in Lines : Dispatch(l)
  <2>1. PICK l \in Lines : Dispatch(l) BY <1>1
  <2>2. Name(l) = "panic" BY <2>1 DEF Dispatch
  <2>3. ~(PrintOnly(l) \/ Check(l) \/ Colourful(l) \/ cmd_cls(l) \/ cmd_color(l))
    BY <2>2 DEF PrintOnly, Check, Colourful, cmd_cls, cmd_color, Printers, Checked
  <2>4. ~(cmd_beep(l) \/ cmd_set(l) \/ Power(l) \/ Unknown(l))
    BY <2>2 DEF cmd_beep, cmd_set, Power, Unknown, lista_comandos
  <2> QED BY <2>1, <2>3, <2>4 DEF Dispatch
<1>2. CASE \E s \in {USAGE, PARSE} : Refuse(s)
  BY <1>2 DEF Refuse
<1>3. CASE (\E n \in Waits : usb_kbd_poll(n)) \/ PollEnds
  BY <1>0, <1>3 DEF usb_kbd_poll, PollEnds
<1>4. CASE BeepEnds \/ PowerEnds \/ Finish
  BY <1>4 DEF BeepEnds, PowerEnds, Finish
<1>5. CASE DelayStep \/ Irq
  BY <1>0, <1>5 DEF DelayStep, Irq
<1>6. CASE UNCHANGED vars
  BY <1>0, <1>6 DEF vars
<1> QED BY <1>1, <1>2, <1>3, <1>4, <1>5, <1>6 DEF Next

\* The prompt and `panic` agree on who may: nothing panics from the normal
\* prompt and nothing is denied at the other, whatever was set, by whichever
\* commands, since (lib.c:465, cmd.c:245).
THEOREM PromptTells == Spec => PromptTellsPermission
<1>1. ASSUME SessionInv, [Next]_vars
      PROVE  pc = "prompt" /\ running' = "panic" =>
               /\ prompt_style = "normal" => stopped' = "no"
               /\ prompt_style = "smod" => stopped' # "no"
  <2> SUFFICES ASSUME pc = "prompt", running' = "panic"
               PROVE  /\ prompt_style = "normal" => stopped' = "no"
                      /\ prompt_style = "smod" => stopped' # "no"
    OBVIOUS
  <2>1. PICK l \in Lines : cmd_panic(l) BY <1>1, PanicIsDispatched
  <2>2. Privileged(lista_vars) <=> PanicAllowed(lista_vars)
    BY <1>1, SmodAgrees DEF SessionInv, TypeOK, PanicAllowed
  <2>3. stopped = "no" BY <1>1 DEF SessionInv, PromptIsTrue
  <2>4. CASE prompt_style = "normal"
    <3>1. ~PanicAllowed(lista_vars) BY <1>1, <2>2, <2>4 DEF SessionInv, PromptIsTrue
    <3> QED BY <2>1, <2>3, <2>4, <3>1 DEF cmd_panic
  <2>5. CASE prompt_style = "smod"
    <3>1. PanicAllowed(lista_vars) BY <1>1, <2>2, <2>5 DEF SessionInv, PromptIsTrue
    <3> QED BY <2>1, <2>5, <3>1 DEF cmd_panic
  <2> QED BY <2>4, <2>5
<1> QED BY <1>1, SessionInvInductive, PTL DEF Spec, PromptTellsPermission

\* Every command puts back the colour it found: away from smod the text keeps
\* the colour last asked for (cmd.c, 95-106, 371-391; lib.c, 466).
THEOREM ColourIsKept == Spec => ColourKept
<1>1. ASSUME SessionInv, SessionInv', [Next]_vars
      PROVE  lista_vars.smod # "1" /\ lista_vars'.smod # "1" =>
               setcolor' \in {setcolor, chosen'}
  <2> SUFFICES ASSUME lista_vars'.smod # "1"
               PROVE  setcolor' \in {setcolor, chosen'}
    OBVIOUS
  <2>0. ~Privileged(lista_vars') /\ ~Smod(lista_vars')
    <3>1. lista_vars'.smod \in {w \in Words : Size[w] < Room.smod}
      BY <1>1 DEF SessionInv, TypeOK
    <3> QED BY <3>1, SmodAgrees
  <2>1. CASE \E l \in Lines : Dispatch(l)
    <3>1. PICK l \in Lines : Dispatch(l) BY <2>1
    <3>2. CASE PrintOnly(l) \/ Check(l) \/ cmd_cls(l) \/ Unknown(l) \/ Power(l)
      BY <3>2 DEF PrintOnly, Check, cmd_cls, Unknown, Power, session
    <3>3. CASE Colourful(l) BY <3>3 DEF Colourful, Restored
    <3>4. CASE cmd_color(l) BY <3>4 DEF cmd_color
    <3>5. CASE cmd_beep(l) \/ cmd_panic(l) BY <3>5 DEF cmd_beep, cmd_panic
    <3>6. CASE cmd_set(l) BY <2>0, <3>6 DEF cmd_set, Smod
    <3> QED BY <3>1, <3>2, <3>3, <3>4, <3>5, <3>6 DEF Dispatch
  <2>2. CASE \E s \in {USAGE, PARSE} : Refuse(s)
    BY <2>2 DEF Refuse, session
  <2>3. CASE (\E n \in Waits : usb_kbd_poll(n)) \/ PollEnds
    BY <2>3 DEF usb_kbd_poll, PollEnds, session
  <2>4. CASE BeepEnds \/ PowerEnds
    BY <2>4 DEF BeepEnds, PowerEnds
  <2>5. CASE Finish
    BY <2>0, <2>5 DEF Finish, cls_prompt, prompt, Privileged
  <2>6. CASE DelayStep \/ Irq
    BY <2>6 DEF DelayStep, Irq, session
  <2>7. CASE UNCHANGED vars
    BY <2>7 DEF vars, session
  <2> QED BY <1>1, <2>1, <2>2, <2>3, <2>4, <2>5, <2>6, <2>7 DEF Next
<1> QED BY <1>1, SessionInvInductive, PTL DEF Spec, ColourKept
=============================================================================
