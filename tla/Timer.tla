------------------------------- MODULE Timer -------------------------------
(***************************************************************************)
(* The tick counter and the delays that wait on it: timer_handler and      *)
(* sleep (src/src/lib.c, 203-219) and xhci_wait_ticks (src/src/usb_kbd.c,  *)
(* 331-338).  The counter is a word of W values; sleep compares it with an *)
(* end computed in advance and halts, the driver compares a difference and *)
(* spins.  The timer interrupt comes between any two instructions, between *)
(* sleep's test and its hlt too.  Shell has the program that delays.       *)
(***************************************************************************)
EXTENDS Integers

CONSTANTS W,       \* values of timer_ticks, 2^32 in the code
          Sleeps,  \* arguments of sleep
          Waits    \* arguments of xhci_wait_ticks
ASSUME WAssumption == W \in Nat /\ W > 2
ASSUME ArgsAssumption == Sleeps \subseteq 1..(W - 1) /\ Waits \subseteq 1..(W - 1)

VARIABLES
  timer_ticks, \* the counter
  delay,       \* "none", "test" the condition, "halting" after it, "hlt", "done"
  call,        \* the delay in progress: routine, argument n, and `from`, the
               \* tempo_final of sleep or the start of the driver
  elapsed,     \* ghost: ticks since that call began, up to 2 * W
  ran          \* ghost: the CPU got an instruction in since the last tick

timerVars == <<timer_ticks, delay, call, elapsed, ran>>

NoCall == [routine |-> "none", n |-> 0, from |-> 0]

\* At any time after the boot.
TimerInit ==
  /\ timer_ticks \in 0..(W - 1) /\ delay = "none" /\ call = NoCall
  /\ elapsed = 0 /\ ran = TRUE

-----------------------------------------------------------------------------
\* Fault: the counter stops at its largest value.
NextTick_Saturates(t) == IF t = W - 1 THEN t ELSE t + 1

NextTick(t) == (t + 1) % W

\* timer_handler, at 100 Hz: far apart enough for an instruction in between.
TimerIrq ==
  /\ ran \/ delay = "hlt"
  /\ timer_ticks' = NextTick(timer_ticks)
  /\ IF delay = "none" THEN UNCHANGED <<elapsed, ran>>
     ELSE elapsed' = (IF elapsed = 2 * W THEN elapsed ELSE elapsed + 1) /\ ran' = FALSE
  /\ delay' = IF delay = "hlt" THEN "test" ELSE delay
  /\ UNCHANGED call

\* The keyboard's interrupt ends a hlt as well.
OtherIrq ==
  /\ delay = "hlt" /\ delay' = "test"
  /\ UNCHANGED <<timer_ticks, call, elapsed, ran>>

-----------------------------------------------------------------------------
SleepEnd(n) == (timer_ticks + n) % W

Begin(routine, n, from) ==
  /\ delay = "none" /\ delay' = "test"
  /\ call' = [routine |-> routine, n |-> n, from |-> from]
  /\ elapsed' = 0 /\ ran' = TRUE /\ UNCHANGED timer_ticks

\* The guard on the IDT, which the boot keeps quiet, is in Boot.
sleep(n) == Begin("sleep", n, SleepEnd(n))

xhci_wait_ticks(n) == Begin("wait", n, timer_ticks)

SleepGoesOn == timer_ticks < call.from

\* Fault: the end is computed in advance, as in sleep.
WaitGoesOn_End == timer_ticks < (call.from + call.n) % W

WaitGoesOn == (timer_ticks - call.from) % W < call.n

\* The test of the while loop.
Test ==
  /\ delay = "test" /\ ran' = TRUE
  /\ delay' = IF call.routine = "sleep"
              THEN IF SleepGoesOn THEN "halting" ELSE "done"
              ELSE IF WaitGoesOn THEN "test" ELSE "done"
  /\ UNCHANGED <<timer_ticks, call, elapsed>>

Halt ==
  /\ delay = "halting" /\ delay' = "hlt" /\ ran' = TRUE
  /\ UNCHANGED <<timer_ticks, call, elapsed>>

\* What the program does after a delay begins with its return.
Return ==
  /\ delay = "done" /\ delay' = "none"
  /\ call' = NoCall /\ elapsed' = 0 /\ ran' = TRUE
  /\ UNCHANGED timer_ticks

-----------------------------------------------------------------------------
(* Properties.                                                              *)

\* The counter when the call in progress began.
Began == (timer_ticks - elapsed) % W

\* A sleep does not end early, and sleeps through at most one tick more than
\* asked: the one that comes between its test and its hlt.  This holds as long
\* as the counter does not come to its end meanwhile: a sleep across it ends at
\* once, and one up to it may last a lap (lib.c, 204-210).
SleepLasts ==
  call.routine = "sleep" /\ elapsed < 2 * W =>
    /\ delay = "done" /\ Began + call.n < W => elapsed >= call.n
    /\ delay = "hlt" /\ Began + call.n < W - 1 => elapsed <= call.n

\* The driver's delays hold across the counter's end too: never early, and over
\* when they are due and the CPU looks (usb_kbd.c, 331-338).
WaitLasts ==
  call.routine = "wait" /\ elapsed < W =>
    /\ delay = "done" => elapsed >= call.n
    /\ delay = "test" => elapsed <= call.n + 1

\* Both kinds of delay last as long as asked, whatever the counter shows when
\* they begin.
DelaysLast == SleepLasts /\ WaitLasts

\* Type invariant of the counter and the delay on it.
Delay == [routine: {"sleep", "wait"}, n: 1..(W - 1), from: 0..(W - 1)]

TimerTypeOK ==
  /\ timer_ticks \in 0..(W - 1) /\ elapsed \in 0..(2 * W) /\ ran \in BOOLEAN
  /\ delay \in {"none", "test", "halting", "hlt", "done"}
  /\ IF delay = "none" THEN call = NoCall ELSE call \in Delay
  /\ delay \in {"halting", "hlt"} => call.routine = "sleep"

\* A tick the CPU has not answered yet is one of grace.
Grace == IF ran THEN 0 ELSE 1

\* Where a sleep is: its end is known, it tests at most a tick after that, and
\* goes to halt only before it.
SleepOnTime ==
  call.routine = "sleep" /\ elapsed < 2 * W =>
    /\ call.from = (Began + call.n) % W
    /\ delay = "done" /\ Began + call.n < W => elapsed >= call.n
    /\ Began + call.n < W - 1 =>
         /\ delay = "test" => elapsed <= call.n + Grace
         /\ delay = "halting" => elapsed < call.n + Grace
         /\ delay = "hlt" => elapsed <= call.n

\* Where a delay of the driver is.
WaitOnTime ==
  /\ call.routine = "wait" /\ elapsed < 2 * W => call.from = Began
  /\ call.routine = "wait" /\ elapsed < W =>
       /\ delay = "done" => elapsed >= call.n
       /\ delay = "test" => elapsed <= call.n + Grace

\* The inductive invariant behind DelaysLast.
DelayInv == TimerTypeOK /\ SleepOnTime /\ WaitOnTime

\* Every delay of the driver ends; a sleep ends too, unless it is due in the
\* last tick before the counter starts again, where each lap may miss it.
CallsReturn ==
  /\ (delay = "test" /\ call.routine = "wait") ~> delay = "done"
  /\ (delay = "test" /\ call.routine = "sleep" /\ call.from < W - 1) ~> delay = "done"
=============================================================================
