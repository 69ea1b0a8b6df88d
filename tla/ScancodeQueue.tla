--------------------------- MODULE ScancodeQueue ---------------------------
(***************************************************************************)
(* The PS/2 path of MyceliumOS: the ring fila_scancodes of src/src/kbd.c,  *)
(* filled by the keyboard interrupt and emptied by the main loop of        *)
(* kernel_main.                                                            *)
(*                                                                         *)
(* One CPU, two contexts.  The interrupt handler teclado runs with         *)
(* interrupts off, so the main loop never sees it half done; the main loop *)
(* runs with interrupts on and may be suspended between any two of its     *)
(* accesses to the 8042 ports or to the volatile indices.  Each such       *)
(* access is a step of its own here.  The main loop is also a PRODUCER:    *)
(* teclado_poll calls teclado_drenar_controlador before it empties the     *)
(* ring.                                                                   *)
(*                                                                         *)
(* The 8042 is external: one output buffer, an IRQ 1 edge per keyboard     *)
(* byte (the mouse's raise IRQ 12, which reprogramar_pic masks), and a     *)
(* data port that repeats the last byte when the buffer is empty.  Bytes   *)
(* are numbered 1..NBytes in the order the controller presents them; 0 is  *)
(* the initial content of the ring and of the data port.                   *)
(***************************************************************************)
EXTENDS Naturals, Sequences, FiniteSets

CONSTANTS QSize,      \* 64: slots of fila_scancodes
          DrainMax,   \* 16: bytes one call of teclado_drenar_controlador may take
          NBytes,     \* bound: bytes the user's devices send
          AuxBytes    \* the bytes that carry the mouse bit of the status port

ASSUME QSizeAssumption == QSize \in Nat /\ QSize >= 2
ASSUME DrainAssumption == DrainMax \in Nat /\ DrainMax >= 1
ASSUME BytesAssumption == NBytes \in Nat /\ AuxBytes \subseteq 1..NBytes

VARIABLES
  fila_scancodes, fila_inicio, fila_fim, ps2_keyboard_enabled,
  obf,         \* status bit OUTPUT_FULL of the 8042
  data,        \* what a read of port 0x60 returns
  irq1,        \* a latched IRQ 1 edge not yet delivered
  isr,         \* iterations left of a running teclado(), or Idle
  pc,          \* where the main loop is
  i,           \* iterations left of the main loop's drain
  aux,         \* main's copy of the mouse bit
  sc,          \* main's scancode
  prox,        \* main's local of enfileirar
  input_mode,  \* kernel_main's choice: "auto", "usb-native" or "legacy"
  usb_fallback_done, auto_usb_selected,   \* kernel_main's once-only flags
  dispatched,  \* history: the arguments of processar_set1, in order
  dropped,     \* history: bytes refused by a full ring, or from the mouse
  flushed,     \* history: bytes emptied out of the ring, or read while disabled
  raced        \* history: the ISR took a byte while main was mid-iteration

queueVars == <<fila_scancodes, fila_inicio, fila_fim>>
kbcVars   == <<obf, data, irq1>>
mainVars  == <<pc, i, aux, sc, prox>>
switches  == <<input_mode, usb_fallback_done, auto_usb_selected>>
usbVars   == <<ps2_keyboard_enabled, switches>>
history   == <<dispatched, dropped, flushed, raced>>
vars      == <<queueVars, kbcVars, isr, mainVars, usbVars, history>>

Idle  == DrainMax + 1
Slots == 0..(QSize - 1)
Bytes == 0..NBytes

Next1(k) == (k + 1) % QSize

\* The slots from fila_inicio up to, not including, fila_fim.
Occupied ==
  {k \in Slots : IF fila_inicio <= fila_fim
                 THEN fila_inicio <= k /\ k < fila_fim
                 ELSE fila_inicio <= k \/ k < fila_fim}

InQueue == {fila_scancodes[k] : k \in Occupied}

\* After sti.  usb-native booted with teclado_set_ps2_enabled(0), the other
\* modes with teclado_init or teclado_init_legacy: empty, nothing latched.
Init ==
  /\ fila_scancodes = [k \in Slots |-> 0]
  /\ fila_inicio = 0 /\ fila_fim = 0
  /\ input_mode \in {"auto", "usb-native", "legacy"}
  /\ ps2_keyboard_enabled = (input_mode # "usb-native")
  /\ obf = FALSE /\ data = 0 /\ irq1 = FALSE
  /\ isr = Idle
  /\ pc = "top" /\ i = 0 /\ aux = FALSE /\ sc = 0 /\ prox = 0
  /\ usb_fallback_done = FALSE /\ auto_usb_selected = FALSE
  /\ dispatched = << >> /\ dropped = {} /\ flushed = {} /\ raced = FALSE

-----------------------------------------------------------------------------
(* The 8042: the next byte appears once the last one was read.  A mouse     *)
(* byte waits for whoever reads the port next.                              *)
KbcPresent ==
  /\ ~obf /\ data < NBytes
  /\ obf' = TRUE /\ data' = data + 1
  /\ irq1' = (irq1 \/ data' \notin AuxBytes)
  /\ UNCHANGED <<queueVars, isr, mainVars, usbVars, history>>

-----------------------------------------------------------------------------
(* The interrupt context.                                                   *)

\* The CPU takes IRQ 1; an hlt of the main loop ends with it.
IsrEnter ==
  /\ irq1 /\ isr = Idle
  /\ irq1' = FALSE /\ isr' = DrainMax
  /\ pc' = IF pc = "hlt" THEN "top" ELSE pc
  /\ UNCHANGED <<queueVars, obf, data, i, aux, sc, prox, usbVars, history>>

\* Fault: no test for a full ring.
EnqueueAtomic_NoFullTest(b) ==
  /\ fila_scancodes' = [fila_scancodes EXCEPT ![fila_fim] = b]
  /\ fila_fim' = Next1(fila_fim)
  /\ UNCHANGED <<fila_inicio, dropped>>

\* enfileirar without interruption: a full ring drops the byte.
EnqueueAtomic(b) ==
  IF Next1(fila_fim) = fila_inicio
  THEN /\ dropped' = dropped \cup {b}
       /\ UNCHANGED queueVars
  ELSE /\ fila_scancodes' = [fila_scancodes EXCEPT ![fila_fim] = b]
       /\ fila_fim' = Next1(fila_fim)
       /\ UNCHANGED <<fila_inicio, dropped>>

\* The main loop is between its status read and the publication of fila_fim.
MainMidDrain == pc \in {"data", "check", "write", "publish"}

\* Fault: a disabled PS/2 keyboard leaves its byte in the controller.
IsrIteration_LeavesByte ==
  /\ isr \in 1..DrainMax /\ obf
  /\ obf' = ~ps2_keyboard_enabled /\ isr' = isr - 1
  /\ IF ps2_keyboard_enabled /\ data \notin AuxBytes
     THEN EnqueueAtomic(data)
     ELSE UNCHANGED <<queueVars, dropped>>
  /\ raced' = (raced \/ MainMidDrain)
  /\ UNCHANGED <<data, irq1, mainVars, usbVars, dispatched, flushed>>

\* One iteration of the drain (or of the discard loop) inside teclado().
IsrIteration ==
  /\ isr \in 1..DrainMax /\ obf
  /\ obf' = FALSE /\ isr' = isr - 1
  /\ IF ps2_keyboard_enabled /\ data \notin AuxBytes
     THEN EnqueueAtomic(data)
     ELSE UNCHANGED queueVars /\ dropped' = dropped \cup {data}
  /\ flushed' = IF ps2_keyboard_enabled THEN flushed ELSE flushed \cup {data}
  /\ raced' = (raced \/ MainMidDrain)
  /\ UNCHANGED <<data, irq1, mainVars, usbVars, dispatched>>

\* Nothing to read, or DrainMax bytes taken: EOI and iret.
IsrExit ==
  /\ isr = 0 \/ (isr \in 1..DrainMax /\ ~obf)
  /\ isr' = Idle
  /\ UNCHANGED <<queueVars, kbcVars, mainVars, usbVars, history>>

\* Fault: the tick does not bring the main loop out of its hlt.
TimerInterrupt_StaysHalted ==
  /\ isr = Idle /\ pc = "hlt"
  /\ UNCHANGED vars

\* IRQ 0, 100 times a second: for this component it only ends an hlt.
TimerInterrupt ==
  /\ isr = Idle /\ pc = "hlt"
  /\ pc' = "top"
  /\ UNCHANGED <<queueVars, kbcVars, isr, i, aux, sc, prox, usbVars, history>>

-----------------------------------------------------------------------------
(* The main loop: runs while no interrupt handler does.                     *)
Main(from, to) == isr = Idle /\ pc = from /\ pc' = to

\* usb_kbd_has_failed() became true: teclado_init_legacy, once.  The USB driver
\* runs in two of the modes, and never fails after it was ready (XhciKbd).
LegacyEnable ==
  /\ Main("top", "legacy1")
  /\ input_mode # "legacy" /\ ~usb_fallback_done /\ ~auto_usb_selected
  /\ usb_fallback_done' = TRUE /\ ps2_keyboard_enabled' = TRUE
  /\ UNCHANGED <<queueVars, kbcVars, isr, i, aux, sc, prox,
                 input_mode, auto_usb_selected, history>>

LegacyStart ==
  /\ Main("legacy1", "legacy2")
  /\ fila_inicio' = 0
  /\ flushed' = flushed \cup InQueue
  /\ UNCHANGED <<fila_scancodes, fila_fim, kbcVars, isr, i, aux, sc, prox,
                 usbVars, dispatched, dropped, raced>>

\* Fault: only one of the two indices is reset.
LegacyEnd_KeepsFim ==
  /\ Main("legacy2", "poll")
  /\ flushed' = flushed \cup InQueue
  /\ UNCHANGED <<queueVars, kbcVars, isr, i, aux, sc, prox,
                 usbVars, dispatched, dropped, raced>>

LegacyEnd ==
  /\ Main("legacy2", "poll")
  /\ fila_fim' = 0
  /\ flushed' = flushed \cup InQueue
  /\ UNCHANGED <<fila_scancodes, fila_inicio, kbcVars, isr, i, aux, sc, prox,
                 usbVars, dispatched, dropped, raced>>

\* usb_kbd_is_ready() became true in automatic mode:
\* teclado_set_ps2_enabled(0), once.
SelectUsb ==
  /\ Main("top", "off1")
  /\ input_mode = "auto" /\ ~auto_usb_selected /\ ~usb_fallback_done
  /\ auto_usb_selected' = TRUE /\ ps2_keyboard_enabled' = FALSE
  /\ UNCHANGED <<queueVars, kbcVars, isr, i, aux, sc, prox,
                 input_mode, usb_fallback_done, history>>

FlushStart ==
  /\ Main("off1", "off2")
  /\ fila_inicio' = 0
  /\ flushed' = flushed \cup InQueue
  /\ UNCHANGED <<fila_scancodes, fila_fim, kbcVars, isr, i, aux, sc, prox,
                 usbVars, dispatched, dropped, raced>>

FlushEnd ==
  /\ Main("off2", "poll")
  /\ fila_fim' = 0
  /\ UNCHANGED <<fila_scancodes, fila_inicio, kbcVars, isr, i, aux, sc, prox,
                 usbVars, history>>

\* Neither flag changes this turn.
GoPoll ==
  /\ Main("top", "poll")
  /\ UNCHANGED <<queueVars, kbcVars, isr, i, aux, sc, prox, usbVars, history>>

\* teclado_poll: return at once while PS/2 is disabled.
PollDisabled ==
  /\ Main("poll", "idle") /\ ~ps2_keyboard_enabled
  /\ UNCHANGED <<queueVars, kbcVars, isr, i, aux, sc, prox, usbVars, history>>

PollEnabled ==
  /\ Main("poll", "status") /\ ps2_keyboard_enabled
  /\ i' = DrainMax
  /\ UNCHANGED <<queueVars, kbcVars, isr, aux, sc, prox, usbVars, history>>

\* Read the status port; the mouse bit belongs to the byte seen NOW.
DrainStatus ==
  /\ Main("status", IF i > 0 /\ obf THEN "data" ELSE "dequeue")
  /\ aux' = (obf /\ data \in AuxBytes)
  /\ UNCHANGED <<queueVars, kbcVars, isr, i, sc, prox, usbVars, history>>

\* Read the data port, whatever it holds by now.
DrainData ==
  /\ Main("data", IF aux THEN "status" ELSE "check")
  /\ sc' = data /\ obf' = FALSE
  /\ i' = i - 1
  /\ dropped' = IF aux THEN dropped \cup {data} ELSE dropped
  /\ UNCHANGED <<queueVars, data, irq1, isr, aux, prox, usbVars,
                 dispatched, flushed, raced>>

\* enfileirar, first half: prox from fila_fim, then the full test.
EnqCheck ==
  /\ Main("check", IF Next1(fila_fim) = fila_inicio THEN "status" ELSE "write")
  /\ prox' = Next1(fila_fim)
  /\ dropped' = IF prox' = fila_inicio THEN dropped \cup {sc} ELSE dropped
  /\ UNCHANGED <<queueVars, kbcVars, isr, i, aux, sc, usbVars,
                 dispatched, flushed, raced>>

\* fila_fim is read again for the store, prox is not recomputed.
EnqWrite ==
  /\ Main("write", "publish")
  /\ fila_scancodes' = [fila_scancodes EXCEPT ![fila_fim] = sc]
  /\ UNCHANGED <<fila_inicio, fila_fim, kbcVars, isr, i, aux, sc, prox,
                 usbVars, history>>

\* Fault: the new index is computed again instead of taken from prox.
EnqPublish_Recomputed ==
  /\ Main("publish", "status")
  /\ fila_fim' = Next1(fila_fim)
  /\ UNCHANGED <<fila_scancodes, fila_inicio, kbcVars, isr, i, aux, sc, prox,
                 usbVars, history>>

EnqPublish ==
  /\ Main("publish", "status")
  /\ fila_fim' = prox
  /\ UNCHANGED <<fila_scancodes, fila_inicio, kbcVars, isr, i, aux, sc, prox,
                 usbVars, history>>

\* while (desenfileirar(&sc)): the emptiness test.
DeqCheck ==
  /\ Main("dequeue", IF fila_inicio = fila_fim THEN "idle" ELSE "take")
  /\ UNCHANGED <<queueVars, kbcVars, isr, i, aux, sc, prox, usbVars, history>>

\* Read the slot, advance fila_inicio, call processar_set1.
DeqTake ==
  /\ Main("take", "dequeue")
  /\ sc' = fila_scancodes[fila_inicio]
  /\ fila_inicio' = Next1(fila_inicio)
  /\ dispatched' = Append(dispatched, sc')
  /\ UNCHANGED <<fila_scancodes, fila_fim, kbcVars, isr, i, aux, prox,
                 usbVars, dropped, flushed, raced>>

\* pause while the USB keyboard is ready, hlt otherwise.
Pause ==
  /\ Main("idle", "top")
  /\ auto_usb_selected \/ (input_mode = "usb-native" /\ ~usb_fallback_done)
  /\ UNCHANGED <<queueVars, kbcVars, isr, i, aux, sc, prox, usbVars, history>>

Halt ==
  /\ Main("idle", "hlt")
  /\ UNCHANGED <<queueVars, kbcVars, isr, i, aux, sc, prox, usbVars, history>>

-----------------------------------------------------------------------------
IsrStep == IsrEnter \/ IsrIteration \/ IsrExit

\* usb_kbd_poll and the two switches at the top of the loop.
TopStep ==
  \/ LegacyEnable \/ LegacyStart \/ LegacyEnd
  \/ SelectUsb \/ FlushStart \/ FlushEnd \/ GoPoll

PollStep ==
  \/ PollDisabled \/ PollEnabled
  \/ DrainStatus \/ DrainData \/ EnqCheck \/ EnqWrite \/ EnqPublish
  \/ DeqCheck \/ DeqTake

IdleStep == Pause \/ Halt

MainStep == TopStep \/ PollStep \/ IdleStep

Next == KbcPresent \/ IsrStep \/ TimerInterrupt \/ MainStep

(* The CPU keeps executing, a latched interrupt is delivered once the       *)
(* handler before it returned, and the PIT keeps ticking.  Nothing is asked *)
(* of the user: KbcPresent has no fairness.                                 *)
Fairness ==
  /\ WF_vars(IsrStep)
  /\ WF_vars(TimerInterrupt)
  /\ WF_vars(MainStep)

Spec == Init /\ [][Next]_vars
FairSpec == Spec /\ Fairness

-----------------------------------------------------------------------------
(* Properties.                                                              *)

MainPcs == {"top", "legacy1", "legacy2", "off1", "off2", "poll", "status",
            "data", "check", "write", "publish", "dequeue", "take", "idle",
            "hlt"}

(* The indices stay inside the ring and every local holds a value of its    *)
(* type, under any interleaving of the two producers (kbd.c 254-266).       *)
TypeOK ==
  /\ fila_scancodes \in [Slots -> Bytes]
  /\ fila_inicio \in Slots /\ fila_fim \in Slots /\ prox \in Slots
  /\ ps2_keyboard_enabled \in BOOLEAN
  /\ obf \in BOOLEAN /\ data \in Bytes /\ irq1 \in BOOLEAN
  /\ isr \in 0..Idle
  /\ pc \in MainPcs /\ i \in 0..DrainMax /\ (pc = "data" => i # 0) /\ aux \in BOOLEAN /\ sc \in Bytes
  /\ input_mode \in {"auto", "usb-native", "legacy"}
  /\ usb_fallback_done \in BOOLEAN /\ auto_usb_selected \in BOOLEAN
  /\ dispatched \in Seq(Bytes)
  /\ dropped \subseteq Bytes /\ flushed \subseteq Bytes /\ raced \in BOOLEAN

(* What main holds of a byte it took from the controller and has not        *)
(* published yet.                                                           *)
InHand == IF pc \in {"check", "write", "publish"} THEN <<sc>> ELSE << >>

Queued ==
  [n \in 1..Cardinality(Occupied) |->
     fila_scancodes[(fila_inicio + n - 1) % QSize]]

Switching == pc \in {"legacy2", "off2"}   \* fila_inicio reset, fila_fim not yet

Increasing(s) == \A m, n \in DOMAIN s : m < n => s[m] < s[n]

(* Garbage: whatever the two producers do to each other, the main loop      *)
(* never hands processar_set1 a slot nobody wrote (0 is never a byte the    *)
(* controller sent).                                                        *)
NoGhostScancode == \A n \in DOMAIN dispatched : dispatched[n] # 0

(* Every byte read is somewhere: handled, waiting, in main's hand, refused  *)
(* by a full ring (or the mouse's), or flushed by a switch.                 *)
NothingLost ==
  \A b \in 1..data :
    \/ (b = data /\ obf)
    \/ \E s \in {dispatched, Queued, InHand} : \E n \in DOMAIN s : s[n] = b
    \/ b \in dropped \cup flushed

(* The ring is a FIFO of all the bytes the controller presented, without    *)
(* the mouse's, as long as the interrupt never took a byte while the main   *)
(* loop was between reading the status port and publishing fila_fim (kbd.c  *)
(* 269-277): then the comments at kbd.c 439 and 453, where the interrupt    *)
(* alone fills the ring and the main loop empties it, are wrong.            *)
FifoUnlessRaced ==
  ~raced /\ ~Switching =>
    /\ Increasing(dispatched \o Queued \o InHand)
    /\ \A n \in DOMAIN dispatched : dispatched[n] \notin AuxBytes
    /\ NothingLost

(* A stale read of the data port can repeat a byte, but no interleaving of  *)
(* the two producers, of a flush and of a lap of the ring makes one byte    *)
(* reach processar_set1 three times.                                        *)
AtMostTwice ==
  \A b \in 1..NBytes :
    Cardinality({n \in DOMAIN dispatched : dispatched[n] = b}) <= 2

(* What teclado_init_legacy and teclado_set_ps2_enabled empty out of the    *)
(* ring, and what the handler reads while PS/2 is disabled, is never        *)
(* dispatched afterwards.                                                   *)
FlushedNeverDispatched ==
  [][dispatched' # dispatched => dispatched'[Len(dispatched')] \notin flushed]_vars

(* The 8042 never wedges: a keyboard byte is read whether PS/2 is enabled   *)
(* or not, and a mouse byte, for which no interrupt comes, as long as       *)
(* teclado_poll still looks at the port.                                    *)
EveryByteRead ==
  /\ (obf /\ data \notin AuxBytes) ~> ~obf
  /\ (obf /\ ps2_keyboard_enabled) ~> (~obf \/ ~ps2_keyboard_enabled)

(* Whatever the handler queues is handled or flushed in the end, also when  *)
(* it arrives between the main loop's emptiness test and its hlt, or while  *)
(* PS/2 is being switched off.                                              *)
QueueIsEmptied == (fila_inicio # fila_fim) ~> (fila_inicio = fila_fim)

(* The slots below an index f that is or will be published hold nothing of  *)
(* bad, and no slot does once f has wrapped below fila_inicio.              *)
Clear(slots, inicio, f, bad) ==
  /\ \A k \in Slots : k < f => slots[k] \notin bad
  /\ f < inicio => \A k \in Slots : slots[k] \notin bad

Written(slots, inicio, f) == Clear(slots, inicio, f, {0})

(* Strengthening of NoGhostScancode: every slot below an index that is or   *)
(* will be published was written.                                           *)
GhostInv ==
  /\ Written(fila_scancodes, fila_inicio, fila_fim)
  /\ pc = "write" => \/ prox = Next1(fila_fim)
                     \/ Written(fila_scancodes, fila_inicio, prox)
  /\ pc = "publish" => Written(fila_scancodes, fila_inicio, prox)
  /\ pc = "take" => fila_inicio # fila_fim
  /\ Switching => fila_inicio = 0
  /\ obf \/ pc = "data" => data # 0
  /\ pc \in {"check", "write", "publish"} => sc # 0
  /\ NoGhostScancode

(* Why nothing flushed comes back: what lies below an index that is or will *)
(* be published was queued after the last flush, and a byte still in the    *)
(* controller is in no slot.                                                *)
Fresh(slots, inicio, f) == Clear(slots, inicio, f, flushed)

Polling == {"status", "data", "check", "write", "publish", "dequeue", "take"}

FreshInv ==
  /\ ~Switching => Fresh(fila_scancodes, fila_inicio, fila_fim)
  /\ pc = "write" => \/ prox = Next1(fila_fim)
                     \/ Fresh(fila_scancodes, fila_inicio, prox)
  /\ pc = "publish" => Fresh(fila_scancodes, fila_inicio, prox)
  /\ flushed \subseteq 0..data
  /\ obf \/ pc = "data" => data \notin flushed
  /\ pc \in {"check", "write", "publish"} =>
       sc \notin flushed /\ sc <= data /\ (obf => sc # data)
  /\ \A k \in Slots : fila_scancodes[k] <= data /\ (obf => fila_scancodes[k] # data)
  /\ pc \in Polling => ps2_keyboard_enabled

(* How far a slot is from the oldest one.                                   *)
Rank(k) == IF fila_inicio <= k THEN k - fila_inicio ELSE QSize - fila_inicio + k

Handled == {dispatched[n] : n \in DOMAIN dispatched}

Holding == pc \in {"check", "write", "publish"}

(* Older bytes are further ahead: handled, then queued by rank, then in     *)
(* main's hand.                                                             *)
InOrder ==
  /\ \A k \in Occupied :
       /\ fila_scancodes[k] \notin AuxBytes
       /\ \A n \in DOMAIN dispatched : dispatched[n] < fila_scancodes[k]
       /\ \A l \in Occupied : Rank(k) < Rank(l) => fila_scancodes[k] < fila_scancodes[l]
  /\ Holding => /\ \A k \in Occupied : fila_scancodes[k] < sc
                /\ \A n \in DOMAIN dispatched : dispatched[n] < sc

(* Where every byte is, also while a switch resets the indices: what the    *)
(* ring holds then is flushed already, or will be by teclado_init_legacy.   *)
Accounted(b) ==
  \/ b = data /\ obf
  \/ b \in Handled
  \/ b \in InQueue /\ pc # "off2"
  \/ b = sc /\ Holding
  \/ b \in dropped \cup flushed

(* What was handled came in order, and no byte of the mouse's.              *)
HandledInOrder ==
  /\ \A n \in DOMAIN dispatched :
       dispatched[n] <= data /\ (obf => dispatched[n] # data) /\ dispatched[n] \notin AuxBytes
  /\ Increasing(dispatched)

(* Main's copies of the status and of fila_fim are not stale.               *)
MainInStep ==
  /\ pc = "data" => obf /\ (aux <=> data \in AuxBytes)
  /\ Holding => sc \notin AuxBytes
  /\ pc \in {"write", "publish"} => prox = Next1(fila_fim) /\ prox # fila_inicio
  /\ pc = "publish" => fila_scancodes[fila_fim] = sc
  /\ pc \in {"off1", "off2"} => ~ps2_keyboard_enabled

(* Strengthening of FifoUnlessRaced.                                        *)
OrderInv ==
  ~raced =>
    /\ HandledInOrder /\ MainInStep /\ (~Switching => InOrder)
    /\ \A b \in 1..data : Accounted(b)

(* The places that hold a byte: its turns at processar_set1, its slots of   *)
(* the ring, and main's hand.                                               *)
Places ==
  {<<"handled", n>> : n \in DOMAIN dispatched}
    \cup {<<"queued", k>> : k \in IF Switching THEN {} ELSE Occupied}
    \cup {<<"held", n>> : n \in IF Holding THEN {0} ELSE {}}

ByteAt(p) ==
  CASE p[1] = "handled" -> dispatched[p[2]]
    [] p[1] = "queued"  -> fila_scancodes[p[2]]
    [] p[1] = "held"    -> sc

NeverThrice ==
  \A p, q, r \in Places :
    ByteAt(p) = ByteAt(q) /\ ByteAt(q) = ByteAt(r) => p = q \/ q = r \/ p = r

AtMostOnePlace(b) == \A p, q \in Places : ByteAt(p) = b /\ ByteAt(q) = b => p = q

PlacesSeen == \A p \in Places : ByteAt(p) <= data /\ (obf => ByteAt(p) # data)

(* A copy of fila_fim that is not the next index takes bytes out of the     *)
(* ring, never in.                                                          *)
ProxInRing ==
  /\ pc \in {"write", "publish"} =>
       Rank(prox) <= Rank(fila_fim) \/ (prox = Next1(fila_fim) /\ prox # fila_inicio)
  /\ pc = "publish" =>
       Rank(prox) <= Rank(fila_fim) \/ fila_scancodes[fila_fim] = sc

(* Strengthening of AtMostTwice: the one byte main may still read again is  *)
(* in one place at most.                                                    *)
TwiceInv ==
  /\ NeverThrice
  /\ pc = "data" => AtMostOnePlace(data)
  /\ PlacesSeen
  /\ ProxInRing
=============================================================================
