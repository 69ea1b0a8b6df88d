------------------------------ MODULE TrbRings ------------------------------
(***************************************************************************)
(* The two rings a ready keyboard lives on (src/src/usb_kbd.c): the        *)
(* interrupt transfer ring, filled by queue_keyboard_report through        *)
(* ep_push and emptied by the controller, and the event ring, filled by    *)
(* the controller and emptied by usb_kbd_poll.  Neither side tells the     *)
(* other how far it is: an entry is valid when its cycle bit is the one    *)
(* the reader expects, and both sides flip the bit at the end of the ring. *)
(* The transfer ring ends in a link TRB that the driver hands over only    *)
(* when it needs the slot after it; the event ring has none.               *)
(*                                                                         *)
(* The controller runs in parallel with the driver, so ep_push is seen     *)
(* here between its stores: the parameter first, the cycle bit last.  TRBs *)
(* are numbered in the order they are queued; the number stands for the    *)
(* parameter.  Reports are numbered as the keyboard sends them.            *)
(***************************************************************************)
EXTENDS Integers, Sequences, FiniteSets

CONSTANTS EpRingSize,     \* XHCI_EP_RING_SIZE, 64; the last slot is the link
          EventRingSize,  \* XHCI_EVENT_RING_SIZE, 256
          MaxReports,     \* bound: reports the keyboard sends
          MaxPortEvents   \* bound: port events, which share the event ring

ASSUME EpSizeAssumption    == EpRingSize \in Nat /\ EpRingSize >= 2
ASSUME EventSizeAssumption == EventRingSize \in Nat /\ EventRingSize >= 2
ASSUME BoundsAssumption    == MaxReports \in Nat /\ MaxPortEvents \in Nat

VARIABLES
  \* the driver
  intr_ring,       \* [trb, cycle] of each slot but the link
  intr_link,       \* cycle bit of the link TRB
  intr_enqueue, intr_cycle,
  intr_wait_trb,   \* slot whose completion the driver waits for, or NoTrb
  event_dequeue, event_cycle,
  keyboard_report, \* the buffer: number of a report, 0 when zeroed
  queued,          \* TRBs queued so far
  fed,             \* last report given to usb_kbd_feed_boot_report
  pc,              \* "start", "poll", or "push": inside ep_push
  \* the controller
  event_ring,      \* [trb, slot, cycle] of each slot; slot NoTrb: port event
  hwDequeue, hwCcs,      \* its place and cycle state in the transfer ring
  hwEnqueue, hwPcs,      \* its place and cycle state in the event ring
  sent, portEvents       \* reports and port events so far

epVars    == <<intr_ring, intr_link, intr_enqueue, intr_cycle>>
hwEpVars  == <<hwDequeue, hwCcs>>
hwEvVars  == <<event_ring, hwEnqueue, hwPcs>>
drvEvVars == <<event_dequeue, event_cycle>>
reportVars == <<keyboard_report, fed>>
vars == <<epVars, hwEpVars, hwEvVars, drvEvVars, reportVars, intr_wait_trb,
          queued, pc, sent, portEvents>>

LinkIndex  == EpRingSize - 1
EpSlots    == 0..(LinkIndex - 1)
EventSlots == 0..(EventRingSize - 1)
NoTrb      == -1

\* init_rings and prepare_configure_keyboard_endpoint: zeroed, cycle 1, and the
\* link TRB valid from the start.  The driver is at the event of the completed
\* Configure Endpoint command, the last of the enumeration, in slot k.
Init ==
  /\ intr_ring = [i \in EpSlots |-> [trb |-> 0, cycle |-> 0]]
  /\ intr_enqueue = 0 /\ intr_cycle = 1 /\ intr_link = 1
  /\ intr_wait_trb = NoTrb
  /\ \E k \in 0..(EventRingSize - 2) :
       /\ event_ring = [i \in EventSlots |->
            [trb |-> 0, slot |-> NoTrb, cycle |-> IF i <= k THEN 1 ELSE 0]]
       /\ event_dequeue = k /\ hwEnqueue = k + 1
  /\ event_cycle = 1 /\ hwPcs = 1
  /\ keyboard_report = 0 /\ fed = 0 /\ queued = 0 /\ pc = "start"
  /\ hwDequeue = 0 /\ hwCcs = 1
  /\ sent = 0 /\ portEvents = 0

-----------------------------------------------------------------------------
(* queue_keyboard_report.                                                   *)

\* Fault: the cycle state is not flipped at the link.
ep_push_parameter_KeepsCycle ==
  LET wraps == intr_enqueue >= LinkIndex
      slot  == IF wraps THEN 0 ELSE intr_enqueue
  IN  /\ intr_link' = IF wraps THEN intr_cycle ELSE intr_link
      /\ intr_enqueue' = slot
      /\ intr_ring' = [intr_ring EXCEPT ![slot].trb = queued + 1]
      /\ queued' = queued + 1 /\ UNCHANGED intr_cycle

\* Fault: the link is handed over with the cycle of the next lap.
ep_push_parameter_FlipsFirst ==
  LET wraps == intr_enqueue >= LinkIndex
      slot  == IF wraps THEN 0 ELSE intr_enqueue
  IN  /\ intr_link' = IF wraps THEN 1 - intr_cycle ELSE intr_link
      /\ intr_cycle' = IF wraps THEN 1 - intr_cycle ELSE intr_cycle
      /\ intr_enqueue' = slot
      /\ intr_ring' = [intr_ring EXCEPT ![slot].trb = queued + 1]
      /\ queued' = queued + 1

\* ep_push, first half: past the last slot hand over the link and start again,
\* then store the parameter.
ep_push_parameter ==
  LET wraps == intr_enqueue >= LinkIndex
      slot  == IF wraps THEN 0 ELSE intr_enqueue
  IN  /\ intr_link' = IF wraps THEN intr_cycle ELSE intr_link
      /\ intr_cycle' = IF wraps THEN 1 - intr_cycle ELSE intr_cycle
      /\ intr_enqueue' = slot
      /\ intr_ring' = [intr_ring EXCEPT ![slot].trb = queued + 1]
      /\ queued' = queued + 1

\* ep_push, second half: the cycle bit makes the TRB valid.
ep_push_control ==
  /\ intr_ring' = [intr_ring EXCEPT ![intr_enqueue].cycle = intr_cycle]
  /\ intr_enqueue' = intr_enqueue + 1
  /\ UNCHANGED <<intr_link, intr_cycle>>

\* zero_bytes(keyboard_report), then the first half of the push.
QueueReport ==
  /\ keyboard_report' = 0
  /\ ep_push_parameter
  /\ pc' = "push"

\* Configure Endpoint is complete: the first report is queued.
FirstReport ==
  /\ pc = "start"
  /\ QueueReport
  /\ UNCHANGED <<hwEpVars, hwEvVars, drvEvVars, fed, intr_wait_trb, sent, portEvents>>

-----------------------------------------------------------------------------
(* usb_kbd_poll.                                                            *)

\* Fault: the expected cycle bit stays the same around the ring.
AdvanceEvent_KeepsCycle ==
  LET next == event_dequeue + 1
  IN  /\ event_dequeue' = IF next >= EventRingSize THEN 0 ELSE next
      /\ UNCHANGED event_cycle

\* The end of an iteration: event_dequeue moves, and ERDP tells the controller.
AdvanceEvent ==
  LET next == event_dequeue + 1
  IN  /\ event_dequeue' = IF next >= EventRingSize THEN 0 ELSE next
      /\ event_cycle' = IF next >= EventRingSize THEN 1 - event_cycle
                                                 ELSE event_cycle

\* The push is done, the doorbell rings, and the iteration ends.
PushDone ==
  /\ pc = "push" /\ pc' = "poll"
  /\ ep_push_control
  /\ intr_wait_trb' = intr_enqueue
  /\ AdvanceEvent
  /\ UNCHANGED <<hwEpVars, hwEvVars, reportVars, queued, sent, portEvents>>

EventReady == event_ring[event_dequeue].cycle = event_cycle
HeadSlot   == event_ring[event_dequeue].slot

\* Fault: the next report is queued, and the buffer zeroed, before it is fed.
ReportDone_QueuesFirst ==
  /\ pc = "poll" /\ EventReady
  /\ intr_wait_trb # NoTrb /\ HeadSlot = intr_wait_trb
  /\ intr_wait_trb' = NoTrb
  /\ QueueReport
  /\ fed' = keyboard_report'
  /\ UNCHANGED <<hwEpVars, hwEvVars, drvEvVars, sent, portEvents>>

\* The completion of the awaited TRB: feed the report, then queue the next.
ReportDone ==
  /\ pc = "poll" /\ EventReady
  /\ intr_wait_trb # NoTrb /\ HeadSlot = intr_wait_trb
  /\ intr_wait_trb' = NoTrb
  /\ fed' = keyboard_report
  /\ QueueReport
  /\ UNCHANGED <<hwEpVars, hwEvVars, drvEvVars, sent, portEvents>>

\* Any other event: a port event, or a completion that matches nothing.
OtherEvent ==
  /\ pc = "poll" /\ EventReady
  /\ intr_wait_trb = NoTrb \/ HeadSlot # intr_wait_trb
  /\ AdvanceEvent
  /\ UNCHANGED <<epVars, hwEpVars, hwEvVars, reportVars, intr_wait_trb, queued,
                 pc, sent, portEvents>>

-----------------------------------------------------------------------------
(* The controller.                                                          *)

\* At the link: follow it when it was handed over, and flip the cycle state.
HwFollowLink ==
  /\ hwDequeue = LinkIndex /\ intr_link = hwCcs
  /\ hwDequeue' = 0 /\ hwCcs' = 1 - hwCcs
  /\ UNCHANGED <<epVars, hwEvVars, drvEvVars, reportVars, intr_wait_trb, queued,
                 pc, sent, portEvents>>

\* Room for an event: one slot is left free before ERDP.
EventRoom == (hwEnqueue + 1) % EventRingSize # event_dequeue

PostEvent(trb, slot) ==
  LET next == hwEnqueue + 1
  IN  /\ EventRoom
      /\ event_ring' = [event_ring EXCEPT
           ![hwEnqueue] = [trb |-> trb, slot |-> slot, cycle |-> hwPcs]]
      /\ hwEnqueue' = IF next >= EventRingSize THEN 0 ELSE next
      /\ hwPcs' = IF next >= EventRingSize THEN 1 - hwPcs ELSE hwPcs

TrbValid == hwDequeue < LinkIndex /\ intr_ring[hwDequeue].cycle = hwCcs

\* A valid TRB is executed: the keyboard's next report goes to the buffer, and
\* an event names the TRB.
HwReport ==
  /\ TrbValid /\ sent < MaxReports
  /\ PostEvent(intr_ring[hwDequeue].trb, hwDequeue)
  /\ sent' = sent + 1 /\ keyboard_report' = sent + 1
  /\ hwDequeue' = hwDequeue + 1
  /\ UNCHANGED <<epVars, hwCcs, drvEvVars, fed, intr_wait_trb, queued, pc,
                 portEvents>>

HwPortEvent ==
  /\ portEvents < MaxPortEvents
  /\ portEvents' = portEvents + 1
  /\ PostEvent(0, NoTrb)
  /\ UNCHANGED <<epVars, hwEpVars, drvEvVars, reportVars, intr_wait_trb, queued,
                 pc, sent>>

-----------------------------------------------------------------------------
DriverStep == FirstReport \/ PushDone \/ ReportDone \/ OtherEvent
HwStep     == HwFollowLink \/ HwReport \/ HwPortEvent
Next       == DriverStep \/ HwStep

\* The main loop always polls again, and the controller follows a valid link.
\* The keyboard owes no report and the port no event.
Fairness == WF_vars(DriverStep) /\ WF_vars(HwFollowLink)
Spec     == Init /\ [][Next]_vars
LiveSpec == Spec /\ Fairness

-----------------------------------------------------------------------------
(* The rings as queues.                                                     *)

\* Entries of the transfer ring between the controller and the driver.  With
\* the cycle states apart the driver is in the next lap, or the controller
\* followed the link before the driver did.
HwAhead == hwCcs # intr_cycle /\ hwDequeue = 0 /\ intr_enqueue = LinkIndex

EpCount == IF hwCcs = intr_cycle THEN intr_enqueue - hwDequeue
           ELSE IF HwAhead THEN 0
           ELSE LinkIndex - hwDequeue + intr_enqueue

EpPending ==
  [n \in 1..EpCount |-> intr_ring[(hwDequeue + n - 1) % LinkIndex].trb]

\* Events posted and not yet handled; the one in hand during a push is not.
EventCount ==
  (IF hwPcs = event_cycle THEN hwEnqueue - event_dequeue
   ELSE EventRingSize - event_dequeue + hwEnqueue)

InHand == IF pc = "poll" THEN 0 ELSE 1

EventAt(n) == event_ring[(event_dequeue + n - 1 + InHand) % EventRingSize]

EventPending ==
  [n \in 1..(EventCount - InHand) |-> [trb |-> EventAt(n).trb, slot |-> EventAt(n).slot]]

EpQueue    == INSTANCE TrbQueue WITH q <- EpPending, Bound <- 1
EventQueue == INSTANCE TrbQueue WITH q <- EventPending, Bound <- EventRingSize - 1

\* Whatever the places of the two sides, the transfer ring is a queue of at most
\* one TRB: the controller never runs a TRB of an earlier lap, one half written,
\* or one twice, and no TRB is overwritten before it ran.
TransferRingIsQueue == EpQueue!QSpec

\* The event ring is a queue: usb_kbd_poll handles every event once, in order,
\* and takes no event of an earlier lap for a new one.
EventRingIsQueue == EventQueue!QSpec

-----------------------------------------------------------------------------
(* Properties.                                                              *)
TypeOK ==
  /\ intr_ring \in [EpSlots -> [trb : Nat, cycle : 0..1]]
  /\ intr_link \in 0..1 /\ intr_enqueue \in 0..LinkIndex /\ intr_cycle \in 0..1
  /\ intr_wait_trb \in EpSlots \cup {NoTrb}
  /\ event_ring \in [EventSlots -> [trb : Nat, slot : EpSlots \cup {NoTrb}, cycle : 0..1]]
  /\ event_dequeue \in EventSlots /\ event_cycle \in 0..1
  /\ hwDequeue \in 0..LinkIndex /\ hwCcs \in 0..1
  /\ hwEnqueue \in EventSlots /\ hwPcs \in 0..1
  /\ keyboard_report \in Nat /\ queued \in Nat /\ fed \in Nat /\ sent \in Nat
  /\ pc \in {"start", "poll", "push"} /\ portEvents \in Nat

\* The address that usb_kbd_poll compares is enough: the completion it takes for
\* its own is that of the TRB queued last, not one of an earlier lap in the
\* same slot.
MatchIsOwn ==
  pc = "poll" /\ EventReady /\ HeadSlot # NoTrb
     => HeadSlot = intr_wait_trb /\ event_ring[event_dequeue].trb = queued

\* The keyboard is never silenced: again and again the controller finds a TRB
\* to put a report in, also past the link and around both rings.
AlwaysRearmed == []<>TrbValid

-----------------------------------------------------------------------------
(* The invariant behind the queues.                                         *)

\* An entry of the event ring that is posted and not yet passed.
Posted(i) ==
  IF hwPcs = event_cycle THEN event_dequeue <= i /\ i < hwEnqueue
                         ELSE event_dequeue <= i \/ i < hwEnqueue

PostedReport(i) == Posted(i) /\ event_ring[i].slot # NoTrb

\* Neither side is more than a lap ahead, and the cycle bits tell so.
EpPlaces ==
  /\ IF hwCcs = intr_cycle THEN hwDequeue <= intr_enqueue
     ELSE HwAhead \/ intr_enqueue <= hwDequeue
  /\ \A i \in EpSlots : intr_ring[i].cycle =
       IF i < intr_enqueue THEN intr_cycle ELSE 1 - intr_cycle

EventPlaces ==
  /\ IF hwPcs = event_cycle THEN event_dequeue <= hwEnqueue
                            ELSE hwEnqueue < event_dequeue
  /\ \A i \in EventSlots : event_ring[i].cycle =
       IF i < hwEnqueue THEN hwPcs ELSE 1 - hwPcs

\* One report at a time: a TRB the controller may run, or the event of the last
\* one, or the driver between the two.
OneReportInv ==
  /\ EpCount \in 0..1
  /\ pc # "poll" => /\ EpCount = 0 /\ Posted(event_dequeue)
                    /\ \A i \in EventSlots : PostedReport(i) => i = event_dequeue
  /\ pc = "push" => intr_enqueue < LinkIndex
  /\ \A i, j \in EventSlots : PostedReport(i) /\ PostedReport(j) => i = j
  /\ EpCount = 1 => \A i \in EventSlots : ~PostedReport(i)

RingInv == TypeOK /\ EpPlaces /\ EventPlaces /\ OneReportInv

\* The one buffer is enough: the last report given to the decoder is the last
\* one sent, but for one whose event is posted.  None is lost, fed twice, fed
\* after the buffer was zeroed, or overwritten before it was fed; and a completion
\* is never taken for another's (usb_kbd.c, 1490-1507).
FedInOrder ==
  LET waiting == {i \in EventSlots : /\ PostedReport(i)
                                     /\ pc = "push" => i # event_dequeue}
  IN  fed + Cardinality(waiting) = sent /\ MatchIsOwn
-----------------------------------------------------------------------------
(* The invariant behind FedInOrder.                                         *)

\* A report waits for the driver; the event in hand during a push does not.
ReportWaits ==
  \E i \in EventSlots : PostedReport(i) /\ (pc = "push" => i # event_dequeue)

\* The TRB under way is the one queued last: half written, awaited in the ring,
\* or named by the event that is posted; and its report is the last one sent.
FedInv ==
  /\ sent = IF ReportWaits THEN fed + 1 ELSE fed
  /\ ReportWaits => keyboard_report = sent
  /\ pc = "start" => \A i \in EventSlots : ~PostedReport(i)
  /\ pc = "push" => intr_ring[intr_enqueue].trb = queued
  /\ pc = "poll" /\ EpCount = 1 =>
       /\ intr_enqueue >= 1 /\ intr_wait_trb = intr_enqueue - 1
       /\ intr_ring[intr_wait_trb].trb = queued
  /\ pc = "poll" =>
       \A i \in EventSlots : PostedReport(i) =>
         event_ring[i].slot = intr_wait_trb /\ event_ring[i].trb = queued
=============================================================================
