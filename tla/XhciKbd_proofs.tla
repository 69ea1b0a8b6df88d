--------------------------- MODULE XhciKbd_proofs ---------------------------
(***************************************************************************)
(* The verdict of the xHCI keyboard driver is final, and its bookkeeping   *)
(* agrees with the controller: for every number of ports and slots, every  *)
(* command ring size, every kind and number of faults; alone, and in the   *)
(* composition with kernel_main.                                           *)
(***************************************************************************)
EXTENDS InputManager, SequenceTheorems, FiniteSetTheorems, TLAPS

(* No step takes a failure back.                                            *)
LEMMA FailedStays == [Next]_vars => (transport_failed => transport_failed')
<1> SUFFICES ASSUME [Next]_vars, transport_failed PROVE transport_failed'
  OBVIOUS
<1> USE DEF transVars, drvVars
<1>1. CASE InitFails \/ InitResetsFirstPort \/ InitNoPort \/ PollEnter \/ PollExit
  BY <1>1 DEF InitFails, InitResetsFirstPort, InitNoPort, PollEnter, PollExit
<1>2. CASE CommandDeadEnd \/ SlotEnabled \/ EndpointConfigured
           \/ SlotDisabled
  BY <1>2 DEF CommandDeadEnd, SlotEnabled, EndpointConfigured,
     SlotDisabled
<1>3. CASE AddressFailed
  BY <1>3 DEF AddressFailed, fail_transport
<1>4. CASE Addressed
  BY <1>4 DEF Addressed, retry_selected_port, fail_transport
<1>5. CASE PortChanged \/ TransferDeadEnd \/ ReportDone
  BY <1>5 DEF PortChanged, TransferDeadEnd, ReportDone
<1>6. CASE TransferRetried
  BY <1>6 DEF TransferRetried, retry_selected_port, fail_transport
<1>7. CASE GotDevice8 \/ GotDevice \/ GotConfig8 \/ SetConfigDone \/ SetProtocolDone
  BY <1>7 DEF GotDevice8, GotDevice, GotConfig8, SetConfigDone,
     SetProtocolDone, StaysUp
<1>8. CASE GotConfigFull
  BY <1>8 DEF GotConfigFull, StaysUp, fail_transport
<1>9. CASE Hardware
  BY <1>9 DEF Hardware, HwAnswer, World, HwCommand, HwControl, HwResetDone,
     HwReportError, HwReport, HwPortDrop, HwUnplug
<1>10. CASE KernelTurn
  BY <1>10 DEF KernelTurn
<1>11. CASE UNCHANGED vars
  BY <1>11 DEF vars
<1> QED BY <1>1, <1>2, <1>3, <1>4, <1>5, <1>6, <1>7, <1>8, <1>9, <1>10, <1>11
        DEF Next, Driver, PollEvent

LEMMA VerdictInit == Init => VerdictInv
BY DEF Init, VerdictInv

LEMMA VerdictNext == VerdictInv /\ [Next]_vars => VerdictInv'
<1> SUFFICES ASSUME VerdictInv, [Next]_vars PROVE VerdictInv'
  OBVIOUS
<1> USE DEF VerdictInv, transVars, drvVars, drvRest, cmdVars, PollUnchanged,
            NoCommand, Dequeuing, ControlStates
<1>1. CASE InitFails \/ InitNoPort \/ PollEnter \/ PollExit
  BY <1>1 DEF InitFails, InitNoPort, PollEnter, PollExit
<1>2. CASE InitResetsFirstPort
  BY <1>2 DEF InitResetsFirstPort, start_port_reset
<1>3. CASE CommandDeadEnd \/ EndpointConfigured
  BY <1>3 DEF CommandDeadEnd, EndpointConfigured, CompletionOf
<1>4. CASE SlotEnabled
  BY <1>4 DEF SlotEnabled, CompletionOf, prepare_address_device
<1>5. CASE SlotDisabled
  BY <1>5 DEF SlotDisabled, CompletionOf, start_port_reset
<1>6. CASE AddressFailed
  <2>1. pc = "poll" /\ pc' = pc /\ ~transport_failed /\ enum_state # "READY"
    BY <1>6 DEF AddressFailed, CompletionOf
  <2>2. CASE fail_transport
    BY <2>1, <2>2 DEF fail_transport
  <2>3. CASE /\ disable_slot_for_retry(Rest, "NONE", enum_state)
             /\ UNCHANGED <<transport_ready, transport_failed>>
    BY <2>1, <2>3 DEF disable_slot_for_retry, start_port_reset
  <2> QED BY <1>6, <2>2, <2>3 DEF AddressFailed
<1>7. CASE Addressed
  <2>1. /\ pc = "poll" /\ pc' = pc /\ ~transport_failed
    BY <1>7 DEF Addressed, CompletionOf
  <2>2. PICK next \in {"GET_DEVICE", "GET_DEVICE8"} :
          \/ /\ usb_control(next) /\ NoCommand("NONE")
             /\ UNCHANGED <<transport_ready, transport_failed>>
          \/ retry_selected_port(Rest, "NONE", next)
    BY <1>7 DEF Addressed
  <2>3. CASE usb_control(next) /\ NoCommand("NONE")
             /\ UNCHANGED <<transport_ready, transport_failed>>
    BY <2>1, <2>3 DEF usb_control
  <2>4. CASE retry_selected_port(Rest, "NONE", next)
    BY <2>1, <2>4 DEF retry_selected_port, fail_transport,
       disable_slot_for_retry, start_port_reset
  <2> QED BY <2>2, <2>3, <2>4
<1>8. CASE PortChanged
  BY <1>8 DEF PortChanged
<1>9. CASE TransferDeadEnd \/ ReportDone
  BY <1>9 DEF TransferDeadEnd, ReportDone, Transferred,
     TransferOk
<1>10. CASE TransferRetried
  BY <1>10 DEF TransferRetried, Transferred, retry_selected_port,
     fail_transport, disable_slot_for_retry, start_port_reset
<1>11. CASE GotDevice8 \/ GotDevice \/ GotConfig8 \/ SetConfigDone
            \/ SetProtocolDone
  BY <1>11 DEF GotDevice8, GotDevice, GotConfig8, SetConfigDone,
     SetProtocolDone, ControlDone, StaysUp, TransferOk, Transferred,
     usb_control, prepare_address_device
<1>12. CASE GotConfigFull
  BY <1>12 DEF GotConfigFull, ControlDone, StaysUp, TransferOk, Transferred,
     usb_control, fail_transport
<1>13. CASE Hardware
  BY <1>13 DEF Hardware, HwAnswer, World, HwCommand, HwControl, HwResetDone,
     HwReportError, HwReport, HwPortDrop, HwUnplug
<1>14. CASE KernelTurn
  BY <1>14 DEF KernelTurn
<1>15. CASE UNCHANGED vars
  BY <1>15 DEF vars
<1> QED BY <1>1, <1>2, <1>3, <1>4, <1>5, <1>6, <1>7, <1>8, <1>9, <1>10,
           <1>11, <1>12, <1>13, <1>14, <1>15 DEF Next, Driver, PollEvent

-----------------------------------------------------------------------------
(* Appending an event to the ring, and taking one from it.                  *)

LEMMA AppendPort ==
  ASSUME NEW ring \in Seq(Events)
  PROVE  /\ Append(ring, PortEvent) \in Seq(Events)
         /\ NoAnswer(ring) => NoAnswer(Append(ring, PortEvent))
         /\ \A e : OneAnswer(ring, e) => OneAnswer(Append(ring, PortEvent), e)
<1> DEFINE longer == Append(ring, PortEvent)
<1>1. PortEvent \in Events /\ PortEvent.type = "port"
  BY DEF Events, PortEvent
<1>2. /\ longer \in Seq(Events) /\ Len(longer) = Len(ring) + 1
      /\ \A n \in 1..Len(ring) : longer[n] = ring[n]
      /\ longer[Len(ring) + 1] = PortEvent
  BY <1>1, AppendProperties
<1>3. DOMAIN ring = 1..Len(ring) /\ DOMAIN longer = 1..(Len(ring) + 1) /\ Len(ring) \in Nat
  BY <1>2, LenProperties
<1> HIDE DEF longer
<1>4. NoAnswer(ring) => NoAnswer(longer)
  BY <1>1, <1>2, <1>3 DEF NoAnswer
<1>5. ASSUME NEW e, OneAnswer(ring, e) PROVE OneAnswer(longer, e)
  <2>1. PICK n \in DOMAIN ring : ring[n] = e /\ \A m \in DOMAIN ring : m # n => ring[m].type = "port"
    BY <1>5 DEF OneAnswer
  <2>2. n \in DOMAIN longer /\ longer[n] = e
    BY <2>1, <1>2, <1>3
  <2>3. ASSUME NEW m \in DOMAIN longer, m # n PROVE longer[m].type = "port"
    BY <2>1, <2>3, <1>1, <1>2, <1>3
  <2> QED BY <1>5, <2>2, <2>3 DEF OneAnswer
<1> QED BY <1>2, <1>4, <1>5 DEF longer

LEMMA AppendAnswer ==
  ASSUME NEW ring \in Seq(Events), NoAnswer(ring), NEW e \in Events, e.type # "port"
  PROVE  Append(ring, e) \in Seq(Events) /\ OneAnswer(Append(ring, e), e)
<1> DEFINE longer == Append(ring, e)
<1>1. /\ longer \in Seq(Events) /\ Len(longer) = Len(ring) + 1
      /\ \A n \in 1..Len(ring) : longer[n] = ring[n]
      /\ longer[Len(ring) + 1] = e
  BY AppendProperties
<1>2. DOMAIN ring = 1..Len(ring) /\ DOMAIN longer = 1..(Len(ring) + 1) /\ Len(ring) \in Nat
  BY <1>1, LenProperties
<1> HIDE DEF longer
<1>3. Len(ring) + 1 \in DOMAIN longer
  BY <1>2
<1>4. ASSUME NEW m \in DOMAIN longer, m # Len(ring) + 1 PROVE longer[m].type = "port"
  BY <1>4, <1>1, <1>2 DEF NoAnswer
<1>5. OneAnswer(longer, e)
  BY <1>1, <1>3, <1>4 DEF OneAnswer
<1> QED BY <1>1, <1>5 DEF longer

LEMMA TakeEvent ==
  ASSUME NEW ring \in Seq(Events), ring # << >>
  PROVE  /\ Tail(ring) \in Seq(Events) /\ Head(ring) \in Events
         /\ NoAnswer(ring) => NoAnswer(Tail(ring)) /\ Head(ring).type = "port"
         /\ \A e : OneAnswer(ring, e) =>
              IF Head(ring).type = "port" THEN OneAnswer(Tail(ring), e)
              ELSE Head(ring) = e /\ NoAnswer(Tail(ring))
<1> DEFINE rest == Tail(ring)
<1>1. /\ Head(ring) \in Events /\ rest \in Seq(Events) /\ Len(rest) = Len(ring) - 1
      /\ \A n \in 1..Len(rest) : rest[n] = ring[n + 1]
  BY HeadTailProperties
<1>2. DOMAIN ring = 1..Len(ring) /\ DOMAIN rest = 1..Len(rest) /\ Len(ring) \in Nat /\ Len(rest) \in Nat
  BY <1>1, LenProperties
<1>3. Head(ring) = ring[1] /\ 1 \in DOMAIN ring
  BY <1>1, <1>2
<1> HIDE DEF rest
<1>4. \A n \in DOMAIN rest : n + 1 \in DOMAIN ring /\ rest[n] = ring[n + 1] /\ n + 1 # 1
  BY <1>1, <1>2
<1>5. NoAnswer(ring) => NoAnswer(rest) /\ Head(ring).type = "port"
  BY <1>3, <1>4 DEF NoAnswer
<1>6. ASSUME NEW e, OneAnswer(ring, e)
      PROVE IF Head(ring).type = "port" THEN OneAnswer(rest, e) ELSE Head(ring) = e /\ NoAnswer(rest)
  <2>1. PICK n \in DOMAIN ring : ring[n] = e /\ \A m \in DOMAIN ring : m # n => ring[m].type = "port"
    BY <1>6 DEF OneAnswer
  <2>2. CASE n = 1
    BY <2>1, <2>2, <1>3, <1>4, <1>6 DEF NoAnswer, OneAnswer
  <2>3. CASE n # 1
    <3>1. n - 1 \in DOMAIN rest /\ rest[n - 1] = e
      <4>1. n \in Nat /\ n - 1 \in 1..Len(rest) /\ (n - 1) + 1 = n
        BY <2>1, <2>3, <1>1, <1>2
      <4> QED BY <4>1, <2>1, <1>1, <1>2
    <3>2. ASSUME NEW m \in DOMAIN rest, m # n - 1 PROVE rest[m].type = "port"
      <4>1. m + 1 # n
        BY <3>2, <2>1, <1>2
      <4> QED BY <4>1, <2>1, <1>4
    <3>3. Head(ring).type = "port"
      BY <2>1, <2>3, <1>3
    <3> QED BY <3>1, <3>2, <3>3, <1>6 DEF OneAnswer
  <2> QED BY <2>2, <2>3
<1> QED BY <1>1, <1>5, <1>6 DEF rest

-----------------------------------------------------------------------------
(* What is known when an event is taken from the ring.                      *)

LEMMA CommandTaken ==
  ASSUME DriverInv, Dequeuing("command")
  PROVE  /\ pending_command \in Commands
         /\ hwCmds = << >> /\ hwCtl = 0 /\ hwIntr = 0
         /\ Rest \in Seq(Events) /\ NoAnswer(Rest)
         /\ Head(event_ring).slot \in 0..MaxSlots
         /\ Head(event_ring).ok /\ pending_command \in DOMAIN SlotAfter
              => SlotIs({SlotAfter[pending_command]})
<1>1. event_ring \in Seq(Events) /\ event_ring # << >> /\ Head(event_ring).type = "command"
  BY DEF DriverInv, Dequeuing
<1>2. Rest \in Seq(Events)
  BY <1>1, TakeEvent DEF Rest
<1>3. ~NoAnswer(event_ring)
  BY <1>1, TakeEvent
<1>4. \A ep, code : ~OneAnswer(event_ring, XferEvent(ep, code))
  <2> SUFFICES ASSUME NEW ep, NEW code, OneAnswer(event_ring, XferEvent(ep, code)) PROVE FALSE
    OBVIOUS
  <2>1. Head(event_ring) = XferEvent(ep, code)
    BY <1>1, TakeEvent
  <2> QED BY <2>1, <1>1 DEF XferEvent
<1>5. pending_command # "NONE" /\ CommandAnswered
  BY <1>3, <1>4 DEF DriverInv, ControlRuns, ReportRuns, NothingRuns, CommandSent
<1>6. PICK ok \in BOOLEAN, s \in 0..MaxSlots :
         /\ OneAnswer(event_ring, CmdEvent(pending_command, ok, s))
         /\ ok /\ pending_command \in DOMAIN SlotAfter => SlotIs({SlotAfter[pending_command]})
  BY <1>5 DEF CommandAnswered
<1>7. Head(event_ring) = CmdEvent(pending_command, ok, s) /\ NoAnswer(Rest)
  BY <1>1, <1>6, TakeEvent DEF Rest
<1>8. Head(event_ring).ok = ok /\ Head(event_ring).slot = s
  BY <1>7 DEF CmdEvent
<1> QED BY <1>2, <1>5, <1>6, <1>7, <1>8 DEF DriverInv, CommandAnswered

LEMMA TransferTaken ==
  ASSUME DriverInv, Dequeuing("transfer")
  PROVE  /\ pending_command = "NONE"
         /\ hwCmds = << >> /\ hwCtl = 0 /\ hwIntr = 0
         /\ Rest \in Seq(Events) /\ NoAnswer(Rest)
         /\ IF Head(event_ring).ep = "ep0"
            THEN enum_state \in ControlStates /\ SlotIs({"default", "addressed"})
            ELSE Head(event_ring).ep = "intr" /\ enum_state = "READY"
<1>1. event_ring \in Seq(Events) /\ event_ring # << >> /\ Head(event_ring).type = "transfer"
  BY DEF DriverInv, Dequeuing
<1>2. Rest \in Seq(Events)
  BY <1>1, TakeEvent DEF Rest
<1>3. ~NoAnswer(event_ring)
  BY <1>1, TakeEvent
<1>4. ASSUME CommandAnswered PROVE FALSE
  <2>1. PICK ok \in BOOLEAN, s \in 0..MaxSlots :
          OneAnswer(event_ring, CmdEvent(pending_command, ok, s))
    BY <1>4 DEF CommandAnswered
  <2>2. Head(event_ring) = CmdEvent(pending_command, ok, s)
    BY <2>1, <1>1, TakeEvent
  <2> QED BY <2>2, <1>1 DEF CmdEvent
<1>5. pending_command = "NONE" /\ (ControlRuns \/ ReportRuns)
  BY <1>3, <1>4 DEF DriverInv, CommandSent, NothingRuns
<1>6. CASE ControlRuns
  <2>1. PICK code \in Codes : OneAnswer(event_ring, XferEvent("ep0", code))
    BY <1>3, <1>6 DEF ControlRuns
  <2>2. Head(event_ring) = XferEvent("ep0", code) /\ NoAnswer(Rest)
    BY <2>1, <1>1, TakeEvent DEF Rest
  <2>3. Head(event_ring).ep = "ep0"
    BY <2>2 DEF XferEvent
  <2>4. hwCtl = 0
    BY <1>3, <1>6 DEF ControlRuns
  <2> QED BY <2>2, <2>3, <2>4, <1>2, <1>5, <1>6 DEF ControlRuns
<1>7. CASE ReportRuns
  <2>1. PICK code \in Codes : OneAnswer(event_ring, XferEvent("intr", code))
    BY <1>3, <1>7 DEF ReportRuns
  <2>2. Head(event_ring) = XferEvent("intr", code) /\ NoAnswer(Rest)
    BY <2>1, <1>1, TakeEvent DEF Rest
  <2>3. Head(event_ring).ep = "intr"
    BY <2>2 DEF XferEvent
  <2>4. hwIntr = 0
    BY <1>3, <1>7 DEF ReportRuns
  <2> QED BY <2>2, <2>3, <2>4, <1>2, <1>5, <1>7 DEF ReportRuns
<1> QED BY <1>5, <1>6, <1>7

LEMMA PortTaken ==
  ASSUME DriverInv, Dequeuing("port")
  PROVE  /\ Rest \in Seq(Events)
         /\ NoAnswer(event_ring) => NoAnswer(Rest)
         /\ \A e : OneAnswer(event_ring, e) => OneAnswer(Rest, e)
<1>1. event_ring \in Seq(Events) /\ event_ring # << >> /\ Head(event_ring).type = "port"
  BY DEF DriverInv, Dequeuing
<1> QED BY <1>1, TakeEvent DEF Rest

-----------------------------------------------------------------------------
(* A command pushed while nothing runs is the only thing that runs.         *)

LEMMA Pushed ==
  ASSUME hwCmds = << >>, NEW cmd, NEW slot, xhci_push_command(cmd, slot, "NONE")
  PROVE  \/ pending_command' = "NONE" /\ hwCmds' = << >>
         \/ pending_command' = cmd /\ hwCmds' = <<[cmd |-> cmd, slot |-> slot]>>
BY DEF xhci_push_command

LEMMA PortReset ==
  ASSUME NEW p, NEW events \in Seq(Events), NoAnswer(events), hwCmds = << >>,
         start_port_reset(p, events, "NONE")
  PROVE  /\ event_ring' \in Seq(Events) /\ NoAnswer(event_ring')
         /\ \/ /\ pending_command' = "NONE" /\ hwCmds' = << >>
               /\ enum_state' \in {"RESET", "ENABLE_SLOT"}
            \/ /\ pending_command' = "ENABLE_SLOT" /\ enum_state' = "ENABLE_SLOT"
               /\ hwCmds' = <<[cmd |-> "ENABLE_SLOT", slot |-> 0]>>
<1>1. PICK o \in {"enabled", "disabled", "slow"} :
        /\ event_ring' = IF o = "slow" THEN events ELSE Append(events, PortEvent)
        /\ IF o = "enabled"
           THEN enum_state' = "ENABLE_SLOT" /\ xhci_push_command("ENABLE_SLOT", 0, "NONE")
           ELSE enum_state' = "RESET" /\ NoCommand("NONE")
  BY DEF start_port_reset
<1>2. event_ring' \in Seq(Events) /\ NoAnswer(event_ring')
  BY <1>1, AppendPort
<1>3. CASE o = "enabled"
  BY <1>1, <1>2, <1>3, Pushed
<1>4. CASE o # "enabled"
  BY <1>1, <1>2, <1>4 DEF NoCommand
<1> QED BY <1>3, <1>4

(* The state after a retry: a Disable Slot, a port reset, or nothing.       *)
LEMMA SlotGivenBack ==
  ASSUME NEW events \in Seq(Events), NoAnswer(events), hwCmds = << >>, NEW state,
         disable_slot_for_retry(events, "NONE", state)
  PROVE  /\ event_ring' \in Seq(Events) /\ NoAnswer(event_ring')
         /\ \/ /\ pending_command' = "NONE" /\ hwCmds' = << >>
               /\ enum_state' \in {"RESET", "ENABLE_SLOT", state}
            \/ /\ pending_command' = "ENABLE_SLOT" /\ enum_state' = "ENABLE_SLOT"
               /\ hwCmds' = <<[cmd |-> "ENABLE_SLOT", slot |-> 0]>>
            \/ /\ pending_command' = "DISABLE_SLOT" /\ enum_state' = state
               /\ enabled_slot # 0
               /\ hwCmds' = <<[cmd |-> "DISABLE_SLOT", slot |-> enabled_slot]>>
<1>1. CASE enabled_slot # 0
  <2>1. /\ xhci_push_command("DISABLE_SLOT", enabled_slot, "NONE")
        /\ event_ring' = events /\ enum_state' = state
    BY <1>1 DEF disable_slot_for_retry
  <2> QED BY <1>1, <2>1, Pushed
<1>2. CASE enabled_slot = 0
  <2>1. start_port_reset(selected_port, events, "NONE")
    BY <1>2 DEF disable_slot_for_retry
  <2> QED BY <2>1, PortReset
<1> QED BY <1>1, <1>2

-----------------------------------------------------------------------------
(* Each step of the driver.                                                 *)

LEMMA NoneIsNoCommand == "NONE" \notin Commands
BY DEF Commands, SlotAfter

LEMMA BootRunsNothing ==
  ASSUME VerdictInv, DriverInv, pc = "boot"
  PROVE  NothingRuns /\ enum_state = "IDLE" /\ pending_command = "NONE"
<1>1. enum_state = "IDLE" /\ pending_command = "NONE"
  BY DEF VerdictInv
<1> QED BY <1>1 DEF DriverInv, ControlRuns, ReportRuns, ControlStates

\* The driver state that the invariant speaks of is as it was.
LEMMA NothingMoves ==
  ASSUME DriverInv,
         UNCHANGED <<event_ring, hwSlots, enabled_slot, pending_command,
                     enum_state, hwCmds, hwCtl, hwIntr>>
  PROVE  DriverInv'
BY DEF DriverInv, ControlRuns, ReportRuns, NothingRuns, CommandSent,
       CommandAnswered, SlotIs, SlotAfter, OneAnswer, NoAnswer, Commands, Events,
       Codes, Slots, SlotStates, CmdEvent, XferEvent, PortEvent, ControlStates

LEMMA InitResetInv ==
  ASSUME VerdictInv, DriverInv, InitResetsFirstPort PROVE DriverInv'
<1>1. /\ NothingRuns /\ enum_state = "IDLE" /\ pending_command = "NONE"
      /\ UNCHANGED <<enabled_slot, hwCtl, hwIntr, hwSlots>>
  BY BootRunsNothing DEF InitResetsFirstPort, slotVars
<1>2. \E p : start_port_reset(p, << >>, "NONE")
  BY DEF InitResetsFirstPort
<1>3. << >> \in Seq(Events) /\ NoAnswer(<< >>)
  BY DEF NoAnswer
<1>4. /\ event_ring' \in Seq(Events) /\ NoAnswer(event_ring')
      /\ \/ /\ pending_command' = "NONE" /\ hwCmds' = << >>
            /\ enum_state' \in {"RESET", "ENABLE_SLOT"}
         \/ /\ pending_command' = "ENABLE_SLOT" /\ enum_state' = "ENABLE_SLOT"
            /\ hwCmds' = <<[cmd |-> "ENABLE_SLOT", slot |-> 0]>>
  BY <1>1, <1>2, <1>3, PortReset DEF NothingRuns
<1> QED BY <1>1, <1>4, NoneIsNoCommand DEF DriverInv, NothingRuns, CommandSent, Commands

LEMMA AddressFailedInv ==
  ASSUME VerdictInv, DriverInv, AddressFailed PROVE DriverInv'
<1>1. /\ Dequeuing("command") /\ pending_command \in {"ADDRESS", "ADDRESS_BSR"}
      /\ UNCHANGED <<hwCtl, hwIntr, hwSlots>>
  BY DEF AddressFailed, CompletionOf, PollUnchanged
<1>2. /\ hwCmds = << >> /\ hwCtl = 0 /\ hwIntr = 0
      /\ Rest \in Seq(Events) /\ NoAnswer(Rest)
  BY <1>1, CommandTaken
<1>3. enum_state \notin {"RESET", "READY"}
  BY <1>1 DEF DriverInv, VerdictInv
<1>4. CASE fail_transport /\ event_ring' = Rest
  <2>1. pending_command' = "NONE" /\ hwCmds' = << >> /\ enum_state' = "IDLE" /\ enabled_slot' = 0
    BY <1>2, <1>4 DEF fail_transport, NoCommand
  <2> QED BY <1>1, <1>2, <1>4, <2>1, SlotsAssumption, NoneIsNoCommand DEF DriverInv, NothingRuns, Commands
<1>5. CASE disable_slot_for_retry(Rest, "NONE", enum_state) /\ UNCHANGED enabled_slot
  <2>1. /\ event_ring' \in Seq(Events) /\ NoAnswer(event_ring')
        /\ \/ /\ pending_command' = "NONE" /\ hwCmds' = << >>
              /\ enum_state' \in {"RESET", "ENABLE_SLOT", enum_state}
           \/ /\ pending_command' = "ENABLE_SLOT" /\ enum_state' = "ENABLE_SLOT"
              /\ hwCmds' = <<[cmd |-> "ENABLE_SLOT", slot |-> 0]>>
           \/ /\ pending_command' = "DISABLE_SLOT" /\ enum_state' = enum_state
              /\ enabled_slot # 0
              /\ hwCmds' = <<[cmd |-> "DISABLE_SLOT", slot |-> enabled_slot]>>
    BY <1>2, <1>5, SlotGivenBack
  <2> QED BY <1>1, <1>2, <1>3, <1>5, <2>1, NoneIsNoCommand DEF DriverInv, NothingRuns, CommandSent, Commands
<1> QED BY <1>4, <1>5 DEF AddressFailed

LEMMA SlotDisabledInv ==
  ASSUME DriverInv, SlotDisabled PROVE DriverInv'
<1>1. /\ Dequeuing("command") /\ enabled_slot' = 0
      /\ start_port_reset(selected_port, Rest, "NONE")
      /\ UNCHANGED <<hwCtl, hwIntr, hwSlots>>
  BY DEF SlotDisabled, CompletionOf, PollUnchanged
<1>2. /\ hwCmds = << >> /\ hwCtl = 0 /\ hwIntr = 0
      /\ Rest \in Seq(Events) /\ NoAnswer(Rest)
  BY <1>1, CommandTaken
<1>3. /\ event_ring' \in Seq(Events) /\ NoAnswer(event_ring')
      /\ \/ /\ pending_command' = "NONE" /\ hwCmds' = << >>
            /\ enum_state' \in {"RESET", "ENABLE_SLOT"}
         \/ /\ pending_command' = "ENABLE_SLOT" /\ enum_state' = "ENABLE_SLOT"
            /\ hwCmds' = <<[cmd |-> "ENABLE_SLOT", slot |-> 0]>>
  BY <1>1, <1>2, PortReset
<1> QED BY <1>1, <1>2, <1>3, SlotsAssumption, NoneIsNoCommand DEF DriverInv, NothingRuns, CommandSent, Commands

LEMMA CommandDeadEndInv ==
  ASSUME VerdictInv, DriverInv, CommandDeadEnd PROVE DriverInv'
<1>1. /\ Dequeuing("command")
      /\ event_ring' = Rest /\ pending_command' = "NONE" /\ hwCmds' = hwCmds
      /\ UNCHANGED <<hwCtl, hwIntr, hwSlots, enum_state, enabled_slot>>
  BY DEF CommandDeadEnd, PollUnchanged, NoCommand, slotVars
<1>2. /\ hwCmds = << >> /\ hwCtl = 0 /\ hwIntr = 0
      /\ Rest \in Seq(Events) /\ NoAnswer(Rest)
      /\ pending_command \in Commands
  BY <1>1, CommandTaken
<1>3. enum_state # "READY"
  BY <1>2 DEF VerdictInv, Commands, SlotAfter
<1> QED BY <1>1, <1>2, <1>3, NoneIsNoCommand DEF DriverInv, NothingRuns, Commands

LEMMA SlotEnabledInv ==
  ASSUME DriverInv, SlotEnabled PROVE DriverInv'
<1>1. PICK cmd \in {"ADDRESS", "ADDRESS_BSR"} :
        /\ Dequeuing("command") /\ event_ring' = Rest
        /\ Head(event_ring).slot # 0 /\ enabled_slot' = Head(event_ring).slot
        /\ enum_state' = cmd
        /\ xhci_push_command(cmd, enabled_slot', "NONE")
        /\ UNCHANGED <<hwCtl, hwIntr, hwSlots>>
  BY DEF SlotEnabled, CompletionOf, PollUnchanged, prepare_address_device
<1>2. /\ hwCmds = << >> /\ hwCtl = 0 /\ hwIntr = 0
      /\ Rest \in Seq(Events) /\ NoAnswer(Rest)
      /\ Head(event_ring).slot \in 0..MaxSlots
  BY <1>1, CommandTaken
<1>3. \/ pending_command' = "NONE" /\ hwCmds' = << >>
      \/ pending_command' = cmd /\ hwCmds' = <<[cmd |-> cmd, slot |-> enabled_slot']>>
  BY <1>1, <1>2, Pushed
<1> QED BY <1>1, <1>2, <1>3 DEF DriverInv, NothingRuns, CommandSent, Commands, SlotAfter

LEMMA TransferFailedInv ==
  ASSUME DriverInv, NEW events \in Seq(Events), NoAnswer(events),
         hwCmds = << >>, hwCtl = 0, hwIntr = 0,
         NEW state \in ControlStates, retry_selected_port(events, "NONE", state),
         UNCHANGED <<hwCtl, hwIntr, hwSlots>>
  PROVE  DriverInv'
<1>1. CASE fail_transport /\ event_ring' = events
  <2>1. pending_command' = "NONE" /\ hwCmds' = << >> /\ enum_state' = "IDLE" /\ enabled_slot' = 0
    BY <1>1 DEF fail_transport, NoCommand
  <2> QED BY <1>1, <2>1, SlotsAssumption, NoneIsNoCommand DEF DriverInv, NothingRuns, Commands
<1>2. CASE disable_slot_for_retry(events, "NONE", state) /\ UNCHANGED enabled_slot
  <2>1. /\ event_ring' \in Seq(Events) /\ NoAnswer(event_ring')
        /\ \/ /\ pending_command' = "NONE" /\ hwCmds' = << >>
              /\ enum_state' \in {"RESET", "ENABLE_SLOT", state}
           \/ /\ pending_command' = "ENABLE_SLOT" /\ enum_state' = "ENABLE_SLOT"
              /\ hwCmds' = <<[cmd |-> "ENABLE_SLOT", slot |-> 0]>>
           \/ /\ pending_command' = "DISABLE_SLOT" /\ enum_state' = state
              /\ enabled_slot # 0
              /\ hwCmds' = <<[cmd |-> "DISABLE_SLOT", slot |-> enabled_slot]>>
    BY <1>2, SlotGivenBack
  <2> QED BY <1>2, <2>1, NoneIsNoCommand DEF DriverInv, NothingRuns, CommandSent, Commands, ControlStates
<1> QED BY <1>1, <1>2 DEF retry_selected_port

LEMMA AddressedInv ==
  ASSUME DriverInv, Addressed PROVE DriverInv'
<1>1. PICK next \in {"GET_DEVICE", "GET_DEVICE8"} :
        \/ /\ usb_control(next) /\ event_ring' = Rest /\ NoCommand("NONE")
           /\ UNCHANGED slotVars
        \/ retry_selected_port(Rest, "NONE", next) /\ UNCHANGED hwCtl
  BY DEF Addressed
<1>2. /\ Dequeuing("command") /\ Head(event_ring).ok
      /\ pending_command \in {"ADDRESS", "ADDRESS_BSR"}
      /\ UNCHANGED <<hwIntr, hwSlots>>
  BY DEF Addressed, CompletionOf, PollUnchanged
<1>3. /\ hwCmds = << >> /\ hwCtl = 0 /\ hwIntr = 0
      /\ Rest \in Seq(Events) /\ NoAnswer(Rest)
      /\ SlotIs({"default", "addressed"})
  BY <1>2, CommandTaken DEF SlotIs, SlotAfter
<1>4. CASE /\ usb_control(next) /\ event_ring' = Rest /\ NoCommand("NONE")
           /\ UNCHANGED slotVars
  <2>1. /\ enum_state' = next /\ hwCtl' = enabled_slot /\ pending_command' = "NONE"
        /\ hwCmds' = << >> /\ hwIntr' = 0 /\ UNCHANGED <<enabled_slot, hwSlots>>
    BY <1>2, <1>3, <1>4 DEF usb_control, NoCommand, slotVars
  <2>2. ControlRuns'
    BY <1>3, <1>4, <2>1 DEF ControlRuns, ControlStates, SlotIs
  <2> QED BY <1>3, <1>4, <2>1, <2>2, NoneIsNoCommand DEF DriverInv, Commands
<1>5. CASE retry_selected_port(Rest, "NONE", next) /\ UNCHANGED hwCtl
  <2>1. next \in ControlStates
    BY DEF ControlStates
  <2> QED BY <1>2, <1>3, <1>5, <2>1, TransferFailedInv
<1> QED BY <1>1, <1>4, <1>5

\* The ring changes, but not whether or what an answer waits in it.
LEMMA PortEventsOnly ==
  ASSUME DriverInv, event_ring' \in Seq(Events),
         NoAnswer(event_ring) => NoAnswer(event_ring'),
         \A e : OneAnswer(event_ring, e) => OneAnswer(event_ring', e),
         UNCHANGED <<hwSlots, enabled_slot, pending_command, enum_state, hwCmds,
                     hwCtl, hwIntr>>
  PROVE  DriverInv'
<1>1. ControlRuns => ControlRuns'
  BY DEF ControlRuns, SlotIs
<1>2. ReportRuns => ReportRuns'
  BY DEF ReportRuns
<1>3. NothingRuns => NothingRuns'
  BY DEF NothingRuns
<1>4. CommandSent => CommandSent'
  BY DEF CommandSent
<1>5. CommandAnswered => CommandAnswered'
  BY DEF CommandAnswered, SlotIs, CmdEvent
<1> QED BY <1>1, <1>2, <1>3, <1>4, <1>5 DEF DriverInv, SlotIs

LEMMA PortChangedInv ==
  ASSUME DriverInv, PortChanged PROVE DriverInv'
<1>1. /\ Dequeuing("port") /\ event_ring' = Rest
      /\ UNCHANGED <<hwSlots, enabled_slot, hwCtl, hwIntr>>
  BY DEF PortChanged, PollUnchanged, slotVars
<1>2. /\ Rest \in Seq(Events)
      /\ NoAnswer(event_ring) => NoAnswer(Rest)
      /\ \A e : OneAnswer(event_ring, e) => OneAnswer(Rest, e)
  BY <1>1, PortTaken
<1>3. CASE UNCHANGED <<enum_state, cmdVars>>
  <2>1. UNCHANGED <<enum_state, pending_command, hwCmds>>
    BY <1>3 DEF cmdVars
  <2>2. /\ event_ring' \in Seq(Events)
        /\ NoAnswer(event_ring) => NoAnswer(event_ring')
    BY <1>1, <1>2
  <2>3. \A e : OneAnswer(event_ring, e) => OneAnswer(event_ring', e)
    BY <1>1, <1>2
  <2> QED BY <1>1, <1>2, <2>1, <2>2, <2>3, PortEventsOnly
<1>4. CASE /\ enum_state = "RESET" /\ enum_state' = "ENABLE_SLOT"
           /\ xhci_push_command("ENABLE_SLOT", 0, pending_command)
  <2>1. pending_command = "NONE" /\ NothingRuns
    BY <1>4 DEF DriverInv, ControlRuns, ReportRuns, ControlStates
  <2>2. \/ pending_command' = "NONE" /\ hwCmds' = << >>
        \/ /\ pending_command' = "ENABLE_SLOT"
           /\ hwCmds' = <<[cmd |-> "ENABLE_SLOT", slot |-> 0]>>
    BY <1>4, <2>1, Pushed DEF NothingRuns
  <2> QED BY <1>1, <1>2, <1>4, <2>1, <2>2, NoneIsNoCommand
          DEF DriverInv, NothingRuns, CommandSent, Commands
<1> QED BY <1>3, <1>4 DEF PortChanged

LEMMA TransferRetriedInv ==
  ASSUME DriverInv, TransferRetried PROVE DriverInv'
<1>1. /\ Dequeuing("transfer") /\ enum_state \in ControlStates
      /\ retry_selected_port(Rest, pending_command, enum_state)
      /\ UNCHANGED <<hwCtl, hwIntr, hwSlots>>
  BY DEF TransferRetried, Transferred, PollUnchanged
<1>2. /\ pending_command = "NONE" /\ hwCmds = << >> /\ hwCtl = 0 /\ hwIntr = 0
      /\ Rest \in Seq(Events) /\ NoAnswer(Rest)
  BY <1>1, TransferTaken
<1> QED BY <1>1, <1>2, TransferFailedInv

LEMMA TransferDeadEndInv ==
  ASSUME DriverInv, TransferDeadEnd PROVE DriverInv'
<1>1. /\ Dequeuing("transfer") /\ event_ring' = Rest
      /\ UNCHANGED <<hwCtl, hwIntr, hwSlots, enabled_slot, enum_state,
                     pending_command, hwCmds>>
  BY DEF TransferDeadEnd, Transferred, PollUnchanged, slotVars, cmdVars
<1>2. /\ pending_command = "NONE" /\ hwCmds = << >> /\ hwCtl = 0 /\ hwIntr = 0
      /\ Rest \in Seq(Events) /\ NoAnswer(Rest)
  BY <1>1, TransferTaken
<1> QED BY <1>1, <1>2, NoneIsNoCommand DEF DriverInv, NothingRuns, SlotIs

\* What an awaited control transfer leaves behind.
LEMMA ControlTaken ==
  ASSUME DriverInv, NEW state, ControlDone(state)
  PROVE  /\ pending_command = "NONE" /\ hwCmds = << >> /\ hwCtl = 0 /\ hwIntr' = 0
         /\ event_ring' \in Seq(Events) /\ NoAnswer(event_ring')
         /\ SlotIs({"default", "addressed"}) /\ hwSlots' = hwSlots
<1>1. /\ Dequeuing("transfer") /\ Head(event_ring).ep = "ep0" /\ event_ring' = Rest
      /\ UNCHANGED <<hwIntr, hwSlots>>
  BY DEF ControlDone, TransferOk, Transferred, PollUnchanged
<1> QED BY <1>1, TransferTaken

LEMMA NextControlInv ==
  ASSUME DriverInv, NEW state, ControlDone(state), UNCHANGED <<slotVars, cmdVars>>,
         NEW next \in ControlStates, usb_control(next)
  PROVE  DriverInv'
<1>1. /\ pending_command = "NONE" /\ hwCmds = << >> /\ hwCtl = 0 /\ hwIntr' = 0
      /\ event_ring' \in Seq(Events) /\ NoAnswer(event_ring')
      /\ SlotIs({"default", "addressed"}) /\ hwSlots' = hwSlots
  BY ControlTaken
<1>2. /\ enum_state' = next /\ hwCtl' = enabled_slot
      /\ UNCHANGED <<pending_command, hwCmds, enabled_slot>>
  BY DEF usb_control, slotVars, cmdVars
<1>3. ControlRuns'
  BY <1>1, <1>2 DEF ControlRuns, SlotIs
<1> QED BY <1>1, <1>2, <1>3, NoneIsNoCommand DEF DriverInv, ControlStates

LEMMA NextCommandInv ==
  ASSUME DriverInv, NEW state, ControlDone(state), UNCHANGED <<slotVars, hwCtl>>,
         NEW cmd \in {"ADDRESS", "ADDRESS_BSR", "CONFIGURE"},
         xhci_push_command(cmd, enabled_slot, pending_command),
         enum_state' \notin {"RESET", "READY"}
  PROVE  DriverInv'
<1>1. /\ pending_command = "NONE" /\ hwCmds = << >> /\ hwCtl = 0 /\ hwIntr' = 0
      /\ event_ring' \in Seq(Events) /\ NoAnswer(event_ring')
      /\ SlotIs({"default", "addressed"}) /\ hwSlots' = hwSlots
  BY ControlTaken
<1>2. \/ pending_command' = "NONE" /\ hwCmds' = << >>
      \/ pending_command' = cmd /\ hwCmds' = <<[cmd |-> cmd, slot |-> enabled_slot]>>
  BY <1>1, Pushed
<1>3. enabled_slot # 0 /\ enabled_slot' = enabled_slot
  BY <1>1, SlotsAssumption DEF SlotIs, Slots, slotVars
<1> QED BY <1>1, <1>2, <1>3, NoneIsNoCommand
        DEF DriverInv, NothingRuns, CommandSent, Commands, SlotAfter

LEMMA ControlStepsInv ==
  ASSUME DriverInv, GotDevice8 \/ GotDevice \/ GotConfig8 \/ SetConfigDone \/ SetProtocolDone
  PROVE  DriverInv'
<1> USE DEF StaysUp, ControlStates
<1>1. CASE GotDevice8
  <2>1. /\ ControlDone("GET_DEVICE8") /\ UNCHANGED <<slotVars, hwCtl>>
        /\ xhci_push_command("ADDRESS", enabled_slot, pending_command)
        /\ enum_state' = "ADDRESS"
    BY <1>1 DEF GotDevice8, prepare_address_device
  <2> QED BY <2>1, NextCommandInv
<1>2. CASE GotDevice
  <2>1. /\ ControlDone("GET_DEVICE") /\ UNCHANGED <<slotVars, cmdVars>>
        /\ usb_control("GET_CONFIG8")
    BY <1>2 DEF GotDevice
  <2> QED BY <2>1, NextControlInv
<1>3. CASE GotConfig8
  <2>1. /\ ControlDone("GET_CONFIG8") /\ UNCHANGED <<slotVars, cmdVars>>
        /\ usb_control("GET_CONFIG_FULL")
    BY <1>3 DEF GotConfig8
  <2> QED BY <2>1, NextControlInv
<1>4. CASE SetConfigDone
  <2>1. /\ ControlDone("SET_CONFIG") /\ UNCHANGED <<slotVars, cmdVars>>
        /\ usb_control("SET_PROTOCOL")
    BY <1>4 DEF SetConfigDone
  <2> QED BY <2>1, NextControlInv
<1>5. CASE SetProtocolDone
  <2>1. /\ ControlDone("SET_PROTOCOL") /\ UNCHANGED <<slotVars, hwCtl>>
        /\ xhci_push_command("CONFIGURE", enabled_slot, pending_command)
        /\ enum_state' = "CONFIGURE_ENDPOINT"
    BY <1>5 DEF SetProtocolDone
  <2> QED BY <2>1, NextCommandInv
<1> QED BY <1>1, <1>2, <1>3, <1>4, <1>5

LEMMA GotConfigFullInv ==
  ASSUME DriverInv, GotConfigFull PROVE DriverInv'
<1>1. ControlDone("GET_CONFIG_FULL")
  BY DEF GotConfigFull
<1>2. CASE StaysUp /\ usb_control("SET_CONFIG") /\ UNCHANGED cmdVars
  <2>1. "SET_CONFIG" \in ControlStates
    BY DEF ControlStates
  <2> QED BY <1>1, <1>2, <2>1, NextControlInv DEF StaysUp
<1>3. CASE fail_transport /\ UNCHANGED hwCtl
  <2>1. /\ hwCmds = << >> /\ hwCtl = 0 /\ hwIntr' = 0
        /\ event_ring' \in Seq(Events) /\ NoAnswer(event_ring')
        /\ hwSlots' = hwSlots
    BY <1>1, ControlTaken
  <2>2. pending_command' = "NONE" /\ hwCmds' = << >> /\ enum_state' = "IDLE" /\ enabled_slot' = 0
    BY <1>3, <2>1 DEF fail_transport, NoCommand
  <2> QED BY <1>3, <2>1, <2>2, SlotsAssumption, NoneIsNoCommand DEF DriverInv, NothingRuns
<1> QED BY <1>2, <1>3 DEF GotConfigFull

LEMMA EndpointConfiguredInv ==
  ASSUME DriverInv, EndpointConfigured PROVE DriverInv'
<1>1. /\ Dequeuing("command") /\ pending_command = "CONFIGURE" /\ Head(event_ring).ok
      /\ event_ring' = Rest /\ enum_state' = "READY" /\ hwIntr' = enabled_slot
      /\ pending_command' = "NONE"
      /\ UNCHANGED <<hwCmds, hwCtl, hwSlots, enabled_slot>>
  BY DEF EndpointConfigured, CompletionOf, PollUnchanged, NoCommand, slotVars
<1>2. /\ hwCmds = << >> /\ hwCtl = 0 /\ Rest \in Seq(Events) /\ NoAnswer(Rest)
      /\ SlotIs({"configured"})
  BY <1>1, CommandTaken DEF SlotIs, SlotAfter
<1>3. ReportRuns' /\ SlotIs({"configured"})'
  BY <1>1, <1>2 DEF ReportRuns, SlotIs
<1> QED BY <1>1, <1>2, <1>3, NoneIsNoCommand DEF DriverInv

LEMMA ReportDoneInv ==
  ASSUME DriverInv, ReportDone PROVE DriverInv'
<1>1. /\ Dequeuing("transfer") /\ Head(event_ring).ep = "intr"
      /\ event_ring' = Rest /\ hwIntr' = enabled_slot
      /\ UNCHANGED <<hwCmds, pending_command, enum_state, hwCtl, hwSlots, enabled_slot>>
  BY DEF ReportDone, PollUnchanged, cmdVars, slotVars
<1>2. /\ pending_command = "NONE" /\ hwCmds = << >> /\ hwCtl = 0 /\ enum_state = "READY"
      /\ Rest \in Seq(Events) /\ NoAnswer(Rest)
  BY <1>1, TransferTaken
<1>3. ReportRuns' /\ SlotIs({"configured"})'
  BY <1>1, <1>2 DEF ReportRuns, SlotIs, DriverInv
<1> QED BY <1>1, <1>2, <1>3, NoneIsNoCommand DEF DriverInv

-----------------------------------------------------------------------------
(* Each step of the controller and the devices.                             *)

LEMMA CommandRuns ==
  ASSUME DriverInv, hwCmds # << >>
  PROVE  /\ pending_command \in Commands /\ CommandSent
         /\ NextCommand.cmd = pending_command /\ Tail(hwCmds) = << >>
         /\ NextCommand.slot \in 0..MaxSlots
         /\ pending_command # "ENABLE_SLOT" =>
              NextCommand.slot = enabled_slot /\ enabled_slot \in Slots
<1>1. pending_command # "NONE" /\ CommandSent /\ pending_command \in Commands
  BY DEF DriverInv, ControlRuns, ReportRuns, NothingRuns, CommandAnswered
<1> DEFINE slot == IF pending_command = "ENABLE_SLOT" THEN 0 ELSE enabled_slot
<1>2. hwCmds = <<[cmd |-> pending_command, slot |-> slot]>>
  BY <1>1 DEF CommandSent
<1>3. Head(hwCmds) = [cmd |-> pending_command, slot |-> slot] /\ Tail(hwCmds) = << >>
  BY <1>2
<1>4. NextCommand.cmd = pending_command /\ NextCommand.slot = slot
  BY <1>3 DEF NextCommand
<1>5. slot \in 0..MaxSlots /\ (pending_command # "ENABLE_SLOT" => enabled_slot \in Slots)
  BY <1>1, SlotsAssumption DEF DriverInv, Slots
<1> QED BY <1>1, <1>3, <1>4, <1>5

LEMMA AnswerIsEvent ==
  ASSUME NEW cmd \in Commands, NEW ok \in BOOLEAN, NEW s \in 0..MaxSlots
  PROVE  CmdEvent(cmd, ok, s) \in Events /\ CmdEvent(cmd, ok, s).type # "port"
BY DEF Events, CmdEvent

LEMMA AnswerPosted ==
  ASSUME VerdictInv, DriverInv, hwCmds # << >>,
         NEW ok \in BOOLEAN, NEW s \in 0..MaxSlots, NEW slots \in [Slots -> SlotStates],
         CompleteCommand(ok, s, slots),
         ok /\ pending_command \in DOMAIN SlotAfter =>
           slots[enabled_slot] = SlotAfter[pending_command],
         hwCtl' = 0, hwIntr' = 0,
         UNCHANGED <<enabled_slot, pending_command, enum_state>>
  PROVE  DriverInv'
<1>1. /\ pending_command \in Commands /\ CommandSent
      /\ NextCommand.cmd = pending_command /\ Tail(hwCmds) = << >>
      /\ pending_command # "ENABLE_SLOT" => enabled_slot \in Slots
  BY CommandRuns
<1>2. /\ event_ring' = Append(event_ring, CmdEvent(pending_command, ok, s))
      /\ hwCmds' = << >> /\ hwSlots' = slots
  BY <1>1 DEF CompleteCommand, Post, NextCommand
<1>3. /\ CmdEvent(pending_command, ok, s) \in Events
      /\ CmdEvent(pending_command, ok, s).type # "port"
  BY <1>1, AnswerIsEvent
<1>4. event_ring \in Seq(Events) /\ NoAnswer(event_ring)
  BY <1>1 DEF DriverInv, CommandSent
<1>5. /\ event_ring' \in Seq(Events)
      /\ OneAnswer(event_ring', CmdEvent(pending_command, ok, s))
  BY <1>2, <1>3, <1>4, AppendAnswer
<1>6. ok /\ pending_command \in DOMAIN SlotAfter => SlotIs({SlotAfter[pending_command]})'
  BY <1>1, <1>2 DEF SlotIs, SlotAfter
<1>7. /\ OneAnswer(event_ring', CmdEvent(pending_command', ok, s))
      /\ ok /\ pending_command' \in DOMAIN SlotAfter => SlotIs({SlotAfter[pending_command]})'
      /\ pending_command' = pending_command
  BY <1>5, <1>6
<1>8. CommandAnswered'
  BY <1>2, <1>7 DEF CommandAnswered, CmdEvent, SlotIs, SlotAfter
<1>9. enum_state \notin {"READY", "RESET"}
  BY <1>1, NoneIsNoCommand DEF VerdictInv, DriverInv
<1> QED BY <1>1, <1>2, <1>5, <1>8, <1>9, NoneIsNoCommand DEF DriverInv

LEMMA EnableSlotOutcome ==
  ASSUME HwEnableSlot
  PROVE  \/ \E s \in FreeSlots : CompleteCommand(TRUE, s, SetSlot(s, "enabled"))
         \/ \E ok \in BOOLEAN : CompleteCommand(ok, 0, hwSlots)
<1>1. CASE CompleteCommand(FALSE, 0, hwSlots) \/ CompleteCommand(TRUE, 0, hwSlots)
  BY <1>1
<1>2. CASE \E s \in FreeSlots : CompleteCommand(TRUE, s, SetSlot(s, "enabled"))
  BY <1>2
<1>3. \/ \E s \in FreeSlots : CompleteCommand(TRUE, s, SetSlot(s, "enabled"))
      \/ CompleteCommand(FALSE, 0, hwSlots)
      \/ CompleteCommand(TRUE, 0, hwSlots)
  BY DEF HwEnableSlot
<1> QED BY <1>1, <1>2, <1>3

LEMMA HwCommandInv ==
  ASSUME VerdictInv, DriverInv, HwCommand PROVE DriverInv'
<1>1. /\ hwCmds # << >>
      /\ UNCHANGED <<enabled_slot, pending_command, enum_state>>
      /\ hwSlots \in [Slots -> SlotStates]
  BY DEF HwCommand, drvVars, slotVars, DriverInv
<1>2. /\ pending_command \in Commands /\ hwCtl = 0 /\ hwIntr = 0
      /\ NextCommand.cmd = pending_command /\ NextCommand.slot \in 0..MaxSlots
      /\ pending_command # "ENABLE_SLOT" =>
           NextCommand.slot = enabled_slot /\ enabled_slot \in Slots
  BY <1>1, CommandRuns DEF CommandSent
<1>3. ASSUME NEW s \in Slots, NEW state \in SlotStates
      PROVE  SetSlot(s, state) \in [Slots -> SlotStates] /\ SetSlot(s, state)[s] = state
  BY <1>1 DEF SetSlot
<1>4. 0 \in 0..MaxSlots /\ Slots \subseteq 0..MaxSlots
  BY SlotsAssumption DEF Slots
<1>5. CASE HwEnableSlot
  <2>1. pending_command = "ENABLE_SLOT" /\ hwCtl' = 0 /\ hwIntr' = 0
        /\ pending_command \notin DOMAIN SlotAfter
    BY <1>2, <1>5 DEF HwEnableSlot, SlotAfter
  <2>2. CASE \E ok \in BOOLEAN : CompleteCommand(ok, 0, hwSlots)
    BY <1>1, <1>4, <2>1, <2>2, AnswerPosted
  <2>3. CASE \E s \in FreeSlots : CompleteCommand(TRUE, s, SetSlot(s, "enabled"))
    <3>1. PICK s \in FreeSlots : CompleteCommand(TRUE, s, SetSlot(s, "enabled"))
      BY <2>3
    <3>2. s \in Slots /\ s \in 0..MaxSlots
      BY <1>4 DEF FreeSlots
    <3>3. SetSlot(s, "enabled") \in [Slots -> SlotStates]
      BY <3>2, <1>3 DEF SlotStates
    <3> QED BY <1>1, <2>1, <3>1, <3>2, <3>3, AnswerPosted
  <2> QED BY <1>5, <2>2, <2>3, EnableSlotOutcome
<1>6. CASE HwDisableSlot
  <2>1. pending_command = "DISABLE_SLOT" /\ hwCtl' = 0 /\ hwIntr' = 0
        /\ pending_command \notin DOMAIN SlotAfter
    BY <1>2, <1>6 DEF HwDisableSlot, SlotAfter
  <2>2. SetSlot(NextCommand.slot, "off") \in [Slots -> SlotStates]
    BY <1>2, <1>3, <2>1 DEF SlotStates
  <2>3. \E ok \in BOOLEAN, slots \in [Slots -> SlotStates] :
          CompleteCommand(ok, NextCommand.slot, slots)
    BY <1>1, <1>6, <2>2 DEF HwDisableSlot
  <2> QED BY <1>1, <1>2, <2>1, <2>3, AnswerPosted
<1>7. CASE HwAddress
  <2> DEFINE to == IF NextCommand.cmd = "ADDRESS" THEN "addressed" ELSE "default"
  <2>1. pending_command \in {"ADDRESS", "ADDRESS_BSR"} /\ hwCtl' = 0 /\ hwIntr' = 0
    BY <1>2, <1>7 DEF HwAddress
  <2>2. CASE CompleteCommand(FALSE, NextCommand.slot, hwSlots)
    BY <1>1, <1>2, <2>1, <2>2, AnswerPosted
  <2>3. CASE CompleteCommand(TRUE, NextCommand.slot, SetSlot(NextCommand.slot, to))
    <3>1. to \in SlotStates /\ to = SlotAfter[pending_command]
      BY <1>2, <2>1 DEF SlotAfter, SlotStates
    <3> HIDE DEF to
    <3>2. /\ SetSlot(NextCommand.slot, to) \in [Slots -> SlotStates]
          /\ SetSlot(NextCommand.slot, to)[enabled_slot] = SlotAfter[pending_command]
      BY <1>2, <1>3, <2>1, <3>1
    <3> QED BY <1>1, <1>2, <2>1, <2>3, <3>2, AnswerPosted
  <2> QED BY <1>7, <2>2, <2>3 DEF HwAddress
<1>8. CASE HwConfigure
  <2>1. pending_command = "CONFIGURE" /\ hwCtl' = 0 /\ hwIntr' = 0
    BY <1>2, <1>8 DEF HwConfigure
  <2>2. CASE CompleteCommand(FALSE, NextCommand.slot, hwSlots)
    BY <1>1, <1>2, <2>1, <2>2, AnswerPosted
  <2>3. CASE CompleteCommand(TRUE, NextCommand.slot, SetSlot(NextCommand.slot, "configured"))
    <3>1. /\ SetSlot(NextCommand.slot, "configured") \in [Slots -> SlotStates]
          /\ SetSlot(NextCommand.slot, "configured")[enabled_slot] = SlotAfter[pending_command]
      BY <1>2, <1>3, <2>1 DEF SlotAfter, SlotStates
    <3> QED BY <1>1, <1>2, <2>1, <2>3, <3>1, AnswerPosted
  <2> QED BY <1>8, <2>2, <2>3 DEF HwConfigure
<1> QED BY <1>5, <1>6, <1>7, <1>8 DEF HwCommand

LEMMA HwControlInv ==
  ASSUME DriverInv, HwControl PROVE DriverInv'
<1>1. /\ hwCtl # 0 /\ hwCtl' = 0
      /\ UNCHANGED <<hwCmds, hwIntr, hwSlots, enabled_slot, pending_command, enum_state>>
  BY DEF HwControl, drvVars, slotVars
<1>2. PICK code \in Codes : event_ring' = Append(event_ring, XferEvent("ep0", code))
  BY DEF HwControl, Codes, Post
<1>3. /\ pending_command = "NONE" /\ ControlRuns /\ NoAnswer(event_ring)
      /\ event_ring \in Seq(Events)
  BY <1>1 DEF DriverInv, ControlRuns, ReportRuns, NothingRuns, CommandSent, CommandAnswered
<1>4. XferEvent("ep0", code) \in Events /\ XferEvent("ep0", code).type # "port"
  BY DEF Events, XferEvent
<1>5. /\ event_ring' \in Seq(Events)
      /\ OneAnswer(event_ring', XferEvent("ep0", code))
  BY <1>2, <1>3, <1>4, AppendAnswer
<1>6. ControlRuns'
  BY <1>1, <1>3, <1>5 DEF ControlRuns, SlotIs, XferEvent, Codes
<1> QED BY <1>1, <1>3, <1>5, <1>6, NoneIsNoCommand DEF DriverInv, SlotIs

\* A report, or the failure of the interrupt transfer.
LEMMA ReportPostedInv ==
  ASSUME DriverInv, hwIntr # 0, hwIntr' = 0,
         NEW code \in Codes, Post(XferEvent("intr", code)),
         UNCHANGED <<hwCmds, hwCtl, hwSlots, enabled_slot, pending_command, enum_state>>
  PROVE  DriverInv'
<1>1. /\ pending_command = "NONE" /\ ReportRuns /\ NoAnswer(event_ring)
      /\ event_ring \in Seq(Events)
  BY DEF DriverInv, ControlRuns, ReportRuns, NothingRuns, CommandSent, CommandAnswered
<1>2. XferEvent("intr", code) \in Events /\ XferEvent("intr", code).type # "port"
  BY DEF Events, XferEvent
<1>3. /\ event_ring' \in Seq(Events)
      /\ OneAnswer(event_ring', XferEvent("intr", code))
  BY <1>1, <1>2, AppendAnswer DEF Post
<1>4. ReportRuns'
  BY <1>1, <1>3 DEF ReportRuns, XferEvent, Codes
<1> QED BY <1>1, <1>3, <1>4, NoneIsNoCommand DEF DriverInv, SlotIs

\* A port changes: nothing but a port event.
LEMMA PortPostedInv ==
  ASSUME DriverInv, Post(PortEvent),
         UNCHANGED <<hwCmds, hwCtl, hwIntr, hwSlots, enabled_slot, pending_command, enum_state>>
  PROVE  DriverInv'
<1>1. event_ring \in Seq(Events) /\ event_ring' = Append(event_ring, PortEvent)
  BY DEF DriverInv, Post
<1>2. /\ event_ring' \in Seq(Events)
      /\ NoAnswer(event_ring) => NoAnswer(event_ring')
  BY <1>1, AppendPort
<1>3. \A e : OneAnswer(event_ring, e) => OneAnswer(event_ring', e)
  BY <1>1, AppendPort
<1> QED BY <1>2, <1>3, PortEventsOnly

LEMMA HardwareInv ==
  ASSUME VerdictInv, DriverInv, Hardware PROVE DriverInv'
<1> USE DEF drvVars, slotVars
<1>1. CASE HwCommand
  BY <1>1, HwCommandInv
<1>2. CASE HwControl
  BY <1>2, HwControlInv
<1>3. CASE HwReport \/ HwReportError
  <2>1. /\ hwIntr # 0 /\ hwIntr' = 0 /\ \E code \in Codes : Post(XferEvent("intr", code))
        /\ UNCHANGED <<hwCmds, hwCtl, hwSlots, enabled_slot, pending_command, enum_state>>
    BY <1>3 DEF HwReport, HwReportError, Codes
  <2> QED BY <2>1, ReportPostedInv
<1>4. CASE HwResetDone \/ HwPortDrop \/ HwUnplug
  <2>1. /\ Post(PortEvent)
        /\ UNCHANGED <<hwCmds, hwCtl, hwIntr, hwSlots, enabled_slot, pending_command,
                       enum_state>>
    BY <1>4 DEF HwResetDone, HwPortDrop, HwUnplug
  <2> QED BY <2>1, PortPostedInv
<1> QED BY <1>1, <1>2, <1>3, <1>4 DEF Hardware, HwAnswer, World

-----------------------------------------------------------------------------
LEMMA DriverInit == Init => DriverInv
<1> SUFFICES ASSUME Init PROVE DriverInv
  OBVIOUS
<1>1. NothingRuns /\ event_ring \in Seq(Events)
  BY DEF Init, NothingRuns, NoAnswer
<1>2. hwSlots \in [Slots -> SlotStates]
  BY DEF Init, SlotStates
<1>3. pending_command = "NONE" /\ enabled_slot \in 0..MaxSlots /\ enum_state = "IDLE"
  BY SlotsAssumption DEF Init
<1> QED BY <1>1, <1>2, <1>3, NoneIsNoCommand DEF DriverInv

LEMMA DriverNext == VerdictInv /\ DriverInv /\ [Next]_vars => DriverInv'
<1> SUFFICES ASSUME VerdictInv, DriverInv, [Next]_vars PROVE DriverInv'
  OBVIOUS
<1>1. CASE InitFails \/ InitNoPort \/ PollEnter \/ PollExit \/ KernelTurn \/ UNCHANGED vars
  <2>1. UNCHANGED <<event_ring, hwSlots, enabled_slot, pending_command,
                    enum_state, hwCmds, hwCtl, hwIntr>>
    BY <1>1 DEF InitFails, InitNoPort, PollEnter, PollExit, KernelTurn, vars,
       drvVars, hwVars, slotVars, cmdVars
  <2> QED BY <2>1, NothingMoves
<1>2. CASE InitResetsFirstPort
  BY <1>2, InitResetInv
<1>3. CASE AddressFailed \/ SlotDisabled \/ CommandDeadEnd \/ SlotEnabled
           \/ Addressed \/ EndpointConfigured
  BY <1>3, AddressFailedInv, SlotDisabledInv, CommandDeadEndInv, SlotEnabledInv,
     AddressedInv, EndpointConfiguredInv
<1>4. CASE PortChanged \/ TransferRetried \/ TransferDeadEnd \/ ReportDone
  BY <1>4, PortChangedInv, TransferRetriedInv, TransferDeadEndInv, ReportDoneInv
<1>5. CASE GotDevice8 \/ GotDevice \/ GotConfig8 \/ SetConfigDone \/ SetProtocolDone
           \/ GotConfigFull
  BY <1>5, ControlStepsInv, GotConfigFullInv
<1>6. CASE Hardware
  BY <1>6, HardwareInv
<1> QED BY <1>1, <1>2, <1>3, <1>4, <1>5, <1>6 DEF Next, Driver, PollEvent

-----------------------------------------------------------------------------
(* Counting the answers that wait in the ring.                              *)

LEMMA NoneWaits ==
  ASSUME NoAnswer(event_ring)
  PROVE  EventsOf(IsCommand) = 0 /\ EventsOf(IsControl) = 0 /\ EventsOf(IsReport) = 0
<1>1. /\ {n \in DOMAIN event_ring : IsCommand(event_ring[n])} = {}
      /\ {n \in DOMAIN event_ring : IsControl(event_ring[n])} = {}
      /\ {n \in DOMAIN event_ring : IsReport(event_ring[n])} = {}
  BY DEF NoAnswer, IsCommand, IsControl, IsReport
<1> QED BY <1>1, FS_EmptySet DEF EventsOf

LEMMA OneWaits ==
  ASSUME NEW e, OneAnswer(event_ring, e)
  PROVE  /\ EventsOf(IsCommand) = IF IsCommand(e) THEN 1 ELSE 0
         /\ EventsOf(IsControl) = IF IsControl(e) THEN 1 ELSE 0
         /\ EventsOf(IsReport) = IF IsReport(e) THEN 1 ELSE 0
<1>1. PICK n \in DOMAIN event_ring :
        event_ring[n] = e /\ \A m \in DOMAIN event_ring : m # n => event_ring[m].type = "port"
  BY DEF OneAnswer
<1>2. /\ {m \in DOMAIN event_ring : IsCommand(event_ring[m])} = IF IsCommand(e) THEN {n} ELSE {}
      /\ {m \in DOMAIN event_ring : IsControl(event_ring[m])} = IF IsControl(e) THEN {n} ELSE {}
      /\ {m \in DOMAIN event_ring : IsReport(event_ring[m])} = IF IsReport(e) THEN {n} ELSE {}
  BY <1>1 DEF IsCommand, IsControl, IsReport
<1>3. Cardinality({n}) = 1 /\ Cardinality({}) = 0
  BY FS_Singleton, FS_EmptySet
<1> QED BY <1>2, <1>3 DEF EventsOf

LEMMA CompletionsMatch == DriverInv => CompletionMatches
<1> SUFFICES ASSUME DriverInv PROVE CompletionMatches
  OBVIOUS
<1>1. CASE CommandSent /\ pending_command # "NONE"
  <2> DEFINE c == [cmd |-> pending_command,
                   slot |-> IF pending_command = "ENABLE_SLOT" THEN 0 ELSE enabled_slot]
  <2>1. hwCmds = <<c>> /\ NoAnswer(event_ring) /\ c.cmd = pending_command
    BY <1>1 DEF CommandSent
  <2> HIDE DEF c
  <2>2. Len(hwCmds) = 1 /\ \A n \in DOMAIN hwCmds : hwCmds[n].cmd = pending_command
    BY <2>1
  <2>3. \A n \in DOMAIN event_ring : ~IsCommand(event_ring[n])
    BY <2>1 DEF NoAnswer, IsCommand
  <2> QED BY <1>1, <2>1, <2>2, <2>3, NoneWaits
          DEF CompletionMatches, OneCommandInFlight, CommandsInFlight
<1>2. CASE CommandAnswered /\ pending_command # "NONE"
  <2>1. PICK ok \in BOOLEAN, s \in 0..MaxSlots :
          OneAnswer(event_ring, CmdEvent(pending_command, ok, s))
    BY <1>2 DEF CommandAnswered
  <2> DEFINE e == CmdEvent(pending_command, ok, s)
  <2>2. IsCommand(e) /\ e.cmd = pending_command
    BY DEF CmdEvent, IsCommand
  <2>3. OneAnswer(event_ring, e)
    BY <2>1
  <2> HIDE DEF e
  <2>4. EventsOf(IsCommand) = 1
    BY <2>2, <2>3, OneWaits
  <2>5. \A n \in DOMAIN event_ring : IsCommand(event_ring[n]) => event_ring[n].cmd = pending_command
    BY <2>2, <2>3 DEF OneAnswer, IsCommand
  <2>6. Len(hwCmds) = 0 /\ DOMAIN hwCmds = {}
    BY <1>2 DEF CommandAnswered
  <2> QED BY <1>2, <2>4, <2>5, <2>6
          DEF CompletionMatches, OneCommandInFlight, CommandsInFlight
<1>3. CASE pending_command = "NONE"
  <2>1. Len(hwCmds) = 0 /\ DOMAIN hwCmds = {}
    BY <1>3 DEF DriverInv, ControlRuns, ReportRuns, NothingRuns
  <2>2. CASE NoAnswer(event_ring)
    <3>1. \A n \in DOMAIN event_ring : ~IsCommand(event_ring[n])
      BY <2>2 DEF NoAnswer, IsCommand
    <3> QED BY <1>3, <2>1, <2>2, <3>1, NoneWaits
            DEF CompletionMatches, OneCommandInFlight, CommandsInFlight
  <2>3. CASE \E e : OneAnswer(event_ring, e) /\ ~IsCommand(e)
    <3>1. PICK e : OneAnswer(event_ring, e) /\ ~IsCommand(e)
      BY <2>3
    <3>2. \A n \in DOMAIN event_ring : ~IsCommand(event_ring[n])
      BY <3>1 DEF OneAnswer, IsCommand
    <3>3. EventsOf(IsCommand) = 0
      BY <3>1, OneWaits
    <3> QED BY <1>3, <2>1, <3>2, <3>3
            DEF CompletionMatches, OneCommandInFlight, CommandsInFlight
  <2>4. \A ep, code : ~IsCommand(XferEvent(ep, code))
    BY DEF IsCommand, XferEvent
  <2> QED BY <1>3, <2>2, <2>3, <2>4 DEF DriverInv, ControlRuns, ReportRuns, NothingRuns
<1> QED BY <1>1, <1>2, <1>3 DEF DriverInv

LEMMA OneBuffer == DriverInv => BuffersNotOverwritten
<1> SUFFICES ASSUME DriverInv PROVE BuffersNotOverwritten
  OBVIOUS
<1> USE DEF BuffersNotOverwritten, ControlsInFlight, ReportsInFlight, Running
<1>1. CASE NoAnswer(event_ring)
  BY <1>1, NoneWaits
<1>2. CASE hwCtl = 0 /\ hwIntr = 0 /\ \E e : OneAnswer(event_ring, e)
  <2>1. PICK e : OneAnswer(event_ring, e)
    BY <1>2
  <2>2. EventsOf(IsControl) \in {0, 1} /\ EventsOf(IsReport) \in {0, 1}
    BY <2>1, OneWaits
  <2> QED BY <1>2, <2>2
<1> QED BY <1>1, <1>2 DEF DriverInv, ControlRuns, ReportRuns, NothingRuns,
        CommandSent, CommandAnswered

LEMMA SlotsMatch == DriverInv => TransfersMatchSlotState
<1> SUFFICES ASSUME DriverInv PROVE TransfersMatchSlotState
  OBVIOUS
<1>1. hwCtl # 0 => ControlRuns
  BY DEF DriverInv, ReportRuns, NothingRuns, CommandSent, CommandAnswered
<1>2. hwIntr # 0 => ReportRuns
  BY DEF DriverInv, ControlRuns, NothingRuns, CommandSent, CommandAnswered
<1> QED BY <1>1, <1>2 DEF DriverInv, ControlRuns, ReportRuns, TransfersMatchSlotState, SlotIs

-----------------------------------------------------------------------------
(* No slot leaks while Disable Slot works.                                  *)

\* A driver that holds a slot goes on with it.
LEMMA SlotKept ==
  ASSUME SlotInv, transport_ready' => transport_ready, pc' # "boot", enabled_slot # 0,
         UNCHANGED <<enabled_slot, hwSlots>>,
         enum_state' # "RESET", pending_command' # "ENABLE_SLOT",
         pending_command' = "DISABLE_SLOT" => NoAnswer(event_ring')
  PROVE  SlotInv'
BY DEF SlotInv

\* The ring changes, but not whether or what an answer waits in it.
LEMMA SlotStays ==
  ASSUME SlotInv, NoAnswer(event_ring) => NoAnswer(event_ring'),
         \A e : OneAnswer(event_ring, e) => OneAnswer(event_ring', e),
         transport_ready' => transport_ready, pc' = "boot" => pc = "boot",
         UNCHANGED <<enabled_slot, hwSlots, enum_state, pending_command>>
  PROVE  SlotInv'
BY DEF SlotInv, CmdEvent

\* A driver that holds none, when none is in use, may ask for one.
LEMMA SlotAsked ==
  ASSUME \A s \in Slots : hwSlots'[s] = "off", pc' # "boot", enabled_slot' = 0,
         pending_command' # "DISABLE_SLOT"
  PROVE  SlotInv'
BY DEF SlotInv

LEMMA SlotGivenUp ==
  ASSUME ~transport_ready', pc' # "boot" PROVE SlotInv'
BY DEF SlotInv

LEMMA RetrySlotInv ==
  ASSUME SlotInv, NEW events \in Seq(Events), NoAnswer(events), hwCmds = << >>,
         enabled_slot # 0, NEW state, state # "RESET",
         disable_slot_for_retry(events, "NONE", state),
         UNCHANGED <<transport_ready, enabled_slot, hwSlots>>, pc' # "boot"
  PROVE  SlotInv'
<1>1. /\ event_ring' = events /\ enum_state' = state
      /\ xhci_push_command("DISABLE_SLOT", enabled_slot, "NONE")
  BY DEF disable_slot_for_retry
<1>2. pending_command' \in {"NONE", "DISABLE_SLOT"}
  BY <1>1, Pushed
<1> QED BY <1>1, <1>2, SlotKept

LEMMA CommandSlotInv ==
  ASSUME VerdictInv, DriverInv, SlotInv,
         AddressFailed \/ SlotDisabled \/ CommandDeadEnd \/ SlotEnabled
           \/ Addressed \/ EndpointConfigured
  PROVE  SlotInv'
<1>1. /\ Dequeuing("command") /\ pc' = "poll" /\ hwSlots' = hwSlots
      /\ transport_ready' => transport_ready
  BY DEF AddressFailed, SlotDisabled, CommandDeadEnd, SlotEnabled, Addressed,
     EndpointConfigured, CompletionOf, PollUnchanged, Dequeuing, fail_transport,
     retry_selected_port, transVars
<1>2. /\ pending_command \in Commands /\ hwCmds = << >>
      /\ Rest \in Seq(Events) /\ NoAnswer(Rest)
  BY <1>1, CommandTaken
<1>3. /\ event_ring \in Seq(Events) /\ event_ring # << >>
      /\ Head(event_ring).type = "command"
  BY <1>1 DEF DriverInv, Dequeuing
<1>4. ~NoAnswer(event_ring) /\ \A e : OneAnswer(event_ring, e) => Head(event_ring) = e
  BY <1>3, TakeEvent
<1>5. enum_state \notin {"RESET", "READY"}
  BY <1>2, NoneIsNoCommand DEF DriverInv, VerdictInv
<1>6. CASE ~transport_ready'
  BY <1>1, <1>6, SlotGivenUp
<1>7. ASSUME transport_ready', pending_command # "ENABLE_SLOT" PROVE enabled_slot # 0
  BY <1>2, <1>7 DEF DriverInv
<1>8. ASSUME transport_ready', pending_command = "ENABLE_SLOT",
             ~Head(event_ring).ok \/ Head(event_ring).slot = 0
      PROVE  enabled_slot = 0 /\ \A s \in Slots : hwSlots[s] = "off"
  <2>1. enabled_slot = 0
    BY <1>1, <1>8 DEF SlotInv
  <2>2. ASSUME NEW s \in Slots, hwSlots[s] # "off" PROVE FALSE
    <3>1. s \in Nat /\ s # 0
      BY SlotsAssumption DEF Slots
    <3>2. Head(event_ring) = CmdEvent("ENABLE_SLOT", TRUE, s)
      BY <1>1, <1>4, <1>8, <2>1, <2>2, <3>1 DEF SlotInv
    <3>3. Head(event_ring).ok /\ Head(event_ring).slot = s
      BY <3>2 DEF CmdEvent
    <3> QED BY <1>8, <3>1, <3>3
  <2> QED BY <2>1, <2>2
<1>9. CASE AddressFailed /\ transport_ready'
  <2>1. /\ pending_command # "ENABLE_SLOT"
        /\ disable_slot_for_retry(Rest, "NONE", enum_state)
        /\ UNCHANGED <<transport_ready, enabled_slot>>
    BY <1>9 DEF AddressFailed, CompletionOf, fail_transport
  <2> QED BY <1>1, <1>2, <1>5, <1>7, <1>9, <2>1, RetrySlotInv
<1>10. CASE SlotDisabled /\ transport_ready'
  <2>1. /\ pending_command = "DISABLE_SLOT" /\ enabled_slot' = 0
        /\ start_port_reset(selected_port, Rest, "NONE")
    BY <1>10 DEF SlotDisabled, CompletionOf
  <2>2. enabled_slot # 0
    BY <1>7, <1>10, <2>1
  <2>3. \A s \in Slots : hwSlots'[s] = "off"
    BY <1>1, <1>4, <1>10, <2>1, <2>2 DEF SlotInv
  <2>4. pending_command' # "DISABLE_SLOT"
    BY <1>2, <2>1, PortReset
  <2> QED BY <1>1, <2>1, <2>3, <2>4, SlotAsked
<1>11. CASE CommandDeadEnd /\ transport_ready'
  <2>1. /\ pending_command' = "NONE" /\ UNCHANGED <<enum_state, enabled_slot>>
        /\ pending_command \in {"ENABLE_SLOT", "CONFIGURE"}
        /\ pending_command = "ENABLE_SLOT" => ~Head(event_ring).ok \/ Head(event_ring).slot = 0
    BY <1>2, <1>11, NoneIsNoCommand DEF CommandDeadEnd, NoCommand, slotVars
  <2>2. CASE pending_command = "ENABLE_SLOT"
    BY <1>1, <1>8, <1>11, <2>1, <2>2, SlotAsked
  <2>3. CASE pending_command = "CONFIGURE"
    BY <1>1, <1>5, <1>7, <1>11, <2>1, <2>3, SlotKept
  <2> QED BY <2>1, <2>2, <2>3
<1>12. CASE SlotEnabled /\ transport_ready'
  <2>1. PICK cmd \in {"ADDRESS", "ADDRESS_BSR"} :
          /\ pending_command = "ENABLE_SLOT"
          /\ enabled_slot' = Head(event_ring).slot
          /\ enum_state' = cmd /\ xhci_push_command(cmd, enabled_slot', "NONE")
    BY <1>12 DEF SlotEnabled, CompletionOf, prepare_address_device
  <2>2. enabled_slot = 0
    BY <1>1, <1>12, <2>1 DEF SlotInv
  <2>3. ASSUME NEW s \in Slots, hwSlots[s] # "off" PROVE s = enabled_slot'
    <3>1. s \in Nat /\ s # 0
      BY SlotsAssumption DEF Slots
    <3>2. Head(event_ring) = CmdEvent("ENABLE_SLOT", TRUE, s)
      BY <1>1, <1>4, <1>12, <2>2, <2>3, <3>1 DEF SlotInv
    <3> QED BY <2>1, <3>2 DEF CmdEvent
  <2>4. pending_command' \in {"NONE", cmd}
    BY <1>2, <2>1, Pushed
  <2> QED BY <1>1, <2>1, <2>3, <2>4 DEF SlotInv
<1>13. CASE Addressed /\ transport_ready'
  <2>1. PICK next \in {"GET_DEVICE", "GET_DEVICE8"} :
          \/ usb_control(next) /\ NoCommand("NONE") /\ UNCHANGED slotVars
          \/ retry_selected_port(Rest, "NONE", next)
    BY <1>13 DEF Addressed
  <2>2. pending_command # "ENABLE_SLOT"
    BY <1>13 DEF Addressed, CompletionOf
  <2>3. CASE usb_control(next) /\ NoCommand("NONE") /\ UNCHANGED slotVars
    <3>1. enum_state' = next /\ pending_command' = "NONE" /\ enabled_slot' = enabled_slot
      BY <2>3 DEF usb_control, NoCommand, slotVars
    <3> QED BY <1>1, <1>7, <1>13, <2>2, <3>1, SlotKept
  <2>4. CASE retry_selected_port(Rest, "NONE", next)
    <3>1. /\ disable_slot_for_retry(Rest, "NONE", next)
          /\ UNCHANGED <<transport_ready, enabled_slot>>
      BY <1>13, <2>4 DEF retry_selected_port, fail_transport, transVars
    <3> QED BY <1>1, <1>2, <1>7, <1>13, <2>2, <3>1, RetrySlotInv
  <2> QED BY <2>1, <2>3, <2>4
<1>14. CASE EndpointConfigured /\ transport_ready'
  <2>1. /\ pending_command = "CONFIGURE" /\ pending_command' = "NONE"
        /\ enum_state' = "READY" /\ enabled_slot' = enabled_slot
    BY <1>14 DEF EndpointConfigured, CompletionOf, NoCommand, slotVars
  <2> QED BY <1>1, <1>7, <1>14, <2>1, SlotKept
<1> QED BY <1>6, <1>9, <1>10, <1>11, <1>12, <1>13, <1>14

LEMMA TransferSlotInv ==
  ASSUME VerdictInv, DriverInv, SlotInv,
         TransferRetried \/ TransferDeadEnd \/ ReportDone \/ GotConfigFull
           \/ GotDevice8 \/ GotDevice \/ GotConfig8 \/ SetConfigDone \/ SetProtocolDone
  PROVE  SlotInv'
<1>1. /\ Dequeuing("transfer") /\ pc' = "poll" /\ hwSlots' = hwSlots
      /\ transport_ready' => transport_ready
  <2>1. CASE TransferRetried
    BY <2>1 DEF TransferRetried, Transferred, PollUnchanged, Dequeuing,
       retry_selected_port, fail_transport, transVars
  <2>2. CASE TransferDeadEnd \/ ReportDone
    BY <2>2 DEF TransferDeadEnd, ReportDone, Transferred, PollUnchanged, Dequeuing
  <2>3. CASE GotConfigFull
    BY <2>3 DEF GotConfigFull, ControlDone, TransferOk, Transferred, PollUnchanged,
       Dequeuing, StaysUp, fail_transport
  <2>4. CASE GotDevice8 \/ GotDevice \/ GotConfig8 \/ SetConfigDone \/ SetProtocolDone
    <3>1. StaysUp /\ \E state : ControlDone(state)
      BY <2>4 DEF GotDevice8, GotDevice, GotConfig8, SetConfigDone, SetProtocolDone
    <3> QED BY <3>1 DEF ControlDone, TransferOk, Transferred, PollUnchanged, Dequeuing,
            StaysUp
  <2> QED BY <2>1, <2>2, <2>3, <2>4
<1>2. /\ pending_command = "NONE" /\ hwCmds = << >>
      /\ Rest \in Seq(Events) /\ NoAnswer(Rest)
      /\ \/ enum_state \in ControlStates /\ SlotIs({"default", "addressed"})
         \/ enum_state = "READY"
  BY <1>1, TransferTaken
<1>3. enabled_slot # 0 /\ enum_state # "RESET"
  BY <1>2, SlotsAssumption DEF DriverInv, SlotIs, Slots, ControlStates
<1>4. CASE ~transport_ready'
  BY <1>1, <1>4, SlotGivenUp
<1>5. CASE TransferRetried /\ transport_ready'
  <2>1. /\ disable_slot_for_retry(Rest, "NONE", enum_state)
        /\ UNCHANGED <<transport_ready, enabled_slot>>
    BY <1>2, <1>5 DEF TransferRetried, retry_selected_port, fail_transport, transVars
  <2> QED BY <1>1, <1>2, <1>3, <2>1, RetrySlotInv
<1>6. CASE TransferDeadEnd \/ ReportDone
  <2>1. UNCHANGED <<enabled_slot, enum_state, pending_command>>
    BY <1>6 DEF TransferDeadEnd, ReportDone, slotVars, cmdVars
  <2> QED BY <1>1, <1>2, <1>3, <2>1, SlotKept
<1>7. CASE /\ GotConfigFull \/ GotDevice \/ GotConfig8 \/ SetConfigDone
           /\ transport_ready'
  <2>1. /\ UNCHANGED <<enabled_slot, pending_command>>
        /\ enum_state' \in ControlStates
    BY <1>7 DEF GotConfigFull, GotDevice, GotConfig8, SetConfigDone, StaysUp, slotVars,
       cmdVars, usb_control, fail_transport, ControlStates
  <2> QED BY <1>1, <1>2, <1>3, <2>1, SlotKept DEF ControlStates
<1>8. CASE GotDevice8 \/ SetProtocolDone
  <2>1. PICK cmd \in {"ADDRESS", "CONFIGURE"} :
          /\ enabled_slot' = enabled_slot
          /\ enum_state' \in {"ADDRESS", "CONFIGURE_ENDPOINT"}
          /\ xhci_push_command(cmd, enabled_slot, pending_command)
    BY <1>8 DEF GotDevice8, SetProtocolDone, StaysUp, slotVars, prepare_address_device
  <2>2. pending_command' \in {"NONE", cmd}
    BY <1>2, <2>1, Pushed
  <2> QED BY <1>1, <1>3, <2>1, <2>2, SlotKept
<1> QED BY <1>4, <1>5, <1>6, <1>7, <1>8

LEMMA PortSlotInv ==
  ASSUME DriverInv, SlotInv, PortChanged PROVE SlotInv'
<1>1. /\ Dequeuing("port") /\ event_ring' = Rest /\ pc' = "poll"
      /\ UNCHANGED <<hwSlots, enabled_slot, transport_ready>>
  BY DEF PortChanged, PollUnchanged, slotVars, Dequeuing
<1>2. /\ NoAnswer(event_ring) => NoAnswer(event_ring')
      /\ \A e : OneAnswer(event_ring, e) => OneAnswer(event_ring', e)
  BY <1>1, PortTaken
<1>3. CASE UNCHANGED <<enum_state, cmdVars>>
  <2>1. UNCHANGED <<enum_state, pending_command>>
    BY <1>3 DEF cmdVars
  <2> QED BY <1>1, <1>2, <2>1, SlotStays
<1>4. CASE /\ enum_state = "RESET" /\ xhci_push_command("ENABLE_SLOT", 0, pending_command)
           /\ transport_ready'
  <2>1. pending_command = "NONE" /\ NothingRuns /\ enabled_slot = 0
    BY <1>1, <1>4 DEF DriverInv, ControlRuns, ReportRuns, ControlStates, SlotInv
  <2>2. \A s \in Slots : hwSlots[s] = "off"
    <3>1. \A e : ~OneAnswer(event_ring, e)
      BY <2>1 DEF NothingRuns, NoAnswer, OneAnswer
    <3>2. 0 \notin Slots
      BY SlotsAssumption DEF Slots
    <3> QED BY <1>1, <1>4, <2>1, <3>1, <3>2 DEF SlotInv
  <2>3. pending_command' \in {"NONE", "ENABLE_SLOT"}
    BY <1>4, <2>1, Pushed DEF NothingRuns
  <2> QED BY <1>1, <2>1, <2>2, <2>3, SlotAsked
<1>5. CASE ~transport_ready'
  BY <1>1, <1>5, SlotGivenUp
<1> QED BY <1>3, <1>4, <1>5 DEF PortChanged

LEMMA CommandRunSlotInv ==
  ASSUME "disableErr" \notin FaultKinds, VerdictInv, DriverInv, SlotInv, HwCommand
  PROVE  SlotInv'
<1>1. /\ hwCmds # << >> /\ hwSlots \in [Slots -> SlotStates]
      /\ UNCHANGED <<enabled_slot, pending_command, enum_state, transport_ready, pc>>
  BY DEF HwCommand, drvVars, slotVars, transVars, drvRest, DriverInv
<1>2. /\ pending_command \in Commands /\ NoAnswer(event_ring)
      /\ event_ring \in Seq(Events)
      /\ NextCommand.cmd = pending_command /\ NextCommand.slot \in 0..MaxSlots
      /\ pending_command # "ENABLE_SLOT" =>
           NextCommand.slot = enabled_slot /\ enabled_slot \in Slots
  BY <1>1, CommandRuns DEF CommandSent, DriverInv
<1>3. \A e : ~OneAnswer(event_ring, e)
  BY <1>2 DEF NoAnswer, OneAnswer
<1>4. 0 \notin Slots /\ Slots \subseteq 0..MaxSlots /\ 0 \in 0..MaxSlots
  BY SlotsAssumption DEF Slots
<1>5. CASE HwEnableSlot
  <2>1. pending_command = "ENABLE_SLOT"
    BY <1>2, <1>5 DEF HwEnableSlot
  <2>2. transport_ready => enabled_slot = 0 /\ \A s \in Slots : hwSlots[s] = "off"
    BY <2>1, <1>3, <1>4 DEF SlotInv
  <2>3. CASE hwSlots' = hwSlots
    BY <1>1, <2>1, <2>2, <2>3 DEF SlotInv
  <2>4. CASE hwSlots' # hwSlots
    <3>1. PICK s \in FreeSlots : CompleteCommand(TRUE, s, SetSlot(s, "enabled"))
      BY <1>5, <2>4, EnableSlotOutcome DEF CompleteCommand
    <3>2. s \in Slots
      BY DEF FreeSlots
    <3>3. /\ hwSlots' = [hwSlots EXCEPT ![s] = "enabled"]
          /\ event_ring' = Append(event_ring, CmdEvent("ENABLE_SLOT", TRUE, s))
      BY <1>2, <2>1, <3>1 DEF CompleteCommand, SetSlot, Post, NextCommand
    <3>4. /\ CmdEvent(pending_command, TRUE, s) \in Events
          /\ CmdEvent(pending_command, TRUE, s).type # "port"
      <4>1. s \in 0..MaxSlots /\ pending_command \in Commands
        BY <1>2, <1>4, <3>2
      <4> QED BY <4>1, AnswerIsEvent
    <3>5. OneAnswer(event_ring', CmdEvent("ENABLE_SLOT", TRUE, s))
      BY <1>2, <2>1, <3>3, <3>4, AppendAnswer
    <3>6. transport_ready => \A t \in Slots : hwSlots'[t] # "off" => t = s
      BY <1>1, <2>2, <3>2, <3>3
    <3>7. transport_ready => \A t \in Slots : hwSlots'[t] # "off" =>
            OneAnswer(event_ring', CmdEvent("ENABLE_SLOT", TRUE, t))
      BY <3>5, <3>6
    <3>8. pc = "boot" => ~transport_ready /\ pending_command = "NONE"
      BY DEF SlotInv, VerdictInv
    <3> QED BY <1>1, <2>1, <2>2, <3>7, <3>8 DEF SlotInv, CmdEvent
  <2> QED BY <2>3, <2>4
<1>6. CASE HwDisableSlot
  <2>1. /\ pending_command = "DISABLE_SLOT"
        /\ CompleteCommand(TRUE, NextCommand.slot, SetSlot(NextCommand.slot, "off"))
    BY <1>2, <1>6 DEF HwDisableSlot, Fault, MayFault
  <2>2. hwSlots' = [hwSlots EXCEPT ![enabled_slot] = "off"] /\ enabled_slot \in Slots
    BY <1>2, <2>1 DEF CompleteCommand, SetSlot
  <2>3. hwSlots'[enabled_slot] = "off" /\ \A s \in Slots : hwSlots'[s] # "off" => hwSlots[s] # "off"
    BY <1>1, <2>2
  <2> QED BY <1>1, <1>4, <2>1, <2>2, <2>3 DEF SlotInv
<1>7. CASE HwAddress \/ HwConfigure
  <2>1. pending_command \notin {"ENABLE_SLOT", "DISABLE_SLOT"}
    BY <1>2, <1>7 DEF HwAddress, HwConfigure
  <2>2. \A s \in Slots : s # enabled_slot => hwSlots'[s] = hwSlots[s]
    BY <1>1, <1>2, <1>7, <2>1 DEF HwAddress, HwConfigure, CompleteCommand, SetSlot
  <2>3. enabled_slot \in Slots
    BY <1>2, <2>1
  <2> QED BY <1>1, <1>4, <2>1, <2>2, <2>3 DEF SlotInv
<1> QED BY <1>5, <1>6, <1>7 DEF HwCommand

LEMMA HardwareSlotInv ==
  ASSUME "disableErr" \notin FaultKinds, VerdictInv, DriverInv, SlotInv, Hardware
  PROVE  SlotInv'
<1> USE DEF drvVars, slotVars, transVars, drvRest
<1>1. CASE HwCommand
  BY <1>1, CommandRunSlotInv
<1>2. CASE HwControl \/ HwReport \/ HwReportError
  <2>1. /\ hwCtl # 0 \/ hwIntr # 0
        /\ UNCHANGED <<hwSlots, enabled_slot, pending_command, enum_state,
                       transport_ready, pc>>
    BY <1>2 DEF HwControl, HwReport, HwReportError
  <2>2. /\ pending_command = "NONE"
        /\ \/ enum_state \in ControlStates /\ SlotIs({"default", "addressed"})
           \/ enum_state = "READY"
    BY <2>1 DEF DriverInv, ControlRuns, ReportRuns, NothingRuns, CommandSent, CommandAnswered
  <2>3. enabled_slot # 0 /\ enum_state # "RESET"
    BY <2>2, SlotsAssumption DEF DriverInv, SlotIs, Slots, ControlStates
  <2>4. pc # "boot"
    BY <2>2 DEF VerdictInv, ControlStates
  <2> QED BY <2>1, <2>2, <2>3, <2>4, SlotKept
<1>3. CASE HwResetDone \/ HwPortDrop \/ HwUnplug
  <2>1. /\ event_ring \in Seq(Events) /\ event_ring' = Append(event_ring, PortEvent)
        /\ UNCHANGED <<hwSlots, enabled_slot, pending_command, enum_state,
                       transport_ready, pc>>
    BY <1>3 DEF HwResetDone, HwPortDrop, HwUnplug, Post, DriverInv
  <2>2. /\ NoAnswer(event_ring) => NoAnswer(event_ring')
        /\ \A e : OneAnswer(event_ring, e) => OneAnswer(event_ring', e)
    BY <2>1, AppendPort
  <2> QED BY <2>1, <2>2, SlotStays
<1> QED BY <1>1, <1>2, <1>3 DEF Hardware, HwAnswer, World

LEMMA SlotInit == Init => SlotInv
BY DEF Init, SlotInv

LEMMA SlotNext ==
  ASSUME "disableErr" \notin FaultKinds
  PROVE  VerdictInv /\ DriverInv /\ SlotInv /\ [Next]_vars => SlotInv'
<1> SUFFICES ASSUME VerdictInv, DriverInv, SlotInv, [Next]_vars PROVE SlotInv'
  OBVIOUS
<1>1. CASE InitFails \/ PollEnter \/ PollExit \/ KernelTurn \/ UNCHANGED vars
  <2>1. /\ UNCHANGED <<event_ring, hwSlots, enabled_slot, pending_command,
                       enum_state, transport_ready>>
        /\ pc' = "boot" => pc = "boot"
    BY <1>1 DEF InitFails, PollEnter, PollExit, KernelTurn, vars, drvVars, drvRest,
       hwVars, slotVars, cmdVars, transVars
  <2> QED BY <2>1 DEF SlotInv, CmdEvent
<1>2. CASE InitNoPort
  BY <1>2, SlotGivenUp DEF InitNoPort
<1>3. CASE InitResetsFirstPort
  <2>1. /\ enabled_slot' = 0 /\ \A s \in Slots : hwSlots'[s] = "off"
        /\ pc' = "after" /\ pc = "boot"
    BY <1>3 DEF InitResetsFirstPort, slotVars, SlotInv
  <2>2. hwCmds = << >> /\ << >> \in Seq(Events) /\ NoAnswer(<< >>)
    BY <2>1, BootRunsNothing DEF NothingRuns, NoAnswer
  <2>3. \E p : start_port_reset(p, << >>, "NONE")
    BY <1>3 DEF InitResetsFirstPort
  <2>4. pending_command' # "DISABLE_SLOT"
    BY <2>2, <2>3, PortReset
  <2> QED BY <2>1, <2>4, SlotAsked
<1>4. CASE AddressFailed \/ SlotDisabled \/ CommandDeadEnd \/ SlotEnabled
           \/ Addressed \/ EndpointConfigured
  BY <1>4, CommandSlotInv
<1>5. CASE TransferRetried \/ TransferDeadEnd \/ ReportDone \/ GotConfigFull
           \/ GotDevice8 \/ GotDevice \/ GotConfig8 \/ SetConfigDone \/ SetProtocolDone
  BY <1>5, TransferSlotInv
<1>6. CASE PortChanged
  BY <1>6, PortSlotInv
<1>7. CASE Hardware
  BY <1>7, HardwareSlotInv
<1> QED BY <1>1, <1>2, <1>3, <1>4, <1>5, <1>6, <1>7 DEF Next, Driver, PollEvent

LEMMA NoneLeaks == SlotInv => NoSlotLeak
BY DEF SlotInv, NoSlotLeak, OneAnswer

-----------------------------------------------------------------------------
(* A keyboard that was ready is never reported failed (usb_kbd.c 770-778    *)
(* and 1521-1532).                                                          *)
THEOREM ReadyKeyboardNeverFails == Spec => []ReadyNeverFails
<1>1. VerdictInv => ReadyNeverFails
  BY DEF VerdictInv, ReadyNeverFails
<1> QED BY <1>1, VerdictInit, VerdictNext, PTL DEF Spec

(* A transport that failed stays failed and never becomes ready, so the     *)
(* fallback of kernel_main needs to happen only once (kernel.c 264-281).    *)
THEOREM FailureIsFinal == Spec => FailedIsFinal
<1>1. VerdictInv /\ VerdictInv' /\ [Next]_vars =>
        [transport_failed => transport_failed' /\ ~usb_kbd_is_ready']_vars
  BY FailedStays DEF VerdictInv, usb_kbd_is_ready
<1> QED BY <1>1, VerdictInit, VerdictNext, PTL DEF Spec, FailedIsFinal

(* One byte, pending_command, is enough to name the command in flight, and   *)
(* the completion the driver takes is always the one of that command: no    *)
(* retry, port event or refused push ever leaves two (usb_kbd.c 1298-1345). *)
THEOREM CompletionsMatchCommands == Spec => []CompletionMatches
BY VerdictInit, VerdictNext, DriverInit, DriverNext, CompletionsMatch, PTL DEF Spec

(* The descriptor buffer and the report buffer have one writer at a time:   *)
(* the driver queues a transfer only after it has read the last one's       *)
(* completion (usb_kbd.c 1090-1122 and 1455-1503).                          *)
THEOREM BuffersAreSafe == Spec => []BuffersNotOverwritten
BY VerdictInit, VerdictNext, DriverInit, DriverNext, OneBuffer, PTL DEF Spec

(* The slot a running transfer belongs to is the one the driver holds, and  *)
(* it has been addressed, or configured for the key reports.                *)
THEOREM ProtocolOrder == Spec => []TransfersMatchSlotState
BY VerdictInit, VerdictNext, DriverInit, DriverNext, SlotsMatch, PTL DEF Spec

(* While Disable Slot works, a retry never takes a second slot: the         *)
(* hardware's slots in use are the driver's, or on their way to it          *)
(* (usb_kbd.c 780-790, 1347 and 1384).                                      *)
THEOREM SlotsNeverLeak ==
  ASSUME "disableErr" \notin FaultKinds
  PROVE  Spec => []NoSlotLeak
<1>1. VerdictInv /\ DriverInv /\ SlotInv /\ [Next]_vars => SlotInv'
  BY SlotNext
<1> QED
  BY <1>1, VerdictInit, VerdictNext, DriverInit, DriverNext, SlotInit, NoneLeaks, PTL DEF Spec

-----------------------------------------------------------------------------
(* The driver under kernel_main (InputManager): its invariant holds in the  *)
(* composition as well, so the automatic mode trades the PS/2 keyboard only *)
(* for a USB keyboard whose enumeration reached its end.                    *)

\* kernel_main leaves alone what the driver's invariant speaks of.
LEMMA KernelKeepsDriver == VerdictInv /\ DriverInv /\ KernelStep => VerdictInv' /\ DriverInv'
<1> SUFFICES ASSUME VerdictInv, DriverInv, KernelStep PROVE VerdictInv' /\ DriverInv'
  OBVIOUS
<1>1. /\ UNCHANGED <<transVars, hwVars, slotVars, pending_command, enum_state>>
      /\ pc' = "loop"
  BY DEF KernelStep, BootLegacy, BootUsb, LoopTurn
<1>2. UNCHANGED <<transport_ready, transport_failed, event_ring, hwSlots, enabled_slot,
                  pending_command, enum_state, hwCmds, hwCtl, hwIntr>>
  BY <1>1 DEF transVars, hwVars, slotVars
<1>3. VerdictInv'
  BY <1>1, <1>2 DEF VerdictInv
<1> QED BY <1>2, <1>3, NothingMoves

LEMMA ComposedInit == IMInit => VerdictInv /\ DriverInv
BY VerdictInit, DriverInit DEF IMInit

LEMMA ComposedNext == VerdictInv /\ DriverInv /\ [IMNext]_imVars => VerdictInv' /\ DriverInv'
<1> SUFFICES ASSUME VerdictInv, DriverInv, [IMNext]_imVars PROVE VerdictInv' /\ DriverInv'
  OBVIOUS
<1>1. CASE KernelStep
  BY <1>1, KernelKeepsDriver
<1>2. CASE DriverStep \/ HardwareStep \/ UNCHANGED imVars
  <2>1. [Next]_vars
    BY <1>2 DEF DriverStep, HardwareStep, imVars, Next
  <2> QED BY <2>1, VerdictNext, DriverNext
<1> QED BY <1>1, <1>2 DEF IMNext

LEMMA ComposedSlots ==
  ASSUME "disableErr" \notin FaultKinds
  PROVE  VerdictInv /\ DriverInv /\ SlotInv /\ [IMNext]_imVars => SlotInv'
<1> SUFFICES ASSUME VerdictInv, DriverInv, SlotInv, [IMNext]_imVars PROVE SlotInv'
  OBVIOUS
<1>1. CASE KernelStep
  <2>1. /\ UNCHANGED <<transport_ready, event_ring, hwSlots, enabled_slot,
                       pending_command, enum_state>>
        /\ pc' # "boot"
    BY <1>1 DEF KernelStep, BootLegacy, BootUsb, LoopTurn, transVars, hwVars, slotVars
  <2> QED BY <2>1, SlotStays
<1>2. CASE DriverStep \/ HardwareStep \/ UNCHANGED imVars
  <2>1. [Next]_vars
    BY <1>2 DEF DriverStep, HardwareStep, imVars, Next
  <2> QED BY <2>1, SlotNext
<1> QED BY <1>1, <1>2 DEF IMNext

LEMMA GivenUpForKeyboard ==
  ASSUME DriverInv, [IMNext]_imVars, ps2_keyboard_enabled, ~ps2_keyboard_enabled'
  PROVE  kbd_ep /\ hwSlots[enabled_slot] = "configured"
<1>1. LoopTurn /\ SelectsUsb
  BY DEF IMNext, DriverStep, HardwareStep, KernelStep, BootLegacy, BootUsb, LoopTurn,
         imVars, inputVars
<1>2. kbd_ep /\ enum_state = "READY"
  BY <1>1 DEF SelectsUsb, usb_kbd_is_ready
<1> QED BY <1>2 DEF DriverInv, SlotIs

(* PS/2 is switched off by the main loop only for a USB keyboard with an    *)
(* interrupt endpoint and a configured slot (kernel.c 264-281).             *)
THEOREM Ps2IsTradedForKeyboard == IMSpec => Ps2GivenUpForKeyboard
<1>1. DriverInv /\ [IMNext]_imVars =>
        [ps2_keyboard_enabled /\ ~ps2_keyboard_enabled' =>
           kbd_ep /\ hwSlots[enabled_slot] = "configured"]_imVars
  BY GivenUpForKeyboard
<1> QED BY <1>1, ComposedInit, ComposedNext, PTL DEF IMSpec, Ps2GivenUpForKeyboard

(* No retry takes a second slot while kernel_main turns around the driver,  *)
(* in whichever mode it was booted, as long as Disable Slot works.          *)
THEOREM ComposedSlotsNeverLeak ==
  ASSUME "disableErr" \notin FaultKinds
  PROVE  IMSpec => []NoSlotLeak
<1>1. VerdictInv /\ DriverInv /\ SlotInv /\ [IMNext]_imVars => SlotInv'
  BY ComposedSlots
<1>2. IMInit => SlotInv
  BY SlotInit DEF IMInit
<1> QED
  BY <1>1, <1>2, ComposedInit, ComposedNext, NoneLeaks, PTL DEF IMSpec

=============================================================================
