------------------------------ MODULE XhciKbd ------------------------------
(***************************************************************************)
(* The xHCI keyboard driver src/src/usb_kbd.c: the enumeration state       *)
(* machine driven by usb_kbd_poll, its retry rules, the one-slot           *)
(* pending_command, the command ring that never wraps, and the two TRBs    *)
(* the driver waits for.                                                   *)
(*                                                                         *)
(* The driver is polled: it acts only inside usb_kbd_init and              *)
(* usb_kbd_poll, and one step here is one iteration of the event loop.     *)
(* The controller and the devices are external, modelled from what the     *)
(* driver asks of them and reads back: they execute the commands and       *)
(* transfers in order, post one event for each, and post port status       *)
(* changes when a port is reset or a device is unplugged.  What they may   *)
(* do wrong is the set FaultKinds; MaxFaults bounds how often.             *)
(***************************************************************************)
EXTENDS Naturals, Sequences, FiniteSets

CONSTANTS CmdRingSize,   \* XHCI_CMD_RING_SIZE, 64
          MaxSlots,      \* max_slots of HCSPARAMS1
          Ports,         \* 1..max_ports
          Devices,       \* possible devices: functions from Ports to DeviceKinds
          Speeds,        \* possible speeds of a device on a port, subset of 1..4
          FaultKinds,    \* what the hardware may do wrong
          MaxFaults,     \* bound: number of faults
          MaxReports     \* bound: number of key reports the keyboard sends

DeviceKinds == {"none", "keyboard", "other"}

AllFaults ==
  {"initFails",      \* no controller, no BAR, no halt/reset/start: init returns
   "addressErr",     \* Address Device completes with an error
   "disableErr",     \* Disable Slot completes with an error
   "otherCmdErr",    \* Enable Slot or Configure Endpoint completes with an error
   "slotZero",       \* Enable Slot succeeds but reports slot 0
   "xact",           \* control transfer: USB transaction error (code 4)
   "stall",          \* control transfer: any other error, such as a stall
   "reportErr",      \* interrupt transfer: any error
   "resetDisabled",  \* PR clears, the port is not enabled
   "resetSlow",      \* PR is still set when start_port_reset gives up
   "portDrop",       \* the port loses PED under the driver
   "unplug"}         \* the keyboard is pulled out

ASSUME RingAssumption  == CmdRingSize \in Nat /\ CmdRingSize >= 2
ASSUME SlotsAssumption == MaxSlots \in Nat /\ MaxSlots >= 1
ASSUME PortsAssumption == /\ Ports \subseteq Nat \ {0} /\ IsFiniteSet(Ports)
                          /\ Devices \subseteq [Ports -> DeviceKinds]
                          /\ Speeds \subseteq 1..4
ASSUME FaultAssumption == /\ FaultKinds \subseteq AllFaults
                          /\ MaxFaults \in Nat /\ MaxReports \in Nat

VARIABLES
  \* globals of usb_kbd.c
  controller_present, transport_ready, transport_failed,
  enum_state, pending_command, cmd_enqueue,
  enabled_slot, selected_port, selected_speed,
  retry_after_disable_slot, address_retry_count, transfer_retry_count,
  ep0_wait, intr_wait,    \* ep0_wait_trb, intr_wait_trb: waiting or not
  kbd_ep,                 \* kbd_ep_addr # 0
  reportsFed,             \* calls of usb_kbd_feed_boot_report
  pc,                     \* kernel_main: "boot", "loop", "poll", "after"
  \* the controller and the devices
  event_ring,             \* events posted and not dequeued
  hwCmds,                 \* commands rung and not completed
  hwCtl, hwIntr,          \* slot of a running control / interrupt transfer, or 0
  hwSlots,                \* device state of each slot
  hwPorts,                \* [ccs, ped, pr] of each port
  device, speed,          \* what is plugged in, chosen at power-on
  reportsSent, faults

countVars == <<address_retry_count, transfer_retry_count>>
selVars   == <<selected_port, selected_speed>>
slotVars  == <<enabled_slot, retry_after_disable_slot>>
cmdVars   == <<pending_command, cmd_enqueue, hwCmds>>
waitVars  == <<ep0_wait, intr_wait>>
transVars == <<controller_present, transport_ready, transport_failed>>
drvRest   == <<kbd_ep, reportsFed, pc>>
drvVars   == <<transVars, enum_state, pending_command, cmd_enqueue, slotVars,
               selVars, countVars, waitVars, drvRest>>
hwRest    == <<device, speed, reportsSent>>
hwVars    == <<event_ring, hwCmds, hwCtl, hwIntr, hwSlots, hwPorts, hwRest,
               faults>>
vars      == <<drvVars, hwVars>>

ControlStates ==
  {"GET_DEVICE8", "GET_DEVICE", "GET_CONFIG8", "GET_CONFIG_FULL",
   "SET_CONFIG", "SET_PROTOCOL"}
Slots == 1..MaxSlots

usb_kbd_is_ready ==
  transport_ready /\ enum_state = "READY" /\ kbd_ep /\ intr_wait

InitPort(p) ==
  [ccs |-> device[p] # "none", ped |-> FALSE, pr |-> FALSE]

Init ==
  /\ controller_present = FALSE /\ transport_ready = FALSE
  /\ transport_failed = FALSE
  /\ enum_state = "IDLE" /\ pending_command = "NONE" /\ cmd_enqueue = 0
  /\ enabled_slot = 0 /\ selected_port = 0 /\ selected_speed = 0
  /\ retry_after_disable_slot = FALSE
  /\ address_retry_count = 0 /\ transfer_retry_count = 0
  /\ ep0_wait = FALSE /\ intr_wait = FALSE /\ kbd_ep = FALSE
  /\ reportsFed = 0 /\ pc = "boot"
  /\ event_ring = << >> /\ hwCmds = << >> /\ hwCtl = 0 /\ hwIntr = 0
  /\ hwSlots = [s \in Slots |-> "off"]
  /\ device \in Devices /\ speed \in Speeds
  /\ hwPorts = [p \in Ports |-> InitPort(p)]
  /\ reportsSent = 0 /\ faults = 0

-----------------------------------------------------------------------------
(* Faults and events.                                                       *)

MayFault(kind) == kind \in FaultKinds /\ faults < MaxFaults
Fault(kind)    == MayFault(kind) /\ faults' = faults + 1
NoFault        == faults' = faults

\* cmd names the command TRB the event points at; the driver never looks.
CmdEvent(cmd, ok, slot) ==
  [type |-> "command", cmd |-> cmd, ok |-> ok, slot |-> slot]
PortEvent          == [type |-> "port"]
XferEvent(ep, code) == [type |-> "transfer", ep |-> ep, code |-> code]

-----------------------------------------------------------------------------
(* Helpers of the driver.                                                   *)

\* xhci_push_command: a full ring refuses silently, nobody looks at the result.
xhci_push_command(cmd, slot, base) ==
  IF cmd_enqueue >= CmdRingSize - 1
  THEN /\ pending_command' = base
       /\ UNCHANGED <<cmd_enqueue, hwCmds>>
  ELSE /\ pending_command' = cmd
       /\ cmd_enqueue' = cmd_enqueue + 1
       /\ hwCmds' = Append(hwCmds, [cmd |-> cmd, slot |-> slot])

\* No command pushed by this step.
NoCommand(base) ==
  pending_command' = base /\ UNCHANGED <<cmd_enqueue, hwCmds>>

\* usb_control_in and usb_control_out: three or two TRBs, wait for the last.
usb_control(state) ==
  /\ enum_state' = state
  /\ ep0_wait' = TRUE /\ hwCtl' = enabled_slot

\* What the port answers while start_port_reset polls PR.
ResetOutcome(p, o) ==
  CASE o = "enabled"  -> hwPorts[p].ccs /\ NoFault
    [] o = "disabled" -> IF hwPorts[p].ccs THEN Fault("resetDisabled") ELSE NoFault
    [] o = "slow"     -> hwPorts[p].ccs /\ Fault("resetSlow")

\* start_port_reset(p): poll PR, and enable a slot at once when the port came
\* up.  The change bits it clears have already posted a port event.
start_port_reset(p, events, base) ==
  \E o \in {"enabled", "disabled", "slow"} :
    /\ ResetOutcome(p, o)
    /\ selected_port' = p
    /\ selected_speed' = IF hwPorts[p].ccs THEN speed ELSE 0
    /\ hwPorts' = [hwPorts EXCEPT ![p].ped = (o = "enabled"),
                                  ![p].pr = (o = "slow")]
    /\ event_ring' = IF o = "slow" THEN events ELSE Append(events, PortEvent)
    /\ IF o = "enabled"
       THEN /\ enum_state' = "ENABLE_SLOT"
            /\ xhci_push_command("ENABLE_SLOT", 0, base)
       ELSE /\ enum_state' = "RESET"
            /\ NoCommand(base)

\* fail_transport.
fail_transport ==
  /\ transport_ready' = FALSE /\ transport_failed' = TRUE
  /\ enum_state' = "IDLE" /\ enabled_slot' = 0
  /\ retry_after_disable_slot' = FALSE
  /\ NoCommand("NONE")
  /\ UNCHANGED controller_present

\* Fault: the slot is forgotten, not disabled.
disable_slot_for_retry_Forgets(events, base, state) ==
  /\ retry_after_disable_slot' = FALSE
  /\ start_port_reset(selected_port, events, base)

\* disable_slot_for_retry: give the slot back first, or reset the port at once.
disable_slot_for_retry(events, base, state) ==
  /\ retry_after_disable_slot' = TRUE
  /\ IF enabled_slot # 0
     THEN /\ xhci_push_command("DISABLE_SLOT", enabled_slot, base)
          /\ event_ring' = events
          /\ enum_state' = state
          /\ NoFault /\ UNCHANGED <<selVars, hwPorts>>
     ELSE start_port_reset(selected_port, events, base)

\* Fault: every retry already reports the failure that only the last one is.
retry_selected_port_Reports(events, base, state) ==
  /\ transfer_retry_count < 3
  /\ transport_failed' = TRUE
  /\ transfer_retry_count' = transfer_retry_count + 1
  /\ ep0_wait' = FALSE /\ intr_wait' = FALSE
  /\ disable_slot_for_retry(events, base, state)
  /\ UNCHANGED <<controller_present, transport_ready, enabled_slot>>

\* retry_selected_port: three resets, then the transport is given up.
retry_selected_port(events, base, state) ==
  IF selected_port = 0 \/ transfer_retry_count >= 3
  THEN /\ fail_transport
       /\ event_ring' = events
       /\ NoFault
       /\ UNCHANGED <<transfer_retry_count, waitVars, selVars, hwPorts>>
  ELSE /\ transfer_retry_count' = transfer_retry_count + 1
       /\ ep0_wait' = FALSE /\ intr_wait' = FALSE
       /\ disable_slot_for_retry(events, base, state)
       /\ UNCHANGED <<transVars, enabled_slot>>

\* prepare_address_device: a fresh ep0 ring and the Address Device command.
prepare_address_device(slot, bsr, base) ==
  LET cmd == IF bsr THEN "ADDRESS_BSR" ELSE "ADDRESS"
  IN  /\ ep0_wait' = FALSE
      /\ enum_state' = cmd
      /\ xhci_push_command(cmd, slot, base)

\* next_ep0_mps_retry: the ep0 packet size tried after an address failure.
next_ep0_mps_retry(retry) ==
  IF selected_speed = 2 THEN 0
  ELSE IF retry \in 1..3 THEN <<64, 32, 16>>[retry] ELSE 0

-----------------------------------------------------------------------------
(* usb_kbd_init, called once by kernel_main.                                *)

\* One of its early returns: nothing but controller_present tells.
InitFails ==
  /\ pc = "boot" /\ Fault("initFails")
  /\ pc' = "after"
  /\ UNCHANGED <<transVars, enum_state, cmdVars, slotVars, selVars, countVars,
                 waitVars, kbd_ep, reportsFed, event_ring, hwCtl, hwIntr,
                 hwSlots, hwPorts, hwRest>>

ConnectedPorts == {p \in Ports : hwPorts[p].ccs}

\* reset_first_connected_port: the lowest port with something plugged in.
InitResetsFirstPort ==
  /\ pc = "boot" /\ pc' = "after"
  /\ ConnectedPorts # {}
  /\ LET p == CHOOSE q \in ConnectedPorts : \A r \in ConnectedPorts : q <= r
     IN  start_port_reset(p, << >>, "NONE")
  /\ controller_present' = TRUE /\ transport_ready' = TRUE
  /\ UNCHANGED <<transport_failed, slotVars, countVars, waitVars, kbd_ep,
                 reportsFed, hwCtl, hwIntr, hwSlots, hwRest>>

InitNoPort ==
  /\ pc = "boot" /\ pc' = "after"
  /\ ConnectedPorts = {}
  /\ controller_present' = TRUE
  /\ transport_ready' = FALSE /\ transport_failed' = TRUE
  /\ UNCHANGED <<enum_state, cmdVars, slotVars, selVars, countVars, waitVars,
                 kbd_ep, reportsFed, event_ring, hwCtl, hwIntr, hwSlots,
                 hwPorts, hwRest, faults>>

-----------------------------------------------------------------------------
(* usb_kbd_poll.                                                            *)

\* Called by the main loop; does nothing while the transport is down.
PollEnter ==
  /\ pc = "loop"
  /\ pc' = IF transport_ready THEN "poll" ELSE "after"
  /\ UNCHANGED <<transVars, enum_state, pending_command, cmd_enqueue, slotVars,
                 selVars, countVars, waitVars, kbd_ep, reportsFed, hwVars>>

\* No event left with the right cycle bit.
PollExit ==
  /\ pc = "poll" /\ event_ring = << >>
  /\ pc' = "after"
  /\ UNCHANGED <<transVars, enum_state, pending_command, cmd_enqueue, slotVars,
                 selVars, countVars, waitVars, kbd_ep, reportsFed, hwVars>>

Dequeuing(type) ==
  pc = "poll" /\ event_ring # << >> /\ Head(event_ring).type = type

Rest == Tail(event_ring)

\* What no iteration of the event loop touches.
PollUnchanged ==
  UNCHANGED <<controller_present, pc, hwSlots, hwRest>>

-----------------------------------------------------------------------------
(* Command completions.                                                     *)
CompletionOf(cmd, ok) ==
  /\ Dequeuing("command") /\ pending_command = cmd /\ Head(event_ring).ok = ok
  /\ PollUnchanged

\* Address Device failed: another packet size after another reset, three times.
AddressFailed ==
  /\ \E cmd \in {"ADDRESS", "ADDRESS_BSR"} : CompletionOf(cmd, FALSE)
  /\ IF /\ address_retry_count < 3 /\ selected_port # 0
        /\ next_ep0_mps_retry(address_retry_count + 1) # 0 \/ selected_speed = 2
     THEN /\ address_retry_count' = address_retry_count + 1
          /\ disable_slot_for_retry(Rest, "NONE", enum_state)
          /\ UNCHANGED <<transport_ready, transport_failed, enabled_slot>>
     ELSE /\ fail_transport
          /\ event_ring' = Rest
          /\ NoFault /\ UNCHANGED <<address_retry_count, selVars, hwPorts>>
  /\ UNCHANGED <<transfer_retry_count, waitVars, kbd_ep, reportsFed,
                 hwCtl, hwIntr>>

\* Fault: nothing happens once the slot is disabled.
SlotDisabled_Forgets ==
  /\ \E ok \in BOOLEAN : CompletionOf("DISABLE_SLOT", ok)
  /\ retry_after_disable_slot
  /\ enabled_slot' = 0 /\ retry_after_disable_slot' = FALSE
  /\ event_ring' = Rest /\ NoCommand("NONE")
  /\ UNCHANGED <<transport_ready, transport_failed, enum_state, selVars,
                 countVars, waitVars, kbd_ep, reportsFed, hwCtl, hwIntr,
                 hwPorts, faults>>

\* Disable Slot done, or failed: either way the port is reset again.
SlotDisabled ==
  /\ \E ok \in BOOLEAN : CompletionOf("DISABLE_SLOT", ok)
  /\ retry_after_disable_slot
  /\ enabled_slot' = 0 /\ retry_after_disable_slot' = FALSE
  /\ start_port_reset(selected_port, Rest, "NONE")
  /\ UNCHANGED <<transport_ready, transport_failed, countVars, waitVars,
                 kbd_ep, reportsFed, hwCtl, hwIntr>>

\* Nothing follows: Enable Slot or Configure Endpoint failed, slot 0, or no
\* command was pending.
CommandDeadEnd ==
  /\ Dequeuing("command") /\ PollUnchanged
  /\ LET e == Head(event_ring)
     IN  IF e.ok
         THEN pending_command = "NONE" \/ (pending_command = "ENABLE_SLOT" /\ e.slot = 0)
         ELSE pending_command \in {"ENABLE_SLOT", "CONFIGURE", "NONE"}
  /\ event_ring' = Rest /\ NoCommand("NONE")
  /\ UNCHANGED <<transport_ready, transport_failed, enum_state, slotVars,
                 selVars, countVars, waitVars, kbd_ep, reportsFed, hwCtl,
                 hwIntr, hwPorts, faults>>

SlotEnabled ==
  /\ CompletionOf("ENABLE_SLOT", TRUE) /\ Head(event_ring).slot # 0
  /\ enabled_slot' = Head(event_ring).slot
  /\ prepare_address_device(enabled_slot', selected_speed >= 4, "NONE")
  /\ event_ring' = Rest
  /\ UNCHANGED <<transport_ready, transport_failed, retry_after_disable_slot,
                 selVars, countVars, intr_wait, kbd_ep, reportsFed, hwCtl,
                 hwIntr, hwPorts, faults>>

\* Both Address Device variants go on with a descriptor, if the port is still
\* enabled (wait_selected_port_enabled).
Addressed ==
  /\ \E cmd \in {"ADDRESS", "ADDRESS_BSR"} :
       /\ CompletionOf(cmd, TRUE)
       /\ LET next == IF cmd = "ADDRESS" THEN "GET_DEVICE" ELSE "GET_DEVICE8"
          IN  IF hwPorts[selected_port].ped
              THEN /\ usb_control(next)
                   /\ event_ring' = Rest /\ NoCommand("NONE")
                   /\ NoFault
                   /\ UNCHANGED <<transport_ready, transport_failed, slotVars,
                                  selVars, transfer_retry_count, intr_wait,
                                  hwPorts>>
              ELSE /\ retry_selected_port(Rest, "NONE", next)
                   /\ UNCHANGED hwCtl
  /\ UNCHANGED <<address_retry_count, kbd_ep, reportsFed, hwIntr>>

-----------------------------------------------------------------------------
(* Port status changes.                                                     *)
\* Fault: every event of an enabled port starts another slot.
PortChanged_AnyState ==
  /\ Dequeuing("port") /\ PollUnchanged
  /\ event_ring' = Rest
  /\ IF selected_port # 0 /\ hwPorts[selected_port].ped
     THEN /\ enum_state' = "ENABLE_SLOT"
          /\ xhci_push_command("ENABLE_SLOT", 0, pending_command)
     ELSE UNCHANGED <<enum_state, cmdVars>>
  /\ UNCHANGED <<transport_ready, transport_failed, slotVars, selVars,
                 countVars, waitVars, kbd_ep, reportsFed, hwCtl, hwIntr,
                 hwPorts, faults>>

\* Fault: a port event queues the key report again.
PortChanged_Rearms ==
  /\ Dequeuing("port") /\ PollUnchanged
  /\ event_ring' = Rest
  /\ hwIntr' = IF enum_state = "READY" THEN enabled_slot ELSE hwIntr
  /\ UNCHANGED <<transport_ready, transport_failed, enum_state, cmdVars,
                 slotVars, selVars, countVars, waitVars, kbd_ep, reportsFed,
                 hwCtl, hwPorts, faults>>

PortChanged ==
  /\ Dequeuing("port") /\ PollUnchanged
  /\ event_ring' = Rest
  /\ IF selected_port # 0
     THEN selected_speed' = IF hwPorts[selected_port].ccs THEN speed ELSE 0
     ELSE UNCHANGED selected_speed
  /\ IF selected_port # 0 /\ enum_state = "RESET" /\ hwPorts[selected_port].ped
     THEN /\ enum_state' = "ENABLE_SLOT"
          /\ xhci_push_command("ENABLE_SLOT", 0, pending_command)
     ELSE UNCHANGED <<enum_state, cmdVars>>
  /\ UNCHANGED <<transport_ready, transport_failed, slotVars, selected_port,
                 countVars, waitVars, kbd_ep, reportsFed, hwCtl, hwIntr,
                 hwPorts, faults>>

-----------------------------------------------------------------------------
(* Transfer events.                                                         *)
Transferred(ep) ==
  /\ Dequeuing("transfer")
  /\ Head(event_ring).ep = ep
  /\ PollUnchanged
  /\ UNCHANGED <<address_retry_count, hwIntr>>

TransferOk(ep) == Transferred(ep) /\ Head(event_ring).code = "ok"

\* transfer_code_ok is false: only a transaction error of a control transfer
\* is retried, every other error is a message.
TransferRetried ==
  /\ \E ep \in {"ep0", "intr"} : Transferred(ep)
  /\ Head(event_ring).code = "xact" /\ enum_state \in ControlStates
  /\ retry_selected_port(Rest, pending_command, enum_state)
  /\ UNCHANGED <<kbd_ep, reportsFed, hwCtl>>

\* Fault: the failure is reported without leaving the enumeration state.
TransferDeadEnd_Reports ==
  /\ \E ep \in {"ep0", "intr"} : Transferred(ep)
  /\ Head(event_ring).code # "ok"
  /\ Head(event_ring).code = "xact" => enum_state \notin ControlStates
  /\ event_ring' = Rest
  /\ transport_ready' = FALSE /\ transport_failed' = TRUE
  /\ UNCHANGED <<enum_state, cmdVars, slotVars, selVars,
                 transfer_retry_count, waitVars, kbd_ep,
                 reportsFed, hwCtl, hwPorts, faults>>

\* Nothing follows: an error that is not retried, or a transfer that nobody
\* waits for.
TransferDeadEnd ==
  /\ \E ep \in {"ep0", "intr"} : Transferred(ep)
  /\ LET e == Head(event_ring)
     IN  IF e.code = "ok"
         THEN ~(IF e.ep = "ep0" THEN ep0_wait ELSE intr_wait)
         ELSE e.code = "xact" => enum_state \notin ControlStates
  /\ event_ring' = Rest
  /\ UNCHANGED <<transport_ready, transport_failed, enum_state, cmdVars,
                 slotVars, selVars, transfer_retry_count, waitVars, kbd_ep,
                 reportsFed, hwCtl, hwPorts, faults>>

\* The awaited control transfer is done.
ControlDone(state) ==
  /\ TransferOk("ep0") /\ ep0_wait /\ enum_state = state
  /\ event_ring' = Rest
  /\ UNCHANGED <<selVars, intr_wait, reportsFed, hwPorts>>
  /\ NoFault

StaysUp ==
  UNCHANGED <<transport_ready, transport_failed, slotVars>>

GotDevice8 ==
  /\ ControlDone("GET_DEVICE8") /\ StaysUp
  /\ transfer_retry_count' = 0
  /\ prepare_address_device(enabled_slot, FALSE, pending_command)
  /\ UNCHANGED <<kbd_ep, hwCtl>>

GotDevice ==
  /\ ControlDone("GET_DEVICE") /\ StaysUp
  /\ transfer_retry_count' = 0
  /\ usb_control("GET_CONFIG8")
  /\ UNCHANGED <<cmdVars, kbd_ep>>

GotConfig8 ==
  /\ ControlDone("GET_CONFIG8") /\ StaysUp
  /\ usb_control("GET_CONFIG_FULL")
  /\ UNCHANGED <<cmdVars, transfer_retry_count, kbd_ep>>

\* parse_keyboard_endpoint: a HID boot keyboard with an interrupt IN endpoint.
parse_keyboard_endpoint == device[selected_port] = "keyboard"

GotConfigFull ==
  /\ ControlDone("GET_CONFIG_FULL")
  /\ kbd_ep' = parse_keyboard_endpoint
  /\ IF parse_keyboard_endpoint
     THEN /\ StaysUp /\ usb_control("SET_CONFIG") /\ UNCHANGED cmdVars
     ELSE /\ fail_transport /\ ep0_wait' = FALSE /\ UNCHANGED hwCtl
  /\ UNCHANGED transfer_retry_count

SetConfigDone ==
  /\ ControlDone("SET_CONFIG") /\ StaysUp
  /\ usb_control("SET_PROTOCOL")
  /\ UNCHANGED <<cmdVars, transfer_retry_count, kbd_ep>>

\* Fault: the first report is queued before the endpoint is configured.
SetProtocolDone_QueuesReport ==
  /\ Dequeuing("transfer") /\ PollUnchanged
  /\ Head(event_ring).ep = "ep0" /\ Head(event_ring).code = "ok"
  /\ ep0_wait /\ enum_state = "SET_PROTOCOL" /\ StaysUp
  /\ ep0_wait' = FALSE
  /\ enum_state' = "CONFIGURE_ENDPOINT"
  /\ xhci_push_command("CONFIGURE", enabled_slot, pending_command)
  /\ hwIntr' = enabled_slot
  /\ event_ring' = Rest /\ NoFault
  /\ UNCHANGED <<countVars, selVars, intr_wait, reportsFed, hwPorts, kbd_ep,
                 hwCtl>>

\* prepare_configure_keyboard_endpoint: a fresh interrupt ring.
SetProtocolDone ==
  /\ ControlDone("SET_PROTOCOL") /\ StaysUp
  /\ ep0_wait' = FALSE
  /\ enum_state' = "CONFIGURE_ENDPOINT"
  /\ xhci_push_command("CONFIGURE", enabled_slot, pending_command)
  /\ UNCHANGED <<transfer_retry_count, kbd_ep, hwCtl>>

\* Configure Endpoint succeeded: the first queue_keyboard_report.
EndpointConfigured ==
  /\ CompletionOf("CONFIGURE", TRUE)
  /\ enum_state' = "READY"
  /\ intr_wait' = TRUE /\ hwIntr' = enabled_slot
  /\ event_ring' = Rest /\ NoCommand("NONE")
  /\ UNCHANGED <<transport_ready, transport_failed, slotVars, selVars,
                 countVars, ep0_wait, kbd_ep, reportsFed, hwCtl, hwPorts,
                 faults>>

\* Fault: the report is queued again without being fed.
ReportDone_Unmatched ==
  /\ Dequeuing("transfer") /\ PollUnchanged
  /\ Head(event_ring).ep = "intr" /\ Head(event_ring).code = "ok" /\ intr_wait
  /\ intr_wait' = TRUE /\ hwIntr' = enabled_slot
  /\ event_ring' = Rest
  /\ UNCHANGED <<reportsFed, transport_ready, transport_failed, enum_state,
                 cmdVars, slotVars, selVars, countVars, ep0_wait, kbd_ep,
                 hwCtl, hwPorts, faults>>

\* A key report: feed it, then clear the buffer and queue it again.
ReportDone ==
  /\ Dequeuing("transfer") /\ PollUnchanged
  /\ Head(event_ring).ep = "intr" /\ Head(event_ring).code = "ok" /\ intr_wait
  /\ reportsFed' = reportsFed + 1
  /\ intr_wait' = TRUE /\ hwIntr' = enabled_slot
  /\ event_ring' = Rest
  /\ UNCHANGED <<transport_ready, transport_failed, enum_state, cmdVars,
                 slotVars, selVars, countVars, ep0_wait, kbd_ep, hwCtl,
                 hwPorts, faults>>

PollEvent ==
  \/ AddressFailed \/ SlotDisabled \/ CommandDeadEnd
  \/ SlotEnabled \/ Addressed \/ EndpointConfigured
  \/ PortChanged
  \/ TransferRetried \/ TransferDeadEnd
  \/ GotDevice8 \/ GotDevice \/ GotConfig8 \/ GotConfigFull
  \/ SetConfigDone \/ SetProtocolDone \/ ReportDone

Driver ==
  InitFails \/ InitResetsFirstPort \/ InitNoPort
  \/ PollEnter \/ PollExit \/ PollEvent

-----------------------------------------------------------------------------
(* The controller and the devices (external).                               *)

Post(e) == event_ring' = Append(event_ring, e)

\* The oldest command completes with (ok, slot) and leaves the slots so.
CompleteCommand(ok, slot, slots) ==
  /\ Post(CmdEvent(Head(hwCmds).cmd, ok, slot))
  /\ hwCmds' = Tail(hwCmds) /\ hwSlots' = slots

NextCommand == Head(hwCmds)
FreeSlots   == {s \in Slots : hwSlots[s] = "off"}
SetSlot(s, state) == [hwSlots EXCEPT ![s] = state]

\* The controller hands out any slot it has left.
HwEnableSlot ==
  /\ NextCommand.cmd = "ENABLE_SLOT"
  /\ \/ /\ NoFault
        /\ \E s \in FreeSlots : CompleteCommand(TRUE, s, SetSlot(s, "enabled"))
     \/ FreeSlots = {} /\ NoFault /\ CompleteCommand(FALSE, 0, hwSlots)
     \/ Fault("otherCmdErr") /\ CompleteCommand(FALSE, 0, hwSlots)
     \/ Fault("slotZero") /\ CompleteCommand(TRUE, 0, hwSlots)
  /\ UNCHANGED <<hwCtl, hwIntr>>

\* Disabling a slot drops its transfers.
HwDisableSlot ==
  /\ NextCommand.cmd = "DISABLE_SLOT"
  /\ \/ /\ NoFault
        /\ CompleteCommand(TRUE, NextCommand.slot,
                           SetSlot(NextCommand.slot, "off"))
        /\ hwCtl' = IF hwCtl = NextCommand.slot THEN 0 ELSE hwCtl
        /\ hwIntr' = IF hwIntr = NextCommand.slot THEN 0 ELSE hwIntr
     \/ /\ Fault("disableErr")
        /\ CompleteCommand(FALSE, NextCommand.slot, hwSlots)
        /\ UNCHANGED <<hwCtl, hwIntr>>

HwAddress ==
  /\ NextCommand.cmd \in {"ADDRESS", "ADDRESS_BSR"}
  /\ LET s == NextCommand.slot
         to == IF NextCommand.cmd = "ADDRESS" THEN "addressed" ELSE "default"
     IN  \/ /\ hwPorts[selected_port].ccs /\ NoFault
            /\ CompleteCommand(TRUE, s, SetSlot(s, to))
         \/ /\ ~hwPorts[selected_port].ccs /\ NoFault
            /\ CompleteCommand(FALSE, s, hwSlots)
         \/ Fault("addressErr") /\ CompleteCommand(FALSE, s, hwSlots)
  /\ UNCHANGED <<hwCtl, hwIntr>>

HwConfigure ==
  /\ NextCommand.cmd = "CONFIGURE"
  /\ LET s == NextCommand.slot
     IN  \/ NoFault /\ CompleteCommand(TRUE, s, SetSlot(s, "configured"))
         \/ Fault("otherCmdErr") /\ CompleteCommand(FALSE, s, hwSlots)
  /\ UNCHANGED <<hwCtl, hwIntr>>

HwCommand ==
  /\ hwCmds # << >>
  /\ HwEnableSlot \/ HwDisableSlot \/ HwAddress \/ HwConfigure
  /\ UNCHANGED <<drvVars, hwPorts, hwRest>>

\* A running control transfer completes, or fails.
HwControl ==
  /\ hwCtl # 0
  /\ \/ hwPorts[selected_port].ped /\ NoFault /\ Post(XferEvent("ep0", "ok"))
     \/ ~hwPorts[selected_port].ped /\ NoFault /\ Post(XferEvent("ep0", "xact"))
     \/ Fault("xact") /\ Post(XferEvent("ep0", "xact"))
     \/ Fault("stall") /\ Post(XferEvent("ep0", "other"))
  /\ hwCtl' = 0
  /\ UNCHANGED <<drvVars, hwCmds, hwIntr, hwSlots, hwPorts, hwRest>>

\* A key changes: one report.
HwReport ==
  /\ hwIntr # 0 /\ hwPorts[selected_port].ped /\ reportsSent < MaxReports
  /\ reportsSent' = reportsSent + 1
  /\ Post(XferEvent("intr", "ok")) /\ NoFault
  /\ hwIntr' = 0
  /\ UNCHANGED <<drvVars, hwCmds, hwCtl, hwSlots, hwPorts, device, speed>>

\* The interrupt transfer fails: a fault, or the device is gone.
HwReportError ==
  /\ hwIntr # 0
  /\ IF hwPorts[selected_port].ped THEN Fault("reportErr") ELSE NoFault
  /\ Post(XferEvent("intr", "xact"))
  /\ hwIntr' = 0
  /\ UNCHANGED <<drvVars, hwCmds, hwCtl, hwSlots, hwPorts, hwRest>>

\* A reset the driver stopped waiting for completes.
HwResetDone ==
  /\ \E p \in Ports :
       /\ hwPorts[p].pr
       /\ hwPorts' = [hwPorts EXCEPT ![p].pr = FALSE, ![p].ped = hwPorts[p].ccs]
  /\ Post(PortEvent) /\ NoFault
  /\ UNCHANGED <<drvVars, hwCmds, hwCtl, hwIntr, hwSlots, hwRest>>

HwPortDrop ==
  /\ Fault("portDrop")
  /\ \E p \in Ports : /\ hwPorts[p].ped
                      /\ hwPorts' = [hwPorts EXCEPT ![p].ped = FALSE]
  /\ Post(PortEvent)
  /\ UNCHANGED <<drvVars, hwCmds, hwCtl, hwIntr, hwSlots, hwRest>>

HwUnplug ==
  /\ Fault("unplug")
  /\ \E p \in Ports :
       /\ hwPorts[p].ccs
       /\ hwPorts' = [hwPorts EXCEPT ![p].ccs = FALSE, ![p].ped = FALSE]
  /\ Post(PortEvent)
  /\ UNCHANGED <<drvVars, hwCmds, hwCtl, hwIntr, hwSlots, hwRest>>

\* What the hardware owes the driver, and what the world may do.
HwAnswer == HwCommand \/ HwControl \/ HwResetDone
             \/ (HwReportError /\ NoFault)
World    == HwReport \/ (HwReportError /\ faults' # faults)
             \/ HwPortDrop \/ HwUnplug
Hardware == HwAnswer \/ World

-----------------------------------------------------------------------------
\* The rest of the main loop, external to this module.
KernelTurn ==
  /\ pc = "after" /\ pc' = "loop"
  /\ UNCHANGED <<transVars, enum_state, pending_command, cmd_enqueue, slotVars,
                 selVars, countVars, waitVars, kbd_ep, reportsFed, hwVars>>

Next == Driver \/ Hardware \/ KernelTurn

(* The main loop keeps turning and the controller answers what it was asked. *)
(* Unplugging, typing and faults are never owed.                            *)
DriverFairness == WF_vars(Driver) /\ WF_vars(HwAnswer)
Fairness == DriverFairness /\ WF_vars(KernelTurn)

Spec == Init /\ [][Next]_vars
FairSpec == Spec /\ Fairness

-----------------------------------------------------------------------------
(* Properties.                                                              *)
EventsOf(P(_)) == Cardinality({n \in DOMAIN event_ring : P(event_ring[n])})
IsCommand(e) == e.type = "command"
IsControl(e) == e.type = "transfer" /\ e.ep = "ep0"
IsReport(e)  == e.type = "transfer" /\ e.ep = "intr"

Running(slot) == IF slot = 0 THEN 0 ELSE 1
CommandsInFlight == Len(hwCmds) + EventsOf(IsCommand)
ControlsInFlight == Running(hwCtl) + EventsOf(IsControl)
ReportsInFlight  == Running(hwIntr) + EventsOf(IsReport)

(* pending_command is one byte: it can name the command in flight only       *)
(* because there never is a second one, and it is NONE exactly when there   *)
(* is none, across every retry, port event and failed push.                 *)
OneCommandInFlight ==
  CommandsInFlight = (IF pending_command = "NONE" THEN 0 ELSE 1)

(* The driver never compares a completion with the TRB it belongs to; what  *)
(* pending_command says is nevertheless the command that completed          *)
(* (usb_kbd.c, 1298-1345).                                                  *)
CompletionMatches ==
  transport_ready =>
    /\ OneCommandInFlight
    /\ \A n \in DOMAIN hwCmds : hwCmds[n].cmd = pending_command
    /\ \A n \in DOMAIN event_ring :
         IsCommand(event_ring[n]) => event_ring[n].cmd = pending_command

(* One descriptor buffer and one report buffer: the hardware never writes   *)
(* one of them while an earlier completion of it waits to be read.          *)
BuffersNotOverwritten == ControlsInFlight <= 1 /\ ReportsInFlight <= 1

(* The USB protocol order: control transfers go to a slot that has a        *)
(* default or final address, key reports to a configured one.               *)
TransfersMatchSlotState ==
  /\ hwCtl # 0 => hwCtl = enabled_slot /\ hwSlots[hwCtl] \in {"default", "addressed"}
  /\ hwIntr # 0 => hwIntr = enabled_slot /\ hwSlots[hwIntr] = "configured"

(* A retry gives the slot back before it asks for another: while Disable    *)
(* Slot works, at most one slot is in use, and it is enabled_slot.          *)
NoSlotLeak ==
  transport_ready =>
    \A s \in Slots : hwSlots[s] # "off" =>
      \/ s = enabled_slot
      \/ enabled_slot = 0 /\ \E n \in DOMAIN event_ring :
            event_ring[n] = CmdEvent("ENABLE_SLOT", TRUE, s)

(* kernel_main's once-only switches rely on this: a failed transport never  *)
(* becomes ready, whatever events are still on their way (kernel.c 264-281).*)
FailedIsFinal ==
  [][transport_failed => transport_failed' /\ ~usb_kbd_is_ready']_vars

(* A keyboard that was ready is never reported failed: no late completion   *)
(* of an enumeration step, and no error after it, calls fail_transport.     *)
ReadyNeverFails == enum_state = "READY" => ~transport_failed

(* Why: a failed driver is IDLE with no command in flight, a ready one has   *)
(* no command in flight either, and nothing failed before usb_kbd_init.     *)
VerdictInv ==
  /\ transport_failed =>
       ~transport_ready /\ enum_state = "IDLE" /\ pending_command = "NONE"
  /\ enum_state = "READY" => pending_command = "NONE"
  /\ pc = "boot" =>
       enum_state = "IDLE" /\ pending_command = "NONE" /\ ~transport_failed

(* The invariant behind the bookkeeping: at most one thing is under way in   *)
(* the controller, a command or a transfer, or its answer is in the ring;   *)
(* and what it is agrees with pending_command, the state of the enumeration *)
(* and the slot.                                                            *)
NoAnswer(ring) == \A n \in DOMAIN ring : ring[n].type = "port"

OneAnswer(ring, e) ==
  /\ e.type # "port"
  /\ \E n \in DOMAIN ring :
       ring[n] = e /\ \A m \in DOMAIN ring : m # n => ring[m].type = "port"

SlotAfter ==
  [ADDRESS |-> "addressed", ADDRESS_BSR |-> "default", CONFIGURE |-> "configured"]

SlotIs(states) == enabled_slot \in Slots /\ hwSlots[enabled_slot] \in states

CommandSent ==
  /\ hwCmds = <<[cmd |-> pending_command,
                 slot |-> IF pending_command = "ENABLE_SLOT" THEN 0 ELSE enabled_slot]>>
  /\ hwCtl = 0 /\ hwIntr = 0 /\ NoAnswer(event_ring)

CommandAnswered ==
  /\ hwCmds = << >> /\ hwCtl = 0 /\ hwIntr = 0
  /\ \E ok \in BOOLEAN, s \in 0..MaxSlots :
       /\ OneAnswer(event_ring, CmdEvent(pending_command, ok, s))
       /\ ok /\ pending_command \in DOMAIN SlotAfter => SlotIs({SlotAfter[pending_command]})

Codes == {"ok", "xact", "other"}

ControlRuns ==
  /\ hwCmds = << >> /\ hwIntr = 0
  /\ enum_state \in ControlStates /\ SlotIs({"default", "addressed"})
  /\ \/ hwCtl = enabled_slot /\ NoAnswer(event_ring)
     \/ hwCtl = 0 /\ \E code \in Codes : OneAnswer(event_ring, XferEvent("ep0", code))

ReportRuns ==
  /\ hwCmds = << >> /\ hwCtl = 0 /\ enum_state = "READY"
  /\ \/ hwIntr = enabled_slot /\ NoAnswer(event_ring)
     \/ hwIntr = 0 /\ \E code \in Codes : OneAnswer(event_ring, XferEvent("intr", code))

NothingRuns ==
  hwCmds = << >> /\ hwCtl = 0 /\ hwIntr = 0 /\ NoAnswer(event_ring)

SlotStates == {"off", "enabled", "default", "addressed", "configured"}
Commands   == {"ENABLE_SLOT", "DISABLE_SLOT"} \cup DOMAIN SlotAfter
Events     == {PortEvent} \cup {CmdEvent(c, ok, s) : c \in Commands, ok \in BOOLEAN, s \in 0..MaxSlots}
               \cup {XferEvent(ep, code) : ep \in {"ep0", "intr"}, code \in Codes}

DriverInv ==
  /\ event_ring \in Seq(Events) /\ hwSlots \in [Slots -> SlotStates]
  /\ enabled_slot \in 0..MaxSlots /\ pending_command \in Commands \cup {"NONE"}
  /\ IF pending_command = "NONE" THEN ControlRuns \/ ReportRuns \/ NothingRuns
                                 ELSE CommandSent \/ CommandAnswered
  /\ pending_command \in Commands \ {"ENABLE_SLOT"} => enabled_slot # 0
  /\ enum_state = "RESET" => pending_command = "NONE"
  /\ enum_state = "READY" => SlotIs({"configured"})

(* Why no slot leaks: a slot in use is the driver's, or the answer that      *)
(* names it is in the ring, and another is asked for only when the driver   *)
(* has none.                                                                *)
SlotInv ==
  /\ pc = "boot" =>
       ~transport_ready /\ enabled_slot = 0 /\ \A s \in Slots : hwSlots[s] = "off"
  /\ transport_ready =>
       /\ \A s \in Slots : hwSlots[s] # "off" =>
            \/ s = enabled_slot
            \/ /\ enabled_slot = 0
               /\ OneAnswer(event_ring, CmdEvent("ENABLE_SLOT", TRUE, s))
       /\ enum_state = "RESET" \/ pending_command = "ENABLE_SLOT" => enabled_slot = 0
       /\ pending_command = "DISABLE_SLOT" /\ ~NoAnswer(event_ring) =>
            hwSlots[enabled_slot] = "off"

(* Enumeration ends: the keyboard is ready, or kernel_main is told to fall  *)
(* back.                                                                    *)
ReadyOrFailed ==
  controller_present ~> usb_kbd_is_ready \/ transport_failed

(* Every key report the keyboard sends is fed to the decoder.               *)
EveryReportFed ==
  \A n \in 1..MaxReports : reportsSent >= n ~> reportsFed >= n
=============================================================================
