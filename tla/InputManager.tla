---------------------------- MODULE InputManager ----------------------------
(***************************************************************************)
(* kernel_main's choice between the PS/2 and the USB keyboard: the boot    *)
(* option input=..., the one fallback to PS/2 when the xHCI driver reports *)
(* a failure, and the one switch to USB when the automatic mode finds it   *)
(* ready.  Composed with the driver, the controller and the devices of     *)
(* XhciKbd.                                                                *)
(*                                                                         *)
(* The two tests of one turn of the main loop read only variables of the   *)
(* driver, which runs in the same context, so a turn is one step.  The     *)
(* stores that switch the PS/2 ring on and off are modelled one by one in  *)
(* ScancodeQueue.                                                          *)
(***************************************************************************)
EXTENDS XhciKbd

CONSTANT InputModes   \* boot options considered

ASSUME ModesAssumption == InputModes \subseteq {"auto", "usb-native", "legacy"}

VARIABLES
  input_mode,            \* what input=... or safe-mode selected
  ps2_keyboard_enabled,  \* kbd.c
  usb_fallback_done, auto_usb_selected,   \* locals of kernel_main
  booting                \* the main loop has not started

inputVars == <<input_mode, ps2_keyboard_enabled, usb_fallback_done,
               auto_usb_selected, booting>>
imVars    == <<vars, inputVars>>

\* teclado_set_ps2_enabled(0), teclado_init_legacy or teclado_init ran already.
IMInit ==
  /\ Init
  /\ input_mode \in InputModes
  /\ ps2_keyboard_enabled = (input_mode # "usb-native")
  /\ usb_fallback_done = FALSE /\ auto_usb_selected = FALSE
  /\ booting = TRUE

-----------------------------------------------------------------------------
\* usb_kbd_init is called in two of the modes; usb_kbd_poll in all of them.
DriverStep ==
  /\ Driver
  /\ pc = "boot" => input_mode # "legacy"
  /\ UNCHANGED inputVars

HardwareStep == Hardware /\ UNCHANGED inputVars

\* input=legacy, or safe mode: no xHCI at all.
BootLegacy ==
  /\ pc = "boot" /\ input_mode = "legacy"
  /\ pc' = "loop" /\ booting' = FALSE
  /\ UNCHANGED <<transVars, enum_state, pending_command, cmd_enqueue, slotVars,
                 selVars, countVars, waitVars, kbd_ep, reportsFed, hwVars,
                 input_mode, ps2_keyboard_enabled, usb_fallback_done,
                 auto_usb_selected>>

\* After usb_kbd_init: usb-native without a controller goes back to PS/2.
BootUsb ==
  /\ pc = "after" /\ booting
  /\ pc' = "loop" /\ booting' = FALSE
  /\ ps2_keyboard_enabled' =
       (ps2_keyboard_enabled \/ (input_mode = "usb-native" /\ ~controller_present))
  /\ UNCHANGED <<transVars, enum_state, pending_command, cmd_enqueue, slotVars,
                 selVars, countVars, waitVars, kbd_ep, reportsFed, hwVars,
                 input_mode, usb_fallback_done, auto_usb_selected>>

\* Fault: the failure of the driver is never looked at.
FallsBack_Never == ~usb_fallback_done /\ transport_failed /\ booting

\* Fault: USB is selected as soon as a controller is there.
SelectsUsb_TooEarly ==
  input_mode = "auto" /\ ~auto_usb_selected /\ controller_present

FallsBack == ~usb_fallback_done /\ transport_failed
SelectsUsb == input_mode = "auto" /\ ~auto_usb_selected /\ usb_kbd_is_ready

\* The rest of a turn of the main loop after usb_kbd_poll.
LoopTurn ==
  /\ pc = "after" /\ ~booting
  /\ pc' = "loop"
  /\ usb_fallback_done' = (usb_fallback_done \/ FallsBack)
  /\ auto_usb_selected' = (auto_usb_selected \/ SelectsUsb)
  /\ ps2_keyboard_enabled' = (~SelectsUsb /\ (FallsBack \/ ps2_keyboard_enabled))
  /\ UNCHANGED <<transVars, enum_state, pending_command, cmd_enqueue, slotVars,
                 selVars, countVars, waitVars, kbd_ep, reportsFed, hwVars,
                 input_mode, booting>>

KernelStep == BootLegacy \/ BootUsb \/ LoopTurn

IMNext == DriverStep \/ HardwareStep \/ KernelStep

(* kernel_main never stops, and the hardware answers what it was asked.     *)
IMFairness ==
  /\ WF_imVars(DriverStep) /\ WF_imVars(KernelStep)
  /\ WF_imVars(HwAnswer /\ UNCHANGED inputVars)

IMSpec == IMInit /\ [][IMNext]_imVars
IMFairSpec == IMSpec /\ IMFairness

-----------------------------------------------------------------------------
(* Properties.                                                              *)

(* The USB keyboard can still deliver: a report is armed in the controller, *)
(* or its completion waits to be handled, and the port is up.               *)
UsbAlive ==
  /\ usb_kbd_is_ready
  /\ hwPorts[selected_port].ped
  /\ ReportsInFlight = 1

(* The port went down under a keyboard that was ready: nothing notices.      *)
KeyboardLost == usb_kbd_is_ready /\ ~hwPorts[selected_port].ped

(* The machine is never left without an input path for good: PS/2 is on, or *)
(* the USB keyboard works, until its port goes down (kernel.c, 264-281).    *)
AlwaysAnInput == []<>(ps2_keyboard_enabled \/ UsbAlive \/ KeyboardLost)

(* Not true of the code: the fallback kernel.c:269 announces also when the  *)
(* keyboard in use is unplugged.                                            *)
InputAfterUnplug == []<>(ps2_keyboard_enabled \/ UsbAlive)

(* The automatic mode gives PS/2 up only for a USB keyboard that was        *)
(* enumerated to the end, never for a mere controller.                      *)
Ps2GivenUpForKeyboard ==
  [][ps2_keyboard_enabled /\ ~ps2_keyboard_enabled' =>
       kbd_ep /\ hwSlots[enabled_slot] = "configured"]_imVars
=============================================================================
