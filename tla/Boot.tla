-------------------------------- MODULE Boot --------------------------------
(***************************************************************************)
(* kernel_main up to its loop (src/src/kernel.c, 112-262), with what it    *)
(* relies on: the IDT, the PIC and the timer of src/src/lib.c, the options *)
(* of the boot loader's command line, and the way out of it,               *)
(* kernel_panic_code_at.  The steps run in a fixed order; around them      *)
(* devices raise interrupts as soon as sti lets them, and the CPU may      *)
(* raise an exception at any instruction, the ones of the panic screen     *)
(* included.                                                               *)
(***************************************************************************)
EXTENDS Naturals, FiniteSets

CONSTANTS CpuVectors,      \* exceptions that occur, a subset of 0..31
          MaxExceptions    \* how many, in one run
ASSUME VectorsAssumption == CpuVectors \subseteq 0..31 /\ MaxExceptions \in Nat

\* The words of the command line, one of each pair of synonyms.
Options == {"safe", "nosound", "video=text", "video=fb", "input=usb",
            "input=legacy", "action=reboot", "action=poweroff"}

Lines == {"timer", "keyboard"}   \* the IRQs mask 0xFC leaves open
LineNo == [l \in Lines |-> IF l = "timer" THEN 0 ELSE 1]

NoVector == 255                  \* panic_vector 0xFFFFFFFF
CPU_BASE == 1000                 \* PANIC_CODE_CPU_BASE
BOOT_MAGIC == 1
BOOT_MB_PTR == 2
BOOT_MB_SIZE == 3
VIDEO_FB == 4
SLEEP_EARLY == 5
IDT_NOT_READY == 6

VARIABLES
  pc,        \* the next step of kernel_main
  opts,      \* words on the command line
  fw,        \* what the boot loader handed over
  cfg,       \* boot_... variables derived from opts, and boot_action
  video,     \* vga_mode_name, "none" before it is set up
  ps2,       \* kbd_ps2_enabled
  idt,       \* idt[v]: the routine a vector leads to
  idt_ready, \* lidt done
  pic_base,  \* vector of IRQ 0: 8 as the firmware leaves it, 32
  IF_,       \* the CPU's interrupt flag
  irq,       \* requests latched by the PIC
  notes,     \* notes of the melody still to play
  woken,     \* the timer handler ran since the sleep began
  speaker,   \* bits 0 and 1 of port 0x61
  dead,      \* "no", or how the machine stopped
  panic,     \* panic_code, panic_vector and the vector panic_eip belongs to
  faults     \* exceptions so far

boot == <<opts, fw>>
irqs == <<idt, idt_ready, pic_base>>
vars == <<pc, boot, cfg, video, ps2, irqs, IF_, irq, notes, woken, speaker, dead, panic, faults>>

Vectors == 0..47
Exceptions == 0..31

Init ==
  /\ pc = "validate" /\ opts \in SUBSET Options
  /\ fw \in [magic : {TRUE}, ptr : {TRUE}, size : {TRUE}, fb : BOOLEAN]
            \cup {[magic |-> FALSE, ptr |-> TRUE, size |-> TRUE, fb |-> TRUE],
                  [magic |-> TRUE, ptr |-> FALSE, size |-> TRUE, fb |-> TRUE],
                  [magic |-> TRUE, ptr |-> TRUE, size |-> FALSE, fb |-> TRUE]}
  /\ cfg = [safe |-> FALSE, sound |-> TRUE, text |-> FALSE, force_fb |-> FALSE,
            input |-> "auto", action |-> 0]
  /\ video = "none" /\ ps2 = FALSE
  /\ idt = [v \in Vectors |-> "none"] /\ idt_ready = FALSE
  /\ pic_base = 8 /\ IF_ = FALSE /\ irq = {}
  /\ notes = 4 /\ woken = FALSE /\ speaker = FALSE
  /\ dead = "no" /\ faults = 0
  /\ panic = [code |-> 0, vector |-> NoVector, regs |-> NoVector]

-----------------------------------------------------------------------------
(* kernel_panic_code_at: interrupts off, the record, the screen, hlt.       *)

\* Fault: the registers of the exception are cleared as well.
PanicRecord_Clears(code, p) == [p EXCEPT !.code = code, !.regs = NoVector]

\* panic_eip and its like are cleared unless an exception left them.
PanicRecord(code, p) ==
  [p EXCEPT !.code = code,
            !.regs = IF p.vector = NoVector THEN NoVector ELSE p.regs]

Panic(code, record) ==
  /\ pc' = "panic_screen" /\ IF_' = FALSE
  /\ panic' = PanicRecord(code, record)

PanicScreen ==
  /\ pc = "panic_screen" /\ pc' = "halted" /\ dead' = "panic"
  /\ UNCHANGED <<boot, cfg, video, ps2, irqs, IF_, irq, notes, woken, speaker, panic, faults>>

\* What isr<v> and exception_handler store before they panic.
Noted(v) == [code |-> panic.code, vector |-> v, regs |-> v]

\* An exception: without an IDT the CPU resets; with one, isr<v> and
\* exception_handler note the vector and panic, also in the middle of a panic.
CpuException(v) ==
  /\ dead = "no" /\ faults < MaxExceptions /\ faults' = faults + 1
  /\ \/ /\ idt[v] # "exception" \/ ~idt_ready
        /\ dead' = "reset" /\ pc' = "halted"
        /\ UNCHANGED <<IF_, panic>>
     \/ /\ idt[v] = "exception" /\ idt_ready
        /\ Panic(CPU_BASE + v, Noted(v))
        /\ UNCHANGED dead
  /\ UNCHANGED <<boot, cfg, video, ps2, irqs, irq, notes, woken, speaker>>

-----------------------------------------------------------------------------
(* The devices and the PIC.                                                 *)
RaiseIrq(l) ==
  /\ dead = "no" /\ l \notin irq /\ irq' = irq \cup {l}
  /\ UNCHANGED <<pc, boot, cfg, video, ps2, irqs, IF_, notes, woken, speaker, dead, panic, faults>>

\* timer_wrapper and keyboard_wrapper run to their iret; an IRQ on the vector of
\* an exception is taken for it.
DeliverIrq(l) ==
  /\ dead = "no" /\ IF_ /\ l \in irq /\ irq' = irq \ {l}
  /\ LET v == pic_base + LineNo[l]
     IN  IF idt[v] \in Lines
         THEN woken' = (woken \/ idt[v] = "timer") /\ UNCHANGED <<pc, IF_, panic>>
         ELSE /\ Panic(CPU_BASE + v, Noted(v))
              /\ UNCHANGED woken
  /\ UNCHANGED <<boot, cfg, video, ps2, irqs, notes, speaker, dead, faults>>

-----------------------------------------------------------------------------
(* The steps of kernel_main.                                                *)
Goto(from, to) == pc = from /\ pc' = to

\* validate_multiboot_or_panic, through early_boot_panic_code: the text screen
\* is set up first.
Validate ==
  /\ pc = "validate"
  /\ \/ /\ fw.magic /\ fw.ptr /\ fw.size
        /\ pc' = "options" /\ UNCHANGED <<video, IF_, panic>>
     \/ /\ ~(fw.magic /\ fw.ptr /\ fw.size)
        /\ video' = "text"
        /\ Panic(IF ~fw.magic THEN BOOT_MAGIC
                 ELSE IF ~fw.ptr THEN BOOT_MB_PTR ELSE BOOT_MB_SIZE, panic)
  /\ UNCHANGED <<boot, cfg, ps2, irqs, irq, notes, woken, speaker, dead, faults>>

\* Safe mode goes before every other word; usb before legacy; poweroff before
\* reboot.
ParseOptions(o) ==
  [safe     |-> "safe" \in o,
   sound    |-> {"safe", "nosound"} \cap o = {},
   text     |-> {"safe", "video=text"} \cap o # {},
   force_fb |-> "safe" \notin o /\ "video=fb" \in o,
   input    |-> IF "safe" \in o THEN "legacy"
                ELSE IF "input=usb" \in o THEN "usb-native"
                ELSE IF "input=legacy" \in o THEN "legacy" ELSE "auto",
   action   |-> IF "action=poweroff" \in o THEN 2
                ELSE IF "action=reboot" \in o THEN 1 ELSE 0]

ReadOptions ==
  /\ Goto("options", "video") /\ cfg' = ParseOptions(opts)
  /\ UNCHANGED <<boot, video, ps2, irqs, IF_, irq, notes, woken, speaker, dead, panic, faults>>

\* vga_init_text_fallback or vga_init_from_multiboot.
SetVideo ==
  /\ pc = "video"
  /\ video' = IF ~fw.fb THEN "text" ELSE IF cfg.text THEN "framebuffer-text" ELSE "framebuffer"
  /\ IF ~cfg.text /\ cfg.force_fb /\ ~fw.fb
     THEN Panic(VIDEO_FB, panic)
     ELSE pc' = "action" /\ UNCHANGED <<IF_, panic>>
  /\ UNCHANGED <<boot, cfg, ps2, irqs, irq, notes, woken, speaker, dead, faults>>

\* system_reboot and system_poweroff do not return.
BootAction ==
  /\ pc = "action"
  /\ \/ /\ cfg.action = 0 /\ pc' = "input" /\ UNCHANGED dead
     \/ /\ cfg.action # 0 /\ pc' = "halted"
        /\ dead' = IF cfg.action = 1 THEN "reboot" ELSE "poweroff"
  /\ UNCHANGED <<boot, cfg, video, ps2, irqs, IF_, irq, notes, woken, speaker, panic, faults>>

SetInput ==
  /\ Goto("input", "idt") /\ ps2' = (cfg.input # "usb-native")
  /\ UNCHANGED <<boot, cfg, video, irqs, IF_, irq, notes, woken, speaker, dead, panic, faults>>

\* idt_install clears the table, fills the exceptions, and loads it.
idt_install ==
  /\ Goto("idt", "pic") /\ idt_ready' = TRUE
  /\ idt' = [v \in Vectors |-> IF v \in Exceptions THEN "exception" ELSE "none"]
  /\ UNCHANGED <<boot, cfg, video, ps2, pic_base, IF_, irq, notes, woken, speaker, dead, panic, faults>>

\* Fault: 20 in place of 0x20.
PicBase_Decimal == 20

PicBase == 32

reprogramar_pic ==
  /\ Goto("pic", "gates") /\ pic_base' = PicBase
  /\ UNCHANGED <<boot, cfg, video, ps2, idt, idt_ready, IF_, irq, notes, woken, speaker, dead, panic, faults>>

\* Gates 32 and 33; the mouse's, 44, is never used: its line stays masked.
SetGates ==
  /\ Goto("gates", "sti")
  /\ idt' = [idt EXCEPT ![32] = "timer", ![33] = "keyboard"]
  /\ UNCHANGED <<boot, cfg, video, ps2, idt_ready, pic_base, IF_, irq, notes, woken, speaker, dead, panic, faults>>

idt_is_ready == idt_ready /\ idt[0] # "none" /\ idt[14] # "none"

\* panic_if_code(!idt_is_ready()), cpit(100), sti.
EnableInterrupts ==
  /\ pc = "sti"
  /\ IF idt_is_ready
     THEN /\ IF_' = TRUE /\ pc' = IF cfg.sound THEN "note" ELSE "clear"
          /\ UNCHANGED panic
     ELSE Panic(IDT_NOT_READY, panic)
  /\ UNCHANGED <<boot, cfg, video, ps2, irqs, irq, notes, woken, speaker, dead, faults>>

\* sleep(n) at a step: refused before the IDT is ready; otherwise hlt until the
\* timer handler has run (how often is the subject of Timer).
BeginSleep(to) ==
  IF idt_is_ready
  THEN pc' = to /\ woken' = FALSE /\ UNCHANGED <<IF_, panic>>
  ELSE Panic(SLEEP_EARLY, panic) /\ UNCHANGED woken

\* som and sleep, four times, then parar_som.
Note ==
  /\ pc = "note" /\ speaker' = TRUE
  /\ BeginSleep("note_sleep")
  /\ UNCHANGED <<boot, cfg, video, ps2, irqs, irq, notes, dead, faults>>

\* Fault: the speaker is left on.
NoteEnds_Sounding ==
  /\ pc = "note_sleep" /\ woken /\ notes' = notes - 1
  /\ pc' = IF notes' > 0 THEN "note" ELSE "clear"
  /\ UNCHANGED <<boot, cfg, video, ps2, irqs, IF_, irq, woken, speaker, dead, panic, faults>>

NoteEnds ==
  /\ pc = "note_sleep" /\ woken /\ notes' = notes - 1
  /\ pc' = IF notes' > 0 THEN "note" ELSE "clear"
  /\ speaker' = (notes' > 0)
  /\ UNCHANGED <<boot, cfg, video, ps2, irqs, IF_, irq, woken, dead, panic, faults>>

\* limpatela, sleep(50).
ClearAndSleep ==
  /\ pc = "clear" /\ BeginSleep("clear_sleep")
  /\ UNCHANGED <<boot, cfg, video, ps2, irqs, irq, notes, speaker, dead, faults>>

ClearEnds ==
  /\ Goto("clear_sleep", "usb") /\ woken
  /\ UNCHANGED <<boot, cfg, video, ps2, irqs, IF_, irq, notes, woken, speaker, dead, panic, faults>>

\* cmd_fetch, then usb_kbd_init unless the input is legacy; without a controller
\* usb-native falls back to PS/2.  Then booting = 0 and the first prompt.
UsbInit(has_controller) ==
  /\ Goto("usb", "loop")
  /\ ps2' = (ps2 \/ (cfg.input = "usb-native" /\ ~has_controller))
  /\ UNCHANGED <<boot, cfg, video, irqs, IF_, irq, notes, woken, speaker, dead, panic, faults>>

\* The main loop is the subject of ScancodeQueue and InputManager.
Kernel ==
  \/ Validate \/ ReadOptions \/ SetVideo \/ BootAction \/ SetInput
  \/ idt_install \/ reprogramar_pic \/ SetGates \/ EnableInterrupts
  \/ Note \/ NoteEnds \/ ClearAndSleep \/ ClearEnds
  \/ \E has_controller \in BOOLEAN : UsbInit(has_controller)
  \/ PanicScreen

Next ==
  \/ Kernel
  \/ \E l \in Lines : RaiseIrq(l) \/ DeliverIrq(l)
  \/ \E v \in CpuVectors : CpuException(v)

Spec == Init /\ [][Next]_vars

\* The CPU goes on, the PIT ticks and the PIC delivers.
Fairness ==
  /\ WF_vars(Kernel)
  /\ WF_vars(RaiseIrq("timer")) /\ WF_vars(DeliverIrq("timer"))

LiveSpec == Spec /\ Fairness

-----------------------------------------------------------------------------
(* Properties.                                                              *)

\* The tables, the flags and the record, as far as the rest depends on them.
TypeOK ==
  /\ idt \in [Vectors -> Lines \cup {"none", "exception"}]
  /\ pic_base \in {8, PicBase}
  /\ IF_ \in BOOLEAN /\ idt_ready \in BOOLEAN
  /\ panic \in [code : Nat, vector : Nat, regs : Nat]

\* Interrupts are on only when every line the PIC leaves open leads to its own
\* handler: an IRQ is never taken for an exception, and never resets the machine.
InterruptsHaveHandlers ==
  IF_ => idt_ready /\ \A l \in Lines : idt[pic_base + LineNo[l]] = l

\* A panic is seen and final: there is a screen to show it on, nothing
\* interrupts it, and it shows the vector and registers of the exception, if one
\* led to it, the last one if it was struck by another.
PanicIsShown ==
  pc = "panic_screen" \/ dead = "panic" =>
    /\ video # "none" /\ ~IF_ /\ panic.code # 0
    /\ IF panic.code >= CPU_BASE
       THEN panic.vector = panic.code - CPU_BASE /\ panic.regs = panic.vector
       ELSE panic.vector = NoVector /\ panic.regs = NoVector

\* What each of them rests on.  Until sti interrupts are off, and every step up to
\* it has left its part of the tables; the screen is there before the IDT is; the
\* record is empty until the first panic.
Early == {"validate", "options", "video", "action", "input", "idt", "pic", "gates", "sti"}

BootInv ==
  /\ TypeOK /\ InterruptsHaveHandlers /\ PanicIsShown
  /\ pc \in Early => ~IF_
  /\ pc \in {"gates", "sti"} => pic_base = PicBase
  /\ pc = "sti" => \A l \in Lines : idt[pic_base + LineNo[l]] = l
  /\ idt_ready \/ pc \notin {"validate", "options", "video", "halted"} => video # "none"
  /\ dead # "no" => pc = "halted"
  /\ pc \notin {"panic_screen", "halted"} => panic.vector = NoVector

\* What the words on the command line come to, whichever others are there.
OptionsObeyed ==
  /\ {"action=reboot", "action=poweroff"} \cap opts = {}
  /\ "video=fb" \in opts /\ {"video=text", "safe"} \cap opts = {} => video = "framebuffer"
  /\ "safe" \in opts => ps2 /\ video # "framebuffer"

\* The boot comes to an end: in the main loop, with the melody over, interrupts
\* on and the options obeyed, or with the machine stopped, for the reason asked
\* for if it is not a panic or an exception before the IDT.
BootEnds ==
  <>(\/ pc = "loop" /\ ~speaker /\ IF_ /\ OptionsObeyed
     \/ dead \in {"panic", "reset"}
     \/ dead = "poweroff" /\ "action=poweroff" \in opts
     \/ dead = "reboot" /\ "action=reboot" \in opts /\ "action=poweroff" \notin opts)
=============================================================================
