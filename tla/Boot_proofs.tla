---------------------------- MODULE Boot_proofs -----------------------------
(* Proofs about Boot: for every set of exceptions that may occur and every  *)
(* number of them, no interrupt is taken without its handler, and a panic   *)
(* is shown as it happened.  Both are parts of BootInv, which is inductive. *)
EXTENDS Boot, TLAPS

LEMMA BootInit == Init => BootInv
<1> SUFFICES ASSUME Init PROVE BootInv
  OBVIOUS
<1>1. TypeOK
  BY DEF Init, TypeOK, PicBase, NoVector
<1>2. InterruptsHaveHandlers /\ PanicIsShown
  BY DEF Init, InterruptsHaveHandlers, PanicIsShown
<1> QED BY <1>1, <1>2 DEF Init, BootInv, Early

\* The record a panic leaves, whatever was there before.
LEMMA RecordOfPanic ==
  ASSUME NEW code \in Nat, NEW p \in [code : Nat, vector : Nat, regs : Nat]
  PROVE  /\ PanicRecord(code, p) \in [code : Nat, vector : Nat, regs : Nat]
         /\ PanicRecord(code, p).code = code
         /\ PanicRecord(code, p).vector = p.vector
         /\ PanicRecord(code, p).regs = IF p.vector = NoVector THEN NoVector ELSE p.regs
BY DEF PanicRecord, NoVector

\* A panic of the kernel's own, with the record still empty.
LEMMA KernelPanic ==
  ASSUME TypeOK, video' # "none", panic.vector = NoVector,
         NEW code \in 1..(CPU_BASE - 1), Panic(code, panic)
  PROVE  /\ panic' \in [code : Nat, vector : Nat, regs : Nat]
         /\ IF_' = FALSE /\ pc' = "panic_screen" /\ PanicIsShown'
<1>1. code \in Nat /\ code # 0 /\ ~(code >= CPU_BASE)
  BY DEF CPU_BASE
<1>2. panic \in [code : Nat, vector : Nat, regs : Nat]
  BY DEF TypeOK
<1> QED BY <1>1, <1>2, RecordOfPanic DEF Panic, PanicIsShown

\* A panic from exception_handler, with its vector noted just before.
LEMMA ExceptionPanic ==
  ASSUME TypeOK, video' # "none", NEW v \in Vectors,
         Panic(CPU_BASE + v, Noted(v))
  PROVE  /\ panic' \in [code : Nat, vector : Nat, regs : Nat]
         /\ IF_' = FALSE /\ pc' = "panic_screen" /\ PanicIsShown'
<1>1. /\ Noted(v) \in [code : Nat, vector : Nat, regs : Nat]
      /\ Noted(v).vector = v /\ Noted(v).regs = v
  BY DEF TypeOK, Vectors, Noted
<1>2. /\ CPU_BASE + v \in Nat /\ CPU_BASE + v # 0 /\ CPU_BASE + v >= CPU_BASE
      /\ (CPU_BASE + v) - CPU_BASE = v /\ v # NoVector
  BY DEF CPU_BASE, Vectors, NoVector
<1>3. /\ panic' = PanicRecord(CPU_BASE + v, Noted(v))
      /\ IF_' = FALSE /\ pc' = "panic_screen"
  BY DEF Panic
<1>4. /\ panic' \in [code : Nat, vector : Nat, regs : Nat]
      /\ panic'.code = CPU_BASE + v /\ panic'.vector = v /\ panic'.regs = v
  BY <1>1, <1>2, <1>3, RecordOfPanic
<1> QED BY <1>2, <1>3, <1>4 DEF PanicIsShown

-----------------------------------------------------------------------------
(* The steps that touch none of the tables.                                 *)

LEMMA QuietStep ==
  ASSUME BootInv, UNCHANGED <<irqs, IF_, panic, dead, video>>,
         pc \notin {"panic_screen", "halted"}, pc' \notin {"panic_screen", "halted"},
         pc' \in Early => ~IF_,
         pc' \notin {"gates", "sti"}, video # "none" \/ pc' = "video"
  PROVE  BootInv'
<1>1. TypeOK' /\ InterruptsHaveHandlers' /\ PanicIsShown'
  BY DEF BootInv, TypeOK, InterruptsHaveHandlers, PanicIsShown, irqs, Lines
<1> QED BY <1>1 DEF BootInv, irqs, Early, Lines

LEMMA SameTables ==
  ASSUME BootInv, UNCHANGED <<pc, irqs, IF_, video, panic, dead>>
  PROVE  BootInv'
BY DEF BootInv, TypeOK, InterruptsHaveHandlers, PanicIsShown, irqs, Lines

\* sleep goes to sleep, or panics.
LEMMA SleepBegins ==
  ASSUME BootInv, UNCHANGED <<irqs, dead, video>>,
         NEW to \in {"note_sleep", "clear_sleep"}, BeginSleep(to), pc \in {"note", "clear"}
  PROVE  BootInv'
<1>1. TypeOK /\ video # "none" /\ video' # "none" /\ panic.vector = NoVector /\ dead = "no"
  BY DEF BootInv
<1>2. CASE pc' = to /\ UNCHANGED <<IF_, panic>>
  BY <1>1, <1>2, QuietStep DEF Early
<1>3. CASE Panic(SLEEP_EARLY, panic)
  <2>1. SLEEP_EARLY \in 1..(CPU_BASE - 1)
    BY DEF SLEEP_EARLY, CPU_BASE
  <2>2. /\ panic' \in [code : Nat, vector : Nat, regs : Nat]
        /\ IF_' = FALSE /\ pc' = "panic_screen" /\ PanicIsShown'
    BY <1>1, <1>3, <2>1, KernelPanic
  <2> QED BY <1>1, <2>2 DEF BootInv, TypeOK, InterruptsHaveHandlers, Early, irqs, Lines
<1> QED BY <1>2, <1>3 DEF BeginSleep

LEMMA BootNext == BootInv /\ [Next]_vars => BootInv'
<1> SUFFICES ASSUME BootInv, [Next]_vars PROVE BootInv'
  OBVIOUS
<1> USE DEF irqs, boot
<1>1. CASE Validate
  <2>1. CASE pc' = "options"
    <3>1. pc = "validate" /\ UNCHANGED <<irqs, IF_, video, dead, panic>>
      BY <1>1, <2>1 DEF Validate, Panic
    <3> QED
      BY <2>1, <3>1 DEF BootInv, TypeOK, InterruptsHaveHandlers, PanicIsShown, Early, Lines
  <2>2. CASE pc' # "options"
    <3>1. /\ pc = "validate" /\ video' = "text" /\ UNCHANGED <<irqs, dead>>
          /\ \E code \in {BOOT_MAGIC, BOOT_MB_PTR, BOOT_MB_SIZE} : Panic(code, panic)
      BY <1>1, <2>2 DEF Validate
    <3>2. PICK code \in {BOOT_MAGIC, BOOT_MB_PTR, BOOT_MB_SIZE} : Panic(code, panic)
      BY <3>1
    <3>3. code \in 1..(CPU_BASE - 1) /\ TypeOK /\ panic.vector = NoVector /\ dead = "no"
      BY <3>1 DEF BootInv, BOOT_MAGIC, BOOT_MB_PTR, BOOT_MB_SIZE, CPU_BASE
    <3>4. /\ panic' \in [code : Nat, vector : Nat, regs : Nat]
          /\ IF_' = FALSE /\ pc' = "panic_screen" /\ PanicIsShown'
      BY <3>1, <3>2, <3>3, KernelPanic
    <3> QED BY <3>1, <3>3, <3>4 DEF BootInv, TypeOK, InterruptsHaveHandlers, Early, Lines
  <2> QED BY <2>1, <2>2
<1>2. CASE ReadOptions
  BY <1>2, QuietStep DEF ReadOptions, Goto, BootInv, Early
<1>3. CASE SetVideo
  <2>1. pc = "video" /\ video' # "none" /\ UNCHANGED <<irqs, dead>>
    BY <1>3 DEF SetVideo
  <2>2. TypeOK /\ panic.vector = NoVector /\ dead = "no" /\ ~IF_
    BY <2>1 DEF BootInv, Early
  <2>3. CASE pc' = "action" /\ UNCHANGED <<IF_, panic>>
    BY <2>1, <2>2, <2>3 DEF BootInv, TypeOK, InterruptsHaveHandlers, PanicIsShown, Early, Lines
  <2>4. CASE Panic(VIDEO_FB, panic)
    <3>1. VIDEO_FB \in 1..(CPU_BASE - 1)
      BY DEF VIDEO_FB, CPU_BASE
    <3>2. /\ panic' \in [code : Nat, vector : Nat, regs : Nat]
          /\ IF_' = FALSE /\ pc' = "panic_screen" /\ PanicIsShown'
      BY <2>1, <2>2, <2>4, <3>1, KernelPanic
    <3> QED BY <2>1, <2>2, <3>2 DEF BootInv, TypeOK, InterruptsHaveHandlers, Early, Lines
  <2> QED BY <1>3, <2>3, <2>4 DEF SetVideo
<1>4. CASE BootAction
  <2>1. CASE pc' = "input"
    BY <1>4, <2>1, QuietStep DEF BootAction, BootInv, Early
  <2>2. CASE pc' = "halted"
    <3>1. /\ pc = "action" /\ dead' \in {"reboot", "poweroff"}
          /\ UNCHANGED <<irqs, IF_, video, panic>>
      BY <1>4, <2>2 DEF BootAction
    <3> QED BY <2>2, <3>1 DEF BootInv, TypeOK, InterruptsHaveHandlers, PanicIsShown, Early, Lines
  <2> QED BY <1>4, <2>1, <2>2 DEF BootAction
<1>5. CASE SetInput
  BY <1>5, QuietStep DEF SetInput, Goto, BootInv, Early
<1>6. CASE idt_install
  <2>1. /\ pc = "idt" /\ pc' = "pic" /\ ~IF_ /\ idt_ready' = TRUE
        /\ idt' = [v \in Vectors |-> IF v \in Exceptions THEN "exception" ELSE "none"]
        /\ UNCHANGED <<pic_base, IF_, panic, dead, video>>
    BY <1>6 DEF idt_install, Goto, BootInv, Early
  <2>2. TypeOK'
    BY <2>1 DEF BootInv, TypeOK
  <2> QED BY <2>1, <2>2 DEF BootInv, InterruptsHaveHandlers, PanicIsShown, Early
<1>7. CASE reprogramar_pic
  <2>1. /\ pc = "pic" /\ pc' = "gates" /\ ~IF_ /\ pic_base' = PicBase
        /\ UNCHANGED <<idt, idt_ready, IF_, panic, dead, video>>
    BY <1>7 DEF reprogramar_pic, Goto, BootInv, Early
  <2> QED BY <2>1 DEF BootInv, TypeOK, InterruptsHaveHandlers, PanicIsShown, Early
<1>8. CASE SetGates
  <2>1. /\ pc = "gates" /\ pc' = "sti" /\ ~IF_ /\ pic_base = PicBase
        /\ idt' = [idt EXCEPT ![32] = "timer", ![33] = "keyboard"]
        /\ UNCHANGED <<pic_base, idt_ready, IF_, panic, dead, video>>
    BY <1>8 DEF SetGates, Goto, BootInv, Early
  <2>2. TypeOK' /\ \A l \in Lines : idt'[pic_base + LineNo[l]] = l
    BY <2>1 DEF BootInv, TypeOK, Lines, LineNo, PicBase, Vectors
  <2> QED BY <2>1, <2>2 DEF BootInv, InterruptsHaveHandlers, PanicIsShown, Early
<1>9. CASE EnableInterrupts
  <2>1. /\ pc = "sti" /\ UNCHANGED <<irqs, dead, video>> /\ TypeOK
        /\ panic.vector = NoVector /\ dead = "no"
    BY <1>9 DEF EnableInterrupts, BootInv
  <2>2. CASE idt_is_ready
    <3>1. /\ IF_' = TRUE /\ pc' \in {"note", "clear"} /\ UNCHANGED panic /\ idt_ready
          /\ \A l \in Lines : idt[pic_base + LineNo[l]] = l
      BY <1>9, <2>1, <2>2 DEF EnableInterrupts, idt_is_ready, BootInv
    <3>2. InterruptsHaveHandlers'
      BY <2>1, <3>1 DEF InterruptsHaveHandlers, Lines
    <3> QED BY <2>1, <3>1, <3>2 DEF BootInv, TypeOK, PanicIsShown, Early
  <2>3. CASE ~idt_is_ready
    <3>1. /\ Panic(IDT_NOT_READY, panic) /\ IDT_NOT_READY \in 1..(CPU_BASE - 1)
          /\ video' # "none"
      BY <1>9, <2>1, <2>3 DEF EnableInterrupts, IDT_NOT_READY, CPU_BASE, BootInv
    <3>2. /\ panic' \in [code : Nat, vector : Nat, regs : Nat]
          /\ IF_' = FALSE /\ pc' = "panic_screen" /\ PanicIsShown'
      BY <2>1, <3>1, KernelPanic
    <3> QED BY <2>1, <3>1, <3>2 DEF BootInv, TypeOK, InterruptsHaveHandlers, Early, Lines
  <2> QED BY <2>2, <2>3
<1>10. CASE Note
  BY <1>10, SleepBegins DEF Note
<1>11. CASE NoteEnds
  BY <1>11, QuietStep DEF NoteEnds, BootInv, Early
<1>12. CASE ClearAndSleep
  BY <1>12, SleepBegins DEF ClearAndSleep
<1>13. CASE ClearEnds
  BY <1>13, QuietStep DEF ClearEnds, Goto, BootInv, Early
<1>14. CASE \E has_controller \in BOOLEAN : UsbInit(has_controller)
  BY <1>14, QuietStep DEF UsbInit, Goto, BootInv, Early
<1>15. CASE PanicScreen
  <2>1. /\ pc = "panic_screen" /\ pc' = "halted" /\ dead' = "panic"
        /\ UNCHANGED <<irqs, IF_, video, panic>>
    BY <1>15 DEF PanicScreen
  <2> QED BY <2>1 DEF BootInv, TypeOK, InterruptsHaveHandlers, PanicIsShown, Early, Lines
<1>16. CASE \E l \in Lines : RaiseIrq(l)
  <2>1. UNCHANGED <<pc, irqs, IF_, video, panic, dead>>
    BY <1>16 DEF RaiseIrq
  <2> QED BY <2>1, SameTables
<1>17. CASE \E l \in Lines : DeliverIrq(l)
  \* The branch of a missing handler is dead: InterruptsHaveHandlers.
  <2>1. PICK l \in Lines : DeliverIrq(l)
    BY <1>17
  <2>2. IF_ /\ idt[pic_base + LineNo[l]] = l
    BY <2>1 DEF DeliverIrq, BootInv, InterruptsHaveHandlers
  <2>3. UNCHANGED <<pc, irqs, IF_, video, panic, dead>>
    BY <2>1, <2>2 DEF DeliverIrq
  <2> QED BY <2>3, SameTables
<1>18. CASE \E v \in CpuVectors : CpuException(v)
  <2>1. PICK v \in CpuVectors : CpuException(v)
    BY <1>18
  <2>2. v \in Vectors /\ TypeOK /\ dead = "no" /\ UNCHANGED <<irqs, video>>
    BY <2>1, VectorsAssumption DEF CpuException, Vectors, BootInv
  <2>3. CASE dead' = "reset" /\ pc' = "halted" /\ UNCHANGED <<IF_, panic>>
    BY <2>2, <2>3 DEF BootInv, TypeOK, InterruptsHaveHandlers, PanicIsShown, Early, Lines
  <2>4. CASE /\ idt_ready /\ UNCHANGED dead
             /\ Panic(CPU_BASE + v, Noted(v))
    <3>1. video' # "none"
      BY <2>2, <2>4 DEF BootInv
    <3>2. /\ panic' \in [code : Nat, vector : Nat, regs : Nat]
          /\ IF_' = FALSE /\ pc' = "panic_screen" /\ PanicIsShown'
      BY <2>2, <2>4, <3>1, ExceptionPanic
    <3> QED BY <2>2, <2>4, <3>1, <3>2 DEF BootInv, TypeOK, InterruptsHaveHandlers, Early, Lines
  <2> QED BY <2>1, <2>3, <2>4 DEF CpuException
<1>19. CASE UNCHANGED vars
  <2>1. UNCHANGED <<pc, irqs, IF_, video, panic, dead>>
    BY <1>19 DEF vars
  <2> QED BY <2>1, SameTables
<1> QED
  BY <1>1, <1>2, <1>3, <1>4, <1>5, <1>6, <1>7, <1>8, <1>9, <1>10, <1>11, <1>12,
     <1>13, <1>14, <1>15, <1>16, <1>17, <1>18, <1>19 DEF Next, Kernel

THEOREM BootIsSafe == Spec => []BootInv
<1>1. Init => BootInv
  BY BootInit
<1>2. BootInv /\ [Next]_vars => BootInv'
  BY BootNext
<1> QED BY <1>1, <1>2, PTL DEF Spec

-----------------------------------------------------------------------------
\* Whatever exceptions strike, an interrupt that is let in finds its handler: the
\* order of IDT, PIC, gates and sti in kernel_main, and cli in every panic.
THEOREM InterruptsHandled == Spec => []InterruptsHaveHandlers
<1>1. BootInv => InterruptsHaveHandlers
  BY DEF BootInv
<1> QED BY <1>1, BootIsSafe, PTL

\* Whatever strikes during the boot, and during the panic itself, the screen shows
\* one panic and the exception that belongs to it.
THEOREM PanicShown == Spec => []PanicIsShown
<1>1. BootInv => PanicIsShown
  BY DEF BootInv
<1> QED BY <1>1, BootIsSafe, PTL
=============================================================================
