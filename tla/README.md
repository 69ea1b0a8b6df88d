# MyceliumOS in TLA+

MyceliumOS is a 32-bit x86 hobby kernel: it boots through Multiboot, draws a
text terminal on a linear framebuffer or in VGA text mode, reads a keyboard,
and runs a shell in the kernel. There are no processes and no disk. What is
hard in it is the path of a key from the hardware to the command line: an
interrupt handler and a main loop that share a ring without a lock, an xHCI
driver that enumerates a keyboard by polling and retries on its own, rings
shared with a controller through nothing but a cycle bit, a once-only choice
between two input paths, and a line editor that keeps buffer, counters and
screen in step by hand. Around it stand code that must be right the first time
(boot, page tables) and small loops over characters and ticks that are easy to
get wrong by one (parser, `echo`, `sleep`).

Line numbers refer to `src/src/`.

## 1. Inventory

### Execution model

One CPU, one stack, two contexts. `kernel_main` (kernel.c 262-288) turns for
ever: `usb_kbd_poll`, the two switches of input path, `teclado_poll`, and
`pause` or `hlt`. IRQ 0 (`timer_handler`) and IRQ 1 (`teclado`) interrupt it;
interrupt gates keep interrupts off inside a handler, so a handler is atomic
for the main loop and never the other way round. Everything else, commands
included, runs in the main loop. The xHCI controller runs in parallel with the
CPU. Crashes are panics that halt the machine; nothing is persisted, so there
is no recovery to model.

    8042 --IRQ 1--> teclado --+                           +-> terminal
      ^                       v                           |
      +------ teclado_poll: fila_scancodes --> processar_set1 --> pcmd -> shell
                                                  ^
    xHCI --event ring--> usb_kbd_poll --> usb_kbd_feed_boot_report
      ^                       |
      +--transfer ring--------+
                              |
                 ready / failed --> kernel_main: which path is on

### Components

| component | state | operations | hard behaviour | what makes it correct |
|---|---|---|---|---|
| PS/2 ring (kbd.c, kernel.c) | `fila_scancodes`, `fila_inicio`, `fila_fim`, `ps2_keyboard_enabled` | `teclado`, `teclado_poll`, `enfileirar`, `desenfileirar`, the two resets | two producers, split reads of the controller, resets with interrupts on, `hlt` | FIFO, nothing lost, nothing invented, always emptied |
| xHCI driver (usb_kbd.c) | `enum_state`, `pending_command`, `cmd_enqueue`, slot, port, two retry counters, two verdicts | `usb_kbd_init`, one iteration of `usb_kbd_poll` per event | errors, retries, port changes in every state, resources that run out | the byte of bookkeeping is right, a verdict is reached and is final |
| its rings (usb_kbd.c 419-455, 1281-1309, 1490-1507) | slots, cycle bits, link TRB, the awaited TRB | `ep_push`, one event of `usb_kbd_poll` | a controller in parallel, the wrap of two rings, one report buffer | each ring is a queue, every report is fed once |
| HID report decoder (usb_kbd.c 1124-1158) | `last_report`, `last_modifiers` | `usb_kbd_feed_boot_report` | differences of states, rollover, pairs of modifiers, flags left by PS/2 | no key stuck, none typed twice, Shift on the right letter |
| Input path selection (kernel.c) | `usb_fallback_done`, `auto_usb_selected`, the boot mode | one turn of the main loop | verdicts sampled once | always an input path, PS/2 given up only for a keyboard |
| Line editor (kbd.c, cmd.c) | modifiers, `estendido`, `buffer`, two counters, history | `processar_set1` | three representations of one line | one line; the screen shows it; history in order |
| Text terminal (vga.c, lib.c) | `tela_chars`, cursor, what is drawn | `print`, scroll, cursor moves, colours | deferred redraw, a cursor drawn by hand, edges of the grid | the screen shows the cells; it is the grid the editor believes in |
| Command parser (cmd.c 718-846) | flags of two loops | `parse_args`, `has_extra_arg_over_limit` | quotes, escapes, the limit of ten | the two scanners agree, arguments are the tokens |
| Shell commands (cmd.c, lib.c 457-472) | variables, status, colour, speaker | `pcmd` and its commands, `prompt` | state changed and put back across calls | colour kept, the prompt tells what panic will do, `echo` expands |
| Boot (kernel.c 112-262) | options, IDT, PIC, gates | straight-line start-up | order, contradicting options, exceptions at any step | no interrupt without handler; the boot ends as asked |
| Interrupt entry, PIC (interrupts.asm, lib.c) | IDT | stubs, EOI | latched interrupts | a handler is atomic, a latched edge is delivered |
| Timer and sleep (lib.c 203-219, usb_kbd.c 331-338) | `timer_ticks` | `timer_handler`, `sleep`, `xhci_wait_ticks` | wrap at 2^32, a tick between test and `hlt` | delays last as long as asked, and end |
| Panic (lib.c, vga.c) | record of the exception | `kernel_panic_code_at` | an exception in the middle of it | it is shown, of one cause, and final |
| Framebuffer and paging (vga.c 87-363, usb_kbd.c 254-312) | page tables, the BAR | `map_framebuffer`, `vga_map_mmio_region`, the BAR's move | alignment, windows that share a directory | every byte of a window is mapped where it is expected |
| Memory map, PCI, CPUID, RTC, ports | none worth the name | queries | - | - |

`PROJECT.json` lists the same parts with their status and, under `hazards`,
each place where something can go wrong that a test would hardly reach.

## 2. Modules

| module | models | checked by | proved in |
|---|---|---|---|
| `ScancodeQueue` | PS/2 ring, interrupt, main loop | `scancode_queue` | `ScancodeQueue_proofs` |
| `XhciKbd` | driver, with the controller and devices as environment | `xhci_kbd` | `XhciKbd_proofs` |
| `InputManager` | EXTENDS `XhciKbd` with `kernel_main`'s choice | `input_manager`, `input_unplug` | `XhciKbd_proofs` |
| `TrbQueue` | abstract: a bounded queue | as a property of `trb_rings` | - |
| `TrbRings` | interrupt transfer ring and event ring, slot by slot | `trb_rings` | `UsbReports_proofs` |
| `HidReport` | `usb_kbd_feed_boot_report`, keyboard and user as environment | `hid_report` | `UsbReports_proofs` |
| `Terminal` | the grid as a value: `print`, `limpatela`, cursor moves | through `LineEditor` and `Screen` | - |
| `Screen` | abstract: a `Terminal` that takes a character at a time | as a property of `display` | `Vga_proofs` |
| `Display` | vga.c's cells, framebuffer or text memory, and cursor | `display` | `Vga_proofs` |
| `LineEditor` | EXTENDS `Terminal`: `processar_set1` and history | `line_editor` | `LineEditor_proofs` |
| `CmdParser` | the two scanners of a command line | `cmd_parser` | `CmdParser_proofs` |
| `Echo` | EXTENDS `CmdParser` with `cmd_echo` | `cmd_parser` | `CmdParser_proofs` |
| `Timer` | tick counter, `sleep`, `xhci_wait_ticks` | through `Shell` | `Shell_proofs` |
| `Shell` | EXTENDS `Timer`: `pcmd`, commands, variables, prompt | `shell` | `Shell_proofs` |
| `Paging` | page tables and the windows of framebuffer and BAR | `paging` | `Vga_proofs` |
| `Boot` | `kernel_main` up to its loop, interrupts, exceptions, panic | `boot` | `Boot_proofs` |

Each `MC*` module only defines the values of constants that a `.cfg` cannot
write, or which of two alphabets a behaviour uses. Operators named
`X_Something` and commented `Fault:` are plausible wrong versions of `X`; no
specification uses them. They are there to show that each property can fail:
with `X` replaced by its fault, the run finds the property violated (`mutants`
in `PROJECT.json`).

### ScancodeQueue

A step of the main loop is one access to a port or to a volatile index, the
points where an interrupt can come between. So `enfileirar` is three steps in
the main loop (`EnqCheck`, `EnqWrite`, `EnqPublish`) and one in the handler
(`EnqueueAtomic`), and `teclado_drenar_controlador` is a loop of `DrainStatus`
and `DrainData` in the main loop and of `IsrIteration` in the handler. The
8042 is one output buffer whose data port repeats the last byte when it is
empty; it raises IRQ 1 for a keyboard byte and, as `reprogramar_pic` masks
IRQ 12, nothing for a mouse byte. `pc` is the main loop's place, `isr` the
handler's remaining iterations. `dispatched`, `dropped`, `flushed` and `raced`
only record. The USB verdicts are seen here as two actions that may happen at
the top of the loop, at most one of them and once; that a ready driver never
fails (`ReadyNeverFails`, proved) is what excludes both.

### XhciKbd and InputManager

The driver acts only in `usb_kbd_init` and `usb_kbd_poll`. One iteration of the
event loop is one step; an action per kind of event and state of the
enumeration. The registers, TRBs, contexts and descriptors are reduced to what
the driver decides by: a completion's code, a slot number, a port's connected,
enabled and reset bits, whether the descriptor holds a boot keyboard. Commands
and control transfers complete in order. `FaultKinds` names everything the
hardware may do wrong, so a run can say which faults it is about.

`InputManager` adds the boot option, `usb_fallback_done`, `auto_usb_selected`
and the PS/2 switch, and takes one turn of the main loop as a step: its two
tests read only variables of the same context.

### TrbQueue and TrbRings

`XhciKbd` takes the event ring for a sequence. `TrbRings` has it as it is: an
array whose entries are valid when their cycle bit is the reader's, and a
transfer ring that ends in a link TRB the driver hands over when it needs the
slot behind it. The controller runs between the driver's stores, so `ep_push` is
seen half done. `TrbQueue` is what both promise: entries leave in the order in
which they were put, once each, and at most `Bound` are under way. `TrbRings`
reads each ring's content off the two sides' places (`EpPending`,
`EventPending`) and implements `TrbQueue` twice, with these as `q`.

### Terminal, Screen, Display, LineEditor and HidReport

`Terminal` is the grid as a record `[cells, at]` with the operators of vga.c
and lib.c that the editor uses. `LineEditor` has one action per branch of
`processar_set1`, and each updates `buffer`, `buffer_index`, `cursor_buffer` and
`screen` with the calls the branch makes, in its order. Scancodes are named for
their keys. A prompt is one glyph and the output of a command one line.

`Display` is vga.c itself: `tela` (character and colour of every cell), `seen`
(what the user sees), the cursor that is drawn into the framebuffer or kept by
the CRT controller, and `fb_batch_redraw`, with which a text that scrolls draws
the screen again only at its end. `Screen` says a `Terminal` is all the rest of
the kernel needs to know, and `Display` implements it.

`HidReport` compares reports as the code does, and lets `processar_set1`, kept
to its flags and prefix, consume the emitted codes: the state of the decoder is
a value, and each operator gives the one after the codes it emits. The user
presses and releases between reports, so a report can carry several changes; the
flags and prefix the PS/2 keyboard left are part of the initial states, and the
decoder's fields `flagsLeft` and `prefixLeft` record which of them still stand.

### CmdParser, Echo, Timer and Shell

`CmdParser` types a line and gives each character to both loops at once; the
fields of `extra` and `parse` are the loops' locals. The reference definition
takes a line and works by its positions: which characters are escaped, which
quotes open, which spaces separate, where arguments begin and what is kept of
them. `Echo` expands the arguments of `echo` character by character; `arg` and
`pos` are the counters `a` and `i` of its loops. Its reference is the text with
each `$` and the name behind it exchanged for the value.

`Timer` has a counter of `W` values, and a delay in steps: test, `halting`
(between test and `hlt`), `hlt`. `Shell` is the program that delays: a step per
line that is dispatched, with a second one at the end of a command that sleeps;
the driver may wait between two lines. Commands that only print are an outcome,
their status. Variables, status, colour, the speaker and the prompt's style are
state; the words and their numbers are constants.

### Paging and Boot

`Paging` has the directories and page tables with their entries, an entry being
the set of what it points to; `map_framebuffer` and `vga_map_mmio_region` as actions that fill
it, and the BAR's move below 4 GiB. All sizes are constants.

`Boot` runs `kernel_main` in its order, a step per call that something else
depends on. Devices raise IRQs, the PIC delivers them at the vector it was told
to use, through whatever the IDT has there; an exception may strike at every
step, and strike the panic screen as well.

## 3. What the runs show

| run | result | distinct states |
|---|---|---|
| `scancode_queue` | pass | 86 k |
| `xhci_kbd` | pass | 232 k |
| `input_manager` | pass | 314 k |
| `input_unplug` | violation | - |
| `trb_rings` | pass | 1.3 k |
| `hid_report` | pass | 213 k |
| `line_editor` | pass | 281 k |
| `display` | pass | 625 k |
| `cmd_parser` | pass | 920 k |
| `shell` | pass | 103 k |
| `paging` | pass | 1.2 k |
| `boot` | pass | 64 k |

**`scancode_queue`** - whatever the two producers do to each other, no slot that
nobody wrote is dispatched (`NoGhostScancode`), no byte is dispatched three
times (`AtMostTwice`), and nothing that was flushed comes back
(`FlushedNeverDispatched`). As long as the interrupt does not hit the window
between the main loop's status read and its publication of `fila_fim`, the ring
is a FIFO in which every byte is accounted for (`FifoUnlessRaced`). The
condition is needed: in that window bytes do get lost, repeated and swapped.
The shortest case: the main loop has read byte 1 from the port, the interrupt
queues byte 2, the main loop stores byte 1 after it; the comments at kbd.c 439
and 453 describe a hand-off in which only the interrupt fills the ring. The
controller is always read again (`EveryByteRead`) and the ring always emptied
(`QueueIsEmptied`), although a scancode may arrive between the emptiness test
and `hlt`: it waits for the next tick.

**`xhci_kbd`** - with up to four faults of any kind, a completion is always that
of the command the driver thinks is in flight (`CompletionMatches`), its two
buffers each have one user (`BuffersNotOverwritten`), transfers go to slots in a
state that allows them (`TransfersMatchSlotState`), a ready driver never fails
and a failed one never becomes ready (`ReadyNeverFails`, `FailedIsFinal`).

**`input_manager`** - the driver and `kernel_main` together, on two ports and with
the faults the driver is written to survive. Slots are given back before others
are asked for (`NoSlotLeak`); enumeration ends in one of the two verdicts
(`ReadyOrFailed`), also when the first port holds another device; every report
is fed (`EveryReportFed`); in all boot modes there is always an input path in
the end (`AlwaysAnInput`), unless the port of a ready keyboard goes down; PS/2
is given up only for an enumerated keyboard (`Ps2GivenUpForKeyboard`).

**`input_unplug`** - pulling the USB keyboard out after the automatic change leaves
PS/2 off for good, although kernel.c 269 announces a fallback.

The other faults are in `xhci_kbd` only, because the driver does not survive
them: with any of these `ReadyOrFailed` or `AlwaysAnInput` fails, the driver being
neither ready nor failed, or ready without a report under way, while
`kernel_main` waits.

- Enable Slot or Configure Endpoint fails, or reports slot 0: the error is only
  printed (usb_kbd.c 1352).
- A control transfer ends in a code other than success, short packet or
  transaction error (1430), or a report does.
- A reset leaves the port disabled, or the port drops again before the driver
  saw that a slow reset is over: printed as "PED not set" (1417).
- Transaction errors alternate with successes until the 63 entries of the
  command ring are used up, which takes many more faults than four: the retry
  counter is reset at 1444 and 1456, and nobody looks at the result of
  `xhci_push_command` (416).

A failing Disable Slot and a slow reset alone do no such harm, but the first loses
the slot (section 4).

**`trb_rings`** - over several laps of both rings, with port events in between,
each ring is a queue (`TransferRingIsQueue`, `EventRingIsQueue`), the one report
buffer is enough and a completion is never taken for one of an earlier lap
(`FedInOrder`), and the controller always finds a TRB again (`AlwaysRearmed`).

**`hid_report`** - the codes leave the decoder with the flags and keys of the
last report and no key acts more often than it was pressed
(`CodesFollowReport`), and Shift counts for the letters of its own report
(`ShiftAppliesToReport`). The exceptions are stated in the properties: after a
rollover report the held keys are typed again; when both keys of a pair have
been down the shared flag follows the last change; and a modifier held on the
PS/2 keyboard at the change stays held until the same modifier of the USB
keyboard goes down and up.

**`line_editor`** - buffer, count and cursor are one line (`OneLine`), the screen
shows it (`ScreenShowsLine`), and the history is the last distinct lines that
were run (`HistoryIsRecentRuns`). `ScreenShowsLine` excepts, through `torn`, the
cases where the code lets them part: Ctrl+C with a line typed, Backspace or TAB
after Ctrl+L, a letter put in mid-line that makes the grid scroll, a line of
blanks run, and a run from above the line's end. Each was met as a counterexample
of this run and is named at the action it belongs to. A letter typed with no
prefix pending is never swallowed (`LetterLands`), for every order of modifiers,
prefixes, answers and releases; a modifier after 0xE0 (right Ctrl) leaves the
prefix pending, and the next key is then taken for an extended one.

**`display`** - after every `print` the screen shows the cells and one cursor; in
between nothing lags but a framebuffer that has scrolled (`ScreenShowsCells`);
and every step is one of the abstract terminal (`IsScreen`), which is also what
`LineEditor` writes on.

**`cmd_parser`** - the two scanners have the same flags and count as long as both
run, and a line the first turns away the second would too (`ScannersAgree`); a
line runs a command exactly when it is well formed and within the limit, with
the arguments the definition by positions gives (`ArgsAreTokens`); `echo` prints
them with the longest registered name after each `$` replaced (`EchoExpands`), although
the code takes the first that fits: a name registered behind one that it begins
with could never be reached, and none is (`OrderAssumption`).

**`shell`** - a delay is not shorter than asked nor more than a tick longer
(`DelaysLast`), and ends (`CallsReturn`). For the driver's delay this holds across
the counter's wrap, as it compares a difference. For `sleep`, which compares
with an end computed in advance (lib.c 204), it does not: near the wrap a sleep
ends at once or lasts a lap; the properties state where. The prompt, which looks
at the first character of `smod`, and `panic`, which compares all of it, agree
(`PromptTellsPermission`); no command changes the colour in passing
(`ColourKept`), except that a prompt at `smod` undoes what `color` asked for
(lib.c 466).

**`paging`** - every byte `hex` agrees to dump is mapped to itself
(`HexDumpIsMapped`); the framebuffer is reached through its window, and a BAR the
driver moved is wholly mapped in the hole it was moved to (`WindowsMapped`). Not
so for a BAR the firmware left below 4 GiB: it is used where it is, in the
framebuffer's window too (vga.c 336), and when it is not aligned to 2 MiB its
pages are entered from index 0 of its table (vga.c 341), at other addresses
than it has. The properties are therefore about moved BARs, which all come to lie
at `LOW_MMIO_BASE`, a multiple of 2 MiB and of every size that fits the hole.

**`boot`** - interrupts are on only when both open lines lead to their handlers
(`InterruptsHaveHandlers`); a panic has a screen, nothing interrupts it, and its
record is of the last exception or of none (`PanicIsShown`); the boot ends in the
main loop with the options obeyed, or stopped for a reason asked for
(`BootEnds`).

Smaller things met on the way and modelled as they are: the parameter of `sleep`
is called `milissegundos` but counts ticks of 10 ms (lib.c 203); `ticks` and `uptime` print
the counter as a signed number (cmd.c 428); `set` of `status`, `cx` and `cy` is
overwritten by the next line (cmd.c 53); `beep` refuses 20 and 20000, which its
message includes (cmd.c 115); `set` copies up to 127 characters into variables
that may have 2 (cmd.c 971), and what that destroys depends on the build, so
`Shell` takes values that fit (`FitsAssumption`).

### Bounds

| bound | code | checked | why it is enough |
|---|---|---|---|
| `QSize` | 64 | 3 | two usable slots are full, lapped and reset; the code compares indices only for equality and successor |
| `DrainMax` | 16 | 2 | a drain ends both by the limit and by an empty controller |
| `NBytes` | - | 4 | fills the ring, laps it, and leaves one byte in each context; byte 2 is the mouse's |
| `MaxFaults` | - | 4 | four exhaust either retry counter (limit 3) and leave one over |
| `CmdRingSize` | 64 | 64 | the code's value |
| `Ports`, `MaxSlots` | up to 255 | 1 or 2, 2 | the driver handles one port and one slot at a time; the second is the one it must not take |
| devices | - | 3 pairs of keyboard, other, none | the keyboard first, behind another device, or missing |
| `Speeds` | 1-4 | {2, 4} | low speed keeps its packet size at a retry, the others try three (505-511) |
| `MaxReports` of the driver | - | 2 | a report before and one after a requeue |
| `EpRingSize`, `EventRingSize` | 64, 256 | 4, 3 | three TRBs and the link, three events: laps of different length |
| `MaxReports`, `MaxPortEvents` of the rings | - | 8, 3 | more than two laps of each ring, at every offset |
| `Slots` of a report, `MaxPresses` | 6, - | 2, 4 | a third key is a rollover; pressed again after it |
| grid, `MaxLine` | 80 x 25, 254 | 3 x 3, 4 | lines wrap, the grid scrolls, and the longest line leaves a row free (`FitsAssumption`, as in the code) |
| `KBD_HISTORY_SIZE` | 16 | 2 | the oldest line is shifted out |
| `MaxKeys` | - | 8 and 6 | type, run, recall, edit, run again; prefix, modifier, release, letter. The editing codes and the decoding codes are two alphabets (`hands`) |
| `Display` grid, `TabWidth` | 80 x 25, 4 | 3 x 2, 2 | every edge, tabs that end on one, two scrolls |
| `MaxLine`, `CMD_MAX_ARGS`, `CMD_INPUT_MAX` | 254, 10, 256 | 8, 3, 9 | one argument too many in every quoting; the copy is exactly long enough |
| `Names`, `Values` of `echo` | `uptime` and 6 variables | 3 | one name of two letters, one of them a name too, and an empty value |
| `W`, `SHORT`, `Waits` | 2^32, 20 ticks, 2 to 10 ticks | 12, 3, {2, 5} | calls begin at every value of the counter, the wrap among them |
| address space, `PAGE`, `ENTRIES` | 4 GiB, 4 KiB, 512 | 512, 2, 8 | framebuffers and BARs below, at and above 4 GiB, aligned and not, smaller and larger than their windows |
| `CpuVectors`, `MaxExceptions` | 0-31, - | {8, 14}, 2 | one exception inside another; 8 is also the timer's vector before the PIC is moved |

### Fairness

`ScancodeQueue`: weak fairness of the handler, of the main loop and of the
timer. The CPU executes whichever context is active, and the PIT is programmed
at boot. Weak fairness is enough as none of the three is disabled for ever by
another; the 8042 and the user owe nothing. `XhciKbd` and `InputManager`: weak
fairness of the driver and of the rest of the main loop, which is a loop
without exit, and of the controller's answers (an xHC completes every command
and transfer it was given, with success or with an error). `TrbRings`: of the
driver, and of the controller following a link that was handed over; the
keyboard owes no report. `Boot` and `Shell`: of the CPU and of the timer's
interrupt. Faults, typing, exceptions and unplugging are never owed. The other
properties are safety.

Deadlock is checked except where a behaviour ends: by a bound in `LineEditor`,
`CmdParser` and `TrbRings`, because the program under study is over in `Paging`,
and because the machine stops in `Boot` and `Shell`.

## 4. What is proved

For every value of the constants allowed by the assumptions of the modules:

| theorem | property | argument |
|---|---|---|
| `ScancodeQueue_proofs!TypeCorrect` | `TypeOK` | inductive as it stands; the lemma `NextSlot` on `% QSize` |
| `ScancodeQueue_proofs!NoGhost` | `NoGhostScancode` | `GhostInv` |
| `ScancodeQueue_proofs!FlushedStaysOut` | `FlushedNeverDispatched` | `FreshInv` |
| `ScancodeQueue_proofs!FifoOfTheController` | `FifoUnlessRaced` | `OrderInv` |
| `ScancodeQueue_proofs!NoByteThrice` | `AtMostTwice` | `TwiceInv` |
| `XhciKbd_proofs!ReadyKeyboardNeverFails` | `ReadyNeverFails` | `VerdictInv` |
| `XhciKbd_proofs!FailureIsFinal` | `FailedIsFinal` | `VerdictInv` |
| `XhciKbd_proofs!CompletionsMatchCommands` | `CompletionMatches` | `DriverInv` |
| `XhciKbd_proofs!BuffersAreSafe` | `BuffersNotOverwritten` | `DriverInv` |
| `XhciKbd_proofs!ProtocolOrder` | `TransfersMatchSlotState` | `DriverInv` |
| `XhciKbd_proofs!SlotsNeverLeak` | `NoSlotLeak`, if Disable Slot never fails | `SlotInv` |
| `XhciKbd_proofs!ComposedSlotsNeverLeak` | the same of the composition | every step is one of the driver's or leaves it alone |
| `XhciKbd_proofs!Ps2IsTradedForKeyboard` | `Ps2GivenUpForKeyboard` | `DriverInv` of the composition |
| `LineEditor_proofs!EditsOneLine` | `OneLine` | `LineInv` |
| `LineEditor_proofs!LettersLand` | `LetterLands` | `LineInv` and `DecoderInv` |
| `LineEditor_proofs!HistoryKeepsRuns` | `HistoryIsRecentRuns` | `HistoryInv` |
| `LineEditor_proofs!LineIsOnScreen` | `ScreenShowsLine` | `LineInv` and `ScreenInv` |
| `UsbReports_proofs!RingsFit` | `RingInv` | inductive |
| `UsbReports_proofs!TransferRingImplementsQueue` | `TransferRingIsQueue` | refinement, from `RingInv` |
| `UsbReports_proofs!EventRingImplementsQueue` | `EventRingIsQueue` | refinement, from `RingInv` |
| `UsbReports_proofs!ReportsFedInOrder` | `FedInOrder` | `FedInv` |
| `UsbReports_proofs!DecoderFollowsReports` | `CodesFollowReport` | `HidInv` |
| `UsbReports_proofs!ShiftInItsReport` | `ShiftAppliesToReport` | `HidInv` |
| `CmdParser_proofs!ScannersInStep` | `ScannersAgree` | inductive with what a finished scan may be |
| `CmdParser_proofs!NothingOverflows` | `ArgsFit` | what is stored is no longer than what was read |
| `CmdParser_proofs!ArgumentsAreTokens` | `ArgsAreTokens` | `TokenInv` |
| `CmdParser_proofs!EchoPrintsExpansion` | `EchoExpands` | `EchoInv` |
| `Boot_proofs!InterruptsHandled` | `InterruptsHaveHandlers` | `BootInv` |
| `Boot_proofs!PanicShown` | `PanicIsShown` | `BootInv` |
| `Shell_proofs!TimerTypeCorrect` | type of the timer's state | inductive |
| `Shell_proofs!DelaysLastAsAsked` | `DelaysLast` | `DelayInv` |
| `Shell_proofs!PromptTells` | `PromptTellsPermission` | `SessionInv` |
| `Shell_proofs!ColourIsKept` | `ColourKept` | `SessionInv` |
| `Vga_proofs!ScreenShows` | `ScreenShowsCells` | `DisplayInv` |
| `Vga_proofs!DisplayImplementsScreen` | `IsScreen` | refinement, from `DisplayInv` |
| `Vga_proofs!HexReadsItsRange` | `HexDumpIsMapped` | `PagingInv` |
| `Vga_proofs!WindowsReachDevices` | `WindowsMapped` | `PagingInv` |

`NoGhostScancode` is not inductive: it says nothing of the ring. `GhostInv` adds
that the slots below any index that is or *will be* published have been
written, and that all have once an index has wrapped. The main loop's `prox`
is such an index, computed before an interrupt and published after it; it can
be behind or ahead of what the interrupt published, and that it is still one of
the two kinds is the heart of the proof. `FreshInv` has the same form (both are
`Clear`, with other values to be kept out, and rest on the lemma `WriteClears`)
and adds why a byte cannot be flushed and queued: a flush happens while
`teclado_poll` is not running, bytes are numbered in the order they come, and
one still in the controller is in no slot.

`OrderInv` is the invariant of an undisturbed ring, under `~raced` as a whole: once
the interrupt took a byte from under the main loop nothing is promised. It says
that older bytes are further ahead, by their rank between the two indices; that
main's copies of the status and of `fila_fim` are not stale; and that every byte
that ever was in the controller is accounted for: handled, queued, in main's
hand, still in the controller, dropped at a full ring, flushed, or the mouse's.
`TwiceInv` has no such condition. The byte main may be about to read a second time
is in one place at most, so no byte is ever in three; each action is shown by
mapping the places that hold a byte injectively to places that held it before
the step, except for the one place that is new.

`VerdictInv` says that a failed driver is idle with no command pending, and
that a ready one has no command pending; so no completion that arrives late
finds a branch that could change the verdict.

`DriverInv` is what the driver's single `pending_command` relies on: at most one
thing is under way in the controller, a command or a transfer, or else its one
answer is in the event ring, among port events; and what it is agrees with
`pending_command`, the state of the enumeration and the slot. The proof has a
lemma per way the driver goes on (a command sent, a transfer submitted, nothing
more to do) and shows for each event handler which of them it takes. `SlotInv`
adds that a slot in use is the driver's, or the answer that names it is still in
the ring. If Disable Slot fails the slot is lost, as the driver goes on without
it (usb_kbd.c 1347-1350): hence the theorem's assumption.

`LineInv` adds to `OneLine` that `buffer` and every line of the history are
lines of at most `MaxLine` characters and that the position in the history
exists, since recalling a line loads it and its length. The word moves choose
a least or greatest position, which the prover knows to exist through
the lemma `LeastElement`, from the well-foundedness of strict inclusion among
the intervals `0..n`. `HistoryInv` adds to `HistoryIsRecentRuns` that the newest entry is
the line run last, which is what the code compares with: shifting the history
and the drop of a repeated line are then the same as taking the last
`KBD_HISTORY_SIZE` lines that differ from the one before. `LettersLand` needs one
fact of the decoder, `DecoderInv`: an extension is pending only if the keyboard
sent its prefix.

`ScreenInv` adds to `ScreenShowsLine` that everything behind the line is blank, not
only the next cell: a longer line, TAB or the next prompt is printed there. A text
that scrolls is treated as a shift of a tape (`Tape`, `ShiftedBy`): after `n`
glyphs the grid shows the grid before, the text written over it and blanks
without end, moved up by some `d` cells; `d` is 0 if the text ends on the grid.
`print`, a row of erasures and `movfront` are recursive functions of how far they
got; what they compute is proved by the least place where it would be something
else (`LeastElement`), which stands in for the induction the prover has not. Each
branch then comes down to one of few lemmas: a prompt on a tidy screen
(`PromptShown`), text at the end of the line (`LineTyped`), the line cleared
(`LineCleared`), its rest written again (`LineRedrawn`), the cursor moved over it.
The cases that `torn` names are where a hypothesis of one of these fails.

`RingInv` ties each side's place and cycle state to the other's, says which slots
hold entries of this lap and which of the last, and that one report at a time is
under way. The refinements then need only what each step does to the two
counts and to the entry it reads or writes. `FedInv` says in addition that the TRB
under way is the one queued last, half written, awaited in the ring or named by
the event that is posted, and that its report is the last one sent: so the
counts of reports sent and fed differ by the one report that waits.

`HidInv` adds what the two properties leave open: also while both keys of a pair
are down, a flag that is set has its reason, a modifier of the last report or PS/2
(`FlagsHaveReasons`); and a key that went down since the last report has a press
that did not act yet (`PressesLeft`). The proof goes through a report as the
code does, the pairs of modifiers, the keys released, the keys pressed. The loops
over the slots are recursive functions of the slot, and what they emit is proved by
the least slot at which it would be something else.

`TokenInv` ties the flags of the scanning loop to the positions of the line read
so far (`Scans`): an escape is pending if the last character is an escape mark, a
quote is open if the number of quotes of its kind is odd, an argument is open if the
last position is part of one; `argv` holds the text kept of every argument begun.
The count is one behind while an escape begins an argument, for the code counts
the argument at the next character. A character appended changes none of what
the line's earlier positions mean (`Grows`), and each branch of the loop says what
the new position is. `EchoInv` says where `echo`'s loop stands: before a character
of its argument that no replaced name covers, with everything before it printed
as the reference says. The first name that fits is the longest, by
`OrderAssumption`.

`PagingInv` says which entries are in the tables at each point of the boot, and
that the entries of a region lie in their directory from the region's first byte
on. What a device's window shows is then arithmetic: an address is taken apart
into directory, table, page and byte (`Parts`, `TableParts`), and a byte of a region
is in one of the pages that rounding up has filled (`CeilDiv`). The windows stay
apart as a region of 64 KiB takes one table (`DefaultApart`) and the hole for moved
BARs begins a table behind the framebuffer's (`HoleBeginsTable`).

`BootInv` lists what every step up to `sti` has left in the tables, and that the
record is empty until the first panic.

`DelayInv` says at which elapsed time each loop of the timer can still be: before
the end it computed, or past it by no more than the ticks between the interrupt
and the test. It holds modulo the counter's width, so the proof splits on whether
the end of the delay lies past the wrap. `SessionInv` says that the prompt on the
screen was chosen from the `smod` the commands will look at, as nothing runs
between the two.

`DisplayInv` says that no cursor is drawn while a text is printed and that only a
framebuffer waits to be drawn again. The refinement shows that the cells, read
by their linear position, go through one `PutChar` of `Screen` at each step of
`print`: the arithmetic of rows and columns, the scroll, and a tab that ends on an
edge are lemmas of their own.

Assumptions: rings of at least two slots, a drain of at least one byte, at least
one slot and one port, finite ports, a history of at least one line, a limit of
at least one argument and a copy as long as the line, exceptions below vector
32, that names of commands are words and fit a line, that no code with a meaning of
its own is a letter's, that the letters of the keyboard and of the screen are not
the two characters `print` acts on, a grid and tabs of at least one column, a line
that leaves a row of the grid free (254 characters; vga.c 540-547 keeps at least
80 x 25 cells, 24 rows of which are 1920),
a counter longer than two ticks and delays shorter than its lap, lines of the
shell with at least one word, and words shorter than two characters that begin
with a 1 only by being "1". For reports: at least one slot, and a rollover code,
prefix and flags that are no key's usage or code. For `echo`: as many values as
names, names without `$` (`NamesAssumption`), and none behind one that it begins
with (`OrderAssumption`; of `uptime` and the six names of cmd.c 981-989 none begins with
another).
For the page tables: the identity map reaches to the end of what `hex` takes for
safe (`HexAssumption`; 64 MiB both), and `WindowAssumption`: the address for moved
BARs is a multiple of 2 MiB and of every size up to the largest accepted (powers of
two up to 256 MiB divide 0xF0000000), lies behind the framebuffer's 64 MiB from
0xE0000000, and the 64 KiB of a BAR that stays fit one table. TLC evaluates them
all.

Only model-checked: liveness (`EveryByteRead`, `QueueIsEmptied`, `ReadyOrFailed`,
`EveryReportFed`, `AlwaysAnInput`, `AlwaysRearmed`, `BootEnds`, `CallsReturn`), which is
beyond the prover. Every invariant and every action property that a passing run
checks is also a theorem, `NoSlotLeak` under the assumption above.

## 5. What is not modelled, and why

- The layout of registers, TRBs, contexts and descriptors: data of the hardware
  protocol, without a property of its own.
- The halt, reset and start of the controller in `usb_kbd_init`, and
  `teclado_init`: sequences without interleaving; their outcomes are used.
- The scan of the Multiboot tags and the assembly before `kernel_main`: read
  once, before anything else runs. The stubs' stack layout and the bytes sent
  to the PIC: `Boot` has their effect.
- Glyphs, pixel formats and the picture the panic screen draws: a cell has a
  look, and no property is about more.
- `kbd_ascii_input`: nothing calls it.
- PCI, CPUID, RTC and memory map: read-only queries; `Shell` has the status of
  the commands that print them. Port input and output are one instruction each.

## 6. Plan

Done, to model: `ScancodeQueue`, `XhciKbd`, `InputManager`, `Terminal` and
`LineEditor`, `HidReport`; then `TrbRings` and `TrbQueue`, `CmdParser` and `Echo`,
`Timer` and `Shell`, `Paging`, `Boot`, `Screen` and `Display`. Done, to prove: the
table of section 4.

Next, to model:

1. The ring, the decoder and the change of path in one composition; `XhciKbd`
   over `TrbRings` instead of a sequence.
2. An abstract editor (one sequence and a cursor) that `LineEditor` implements
   outside Ctrl+L; an abstract driver with three verdicts that `XhciKbd`
   implements.

To prove then: that these compositions keep the invariants of their parts.
