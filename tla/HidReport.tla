------------------------------ MODULE HidReport ------------------------------
(***************************************************************************)
(* usb_kbd_feed_boot_report of src/src/usb_kbd.c: it turns the state that  *)
(* a USB boot keyboard reports (which keys are down) into the set-1        *)
(* scancodes (what changed) that processar_set1 expects, by comparing each *)
(* report with the one before.                                             *)
(*                                                                         *)
(* The keyboard is external: the user presses and releases keys, and the   *)
(* report sent at a poll holds the Slots keys that are down, or the usage  *)
(* ErrorRollOver in every slot when more are.                              *)
(***************************************************************************)
EXTENDS Naturals, Sequences, SequencesExt

CONSTANTS Keys,       \* usages that hid_boot_usage_to_set1 gives a scancode
          Arrows,     \* those of them whose scancode has the E0 prefix
          NoCode,     \* usages it answers 0 for
          UserMods,   \* the modifier keys the user has
          Slots,      \* 6: usages in a report
          MaxPresses  \* bound: key presses in a behaviour

ErrorRollOver == "rollover"
Usages == Keys \cup NoCode

ASSUME UsagesAssumption ==
  /\ Arrows \subseteq Keys /\ Keys \cap NoCode = {}
  /\ Usages \cap {ErrorRollOver, "E0", "ctrl", "shift", "alt"} = {}
ASSUME SlotsAssumption == Slots \in Nat \ {0} /\ MaxPresses \in Nat

\* The modifier keys whose bits of byte 0 the code looks at, and the one flag
\* of kbd.c that the left and the right key of a pair share.
FlagOf == [LCtrl |-> "ctrl", RCtrl |-> "ctrl", LShift |-> "shift",
           RShift |-> "shift", LAlt |-> "alt", RAlt |-> "alt"]
Flags == {"ctrl", "shift", "alt"}

ASSUME ModsAssumption == UserMods \subseteq DOMAIN FlagOf

VARIABLES
  held,            \* the keys the user holds, oldest first
  mods,            \* the modifiers the user holds
  last_report, last_modifiers,
  decoder,         \* what processar_set1 keeps of the codes
  pressed,         \* history: how often each key was pressed
  rolled, paired   \* history: a rollover report was sent; both keys of a pair
                   \* were down in one report or in two that follow, and a
                   \* modifier has been down since

hidVars == <<held, mods, last_report, last_modifiers, decoder, pressed, rolled, paired>>

\* decoder: the flags, estendido, the keys the codes say are down, how often
\* each key acted, the <<key, shift flag>> of the letters of the last report,
\* and which flags and prefix the PS/2 keyboard left set that no code of this
\* one has settled: the automatic mode comes here in the middle of its codes,
\* as teclado_set_ps2_enabled empties the ring and leaves the flags.
HidInit ==
  /\ held = << >> /\ mods = {}
  /\ last_report = << >> /\ last_modifiers = {}
  /\ \E flags \in SUBSET {FlagOf[m] : m \in UserMods}, prefix \in BOOLEAN :
       decoder = [flags |-> flags, estendido |-> prefix, down |-> {},
                  acted |-> [k \in Usages |-> 0], letters |-> {},
                  flagsLeft |-> flags, prefixLeft |-> prefix]
  /\ pressed = [k \in Usages |-> 0] /\ rolled = FALSE /\ paired = FALSE

-----------------------------------------------------------------------------
(* The keyboard and its user.                                               *)

Presses(k) ==
  /\ k \notin ToSet(held)
  /\ FoldFunction(LAMBDA a, b : a + b, 0, pressed) < MaxPresses
  /\ held' = Append(held, k)
  /\ pressed' = [pressed EXCEPT ![k] = @ + 1]
  /\ UNCHANGED <<mods, last_report, last_modifiers, decoder, rolled, paired>>

Releases(i) ==
  /\ held' = RemoveAt(held, i)
  /\ UNCHANGED <<mods, last_report, last_modifiers, decoder, pressed, rolled, paired>>

TogglesModifier(m) ==
  /\ mods' = IF m \in mods THEN mods \ {m} ELSE mods \cup {m}
  /\ UNCHANGED <<held, last_report, last_modifiers, decoder, pressed, rolled, paired>>

Report == IF Len(held) > Slots
          THEN [s \in 1..Slots |-> ErrorRollOver]
          ELSE held

-----------------------------------------------------------------------------
(* The codes of one report, and what processar_set1 makes of them: each      *)
(* operator is the decoder after the codes its function of usb_kbd.c sends.  *)

\* One code in processar_set1: a flag, the prefix, or a key, which acts when
\* it goes down with the prefix it needs.  A release uses up the prefix too.
processar_set1(d, key, release) ==
  IF key \in Flags
  THEN [d EXCEPT !.flags = IF release THEN @ \ {key} ELSE @ \cup {key},
                 !.flagsLeft = @ \ {key}]
  ELSE IF key = "E0"
  THEN [d EXCEPT !.estendido = TRUE]
  ELSE LET acts == ~release /\ d.estendido = (key \in Arrows)
       IN  [d EXCEPT !.estendido = FALSE, !.prefixLeft = FALSE,
                     !.down = IF release THEN @ \ {key} ELSE @ \cup {key},
                     !.acted[key] = IF acts THEN @ + 1 ELSE @,
                     !.letters = IF acts THEN @ \cup {<<key, "shift" \in d.flags>>}
                                 ELSE @]

\* A usage without a code sends nothing, and an arrow the prefix first.
emit_set1(d, u, release) ==
  IF u \notin Keys THEN d
  ELSE processar_set1(IF u \in Arrows THEN processar_set1(d, "E0", FALSE) ELSE d,
                      u, release)

\* Fault: a modifier that goes up sends its make code.
update_modifier_NeverUp(d, m) ==
  IF (m \in last_modifiers) = (m \in mods) THEN d
  ELSE processar_set1(d, FlagOf[m], FALSE)

\* kbd_usb_update_modifier: only what changed.
update_modifier(d, m) ==
  IF (m \in last_modifiers) = (m \in mods) THEN d
  ELSE processar_set1(d, FlagOf[m], m \notin mods)

\* The six bits, in the order the code looks at them.
UpdateModifiers(d) ==
  LET left  == update_modifier(update_modifier(update_modifier(d,
                 "LCtrl"), "LShift"), "LAlt")
  IN  update_modifier(update_modifier(update_modifier(left,
        "RCtrl"), "RShift"), "RAlt")

\* The usages of `a` that `b` has not, one slot after the other: the decoder
\* after none, one, ... all the slots.
Comparing(d, a, b, release) ==
  LET after[n \in 0..Len(a)] ==
        IF n = 0 THEN d
        ELSE IF a[n] \in ToSet(b) THEN after[n - 1]
        ELSE emit_set1(after[n - 1], a[n], release)
  IN  after

EmitChanges(d, a, b, release) == Comparing(d, a, b, release)[Len(a)]

\* Fault: the keys are compared before the modifiers.
Feed_KeysFirst(d, report) ==
  UpdateModifiers(EmitChanges(EmitChanges(d, last_report, report, TRUE),
                              report, last_report, FALSE))

\* Modifiers, then the keys that went up, then the keys that went down.
Feed(d, report) ==
  EmitChanges(EmitChanges(UpdateModifiers(d), last_report, report, TRUE),
              report, last_report, FALSE)

\* Both keys of a pair are down.
BothOf(ms) == \E f \in Flags : {m \in DOMAIN FlagOf : FlagOf[m] = f} \subseteq ms

\* One interrupt transfer: the report arrives and is fed.
usb_kbd_feed_boot_report ==
  /\ decoder' = Feed([decoder EXCEPT !.letters = {}], Report)
  /\ last_modifiers' = mods /\ last_report' = Report
  /\ rolled' = (rolled \/ Len(held) > Slots)
  /\ paired' = (mods # {} /\ (paired \/ BothOf(mods \cup last_modifiers)))
  /\ UNCHANGED <<held, mods, pressed>>

HidNext == \/ \E k \in Usages : Presses(k)
           \/ \E i \in DOMAIN held : Releases(i)
           \/ \E m \in UserMods : TogglesModifier(m)
           \/ usb_kbd_feed_boot_report

HidSpec == HidInit /\ [][HidNext]_hidVars

-----------------------------------------------------------------------------
\* After each report the editor's modifier flags are those of the keys that
\* are down, and of the ones the PS/2 keyboard left held until the same modifier
\* of this keyboard goes down and up.  The codes say only what changed, and left
\* and right share one flag: with both down, or one handed over to the other in
\* one report, the flag follows the key that changed last.
FlagsFollowReport ==
  paired \/ decoder.flags = {FlagOf[m] : m \in last_modifiers} \cup decoder.flagsLeft

\* The codes never leave a key stuck: what they say is down is what the last
\* report held, through rollovers too, and no prefix stays pending but one the
\* PS/2 keyboard sent, until the first key.
NoStuckKey ==
  /\ decoder.down = ToSet(last_report) \cap Keys
  /\ decoder.estendido = decoder.prefixLeft

\* A key never acts more often than it was pressed, unless a rollover report
\* made every key that was down look released: when the rollover ends they are
\* pressed again, and typed a second time.
NoPhantomPress ==
  rolled \/ \A k \in Keys : decoder.acted[k] <= pressed[k]

\* The codes follow the reports: no flag, key or prefix is stuck, and no press
\* is made up, across rollovers and the change of keyboards (usb_kbd.c,
\* 1125-1158; kbd.c, 229-235).
CodesFollowReport == FlagsFollowReport /\ NoStuckKey /\ NoPhantomPress

\* A letter that comes with Shift in the same report is typed with it: the
\* modifiers of a report take effect before its keys.
ShiftAppliesToReport ==
  paired \/ \A e \in decoder.letters :
              e[2] <=> \/ \E m \in last_modifiers : FlagOf[m] = "shift"
                       \/ "shift" \in decoder.flagsLeft

-----------------------------------------------------------------------------
(* The inductive invariant of both.                                         *)

Decoders == [flags : SUBSET Flags, estendido : BOOLEAN, down : SUBSET Keys,
             acted : [Usages -> Nat], letters : SUBSET (Keys \X BOOLEAN),
             flagsLeft : SUBSET Flags, prefixLeft : BOOLEAN]

HidTypeOK ==
  /\ held \in Seq(Usages) /\ mods \subseteq DOMAIN FlagOf
  /\ last_report \in Seq(Usages \cup {ErrorRollOver})
  /\ last_modifiers \subseteq DOMAIN FlagOf
  /\ decoder \in Decoders /\ pressed \in [Usages -> Nat] /\ rolled \in BOOLEAN /\ paired \in BOOLEAN

\* Also while both keys of a pair are down, a flag is set for a reason.
FlagsHaveReasons ==
  /\ decoder.flagsLeft \subseteq decoder.flags
  /\ decoder.flags \subseteq {FlagOf[m] : m \in last_modifiers} \cup decoder.flagsLeft

\* A key that went down since the last report has a press that did not act yet.
PressesLeft ==
  rolled \/ \A k \in (ToSet(held) \cap Keys) \ ToSet(last_report) :
              decoder.acted[k] < pressed[k]

HidInv ==
  /\ HidTypeOK /\ CodesFollowReport /\ FlagsHaveReasons /\ PressesLeft
  /\ \A e \in decoder.letters : e[2] = ("shift" \in decoder.flags)
  /\ \A i, j \in DOMAIN held : held[i] = held[j] => i = j
=============================================================================
