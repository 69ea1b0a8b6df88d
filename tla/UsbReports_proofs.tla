------------------------- MODULE UsbReports_proofs --------------------------
(***************************************************************************)
(* Proofs about the way of a USB report.  The decoder follows the reports  *)
(* it is fed, for all keys, modifiers and numbers of slots; the interrupt  *)
(* transfer ring that brings them implements a queue of one TRB, and the   *)
(* event ring a queue of all its slots but one, for all ring sizes.        *)
(***************************************************************************)
EXTENDS TrbRings, HidReport, SequenceTheorems, FiniteSetTheorems, WellFoundedInduction, TLAPS

-----------------------------------------------------------------------------
(* The decoder: what one code does to it.                                   *)

\* A decoder d, and e after the code of a flag.
FlagSettled(d, e, f, release) ==
  /\ e \in Decoders
  /\ e.flags = IF release THEN d.flags \ {f} ELSE d.flags \cup {f}
  /\ e.flagsLeft = d.flagsLeft \ {f}
  /\ e.estendido = d.estendido /\ e.prefixLeft = d.prefixLeft
  /\ e.down = d.down /\ e.acted = d.acted /\ e.letters = d.letters

\* A flag's code settles the flag, and nothing else.
LEMMA FlagCode ==
  ASSUME NEW d \in Decoders, NEW f \in Flags, NEW release \in BOOLEAN
  PROVE  FlagSettled(d, processar_set1(d, f, release), f, release)
<1> DEFINE e == processar_set1(d, f, release)
           fs == IF release THEN d.flags \ {f} ELSE d.flags \cup {f}
           ls == d.flagsLeft \ {f}
<1>1. e = [d EXCEPT !.flags = fs, !.flagsLeft = ls]
  BY DEF processar_set1
<1>2. fs \in SUBSET Flags /\ ls \in SUBSET Flags
  BY DEF Decoders
<1> HIDE DEF e, fs, ls
<1>3. /\ e \in Decoders /\ e.flags = fs /\ e.flagsLeft = ls
      /\ e.estendido = d.estendido /\ e.prefixLeft = d.prefixLeft
      /\ e.down = d.down /\ e.acted = d.acted /\ e.letters = d.letters
  BY <1>1, <1>2 DEF Decoders
<1> QED BY <1>3 DEF FlagSettled, e, fs, ls

LEMMA UsageFacts ==
  /\ ErrorRollOver \notin Keys /\ "E0" \notin Keys /\ "E0" \notin Flags
  /\ \A u \in Keys : u \in Usages /\ u \notin Flags /\ u # "E0"
BY UsagesAssumption DEF UsagesAssumption, Usages, Flags

\* The letters of the report carry the shift flag the decoder has now.
Marked(d) == \A e \in d.letters : e[2] = ("shift" \in d.flags)

\* A decoder d, and e after the codes of a usage: a key goes down or up, and acts
\* at most when it goes down.
UsageTaken(d, e, u, release) ==
  /\ e \in Decoders
  /\ e.flags = d.flags /\ e.flagsLeft = d.flagsLeft
  /\ e.estendido = e.prefixLeft
  /\ e.down = IF release THEN d.down \ {u} ELSE d.down \cup ({u} \cap Keys)
  /\ \A k \in Usages : \/ e.acted[k] = d.acted[k]
                       \/ ~release /\ k = u /\ e.acted[k] = d.acted[k] + 1
  /\ Marked(d) => Marked(e)

LEMMA KeyCode ==
  ASSUME NEW d \in Decoders, NEW u \in Keys, NEW release \in BOOLEAN
  PROVE  UsageTaken(d, processar_set1(d, u, release), u, release)
<1> DEFINE e == processar_set1(d, u, release)
           acts == ~release /\ d.estendido = (u \in Arrows)
           dn == IF release THEN d.down \ {u} ELSE d.down \cup {u}
           ac == [d.acted EXCEPT ![u] = IF acts THEN @ + 1 ELSE @]
           sh == "shift" \in d.flags
           le == IF acts THEN d.letters \cup {<<u, sh>>} ELSE d.letters
<1>1. u \in Usages /\ u \notin Flags /\ u # "E0"
  BY UsageFacts
<1>2. e = [d EXCEPT !.estendido = FALSE, !.prefixLeft = FALSE, !.down = dn,
                    !.acted = ac, !.letters = le]
  BY <1>1 DEF processar_set1, Decoders
<1>3. dn \in SUBSET Keys
  BY DEF Decoders
<1>4. ac \in [Usages -> Nat]
  BY <1>1 DEF Decoders
<1>5. /\ \A k \in Usages : \/ ac[k] = d.acted[k]
                           \/ ~release /\ k = u /\ ac[k] = d.acted[k] + 1
  BY <1>1 DEF Decoders
<1>6. le \in SUBSET (Keys \X BOOLEAN)
  <2>1. d.letters \in SUBSET (Keys \X BOOLEAN) BY DEF Decoders
  <2>2. sh \in BOOLEAN OBVIOUS
  <2> HIDE DEF sh
  <2>3. <<u, sh>> \in Keys \X BOOLEAN BY <2>2
  <2> QED BY <2>1, <2>3
<1>7. Marked(d) => \A x \in le : x[2] = sh
  <2> SUFFICES ASSUME Marked(d), NEW x \in le PROVE x[2] = sh
    OBVIOUS
  <2>1. CASE x \in d.letters BY <2>1 DEF Marked
  <2>2. CASE x = <<u, sh>> BY <2>2
  <2> QED BY <2>1, <2>2
<1> HIDE DEF e, dn, ac, le
<1>8. /\ e \in Decoders /\ e.flags = d.flags /\ e.flagsLeft = d.flagsLeft
      /\ e.estendido = FALSE /\ e.prefixLeft = FALSE
      /\ e.down = dn /\ e.acted = ac /\ e.letters = le
  BY <1>2, <1>3, <1>4, <1>6 DEF Decoders
<1>9. Marked(d) => Marked(e)
  BY <1>7, <1>8 DEF Marked
<1>10. {u} \cap Keys = {u} OBVIOUS
<1>11. UsageTaken(d, e, u, release)
  BY <1>5, <1>8, <1>9, <1>10 DEF UsageTaken, dn
<1> QED BY <1>11 DEF e

\* kbd_usb_emit_set1 of a report's slot.
LEMMA Emitted ==
  ASSUME NEW d \in Decoders, d.estendido = d.prefixLeft,
         NEW u \in Usages \cup {ErrorRollOver}, NEW release \in BOOLEAN
  PROVE  UsageTaken(d, emit_set1(d, u, release), u, release)
<1>1. CASE u \notin Keys
  <2>1. emit_set1(d, u, release) = d BY <1>1 DEF emit_set1
  <2>2. d.down \ {u} = d.down /\ {u} \cap Keys = {} BY <1>1 DEF Decoders
  <2>3. UsageTaken(d, d, u, release) BY <2>2 DEF UsageTaken
  <2> QED BY <2>1, <2>3
<1>2. CASE u \in Keys
  <2> DEFINE p == IF u \in Arrows THEN processar_set1(d, "E0", FALSE) ELSE d
             e == processar_set1(p, u, release)
  <2>1. /\ p \in Decoders /\ p.flags = d.flags /\ p.flagsLeft = d.flagsLeft
        /\ p.down = d.down /\ p.acted = d.acted /\ p.letters = d.letters
    <3>1. CASE u \notin Arrows BY <3>1
    <3>2. CASE u \in Arrows
      <4>1. p = [d EXCEPT !.estendido = TRUE]
        BY <3>2, UsageFacts DEF processar_set1
      <4> HIDE DEF p
      <4> QED BY <4>1 DEF Decoders
    <3> QED BY <3>1, <3>2
  <2>2. emit_set1(d, u, release) = e BY <1>2 DEF emit_set1
  <2> HIDE DEF p
  <2>3. UsageTaken(p, e, u, release)
    BY <1>2, <2>1, KeyCode
  <2> HIDE DEF e
  <2>4. Marked(d) => Marked(p) BY <2>1 DEF Marked
  <2>5. UsageTaken(d, e, u, release)
    BY <2>1, <2>3, <2>4 DEF UsageTaken
  <2> QED BY <2>2, <2>5
<1> QED BY <1>1, <1>2
-----------------------------------------------------------------------------
(* The six modifiers.                                                       *)

Changed(m) == (m \in last_modifiers) # (m \in mods)

\* A decoder d, and e after one of the modifiers.
Updated(d, e, m) ==
  /\ e \in Decoders
  /\ \A f \in Flags :
       /\ f \in e.flags <=> IF Changed(m) /\ f = FlagOf[m]
                            THEN m \in mods ELSE f \in d.flags
       /\ f \in e.flagsLeft <=> f \in d.flagsLeft /\ ~(Changed(m) /\ f = FlagOf[m])
  /\ e.estendido = d.estendido /\ e.prefixLeft = d.prefixLeft
  /\ e.down = d.down /\ e.acted = d.acted /\ e.letters = d.letters

LEMMA OneModifier ==
  ASSUME NEW d \in Decoders, NEW m \in DOMAIN FlagOf
  PROVE  Updated(d, update_modifier(d, m), m)
<1>1. CASE ~Changed(m)
  <2>1. update_modifier(d, m) = d BY <1>1 DEF Changed, update_modifier
  <2>2. Updated(d, d, m) BY <1>1 DEF Updated
  <2> QED BY <2>1, <2>2
<1>2. CASE Changed(m)
  <2> DEFINE g == FlagOf[m]
             r == m \notin mods
             e == processar_set1(d, g, r)
  <2>1. g \in Flags BY DEF FlagOf, Flags
  <2>2. r \in BOOLEAN OBVIOUS
  <2>3. update_modifier(d, m) = e BY <1>2 DEF Changed, update_modifier
  <2>4. m \in mods <=> ~r OBVIOUS
  <2>5. \A f \in Flags : Changed(m) /\ f = FlagOf[m] <=> f = g
    BY <1>2
  <2> HIDE DEF g, r
  <2>6. FlagSettled(d, e, g, r)
    BY <2>1, <2>2, FlagCode
  <2> HIDE DEF e
  <2>7. \A f \in Flags : /\ f \in e.flags <=> IF f = g THEN m \in mods ELSE f \in d.flags
                         /\ f \in e.flagsLeft <=> f \in d.flagsLeft /\ f # g
    BY <2>4, <2>6 DEF FlagSettled
  <2>8. Updated(d, e, m)
    BY <1>2, <2>5, <2>6, <2>7 DEF Updated, FlagSettled
  <2> QED BY <2>3, <2>8
<1> QED BY <1>1, <1>2

\* The flags after the six: the right key of a pair has the last word.
LEMMA Modifiers ==
  ASSUME NEW d \in Decoders, NEW e, e = UpdateModifiers(d)
  PROVE  /\ e \in Decoders
         /\ \A m \in DOMAIN FlagOf : Changed(m) => FlagOf[m] \notin e.flagsLeft
         /\ \A f \in Flags :
              \/ /\ \A m \in DOMAIN FlagOf : FlagOf[m] = f => ~Changed(m)
                 /\ f \in e.flags <=> f \in d.flags
                 /\ f \in e.flagsLeft <=> f \in d.flagsLeft
              \/ \E m \in DOMAIN FlagOf :
                   /\ FlagOf[m] = f /\ Changed(m)
                   /\ f \in e.flags <=> m \in mods
         /\ e.estendido = d.estendido /\ e.prefixLeft = d.prefixLeft
         /\ e.down = d.down /\ e.acted = d.acted /\ e.letters = d.letters
<1> DEFINE d1 == update_modifier(d, "LCtrl")
           d2 == update_modifier(d1, "LShift")
           d3 == update_modifier(d2, "LAlt")
           d4 == update_modifier(d3, "RCtrl")
           d5 == update_modifier(d4, "RShift")
           d6 == update_modifier(d5, "RAlt")
<1>1. e = d6 BY DEF UpdateModifiers
<1>2. DOMAIN FlagOf = {"LCtrl", "LShift", "LAlt", "RCtrl", "RShift", "RAlt"}
  BY DEF FlagOf
<1>4. Updated(d, d1, "LCtrl") /\ Updated(d1, d2, "LShift") /\ Updated(d2, d3, "LAlt")
  <2>1. Updated(d, d1, "LCtrl") BY <1>2, OneModifier
  <2>2. d1 \in Decoders BY <2>1 DEF Updated
  <2> HIDE DEF d1
  <2>3. Updated(d1, d2, "LShift") BY <1>2, OneModifier, <2>2
  <2>4. d2 \in Decoders BY <2>3 DEF Updated
  <2> HIDE DEF d2
  <2>5. Updated(d2, d3, "LAlt") BY <1>2, OneModifier, <2>4
  <2> QED BY <2>1, <2>3, <2>5
<1>5. d3 \in Decoders BY <1>4 DEF Updated
<1> HIDE DEF d1, d2, d3
<1>6. Updated(d3, d4, "RCtrl") /\ Updated(d4, d5, "RShift") /\ Updated(d5, d6, "RAlt")
  <2>1. Updated(d3, d4, "RCtrl") BY <1>2, OneModifier, <1>5
  <2>2. d4 \in Decoders BY <2>1 DEF Updated
  <2> HIDE DEF d4
  <2>3. Updated(d4, d5, "RShift") BY <1>2, OneModifier, <2>2
  <2>4. d5 \in Decoders BY <2>3 DEF Updated
  <2> HIDE DEF d5
  <2>5. Updated(d5, d6, "RAlt") BY <1>2, OneModifier, <2>4
  <2> QED BY <2>1, <2>3, <2>5
<1> HIDE DEF d4, d5, d6
<1>7. /\ e \in Decoders
      /\ e.estendido = d.estendido /\ e.prefixLeft = d.prefixLeft
      /\ e.down = d.down /\ e.acted = d.acted /\ e.letters = d.letters
  BY <1>1, <1>4, <1>6 DEF Updated
<1> DEFINE Pair(f, left, right) ==
             /\ f \in e.flags <=> IF Changed(right) THEN right \in mods
                                  ELSE IF Changed(left) THEN left \in mods ELSE f \in d.flags
             /\ f \in e.flagsLeft <=> f \in d.flagsLeft /\ ~Changed(left) /\ ~Changed(right)
<1>8. /\ FlagOf["LCtrl"] = "ctrl" /\ FlagOf["RCtrl"] = "ctrl"
      /\ FlagOf["LShift"] = "shift" /\ FlagOf["RShift"] = "shift"
      /\ FlagOf["LAlt"] = "alt" /\ FlagOf["RAlt"] = "alt"
  BY DEF FlagOf
<1>9. Pair("ctrl", "LCtrl", "RCtrl")
  BY <1>1, <1>4, <1>6, <1>8 DEF Updated, Flags
<1>10. Pair("shift", "LShift", "RShift")
  BY <1>1, <1>4, <1>6, <1>8 DEF Updated, Flags
<1>11. Pair("alt", "LAlt", "RAlt")
  BY <1>1, <1>4, <1>6, <1>8 DEF Updated, Flags
<1>12. \A m \in DOMAIN FlagOf : Changed(m) => FlagOf[m] \notin e.flagsLeft
  BY <1>2, <1>8, <1>9, <1>10, <1>11
<1>13. ASSUME NEW f \in Flags
       PROVE \/ /\ \A m \in DOMAIN FlagOf : FlagOf[m] = f => ~Changed(m)
                /\ f \in e.flags <=> f \in d.flags
                /\ f \in e.flagsLeft <=> f \in d.flagsLeft
             \/ \E m \in DOMAIN FlagOf :
                  /\ FlagOf[m] = f /\ Changed(m)
                  /\ f \in e.flags <=> m \in mods
  <2>1. CASE f = "ctrl" BY <1>2, <1>8, <1>9, <2>1
  <2>2. CASE f = "shift" BY <1>2, <1>8, <1>10, <2>2
  <2>3. CASE f = "alt" BY <1>2, <1>8, <1>11, <2>3
  <2> QED BY <2>1, <2>2, <2>3 DEF Flags
<1> QED BY <1>7, <1>12, <1>13
-----------------------------------------------------------------------------
(* The loops over the slots: what holds before the first slot and after one  *)
(* more holds after all, as there is no least slot after which it does not.  *)

\* A set of naturals has a least element: the intervals 0..x are ordered by strict
\* inclusion as their bounds are by <.
LEMMA LeastElement ==
  ASSUME NEW S \in SUBSET Nat, S # {}
  PROVE  \E x \in S : \A y \in S : x <= y
<1> DEFINE T == {0..x : x \in S}
<1>1. T \subseteq FiniteSubsetsOf(Nat)
  <2> SUFFICES ASSUME NEW x \in S PROVE 0..x \in FiniteSubsetsOf(Nat)
    OBVIOUS
  <2>1. IsFiniteSet(0..x)
    BY FS_Interval
  <2>2. 0..x \in SUBSET Nat
    OBVIOUS
  <2> QED
    BY <2>1, <2>2 DEF FiniteSubsetsOf
<1>2. PICK I \in T : \A J \in T : <<J, I>> \notin StrictSubsetOrdering(Nat)
  <2>1. T # {}
    OBVIOUS
  <2> HIDE DEF T
  <2> QED
    BY <1>1, <2>1, FS_StrictSubsetOrderingWellFounded, WFMin
<1>3. PICK x \in S : I = 0..x
  OBVIOUS
<1>4. ASSUME NEW y \in S PROVE x <= y
  <2> SUFFICES ASSUME y < x PROVE FALSE
    OBVIOUS
  <2>1. 0..y \in SUBSET Nat /\ 0..x \in SUBSET Nat /\ 0..y \subseteq 0..x
    OBVIOUS
  <2>2. x \in 0..x /\ x \notin 0..y
    OBVIOUS
  <2>3. <<0..y, 0..x>> \in StrictSubsetOrdering(Nat)
    BY <2>1, <2>2 DEF StrictSubsetOrdering
  <2> QED
    BY <1>2, <1>3, <2>3
<1> QED
  BY <1>4

AllUsages == Usages \cup {ErrorRollOver}

\* The decoder after n slots, if f says so.
ComparesUpTo(f, d, a, b, release, n) ==
  f = [k \in 0..n |-> IF k = 0 THEN d
                      ELSE IF a[k] \in ToSet(b) THEN f[k - 1]
                      ELSE emit_set1(f[k - 1], a[k], release)]

LEMMA ComparedExists ==
  ASSUME NEW d, NEW a, NEW b, NEW release, NEW m \in Nat
  PROVE  \E f : ComparesUpTo(f, d, a, b, release, m)
<1> DEFINE S == {n \in Nat : ~\E f : ComparesUpTo(f, d, a, b, release, n)}
           One(x, k) == IF a[k] \in ToSet(b) THEN x ELSE emit_set1(x, a[k], release)
<1> SUFFICES ASSUME S # {} PROVE FALSE
  OBVIOUS
<1>1. PICK n \in S : \A k \in S : n <= k
  BY LeastElement
<1>2. CASE n = 0
  <2> DEFINE g == [k \in 0..0 |-> d]
  <2>1. g = [k \in 0..0 |-> IF k = 0 THEN d ELSE IF a[k] \in ToSet(b) THEN g[k - 1]
                            ELSE emit_set1(g[k - 1], a[k], release)]
    OBVIOUS
  <2> HIDE DEF g
  <2> QED BY <1>2, <2>1 DEF ComparesUpTo
<1>3. CASE n # 0
  <2>1. n - 1 \in Nat /\ n - 1 \notin S /\ n \in Nat
    BY <1>1, <1>3
  <2>2. PICK f : ComparesUpTo(f, d, a, b, release, n - 1)
    BY <2>1
  <2>3. \A j \in 0..(n - 1) : f[j] = IF j = 0 THEN d ELSE One(f[j - 1], j)
    BY <2>2, <2>1 DEF ComparesUpTo
  <2> HIDE DEF One
  <2> DEFINE g == [k \in 0..n |-> IF k = n THEN One(f[n - 1], n) ELSE f[k]]
  <2>4. g = [k \in 0..n |-> IF k = 0 THEN d ELSE One(g[k - 1], k)]
    <3> SUFFICES ASSUME NEW k \in 0..n
                 PROVE  g[k] = IF k = 0 THEN d ELSE One(g[k - 1], k)
      OBVIOUS
    <3>1. k # 0 => k - 1 \in 0..(n - 1) /\ g[k - 1] = f[k - 1]
      BY <2>1
    <3>2. CASE k = n
      BY <3>1, <3>2, <1>3
    <3>3. CASE k # n
      <4>1. k \in 0..(n - 1) BY <3>3, <2>1
      <4>2. g[k] = f[k] BY <3>3
      <4> QED BY <2>3, <3>1, <4>1, <4>2
    <3> QED BY <3>2, <3>3
  <2> HIDE DEF g
  <2> QED BY <2>4 DEF ComparesUpTo, One
<1> QED BY <1>2, <1>3

\* Comparing, one slot at a time.
LEMMA ComparingIs ==
  ASSUME NEW d, NEW a, NEW b, NEW release, Len(a) \in Nat
  PROVE  /\ Comparing(d, a, b, release)[0] = d
         /\ \A n \in 1..Len(a) :
              Comparing(d, a, b, release)[n] =
                IF a[n] \in ToSet(b) THEN Comparing(d, a, b, release)[n - 1]
                ELSE emit_set1(Comparing(d, a, b, release)[n - 1], a[n], release)
<1> DEFINE P(f) == f = [n \in 0..Len(a) |-> IF n = 0 THEN d
                          ELSE IF a[n] \in ToSet(b) THEN f[n - 1]
                          ELSE emit_set1(f[n - 1], a[n], release)]
<1>0. PICK h : ComparesUpTo(h, d, a, b, release, Len(a))
  BY ComparedExists
<1>1. PICK g : P(g)
  <2>1. P(h) BY <1>0 DEF ComparesUpTo
  <2> QED BY <2>1
<1>2. P(CHOOSE f : P(f))
  <2> HIDE DEF P
  <2> QED BY <1>1, Zenon
<1>3. Comparing(d, a, b, release) = CHOOSE f : P(f)
  BY DEF Comparing
<1> HIDE DEF P
<1>4. P(Comparing(d, a, b, release))
  BY <1>2, <1>3
<1> USE DEF P
<1> DEFINE c == Comparing(d, a, b, release)
<1>5. c = [n \in 0..Len(a) |-> IF n = 0 THEN d ELSE IF a[n] \in ToSet(b) THEN c[n - 1]
                                ELSE emit_set1(c[n - 1], a[n], release)]
  BY <1>4
<1> HIDE DEF c, P
<1>6. c[0] = d
  BY <1>5
<1>7. \A n \in 1..Len(a) : c[n] = IF a[n] \in ToSet(b) THEN c[n - 1]
                                  ELSE emit_set1(c[n - 1], a[n], release)
  <2> SUFFICES ASSUME NEW n \in 1..Len(a)
               PROVE  c[n] = IF a[n] \in ToSet(b) THEN c[n - 1]
                             ELSE emit_set1(c[n - 1], a[n], release)
    OBVIOUS
  <2>1. n \in 0..Len(a) /\ n # 0 OBVIOUS
  <2> QED BY <1>5, <2>1
<1> QED BY <1>6, <1>7 DEF c

\* A decoder d, and e after the codes of the usages `us`, each sent once if `once`.
UsagesTaken(d, e, us, release, once) ==
  /\ e \in Decoders
  /\ e.flags = d.flags /\ e.flagsLeft = d.flagsLeft
  /\ e.estendido = e.prefixLeft
  /\ e.down = IF release THEN d.down \ us ELSE d.down \cup (us \cap Keys)
  /\ \A k \in Usages : \/ e.acted[k] = d.acted[k]
                       \/ ~release /\ k \in us /\ (once => e.acted[k] = d.acted[k] + 1)
  /\ Marked(d) => Marked(e)

Distinct(s) == \A i, j \in DOMAIN s : s[i] = s[j] => i = j

LEMMA ChangesTaken ==
  ASSUME NEW d \in Decoders, d.estendido = d.prefixLeft,
         NEW a \in Seq(AllUsages), NEW b, NEW release \in BOOLEAN
  PROVE  UsagesTaken(d, EmitChanges(d, a, b, release), ToSet(a) \ ToSet(b), release,
                     Distinct(a))
<1> DEFINE c == Comparing(d, a, b, release)
           us(n) == {a[i] : i \in 1..n} \ ToSet(b)
<1>1. Len(a) \in Nat /\ DOMAIN a = 1..Len(a) /\ \A i \in 1..Len(a) : a[i] \in AllUsages
  OBVIOUS
<1>2. /\ c[0] = d
      /\ \A n \in 1..Len(a) : c[n] = IF a[n] \in ToSet(b) THEN c[n - 1]
                                     ELSE emit_set1(c[n - 1], a[n], release)
  BY <1>1, ComparingIs
<1>3. EmitChanges(d, a, b, release) = c[Len(a)]
  BY DEF EmitChanges
<1> HIDE DEF c
<1>4. us(0) = {}
  OBVIOUS
<1>5. us(Len(a)) = ToSet(a) \ ToSet(b)
  BY <1>1 DEF ToSet
<1>6. UsagesTaken(d, c[0], us(0), release, Distinct(a))
  <2>1. UsagesTaken(d, d, {}, release, Distinct(a)) BY DEF UsagesTaken
  <2> QED BY <1>2, <1>4, <2>1
<1>7. ASSUME NEW n \in 1..Len(a),
             UsagesTaken(d, c[n - 1], us(n - 1), release, Distinct(a))
      PROVE  UsagesTaken(d, c[n], us(n), release, Distinct(a))
  <2> DEFINE u == a[n]
             x == c[n - 1]
             before == us(n - 1)
             once == Distinct(a)
  <2>1. u \in AllUsages BY <1>1
  <2>2. us(n) = before \cup ({u} \ ToSet(b))
    <3>1. 1..n = (1..(n - 1)) \cup {n} BY <1>1
    <3> QED BY <3>1
  <2>3. u \notin ToSet(b) /\ once => u \notin before
    <3> SUFFICES ASSUME once, u \in before PROVE FALSE
      OBVIOUS
    <3>1. PICK i \in 1..(n - 1) : a[i] = u OBVIOUS
    <3>2. i \in DOMAIN a /\ n \in DOMAIN a /\ i # n BY <1>1
    <3> QED BY <3>1, <3>2 DEF Distinct
  <2>4. UsagesTaken(d, x, before, release, once) BY <1>7
  <2>5. c[n] = IF u \in ToSet(b) THEN x ELSE emit_set1(x, u, release) BY <1>2
  <2> HIDE DEF us, u, x, before, once
  <2>6. CASE u \in ToSet(b)
    <3>1. us(n) = before BY <2>2, <2>6
    <3> QED BY <2>4, <2>5, <2>6, <3>1 DEF once
  <2>7. CASE u \notin ToSet(b)
    <3> DEFINE y == emit_set1(x, u, release)
    <3>1. x \in Decoders /\ x.estendido = x.prefixLeft BY <2>4 DEF UsagesTaken
    <3>2. UsageTaken(x, y, u, release)
      BY <2>1, <3>1, Emitted DEF AllUsages
    <3> HIDE DEF y
    <3>3. y.down = IF release THEN d.down \ (before \cup {u})
                   ELSE d.down \cup ((before \cup {u}) \cap Keys)
      <4>1. /\ y.down = IF release THEN x.down \ {u} ELSE x.down \cup ({u} \cap Keys)
            /\ x.down = IF release THEN d.down \ before ELSE d.down \cup (before \cap Keys)
        BY <2>4, <3>2 DEF UsageTaken, UsagesTaken
      <4>2. CASE release BY <4>1, <4>2
      <4>3. CASE ~release BY <4>1, <4>3
      <4> QED BY <4>2, <4>3
    <3>4. ASSUME NEW k \in Usages
          PROVE  \/ y.acted[k] = d.acted[k]
                 \/ ~release /\ k \in before \cup {u} /\ (once => y.acted[k] = d.acted[k] + 1)
      <4>1. \/ y.acted[k] = x.acted[k]
            \/ ~release /\ k = u /\ y.acted[k] = x.acted[k] + 1
        BY <3>2 DEF UsageTaken
      <4>2. \/ x.acted[k] = d.acted[k]
            \/ ~release /\ k \in before /\ (once => x.acted[k] = d.acted[k] + 1)
        BY <2>4 DEF UsagesTaken
      <4>3. k = u /\ once => k \notin before BY <2>3, <2>7
      <4> QED BY <4>1, <4>2, <4>3
    <3>5. UsagesTaken(d, y, before \cup {u}, release, once)
      BY <2>4, <3>2, <3>3, <3>4 DEF UsageTaken, UsagesTaken
    <3>6. us(n) = before \cup {u} BY <2>2, <2>7
    <3> QED BY <2>5, <2>7, <3>5, <3>6 DEF y, once
  <2> QED BY <2>6, <2>7
<1> DEFINE Holds(n) == UsagesTaken(d, c[n], us(n), release, Distinct(a))
           S == {n \in 0..Len(a) : ~Holds(n)}
<1>8. S = {}
  <2> SUFFICES ASSUME S # {} PROVE FALSE OBVIOUS
  <2>1. Holds(0) /\ \A n \in 1..Len(a) : Holds(n - 1) => Holds(n)
    BY <1>6, <1>7
  <2> HIDE DEF Holds
  <2>2. S \in SUBSET Nat BY <1>1
  <2>3. PICK n \in S : \A k \in S : n <= k
    <3> HIDE DEF S
    <3> QED BY <2>2, LeastElement
  <2>4. n \in 0..Len(a) /\ n # 0 /\ ~Holds(n) BY <2>1
  <2>5. n - 1 \in 0..Len(a) /\ n \in 1..Len(a) /\ ~(n <= n - 1) BY <1>1, <2>4
  <2>6. Holds(n - 1) BY <2>3, <2>5
  <2> QED BY <2>1, <2>4, <2>5, <2>6
<1>9. Holds(Len(a))
  <2> HIDE DEF Holds
  <2>1. Len(a) \in 0..Len(a) BY <1>1
  <2> QED BY <1>8, <2>1
<1> QED BY <1>3, <1>5, <1>9
-----------------------------------------------------------------------------
(* The steps.                                                               *)

LEMMA HidInitInv == HidInit => HidInv
<1> SUFFICES ASSUME HidInit PROVE HidInv
  OBVIOUS
<1>1. PICK flags \in SUBSET {FlagOf[m] : m \in UserMods}, prefix \in BOOLEAN :
        decoder = [flags |-> flags, estendido |-> prefix, down |-> {},
                   acted |-> [k \in Usages |-> 0], letters |-> {},
                   flagsLeft |-> flags, prefixLeft |-> prefix]
  BY DEF HidInit
<1>2. flags \in SUBSET Flags
  <2>1. \A m \in DOMAIN FlagOf : FlagOf[m] \in Flags BY DEF FlagOf, Flags
  <2> QED BY <1>1, <2>1, ModsAssumption DEF ModsAssumption
<1>3. /\ decoder \in Decoders
      /\ decoder.flags = flags /\ decoder.flagsLeft = flags
      /\ decoder.estendido = prefix /\ decoder.prefixLeft = prefix
      /\ decoder.down = {} /\ decoder.letters = {}
      /\ \A k \in Usages : decoder.acted[k] = 0
  BY <1>1, <1>2 DEF Decoders
<1>4. /\ held = << >> /\ mods = {} /\ last_report = << >> /\ last_modifiers = {}
      /\ pressed = [k \in Usages |-> 0] /\ rolled = FALSE /\ paired = FALSE
  BY DEF HidInit
<1>5. ToSet(held) = {} /\ ToSet(last_report) = {}
  BY <1>4 DEF ToSet
<1>6. HidTypeOK
  <2>1. held \in Seq(Usages) /\ last_report \in Seq(AllUsages)
    BY <1>4
  <2>2. pressed \in [Usages -> Nat]
    BY <1>4
  <2> QED BY <1>3, <1>4, <2>1, <2>2 DEF HidTypeOK, AllUsages
<1>7. FlagsFollowReport /\ FlagsHaveReasons
  <2>1. {FlagOf[m] : m \in last_modifiers} = {} BY <1>4
  <2> QED BY <1>3, <2>1 DEF FlagsFollowReport, FlagsHaveReasons
<1>8. NoStuckKey
  BY <1>3, <1>5 DEF NoStuckKey
<1>9. NoPhantomPress
  BY <1>3, <1>4 DEF NoPhantomPress, Usages
<1>10. PressesLeft
  BY <1>5 DEF PressesLeft
<1>11. \A i, j \in DOMAIN held : held[i] = held[j] => i = j
  BY <1>4
<1> QED
  BY <1>3, <1>6, <1>7, <1>8, <1>9, <1>10, <1>11 DEF HidInv, CodesFollowReport

LEMMA PressesInv ==
  ASSUME HidInv, NEW k \in Usages, Presses(k)
  PROVE  HidInv'
<1>1. /\ HidTypeOK /\ FlagsFollowReport /\ NoStuckKey /\ NoPhantomPress
      /\ FlagsHaveReasons /\ PressesLeft
      /\ \A e \in decoder.letters : e[2] = ("shift" \in decoder.flags)
      /\ \A i, j \in DOMAIN held : held[i] = held[j] => i = j
  BY DEF HidInv, CodesFollowReport
<1>2. /\ k \notin ToSet(held) /\ held' = Append(held, k)
      /\ pressed' = [pressed EXCEPT ![k] = @ + 1]
      /\ mods' = mods /\ last_report' = last_report /\ last_modifiers' = last_modifiers
      /\ decoder' = decoder /\ rolled' = rolled /\ paired' = paired
  BY DEF Presses
<1>3. held \in Seq(Usages) /\ pressed \in [Usages -> Nat] /\ decoder \in Decoders
  BY <1>1 DEF HidTypeOK
<1>4. /\ held' \in Seq(Usages) /\ DOMAIN held' = 1..(Len(held) + 1)
      /\ \A i \in 1..(Len(held) + 1) : held'[i] = IF i \in 1..Len(held) THEN held[i] ELSE k
      /\ DOMAIN held = 1..Len(held) /\ Len(held) \in Nat
  BY <1>2, <1>3
<1>5. pressed' \in [Usages -> Nat] /\ pressed'[k] = pressed[k] + 1
      /\ \A u \in Usages : u # k => pressed'[u] = pressed[u]
  BY <1>2, <1>3
<1>6. HidTypeOK'
  BY <1>1, <1>2, <1>4, <1>5 DEF HidTypeOK
<1>7. FlagsFollowReport' /\ NoStuckKey' /\ FlagsHaveReasons'
  BY <1>1, <1>2 DEF FlagsFollowReport, NoStuckKey, FlagsHaveReasons
<1>8. decoder.acted \in [Usages -> Nat] /\ \A u \in Keys : u \in Usages
  BY <1>3 DEF Decoders, Usages
<1>9. NoPhantomPress'
  BY <1>1, <1>2, <1>3, <1>5, <1>8 DEF NoPhantomPress
<1>10. PressesLeft'
  <2> SUFFICES ASSUME ~rolled, NEW u \in ToSet(held') \cap Keys, u \notin ToSet(last_report)
               PROVE  decoder.acted[u] < pressed'[u]
    BY <1>2 DEF PressesLeft
  <2>1. CASE u = k
    BY <1>1, <1>3, <1>5, <1>8, <2>1 DEF NoPhantomPress
  <2>2. CASE u # k
    <3>1. u \in ToSet(held)
      BY <1>4, <2>2 DEF ToSet
    <3> QED BY <1>1, <1>5, <1>8, <2>2, <3>1 DEF PressesLeft
  <2> QED BY <2>1, <2>2
<1>11. \A i, j \in DOMAIN held' : held'[i] = held'[j] => i = j
  <2>1. \A i \in 1..Len(held) : held[i] # k
    BY <1>2, <1>4 DEF ToSet
  <2>2. \A i \in 1..(Len(held) + 1) : i \notin 1..Len(held) => i = Len(held) + 1
    BY <1>4
  <2> QED BY <1>1, <1>4, <2>1, <2>2
<1> QED
  BY <1>1, <1>2, <1>6, <1>7, <1>9, <1>10, <1>11 DEF HidInv, CodesFollowReport

LEMMA ReleasesInv ==
  ASSUME HidInv, NEW i \in DOMAIN held, Releases(i)
  PROVE  HidInv'
<1>1. /\ HidTypeOK /\ FlagsFollowReport /\ NoStuckKey /\ NoPhantomPress
      /\ FlagsHaveReasons /\ PressesLeft
      /\ \A e \in decoder.letters : e[2] = ("shift" \in decoder.flags)
      /\ \A m, n \in DOMAIN held : held[m] = held[n] => m = n
  BY DEF HidInv, CodesFollowReport
<1>2. /\ held' = RemoveAt(held, i) /\ pressed' = pressed
      /\ mods' = mods /\ last_report' = last_report /\ last_modifiers' = last_modifiers
      /\ decoder' = decoder /\ rolled' = rolled /\ paired' = paired
  BY DEF Releases
<1>3. held \in Seq(Usages) /\ DOMAIN held = 1..Len(held) /\ Len(held) \in Nat
  BY <1>1 DEF HidTypeOK
<1>4. i \in 1..Len(held) BY <1>3
<1>5. /\ held' \in Seq(Usages) /\ Len(held') = Len(held) - 1
      /\ \A n \in 1..(Len(held) - 1) : held'[n] = IF n < i THEN held[n] ELSE held[n + 1]
  <2> DEFINE a == SubSeq(held, 1, i - 1)
             b == SubSeq(held, i + 1, Len(held))
  <2>1. /\ a \in Seq(Usages) /\ Len(a) = i - 1
        /\ \A n \in 1..(i - 1) : a[n] = held[n]
    BY <1>3, <1>4, SubSeqProperties
  <2>2. /\ b \in Seq(Usages) /\ Len(b) = Len(held) - i
        /\ \A n \in 1..(Len(held) - i) : b[n] = held[i + n]
    BY <1>3, <1>4
  <2>3. held' = a \o b BY <1>2 DEF RemoveAt
  <2> HIDE DEF a, b
  <2>4. held' \in Seq(Usages) /\ Len(held') = Len(a) + Len(b)
    <3>1. a \o b \in Seq(Usages) /\ Len(a \o b) = Len(a) + Len(b)
      BY <2>1, <2>2, ConcatProperties
    <3> QED BY <2>3, <3>1
  <2>5. \A n \in 1..(Len(a) + Len(b)) :
          (a \o b)[n] = IF n <= Len(a) THEN a[n] ELSE b[n - Len(a)]
    BY <2>1, <2>2
  <2>6. ASSUME NEW n \in 1..(Len(held) - 1)
        PROVE  held'[n] = IF n < i THEN held[n] ELSE held[n + 1]
    <3>1. n \in 1..(Len(a) + Len(b)) BY <1>3, <1>4, <2>1, <2>2
    <3>2. CASE n < i
      <4>1. n <= Len(a) /\ n \in 1..(i - 1) BY <1>4, <2>1, <3>2
      <4> QED BY <2>1, <2>3, <2>5, <3>1, <3>2, <4>1
    <3>3. CASE ~(n < i)
      <4>1. ~(n <= Len(a)) BY <1>4, <2>1, <3>3
      <4>2. n - (i - 1) \in 1..(Len(held) - i) /\ i + (n - (i - 1)) = n + 1
        BY <1>3, <1>4, <3>3
      <4>3. b[n - (i - 1)] = held[n + 1] BY <2>2, <4>2
      <4> QED BY <2>1, <2>3, <2>5, <3>1, <3>3, <4>1, <4>3
    <3> QED BY <3>2, <3>3
  <2> QED BY <1>3, <1>4, <2>1, <2>2, <2>4, <2>6
<1>6. DOMAIN held' = 1..(Len(held) - 1) BY <1>5
<1>7. ToSet(held') \subseteq ToSet(held)
  <2> SUFFICES ASSUME NEW n \in 1..(Len(held) - 1) PROVE held'[n] \in ToSet(held)
    BY <1>6 DEF ToSet
  <2>1. n \in DOMAIN held /\ n + 1 \in DOMAIN held BY <1>3
  <2> QED BY <1>5, <2>1 DEF ToSet
<1>8. \A m, n \in DOMAIN held' : held'[m] = held'[n] => m = n
  <2> SUFFICES ASSUME NEW m \in 1..(Len(held) - 1), NEW n \in 1..(Len(held) - 1),
                      held'[m] = held'[n]
               PROVE  m = n
    BY <1>6
  <2> DEFINE p(x) == IF x < i THEN x ELSE x + 1
  <2>1. p(m) \in DOMAIN held /\ p(n) \in DOMAIN held BY <1>3
  <2>2. held'[m] = held[p(m)] /\ held'[n] = held[p(n)] BY <1>5
  <2>3. p(m) = p(n) BY <1>1, <2>1, <2>2
  <2> QED BY <1>4, <2>3
<1>9. HidTypeOK' BY <1>1, <1>2, <1>5 DEF HidTypeOK
<1>10. FlagsFollowReport' /\ NoStuckKey' /\ NoPhantomPress' /\ FlagsHaveReasons'
  BY <1>1, <1>2 DEF FlagsFollowReport, NoStuckKey, NoPhantomPress, FlagsHaveReasons
<1>11. PressesLeft' BY <1>1, <1>2, <1>7 DEF PressesLeft
<1> QED BY <1>1, <1>2, <1>8, <1>9, <1>10, <1>11 DEF HidInv, CodesFollowReport

LEMMA TogglesModifierInv ==
  ASSUME HidInv, NEW m \in UserMods, TogglesModifier(m)
  PROVE  HidInv'
<1>1. mods' \subseteq DOMAIN FlagOf
  BY ModsAssumption DEF HidInv, HidTypeOK, TogglesModifier, ModsAssumption
<1>2. /\ held' = held /\ last_report' = last_report /\ last_modifiers' = last_modifiers
      /\ decoder' = decoder /\ pressed' = pressed /\ rolled' = rolled /\ paired' = paired
  BY DEF TogglesModifier
<1>3. HidTypeOK'
  BY <1>1, <1>2 DEF HidInv, HidTypeOK
<1>4. CodesFollowReport' /\ FlagsHaveReasons' /\ PressesLeft'
  BY <1>2 DEF HidInv, CodesFollowReport, FlagsFollowReport, NoStuckKey, NoPhantomPress,
              FlagsHaveReasons, PressesLeft
<1> QED
  BY <1>2, <1>3, <1>4 DEF HidInv

\* The flags agree again after the modifiers of a report.
LEMMA FlagsAfterReport ==
  ASSUME HidTypeOK, FlagsFollowReport, FlagsHaveReasons,
         NEW e \in Decoders,
         \A m \in DOMAIN FlagOf : Changed(m) => FlagOf[m] \notin e.flagsLeft,
         \A f \in Flags :
              \/ /\ \A m \in DOMAIN FlagOf : FlagOf[m] = f => ~Changed(m)
                 /\ f \in e.flags <=> f \in decoder.flags
                 /\ f \in e.flagsLeft <=> f \in decoder.flagsLeft
              \/ \E m \in DOMAIN FlagOf :
                   /\ FlagOf[m] = f /\ Changed(m)
                   /\ f \in e.flags <=> m \in mods
  PROVE  /\ e.flagsLeft \subseteq e.flags
         /\ e.flags \subseteq {FlagOf[m] : m \in mods} \cup e.flagsLeft
         /\ \/ mods # {} /\ (paired \/ BothOf(mods \cup last_modifiers))
            \/ e.flags = {FlagOf[m] : m \in mods} \cup e.flagsLeft
<1>1. /\ mods \subseteq DOMAIN FlagOf /\ last_modifiers \subseteq DOMAIN FlagOf
      /\ e.flags \subseteq Flags /\ e.flagsLeft \subseteq Flags
      /\ decoder.flags \subseteq Flags /\ decoder.flagsLeft \subseteq Flags
      /\ \A m \in DOMAIN FlagOf : FlagOf[m] \in Flags
  BY DEF HidTypeOK, Decoders, FlagOf, Flags
<1>2. ASSUME NEW f \in e.flagsLeft PROVE f \in e.flags
  BY <1>1, <1>2 DEF FlagsHaveReasons
<1>3. ASSUME NEW f \in e.flags, f \notin e.flagsLeft
      PROVE  \E m \in mods : FlagOf[m] = f
  <2>1. CASE /\ \A m \in DOMAIN FlagOf : FlagOf[m] = f => ~Changed(m)
             /\ f \in e.flags <=> f \in decoder.flags
             /\ f \in e.flagsLeft <=> f \in decoder.flagsLeft
    <3>1. f \in decoder.flags /\ f \notin decoder.flagsLeft
      BY <1>3, <2>1
    <3>2. PICK m \in last_modifiers : FlagOf[m] = f
      BY <3>1 DEF FlagsHaveReasons
    <3>3. m \in mods BY <1>1, <2>1, <3>2 DEF Changed
    <3> QED BY <3>2, <3>3
  <2>2. CASE \E m \in DOMAIN FlagOf : /\ FlagOf[m] = f /\ Changed(m)
                                      /\ f \in e.flags <=> m \in mods
    BY <1>3, <2>2
  <2> QED BY <1>1, <2>1, <2>2
<1>4. ASSUME ~(mods # {} /\ (paired \/ BothOf(mods \cup last_modifiers))),
             NEW m \in mods
      PROVE  FlagOf[m] \in e.flags
  <2>1. ~paired /\ ~BothOf(mods \cup last_modifiers)
    BY <1>4
  <2>2. m \in DOMAIN FlagOf /\ FlagOf[m] \in Flags BY <1>1
  <2> DEFINE f == FlagOf[m]
  <2>3. CASE /\ \A n \in DOMAIN FlagOf : FlagOf[n] = f => ~Changed(n)
             /\ f \in e.flags <=> f \in decoder.flags
             /\ f \in e.flagsLeft <=> f \in decoder.flagsLeft
    <3>1. m \in last_modifiers BY <2>2, <2>3 DEF Changed
    <3>2. f \in decoder.flags BY <2>1, <3>1 DEF FlagsFollowReport
    <3> QED BY <2>3, <3>2
  <2>4. CASE \E n \in DOMAIN FlagOf : /\ FlagOf[n] = f /\ Changed(n)
                                      /\ f \in e.flags <=> n \in mods
    <3>1. PICK n \in DOMAIN FlagOf : /\ FlagOf[n] = f /\ Changed(n)
                                     /\ f \in e.flags <=> n \in mods
      BY <2>4
    <3>2. n \in mods \cup last_modifiers BY <3>1 DEF Changed
    <3>3. n = m
      <4> SUFFICES ASSUME n # m PROVE FALSE OBVIOUS
      <4>1. {x \in DOMAIN FlagOf : FlagOf[x] = f} \subseteq {m, n}
        <5>1. DOMAIN FlagOf = {"LCtrl", "LShift", "LAlt", "RCtrl", "RShift", "RAlt"}
              /\ FlagOf["LCtrl"] = "ctrl" /\ FlagOf["RCtrl"] = "ctrl"
              /\ FlagOf["LShift"] = "shift" /\ FlagOf["RShift"] = "shift"
              /\ FlagOf["LAlt"] = "alt" /\ FlagOf["RAlt"] = "alt"
          BY DEF FlagOf
        <5> QED BY <2>2, <3>1, <5>1
      <4>2. BothOf(mods \cup last_modifiers) BY <2>2, <3>2, <4>1 DEF BothOf
      <4> QED BY <2>1, <4>2
    <3> QED BY <3>1, <3>3
  <2> QED BY <2>2, <2>3, <2>4
<1>5. e.flags \subseteq {FlagOf[m] : m \in mods} \cup e.flagsLeft
  BY <1>3
<1>6. \/ mods # {} /\ (paired \/ BothOf(mods \cup last_modifiers))
      \/ e.flags = {FlagOf[m] : m \in mods} \cup e.flagsLeft
  BY <1>2, <1>4, <1>5
<1> QED BY <1>2, <1>5, <1>6

LEMMA FeedInv ==
  ASSUME HidInv, usb_kbd_feed_boot_report
  PROVE  HidInv'
<1> DEFINE d == [decoder EXCEPT !.letters = {}]
           u == UpdateModifiers(d)
           gone == ToSet(last_report) \ ToSet(Report)
           come == ToSet(Report) \ ToSet(last_report)
           r == EmitChanges(u, last_report, Report, TRUE)
           p == EmitChanges(r, Report, last_report, FALSE)
<1>1. /\ HidTypeOK /\ FlagsFollowReport /\ NoStuckKey /\ NoPhantomPress
      /\ FlagsHaveReasons /\ PressesLeft
      /\ \A i, j \in DOMAIN held : held[i] = held[j] => i = j
  BY DEF HidInv, CodesFollowReport
<1>2. /\ decoder' = p /\ last_modifiers' = mods /\ last_report' = Report
      /\ rolled' = (rolled \/ Len(held) > Slots)
      /\ paired' = (mods # {} /\ (paired \/ BothOf(mods \cup last_modifiers)))
      /\ held' = held /\ mods' = mods /\ pressed' = pressed
  BY DEF usb_kbd_feed_boot_report, Feed
<1>3. /\ d \in Decoders /\ d.flags = decoder.flags /\ d.flagsLeft = decoder.flagsLeft
      /\ d.estendido = decoder.estendido /\ d.prefixLeft = decoder.prefixLeft
      /\ d.down = decoder.down /\ d.acted = decoder.acted /\ d.letters = {}
  BY <1>1 DEF HidTypeOK, Decoders
<1>4. /\ held \in Seq(Usages) /\ Len(held) \in Nat
      /\ Report \in Seq(AllUsages) /\ last_report \in Seq(AllUsages)
  <2>1. held \in Seq(Usages) /\ Len(held) \in Nat /\ last_report \in Seq(AllUsages)
    BY <1>1 DEF HidTypeOK, AllUsages
  <2>2. held \in Seq(AllUsages) BY <2>1 DEF AllUsages
  <2>3. [s \in 1..Slots |-> ErrorRollOver] \in Seq(AllUsages)
    <3>1. Slots \in Nat /\ ErrorRollOver \in AllUsages
      BY SlotsAssumption DEF SlotsAssumption, AllUsages
    <3> HIDE DEF ErrorRollOver
    <3> QED BY <3>1
  <2> QED BY <2>1, <2>2, <2>3 DEF Report
<1> HIDE DEF d
<1>5. /\ u \in Decoders
      /\ u.estendido = d.estendido /\ u.prefixLeft = d.prefixLeft
      /\ u.down = d.down /\ u.acted = d.acted /\ u.letters = d.letters
  BY <1>3, Modifiers
<1>6. /\ u.flagsLeft \subseteq u.flags
      /\ u.flags \subseteq {FlagOf[m] : m \in mods} \cup u.flagsLeft
      /\ \/ paired'
         \/ u.flags = {FlagOf[m] : m \in mods} \cup u.flagsLeft
  <2> DEFINE Ms(e) ==
              /\ e \in Decoders
              /\ \A m \in DOMAIN FlagOf : Changed(m) => FlagOf[m] \notin e.flagsLeft
              /\ \A f \in Flags :
                   \/ /\ \A m \in DOMAIN FlagOf : FlagOf[m] = f => ~Changed(m)
                      /\ f \in e.flags <=> f \in decoder.flags
                      /\ f \in e.flagsLeft <=> f \in decoder.flagsLeft
                   \/ \E m \in DOMAIN FlagOf :
                        /\ FlagOf[m] = f /\ Changed(m)
                        /\ f \in e.flags <=> m \in mods
  <2>1. Ms(u) BY <1>3, Modifiers
  <2> HIDE DEF u
  <2>2. /\ u.flagsLeft \subseteq u.flags
        /\ u.flags \subseteq {FlagOf[m] : m \in mods} \cup u.flagsLeft
        /\ \/ mods # {} /\ (paired \/ BothOf(mods \cup last_modifiers))
           \/ u.flags = {FlagOf[m] : m \in mods} \cup u.flagsLeft
    BY <1>1, <2>1, FlagsAfterReport
  <2> QED BY <1>2, <2>2
<1>7. u.estendido = u.prefixLeft BY <1>1, <1>3, <1>5 DEF NoStuckKey
<1>8. Marked(u) BY <1>3, <1>5 DEF Marked
<1> HIDE DEF u
<1>9. UsagesTaken(u, r, gone, TRUE, Distinct(last_report))
  BY <1>4, <1>5, <1>7, ChangesTaken
<1>10. r \in Decoders /\ r.estendido = r.prefixLeft BY <1>9 DEF UsagesTaken
<1> HIDE DEF r
<1>11. UsagesTaken(r, p, come, FALSE, Distinct(Report))
  BY <1>4, <1>10, ChangesTaken
<1> HIDE DEF p
<1>12. /\ p \in Decoders /\ p.flags = u.flags /\ p.flagsLeft = u.flagsLeft
       /\ p.estendido = p.prefixLeft /\ Marked(p)
  BY <1>8, <1>9, <1>11 DEF UsagesTaken
<1>13. HidTypeOK'
  BY <1>1, <1>2, <1>4, <1>12 DEF HidTypeOK, AllUsages
<1>14. FlagsFollowReport' /\ FlagsHaveReasons'
  BY <1>2, <1>6, <1>12 DEF FlagsFollowReport, FlagsHaveReasons
<1>15. p.down = ToSet(Report) \cap Keys
  <2>1. u.down = ToSet(last_report) \cap Keys BY <1>1, <1>3, <1>5 DEF NoStuckKey
  <2>2. r.down = u.down \ gone BY <1>9 DEF UsagesTaken
  <2>3. p.down = r.down \cup (come \cap Keys) BY <1>11 DEF UsagesTaken
  <2> QED BY <2>1, <2>2, <2>3
<1>16. NoStuckKey'
  BY <1>2, <1>12, <1>15 DEF NoStuckKey
<1>17. ASSUME ~rolled' PROVE Report = held /\ Distinct(Report)
  <2>1. ~(Len(held) > Slots) BY <1>2, <1>17
  <2> QED BY <1>1, <2>1 DEF Report, Distinct
<1>18. ASSUME ~rolled', NEW k \in Keys
       PROVE  p.acted[k] <= pressed[k]
  <2>1. k \in Usages BY DEF Usages
  <2>2. r.acted[k] = decoder.acted[k]
    BY <1>3, <1>5, <1>9, <2>1 DEF UsagesTaken
  <2>3. \/ p.acted[k] = r.acted[k]
        \/ k \in come /\ p.acted[k] = r.acted[k] + 1
    BY <1>11, <1>17, <1>18, <2>1 DEF UsagesTaken
  <2>4. decoder.acted[k] \in Nat /\ pressed[k] \in Nat
    BY <1>1, <2>1 DEF HidTypeOK, Decoders
  <2>5. decoder.acted[k] <= pressed[k]
    BY <1>1, <1>2, <1>18 DEF NoPhantomPress
  <2>6. k \in come => decoder.acted[k] < pressed[k]
    BY <1>1, <1>2, <1>17, <1>18 DEF PressesLeft
  <2> QED BY <2>2, <2>3, <2>4, <2>5, <2>6
<1>19. NoPhantomPress'
  BY <1>2, <1>18 DEF NoPhantomPress
<1>20. PressesLeft'
  BY <1>2, <1>17 DEF PressesLeft
<1>21. \A e \in p.letters : e[2] = ("shift" \in p.flags)
  BY <1>12 DEF Marked
<1> QED
  BY <1>1, <1>2, <1>13, <1>14, <1>16, <1>19, <1>20, <1>21 DEF HidInv, CodesFollowReport

LEMMA HidStepInv == HidInv /\ [HidNext]_hidVars => HidInv'
<1> SUFFICES ASSUME HidInv, [HidNext]_hidVars PROVE HidInv'
  OBVIOUS
<1>1. CASE \E k \in Usages : Presses(k)
  BY <1>1, PressesInv
<1>2. CASE \E i \in DOMAIN held : Releases(i)
  BY <1>2, ReleasesInv
<1>3. CASE \E m \in UserMods : TogglesModifier(m)
  BY <1>3, TogglesModifierInv
<1>4. CASE usb_kbd_feed_boot_report
  BY <1>4, FeedInv
<1>5. CASE UNCHANGED hidVars
  BY <1>5 DEF hidVars, HidInv, HidTypeOK, CodesFollowReport, FlagsFollowReport, NoStuckKey,
              NoPhantomPress, FlagsHaveReasons, PressesLeft
<1> QED
  BY <1>1, <1>2, <1>3, <1>4, <1>5 DEF HidNext

\* The flags, keys and presses the codes tell are those of the reports, for every
\* set of keys and modifiers, number of slots and state the PS/2 keyboard left.
THEOREM DecoderFollowsReports == HidSpec => []CodesFollowReport
<1>1. HidInv => CodesFollowReport
  BY DEF HidInv
<1> QED
  BY <1>1, HidInitInv, HidStepInv, PTL DEF HidSpec

\* A letter is typed with the Shift of the report it came with.
THEOREM ShiftInItsReport == HidSpec => []ShiftAppliesToReport
<1>1. HidInv => ShiftAppliesToReport
  <2> SUFFICES ASSUME HidInv, ~paired, NEW e \in decoder.letters
               PROVE  e[2] <=> \/ \E m \in last_modifiers : FlagOf[m] = "shift"
                               \/ "shift" \in decoder.flagsLeft
    BY DEF ShiftAppliesToReport
  <2>1. decoder.flags = {FlagOf[m] : m \in last_modifiers} \cup decoder.flagsLeft
    BY DEF HidInv, CodesFollowReport, FlagsFollowReport
  <2>2. e[2] = ("shift" \in decoder.flags)
    BY DEF HidInv
  <2>3. "shift" \in decoder.flags <=> \/ \E m \in last_modifiers : FlagOf[m] = "shift"
                                      \/ "shift" \in decoder.flagsLeft
    BY <2>1
  <2> QED BY <2>2, <2>3
<1> QED
  BY <1>1, HidInitInv, HidStepInv, PTL DEF HidSpec

-----------------------------------------------------------------------------
(* The rings.                                                               *)

USE EpSizeAssumption, EventSizeAssumption, BoundsAssumption
    DEF EpSizeAssumption, EventSizeAssumption, BoundsAssumption,
        LinkIndex, EpSlots, EventSlots, NoTrb

LEMMA InitInv == Init => RingInv
<1> SUFFICES ASSUME Init PROVE RingInv
  OBVIOUS
<1> USE DEF Init
<1>1. TypeOK
  BY DEF TypeOK
<1>2. EpPlaces /\ EventPlaces
  BY DEF EpPlaces, EventPlaces, HwAhead
<1>3. OneReportInv
  BY DEF OneReportInv, EpCount, HwAhead, Posted, PostedReport
<1> QED
  BY <1>1, <1>2, <1>3 DEF RingInv

-----------------------------------------------------------------------------
(* ep_push.                                                                 *)

\* What the first half stores, and that it keeps an empty ring empty.
LEMMA ParameterStored ==
  ASSUME TypeOK, EpPlaces, EpCount = 0, ep_push_parameter, UNCHANGED hwEpVars
  PROVE  /\ intr_ring' \in [EpSlots -> [trb : Nat, cycle : 0..1]]
         /\ intr_link' \in 0..1 /\ intr_cycle' \in 0..1 /\ queued' \in Nat
         /\ intr_enqueue' \in 0..LinkIndex /\ intr_enqueue' < LinkIndex
         /\ EpPlaces' /\ EpCount' = 0
         /\ intr_ring'[intr_enqueue'].trb = queued'
<1> DEFINE slot == IF intr_enqueue >= LinkIndex THEN 0 ELSE intr_enqueue
<1>1. slot \in EpSlots
  BY DEF TypeOK
<1>2. /\ intr_ring \in [EpSlots -> [trb : Nat, cycle : 0..1]]
      /\ queued \in Nat /\ intr_link \in 0..1 /\ intr_cycle \in 0..1
      /\ intr_enqueue \in 0..LinkIndex
      /\ hwDequeue \in 0..LinkIndex /\ hwCcs \in 0..1
  BY DEF TypeOK
<1>3. intr_ring' = [intr_ring EXCEPT ![slot].trb = queued + 1]
  BY DEF ep_push_parameter
<1>4. /\ intr_ring' \in [EpSlots -> [trb : Nat, cycle : 0..1]]
      /\ \A i \in EpSlots : intr_ring'[i].cycle = intr_ring[i].cycle
      /\ intr_ring'[slot].trb = queued + 1
  <2> HIDE DEF slot
  <2> QED
    BY <1>1, <1>2, <1>3
<1>5. /\ intr_link' \in 0..1 /\ queued' \in Nat /\ intr_enqueue' = slot
      /\ queued' = queued + 1
      /\ intr_cycle' = IF intr_enqueue = LinkIndex THEN 1 - intr_cycle ELSE intr_cycle
  BY <1>2 DEF ep_push_parameter
<1>6. hwDequeue' = hwDequeue /\ hwCcs' = hwCcs
  BY DEF hwEpVars
<1>7. EpPlaces'
  BY <1>2, <1>4, <1>5, <1>6 DEF EpPlaces, EpCount, HwAhead
<1>8. EpCount' = 0
  BY <1>2, <1>5, <1>6 DEF EpPlaces, EpCount, HwAhead
<1> QED
  BY <1>1, <1>2, <1>4, <1>5, <1>7, <1>8

\* What the second half stores: the ring now holds one TRB.
LEMMA ControlStored ==
  ASSUME TypeOK, EpPlaces, EpCount = 0, intr_enqueue < LinkIndex,
         ep_push_control, UNCHANGED hwEpVars
  PROVE  /\ intr_ring' \in [EpSlots -> [trb : Nat, cycle : 0..1]]
         /\ intr_enqueue' \in 0..LinkIndex
         /\ EpPlaces' /\ EpCount' = 1
         /\ intr_ring'[intr_enqueue].trb = intr_ring[intr_enqueue].trb
<1>1. /\ intr_ring \in [EpSlots -> [trb : Nat, cycle : 0..1]]
      /\ intr_cycle \in 0..1 /\ intr_enqueue \in EpSlots
      /\ hwDequeue \in 0..LinkIndex /\ hwCcs \in 0..1
  BY DEF TypeOK
<1>2. intr_ring' = [intr_ring EXCEPT ![intr_enqueue].cycle = intr_cycle]
  BY DEF ep_push_control
<1>3. /\ intr_ring' \in [EpSlots -> [trb : Nat, cycle : 0..1]]
      /\ \A i \in EpSlots : intr_ring'[i].cycle =
           IF i = intr_enqueue THEN intr_cycle ELSE intr_ring[i].cycle
      /\ intr_ring'[intr_enqueue].trb = intr_ring[intr_enqueue].trb
  BY <1>1, <1>2
<1>4. /\ intr_enqueue' = intr_enqueue + 1 /\ intr_cycle' = intr_cycle
      /\ hwDequeue' = hwDequeue /\ hwCcs' = hwCcs
  BY DEF ep_push_control, hwEpVars
<1>5. EpPlaces'
  BY <1>1, <1>3, <1>4 DEF EpPlaces, EpCount, HwAhead
<1>6. EpCount' = 1
  BY <1>1, <1>4 DEF EpPlaces, EpCount, HwAhead
<1> QED
  BY <1>1, <1>3, <1>4, <1>5, <1>6

-----------------------------------------------------------------------------
(* The event ring.                                                          *)

\* The entries of the event ring that neither side touches keep their standing.
LEMMA EventsUnchanged ==
  ASSUME UNCHANGED <<event_ring, hwEnqueue, hwPcs, event_dequeue, event_cycle>>
  PROVE  /\ EventPlaces' <=> EventPlaces
         /\ \A i \in EventSlots : /\ Posted(i)' <=> Posted(i)
                                  /\ PostedReport(i)' <=> PostedReport(i)
  BY DEF EventPlaces, Posted, PostedReport

\* The driver passes the entry in hand, and only that.
LEMMA EventPassed ==
  ASSUME TypeOK, EventPlaces, Posted(event_dequeue), AdvanceEvent,
         UNCHANGED hwEvVars
  PROVE  /\ event_dequeue' \in EventSlots /\ event_cycle' \in 0..1
         /\ EventPlaces'
         /\ \A i \in EventSlots : /\ Posted(i)' <=> Posted(i) /\ i # event_dequeue
                                  /\ event_ring'[i] = event_ring[i]
  BY DEF TypeOK, EventPlaces, AdvanceEvent, Posted, hwEvVars

LEMMA EventWrap ==
  \A i \in EventSlots :
    (i + 1) % EventRingSize = IF i + 1 >= EventRingSize THEN 0 ELSE i + 1
<1> SUFFICES ASSUME NEW i \in EventSlots
             PROVE  (i + 1) % EventRingSize =
                      IF i + 1 >= EventRingSize THEN 0 ELSE i + 1
  OBVIOUS
<1>1. CASE i + 1 < EventRingSize
  BY <1>1
<1>2. CASE i + 1 = EventRingSize
  BY <1>2
<1> QED
  BY <1>1, <1>2

\* The controller posts an entry in a slot that was free.
LEMMA EventPosted ==
  ASSUME TypeOK, EventPlaces, NEW trb \in Nat, NEW slot \in EpSlots \cup {NoTrb},
         PostEvent(trb, slot), UNCHANGED drvEvVars
  PROVE  /\ event_ring' \in [EventSlots -> [trb : Nat, slot : EpSlots \cup {NoTrb}, cycle : 0..1]]
         /\ hwEnqueue' \in EventSlots /\ hwPcs' \in 0..1
         /\ EventPlaces'
         /\ hwEnqueue \in EventSlots /\ ~Posted(hwEnqueue)
         /\ \A i \in EventSlots :
              /\ Posted(i)' <=> Posted(i) \/ i = hwEnqueue
              /\ event_ring'[i].slot = IF i = hwEnqueue THEN slot ELSE event_ring[i].slot
<1>1. /\ event_ring \in [EventSlots -> [trb : Nat, slot : EpSlots \cup {NoTrb}, cycle : 0..1]]
      /\ hwEnqueue \in EventSlots /\ hwPcs \in 0..1
      /\ event_dequeue \in EventSlots /\ event_cycle \in 0..1
  BY DEF TypeOK
<1>2. /\ event_ring' = [event_ring EXCEPT
           ![hwEnqueue] = [trb |-> trb, slot |-> slot, cycle |-> hwPcs]]
      /\ hwEnqueue' = IF hwEnqueue + 1 >= EventRingSize THEN 0 ELSE hwEnqueue + 1
      /\ hwPcs' = IF hwEnqueue + 1 >= EventRingSize THEN 1 - hwPcs ELSE hwPcs
      /\ event_dequeue' = event_dequeue /\ event_cycle' = event_cycle
  BY DEF PostEvent, drvEvVars
<1>3. /\ event_ring' \in [EventSlots -> [trb : Nat, slot : EpSlots \cup {NoTrb}, cycle : 0..1]]
      /\ \A i \in EventSlots : event_ring'[i] =
           IF i = hwEnqueue THEN [trb |-> trb, slot |-> slot, cycle |-> hwPcs]
                            ELSE event_ring[i]
  BY <1>1, <1>2
<1>4. IF hwEnqueue + 1 >= EventRingSize THEN event_dequeue # 0
                                        ELSE event_dequeue # hwEnqueue + 1
  BY <1>1, EventWrap DEF PostEvent, EventRoom
<1>5. EventPlaces'
  BY <1>1, <1>2, <1>3, <1>4 DEF EventPlaces
<1>6. /\ ~Posted(hwEnqueue)
      /\ \A i \in EventSlots : Posted(i)' <=> Posted(i) \/ i = hwEnqueue
  BY <1>1, <1>2, <1>4 DEF EventPlaces, Posted
<1> QED
  BY <1>1, <1>2, <1>3, <1>5, <1>6

LEMMA EntryPosted ==
  ASSUME TypeOK, NEW trb, NEW slot, PostEvent(trb, slot)
  PROVE  /\ event_ring'[hwEnqueue].trb = trb
         /\ \A i \in EventSlots : i # hwEnqueue => event_ring'[i] = event_ring[i]
  BY DEF TypeOK, PostEvent

\* An entry that looks new to the driver has been posted.
LEMMA ReadyIsPosted ==
  TypeOK /\ EventPlaces /\ EventReady => Posted(event_dequeue)
  BY DEF TypeOK, EventPlaces, EventReady, Posted

\* A TRB that looks valid to the controller is the one that is pending.
LEMMA ValidIsPending ==
  ASSUME TypeOK, EpPlaces, EpCount \in 0..1, TrbValid
  PROVE  EpCount = 1 /\ ~HwAhead
  BY DEF TypeOK, EpPlaces, TrbValid, EpCount, HwAhead

-----------------------------------------------------------------------------
(* One lemma for each action.                                               *)
LEMMA FirstReportInv == RingInv /\ FirstReport => RingInv'
<1> SUFFICES ASSUME RingInv, FirstReport PROVE RingInv'
  OBVIOUS
<1>1. EpCount = 0 /\ TypeOK /\ EpPlaces /\ EventPlaces /\ OneReportInv
  BY DEF RingInv, OneReportInv, FirstReport
<1>2. /\ ep_push_parameter /\ pc' = "push" /\ keyboard_report' = 0
      /\ UNCHANGED <<hwEpVars, hwEvVars, drvEvVars, fed, intr_wait_trb, sent, portEvents>>
  BY DEF FirstReport, QueueReport
<1>3. TypeOK'
  BY <1>1, <1>2, ParameterStored DEF TypeOK, hwEpVars, hwEvVars, drvEvVars
<1>4. EventPlaces' /\ \A i \in EventSlots : /\ Posted(i)' <=> Posted(i)
                                            /\ PostedReport(i)' <=> PostedReport(i)
  BY <1>1, <1>2, EventsUnchanged DEF hwEvVars, drvEvVars
<1>5. OneReportInv'
  BY <1>1, <1>2, <1>4, ParameterStored DEF OneReportInv, TypeOK, FirstReport, drvEvVars
<1> QED
  BY <1>1, <1>2, <1>3, <1>4, <1>5, ParameterStored DEF RingInv

LEMMA ReportDoneInv == RingInv /\ ReportDone => RingInv'
<1> SUFFICES ASSUME RingInv, ReportDone PROVE RingInv'
  OBVIOUS
<1>1. TypeOK /\ EpPlaces /\ EventPlaces /\ OneReportInv
  BY DEF RingInv
<1>2. /\ ep_push_parameter /\ pc' = "push" /\ keyboard_report' = 0
      /\ intr_wait_trb' = NoTrb /\ fed' = keyboard_report
      /\ UNCHANGED <<hwEpVars, hwEvVars, drvEvVars, sent, portEvents>>
  BY DEF ReportDone, QueueReport
<1>3. event_dequeue \in EventSlots /\ PostedReport(event_dequeue)
  BY <1>1, ReadyIsPosted DEF ReportDone, PostedReport, HeadSlot, TypeOK
<1>4. EpCount = 0
  BY <1>1, <1>3 DEF OneReportInv
<1>5. TypeOK'
  BY <1>1, <1>2, <1>4, ParameterStored DEF TypeOK, hwEpVars, hwEvVars, drvEvVars
<1>6. EventPlaces' /\ \A i \in EventSlots : /\ Posted(i)' <=> Posted(i)
                                            /\ PostedReport(i)' <=> PostedReport(i)
  BY <1>1, <1>2, EventsUnchanged DEF hwEvVars, drvEvVars
<1>7. OneReportInv'
  BY <1>1, <1>2, <1>3, <1>4, <1>6, ParameterStored
     DEF OneReportInv, drvEvVars, PostedReport
<1> QED
  BY <1>1, <1>2, <1>4, <1>5, <1>6, <1>7, ParameterStored DEF RingInv

LEMMA PushDoneInv == RingInv /\ PushDone => RingInv'
<1> SUFFICES ASSUME RingInv, PushDone PROVE RingInv'
  OBVIOUS
<1>1. /\ TypeOK /\ EpPlaces /\ EventPlaces /\ OneReportInv
      /\ EpCount = 0 /\ intr_enqueue < LinkIndex /\ Posted(event_dequeue)
  BY DEF RingInv, OneReportInv, PushDone
<1>2. /\ ep_push_control /\ AdvanceEvent /\ pc' = "poll"
      /\ intr_wait_trb' = intr_enqueue
      /\ UNCHANGED <<hwEpVars, hwEvVars, reportVars, queued, sent, portEvents>>
      /\ UNCHANGED <<intr_link, intr_cycle>>
  BY DEF PushDone, ep_push_control
<1>3. TypeOK'
  <2>1. intr_enqueue \in EpSlots
    BY <1>1 DEF TypeOK
  <2>2. UNCHANGED <<hwDequeue, hwCcs, event_ring, hwEnqueue, hwPcs,
                    keyboard_report, fed, queued, sent, portEvents,
                    intr_link, intr_cycle>>
    BY <1>2 DEF hwEpVars, hwEvVars, reportVars
  <2>3. /\ intr_ring' \in [EpSlots -> [trb : Nat, cycle : 0..1]]
        /\ intr_enqueue' \in 0..LinkIndex
    BY <1>1, <1>2, ControlStored
  <2>4. event_dequeue' \in EventSlots /\ event_cycle' \in 0..1
    BY <1>1, <1>2, EventPassed
  <2> QED
    BY <1>1, <1>2, <2>1, <2>2, <2>3, <2>4 DEF TypeOK
<1>4. \A i \in EventSlots : PostedReport(i) => i = event_dequeue
  BY <1>1 DEF OneReportInv, PushDone
<1>5. \A i \in EventSlots : ~PostedReport(i)'
  BY <1>1, <1>2, <1>4, EventPassed DEF PostedReport
<1>6. OneReportInv'
  BY <1>1, <1>2, <1>5, ControlStored DEF OneReportInv
<1> QED
  BY <1>1, <1>2, <1>3, <1>6, ControlStored, EventPassed DEF RingInv

LEMMA EpUnchanged ==
  ASSUME UNCHANGED <<intr_ring, intr_enqueue, intr_cycle, hwDequeue, hwCcs>>
  PROVE  (EpPlaces' <=> EpPlaces) /\ EpCount' = EpCount
  BY DEF EpPlaces, EpCount, HwAhead

LEMMA OtherEventInv == RingInv /\ OtherEvent => RingInv'
<1> SUFFICES ASSUME RingInv, OtherEvent PROVE RingInv'
  OBVIOUS
<1>1. TypeOK /\ EpPlaces /\ EventPlaces /\ OneReportInv /\ Posted(event_dequeue)
  BY ReadyIsPosted DEF RingInv, OtherEvent
<1>2. /\ AdvanceEvent /\ pc = "poll"
      /\ UNCHANGED <<epVars, hwEpVars, hwEvVars, reportVars, intr_wait_trb, queued,
                     pc, sent, portEvents>>
  BY DEF OtherEvent
<1>3. TypeOK'
  BY <1>1, <1>2, EventPassed DEF TypeOK, epVars, hwEpVars, hwEvVars, reportVars
<1>4. EpPlaces' /\ EpCount' = EpCount
  BY <1>1, <1>2, EpUnchanged DEF epVars, hwEpVars
<1>5. \A i \in EventSlots : PostedReport(i)' => PostedReport(i)
  BY <1>1, <1>2, EventPassed DEF PostedReport
<1>6. OneReportInv'
  BY <1>1, <1>2, <1>4, <1>5 DEF OneReportInv
<1> QED
  BY <1>1, <1>2, <1>3, <1>4, <1>6, EventPassed DEF RingInv

LEMMA HwFollowLinkInv == RingInv /\ HwFollowLink => RingInv' /\ EpCount' = EpCount
<1> SUFFICES ASSUME RingInv, HwFollowLink PROVE RingInv' /\ EpCount' = EpCount
  OBVIOUS
<1>1. TypeOK /\ EpPlaces /\ EventPlaces /\ OneReportInv
  BY DEF RingInv
<1>2. TypeOK'
  BY <1>1 DEF HwFollowLink, TypeOK, epVars, hwEvVars, drvEvVars, reportVars
<1>3. EpPlaces' /\ EpCount' = EpCount
  BY <1>1 DEF HwFollowLink, TypeOK, EpPlaces, EpCount, HwAhead, epVars
<1>4. EventPlaces' /\ \A i \in EventSlots : /\ Posted(i)' <=> Posted(i)
                                            /\ PostedReport(i)' <=> PostedReport(i)
  BY <1>1, EventsUnchanged DEF HwFollowLink, hwEvVars, drvEvVars
<1>5. OneReportInv'
  BY <1>1, <1>3, <1>4 DEF OneReportInv, HwFollowLink, TypeOK, epVars, drvEvVars
<1> QED
  BY <1>2, <1>3, <1>4, <1>5 DEF RingInv

LEMMA HwReportInv == RingInv /\ HwReport => RingInv' /\ EpCount = 1 /\ EpCount' = 0
<1> SUFFICES ASSUME RingInv, HwReport PROVE RingInv' /\ EpCount = 1 /\ EpCount' = 0
  OBVIOUS
<1>1. /\ TypeOK /\ EpPlaces /\ EventPlaces /\ OneReportInv
      /\ EpCount = 1 /\ ~HwAhead /\ hwDequeue \in EpSlots
  BY ValidIsPending DEF RingInv, OneReportInv, HwReport, TrbValid, TypeOK
<1>2. /\ PostEvent(intr_ring[hwDequeue].trb, hwDequeue)
      /\ hwDequeue' = hwDequeue + 1 /\ sent' = sent + 1 /\ keyboard_report' = sent + 1
      /\ UNCHANGED <<epVars, hwCcs, drvEvVars, fed, intr_wait_trb, queued, pc, portEvents>>
  BY DEF HwReport
<1>3. intr_ring[hwDequeue].trb \in Nat /\ hwDequeue \in EpSlots \cup {NoTrb}
  BY <1>1 DEF TypeOK
<1>4. TypeOK'
  BY <1>1, <1>2, <1>3, EventPosted DEF TypeOK, epVars, drvEvVars
<1>5. EpPlaces' /\ EpCount' = 0
  BY <1>1, <1>2 DEF TypeOK, EpPlaces, EpCount, HwAhead, epVars
<1>6. /\ hwEnqueue \in EventSlots
      /\ \A i \in EventSlots : PostedReport(i)' => i = hwEnqueue
  BY <1>1, <1>2, <1>3, EventPosted DEF OneReportInv, PostedReport
<1>7. pc = "poll" /\ pc' = "poll"
  BY <1>1, <1>2 DEF OneReportInv
<1>8. OneReportInv'
  BY <1>5, <1>6, <1>7 DEF OneReportInv
<1> QED
  BY <1>1, <1>2, <1>3, <1>4, <1>5, <1>8, EventPosted DEF RingInv

LEMMA HwPortEventInv == RingInv /\ HwPortEvent => RingInv'
<1> SUFFICES ASSUME RingInv, HwPortEvent PROVE RingInv'
  OBVIOUS
<1>1. TypeOK /\ EpPlaces /\ EventPlaces /\ OneReportInv
  BY DEF RingInv
<1>2. /\ PostEvent(0, NoTrb) /\ portEvents' = portEvents + 1
      /\ UNCHANGED <<epVars, hwEpVars, drvEvVars, reportVars, intr_wait_trb, queued,
                     pc, sent>>
  BY DEF HwPortEvent
<1>3. TypeOK'
  BY <1>1, <1>2, EventPosted DEF TypeOK, epVars, hwEpVars, drvEvVars, reportVars
<1>4. EpPlaces' /\ EpCount' = EpCount
  BY <1>1, <1>2, EpUnchanged DEF epVars, hwEpVars
<1>5. \A i \in EventSlots : PostedReport(i)' <=> PostedReport(i)
  BY <1>1, <1>2, EventPosted DEF PostedReport
<1>6. OneReportInv'
  BY <1>1, <1>2, <1>4, <1>5, EventPosted
     DEF OneReportInv, TypeOK, epVars, drvEvVars
<1> QED
  BY <1>1, <1>2, <1>3, <1>4, <1>6, EventPosted DEF RingInv

LEMMA StutterInv == RingInv /\ UNCHANGED vars => RingInv' /\ EpCount' = EpCount
<1> SUFFICES ASSUME RingInv, UNCHANGED vars PROVE RingInv' /\ EpCount' = EpCount
  OBVIOUS
<1> USE DEF vars, epVars, hwEpVars, hwEvVars, drvEvVars, reportVars
<1>1. TypeOK'
  BY DEF RingInv, TypeOK
<1>2. EpPlaces' /\ EpCount' = EpCount
  BY EpUnchanged DEF RingInv
<1>3. EventPlaces' /\ \A i \in EventSlots : /\ Posted(i)' <=> Posted(i)
                                            /\ PostedReport(i)' <=> PostedReport(i)
  BY EventsUnchanged DEF RingInv
<1>4. OneReportInv'
  BY <1>2, <1>3 DEF RingInv, OneReportInv, TypeOK
<1> QED
  BY <1>1, <1>2, <1>3, <1>4 DEF RingInv

LEMMA StepInv == RingInv /\ [Next]_vars => RingInv'
  BY StutterInv, FirstReportInv, PushDoneInv, ReportDoneInv, OtherEventInv,
     HwFollowLinkInv, HwReportInv, HwPortEventInv DEF Next, DriverStep, HwStep

-----------------------------------------------------------------------------
(* The steps of the queue.                                                  *)
LEMMA NonePending ==
  (EpCount = 0 => EpPending = << >>) /\ (EpCount' = 0 => EpPending' = << >>)
  BY DEF EpPending

LEMMA OnePending ==
  ASSUME TypeOK, TypeOK'
  PROVE
  /\ EpCount = 1 => EpPending = <<intr_ring[hwDequeue % LinkIndex].trb>>
  /\ EpCount' = 1 => EpPending' = <<intr_ring'[hwDequeue' % LinkIndex].trb>>
<1> DEFINE one  == [n \in 1..1 |-> intr_ring[(hwDequeue + n - 1) % LinkIndex].trb]
           oneP == [n \in 1..1 |-> intr_ring'[(hwDequeue' + n - 1) % LinkIndex].trb]
<1>1. EpCount = 1 => EpPending = one
  BY DEF EpPending
<1>2. EpCount' = 1 => EpPending' = oneP
  BY DEF EpPending
<1>3. hwDequeue \in Int /\ hwDequeue' \in Int
  BY DEF TypeOK
<1>4. /\ one = <<intr_ring[hwDequeue % LinkIndex].trb>>
      /\ oneP = <<intr_ring'[hwDequeue' % LinkIndex].trb>>
  BY <1>3
<1> QED
  BY <1>1, <1>2, <1>4

\* A TRB that stays pending stays the same.
LEMMA PendingStays ==
  ASSUME RingInv, RingInv', [Next]_vars, EpCount = 1, EpCount' = 1
  PROVE  UNCHANGED EpPending
<1>1. /\ TypeOK /\ EpPlaces /\ EventPlaces /\ OneReportInv
      /\ TypeOK' /\ pc = "poll"
  BY DEF RingInv, OneReportInv
<1>2. ~ReportDone
  <2> SUFFICES ASSUME ReportDone PROVE FALSE
    OBVIOUS
  <2>1. event_dequeue \in EventSlots /\ PostedReport(event_dequeue)
    BY <1>1, ReadyIsPosted DEF ReportDone, PostedReport, HeadSlot, TypeOK
  <2> QED
    BY <1>1, <2>1 DEF OneReportInv
<1>3. ~HwReport
  BY HwReportInv
<1>4. ~FirstReport /\ ~PushDone
  BY <1>1 DEF FirstReport, PushDone
<1>5. CASE HwFollowLink
  <2>1. hwDequeue = LinkIndex /\ hwDequeue' = 0 /\ intr_ring' = intr_ring
    BY <1>5 DEF HwFollowLink, epVars
  <2>2. LinkIndex % LinkIndex = 0 % LinkIndex
    OBVIOUS
  <2> QED
    BY <1>1, <2>1, <2>2, OnePending
<1>6. CASE OtherEvent \/ HwPortEvent \/ UNCHANGED vars
  <2>1. intr_ring' = intr_ring /\ hwDequeue' = hwDequeue
    BY <1>6 DEF OtherEvent, HwPortEvent, vars, epVars, hwEpVars
  <2> QED
    BY <1>1, <2>1, OnePending
<1> QED
  BY <1>2, <1>3, <1>4, <1>5, <1>6 DEF Next, DriverStep, HwStep

\* Every step of the driver and of the controller is a step of the queue.
LEMMA StepIsQueueStep ==
  ASSUME RingInv, RingInv', [Next]_vars
  PROVE  [EpQueue!QNext]_EpPending
<1>1. EpCount \in 0..1 /\ EpCount' \in 0..1 /\ TypeOK /\ TypeOK'
  BY DEF RingInv, OneReportInv
<1>2. ASSUME EpCount = 0, EpCount' = 0 PROVE UNCHANGED EpPending
  BY <1>2, NonePending
<1>3. ASSUME EpCount = 0, EpCount' = 1 PROVE EpQueue!Put
  <2>1. PICK t : EpPending = << >> /\ EpPending' = <<t>>
    BY <1>1, <1>3, NonePending, OnePending
  <2> QED
    BY <2>1 DEF EpQueue!Put
<1>4. ASSUME EpCount = 1, EpCount' = 0 PROVE EpQueue!Take
  <2>1. PICK t : EpPending = <<t>> /\ EpPending' = << >>
    BY <1>1, <1>4, NonePending, OnePending
  <2>2. EpPending # << >> /\ Tail(EpPending) = << >>
    BY <2>1
  <2> QED
    BY <2>1, <2>2 DEF EpQueue!Take
<1>5. ASSUME EpCount = 1, EpCount' = 1 PROVE UNCHANGED EpPending
  BY <1>5, PendingStays
<1> QED
  BY <1>1, <1>2, <1>3, <1>4, <1>5 DEF EpQueue!QNext

-----------------------------------------------------------------------------
(* The event ring as a sequence.                                            *)
Events == [trb : Nat, slot : EpSlots \cup {NoTrb}]
Pending == EventCount - InHand

\* The slot of the n-th event under way.
SlotOf(n) == (event_dequeue + n - 1 + InHand) % EventRingSize

\* A place less than two laps on, within the ring.
LEMMA TwoLaps ==
  \A k \in 0..(2 * EventRingSize - 1) :
    k % EventRingSize = IF k < EventRingSize THEN k ELSE k - EventRingSize
<1> SUFFICES ASSUME NEW k \in 0..(2 * EventRingSize - 1)
             PROVE  k % EventRingSize = IF k < EventRingSize THEN k ELSE k - EventRingSize
  OBVIOUS
<1>1. CASE k < EventRingSize
  BY <1>1
<1>2. CASE k >= EventRingSize
  BY <1>2
<1> QED
  BY <1>1, <1>2

\* How many events are under way, and where they are.
LEMMA PendingPlaces ==
  RingInv =>
    /\ Pending \in 0..(EventRingSize - 1) /\ InHand \in 0..1
    /\ EventCount \in 0..(EventRingSize - 1)
    /\ \A n \in 1..Pending :
         LET k == event_dequeue + n - 1 + InHand
         IN  /\ SlotOf(n) = IF k < EventRingSize THEN k ELSE k - EventRingSize
             /\ SlotOf(n) \in EventSlots
<1> SUFFICES ASSUME RingInv
             PROVE  /\ Pending \in 0..(EventRingSize - 1) /\ InHand \in 0..1
                    /\ EventCount \in 0..(EventRingSize - 1)
                    /\ \A n \in 1..Pending :
                         LET k == event_dequeue + n - 1 + InHand
                         IN  /\ SlotOf(n) = IF k < EventRingSize THEN k ELSE k - EventRingSize
                             /\ SlotOf(n) \in EventSlots
  OBVIOUS
<1>1. TypeOK /\ EventPlaces /\ OneReportInv
  BY DEF RingInv
<1>2. InHand \in 0..1 /\ (InHand = 1 => Posted(event_dequeue))
  BY <1>1 DEF InHand, OneReportInv
<1>3. EventCount \in 0..(EventRingSize - 1) /\ (Posted(event_dequeue) => EventCount >= 1)
  BY <1>1 DEF TypeOK, EventPlaces, EventCount, Posted
<1>4. Pending \in 0..(EventRingSize - 1)
  BY <1>2, <1>3 DEF Pending
<1>5. ASSUME NEW n \in 1..Pending
      PROVE  event_dequeue + n - 1 + InHand \in 0..(2 * EventRingSize - 1)
  BY <1>1, <1>2, <1>3, <1>4 DEF Pending, TypeOK
<1> QED
  BY <1>2, <1>3, <1>4, <1>5, TwoLaps DEF SlotOf

\* The event ring laid out twice, so that what is under way is in one piece.
Twice ==
  [k \in 0..(2 * EventRingSize - 1) |->
     LET slot == IF k < EventRingSize THEN k ELSE k - EventRingSize
     IN  [trb |-> event_ring[slot].trb, slot |-> event_ring[slot].slot]]

LEMMA TwiceRepeats ==
  /\ \A k \in EventSlots : Twice[k + EventRingSize] = Twice[k]
  /\ event_ring' = event_ring => Twice' = Twice
  BY DEF Twice

\* EventPending is a piece of it.
PendingFacts ==
  /\ event_dequeue \in EventSlots /\ InHand \in 0..1
  /\ Pending \in 0..(EventRingSize - 1)
  /\ event_dequeue + Pending + InHand <= 2 * EventRingSize - 1
  /\ EventPending \in Seq(Events) /\ Len(EventPending) = Pending
  /\ \A n \in 1..Pending : EventPending[n] = Twice[event_dequeue + n - 1 + InHand]

LEMMA PendingIsSeq == RingInv => PendingFacts
<1> SUFFICES ASSUME RingInv PROVE PendingFacts
  OBVIOUS
<1> DEFINE e(n) == [trb |-> event_ring[SlotOf(n)].trb, slot |-> event_ring[SlotOf(n)].slot]
<1>1. EventPending = [n \in 1..Pending |-> e(n)]
  BY DEF EventPending, Pending, EventAt, SlotOf
<1>2. /\ Pending \in 0..(EventRingSize - 1) /\ InHand \in 0..1 /\ event_dequeue \in EventSlots
      /\ EventCount = Pending + InHand /\ EventCount <= EventRingSize - 1
      /\ \A n \in 1..Pending : SlotOf(n) \in EventSlots
  BY PendingPlaces DEF Pending, RingInv, TypeOK
<1>3. \A n \in 1..Pending : e(n) \in Events
  BY <1>2 DEF RingInv, TypeOK, Events
<1>4. ASSUME NEW n \in 1..Pending PROVE e(n) = Twice[event_dequeue + n - 1 + InHand]
  <2>1. event_dequeue + n - 1 + InHand \in 0..(2 * EventRingSize - 1)
    BY <1>2
  <2> QED
    BY <2>1, TwoLaps DEF Twice, SlotOf
<1> HIDE DEF e
<1>5. [n \in 1..Pending |-> e(n)] \in [1..Pending -> Events]
  BY <1>3
<1>6. EventPending \in Seq(Events) /\ Len(EventPending) = Pending
  BY <1>1, <1>2, <1>5
<1>7. ASSUME NEW n \in 1..Pending
      PROVE  EventPending[n] = Twice[event_dequeue + n - 1 + InHand]
  BY <1>1, <1>4
<1>8. event_dequeue + Pending + InHand <= 2 * EventRingSize - 1
  BY <1>2
<1> QED
  BY <1>2, <1>6, <1>7, <1>8 DEF PendingFacts

LEMMA PendingIsSeqNext == RingInv' => PendingFacts'
  BY PendingIsSeq, PTL

\* What the queue's two actions say of sequences compared place by place.
LEMMA PutByPlace ==
  ASSUME NEW S, NEW s \in Seq(S), NEW t \in Seq(S),
         Len(t) = Len(s) + 1, \A n \in 1..Len(s) : t[n] = s[n]
  PROVE  SubSeq(t, 1, Len(s)) = s
<1>1. Len(s) \in Nat /\ \A i \in 1..Len(s) : t[i] \in S
  BY LenProperties, ElementOfSeq
<1>2. /\ SubSeq(t, 1, Len(s)) \in Seq(S) /\ Len(SubSeq(t, 1, Len(s))) = Len(s)
      /\ \A i \in 1..Len(s) : SubSeq(t, 1, Len(s))[i] = t[i]
  BY <1>1, SubSeqProperties
<1> QED
  BY <1>2, SeqEqual

LEMMA TakeByPlace ==
  ASSUME NEW S, NEW s \in Seq(S), NEW t \in Seq(S),
         Len(s) = Len(t) + 1, \A n \in 1..Len(t) : t[n] = s[n + 1]
  PROVE  s # << >> /\ t = Tail(s)
<1>1. Len(t) \in Nat /\ s # << >>
  BY LenProperties, EmptySeq
<1>2. /\ Tail(s) \in Seq(S) /\ Len(Tail(s)) = Len(t)
      /\ \A i \in 1..Len(t) : Tail(s)[i] = s[i + 1]
  BY <1>1, HeadTailProperties
<1> QED
  BY <1>1, <1>2, SeqEqual

-----------------------------------------------------------------------------
(* The steps of the event queue.                                            *)

\* The event in hand is off the queue before its iteration ends.
LEMMA TakenInHand ==
  ASSUME RingInv, RingInv', InHand = 0, InHand' = 1,
         UNCHANGED <<event_ring, hwEnqueue, hwPcs, event_dequeue, event_cycle>>
  PROVE  EventQueue!Take
<1>1. PendingFacts /\ PendingFacts' /\ Twice' = Twice
  BY PendingIsSeq, PendingIsSeqNext, TwiceRepeats
<1>2. EventCount \in Nat /\ EventCount' = EventCount
  BY PendingPlaces DEF EventCount
<1>3. Pending' = Pending - 1
  BY <1>2 DEF Pending
<1>4. ASSUME NEW n \in Nat, n \in 1..Pending' PROVE EventPending'[n] = EventPending[n + 1]
  <2>0. Pending \in Nat /\ Pending' \in Nat /\ event_dequeue \in EventSlots
    BY <1>1 DEF PendingFacts
  <2>1. n \in Nat /\ n + 1 \in 1..Pending /\ event_dequeue \in EventSlots
    BY <1>3, <1>4, <2>0
  <2>2. EventPending'[n] = Twice'[event_dequeue' + n - 1 + InHand']
    BY <1>1, <1>4 DEF PendingFacts
  <2>3. EventPending[n + 1] = Twice[event_dequeue + (n + 1) - 1 + InHand]
    BY <1>1, <2>1 DEF PendingFacts
  <2>4. event_dequeue' + n - 1 + InHand' = event_dequeue + (n + 1) - 1 + InHand
    BY <2>1
  <2> QED
    BY <1>1, <2>2, <2>3, <2>4
<1>5. EventPending # << >> /\ EventPending' = Tail(EventPending)
  <2>1. /\ EventPending \in Seq(Events) /\ EventPending' \in Seq(Events)
        /\ Len(EventPending) = Pending /\ Len(EventPending') = Pending'
        /\ Pending \in Nat /\ Pending' \in Nat
    BY <1>1 DEF PendingFacts
  <2>2. \A n \in 1..Len(EventPending') : EventPending'[n] = EventPending[n + 1]
    BY <1>4, <2>1
  <2> QED
    BY <1>3, <2>1, <2>2, TakeByPlace
<1> QED
  BY <1>5 DEF EventQueue!Take

\* AdvanceEvent passes one event.
LEMMA OnePassed ==
  ASSUME RingInv, Posted(event_dequeue), AdvanceEvent, UNCHANGED hwEvVars
  PROVE  /\ EventCount \in Nat /\ EventCount' = EventCount - 1
         /\ event_dequeue \in EventSlots /\ event_ring' = event_ring
         /\ event_dequeue' = IF event_dequeue + 1 >= EventRingSize THEN 0
                             ELSE event_dequeue + 1
<1>1. TypeOK /\ EventPlaces
  BY DEF RingInv
<1> QED
  BY <1>1 DEF TypeOK, EventPlaces, EventCount, AdvanceEvent, Posted, hwEvVars

LEMMA OtherTaken ==
  ASSUME RingInv, RingInv', OtherEvent
  PROVE  EventQueue!Take
<1>1. PendingFacts /\ PendingFacts'
  BY PendingIsSeq, PendingIsSeqNext
<1>2. InHand = 0 /\ InHand' = 0
  BY DEF OtherEvent, InHand
<1>3. Posted(event_dequeue) /\ AdvanceEvent /\ UNCHANGED hwEvVars
  BY ReadyIsPosted DEF RingInv, OtherEvent
<1>4. Pending' = Pending - 1
  BY <1>2, <1>3, OnePassed DEF Pending
<1>5. ASSUME NEW n \in Nat, n \in 1..Pending' PROVE EventPending'[n] = EventPending[n + 1]
  <2>0. /\ Pending \in Nat /\ Pending' \in 0..(EventRingSize - 1)
        /\ event_dequeue \in EventSlots /\ event_dequeue' \in EventSlots
    BY <1>1 DEF PendingFacts
  <2>1. /\ n \in Nat /\ n >= 1 /\ n + 1 \in 1..Pending /\ n < EventRingSize
        /\ event_dequeue \in EventSlots /\ event_dequeue' \in EventSlots
    BY <1>4, <1>5, <2>0
  <2>2. /\ EventPending'[n] = Twice'[event_dequeue' + n - 1 + InHand']
        /\ EventPending[n + 1] = Twice[event_dequeue + (n + 1) - 1 + InHand]
    BY <1>1, <1>5, <2>1 DEF PendingFacts
  <2>3. Twice' = Twice
    BY <1>3, OnePassed, TwiceRepeats
  <2>4. CASE event_dequeue + 1 < EventRingSize
    <3>1. event_dequeue' = event_dequeue + 1
      BY <1>3, <2>1, <2>4, OnePassed
    <3>2. event_dequeue' + n - 1 + InHand' = event_dequeue + (n + 1) - 1 + InHand
      BY <1>2, <2>1, <3>1
    <3> QED
      BY <2>2, <2>3, <3>2
  <2>5. CASE event_dequeue + 1 >= EventRingSize
    <3>1. event_dequeue' = 0 /\ event_dequeue = EventRingSize - 1
      BY <1>3, <2>1, <2>5, OnePassed
    <3>2. /\ event_dequeue' + n - 1 + InHand' = n - 1 /\ n - 1 \in EventSlots
          /\ event_dequeue + (n + 1) - 1 + InHand = (n - 1) + EventRingSize
      BY <1>2, <2>1, <3>1
    <3> QED
      BY <2>2, <2>3, <3>2, TwiceRepeats
  <2> QED
    BY <2>1, <2>4, <2>5
<1>6. EventPending # << >> /\ EventPending' = Tail(EventPending)
  <2>1. /\ EventPending \in Seq(Events) /\ EventPending' \in Seq(Events)
        /\ Len(EventPending) = Pending /\ Len(EventPending') = Pending'
        /\ Pending \in Nat /\ Pending' \in Nat
    BY <1>1 DEF PendingFacts
  <2>2. \A n \in 1..Len(EventPending') : EventPending'[n] = EventPending[n + 1]
    BY <1>5, <2>1
  <2> QED
    BY <1>4, <2>1, <2>2, TakeByPlace
<1> QED
  BY <1>6 DEF EventQueue!Take

\* When the iteration ends the queue has lost its event already.
LEMMA InHandPassed ==
  ASSUME RingInv, RingInv', PushDone
  PROVE  UNCHANGED EventPending
<1>1. PendingFacts /\ PendingFacts'
  BY PendingIsSeq, PendingIsSeqNext
<1>2. InHand = 1 /\ InHand' = 0
  BY DEF PushDone, InHand
<1>3. Posted(event_dequeue) /\ AdvanceEvent /\ UNCHANGED hwEvVars
  BY DEF RingInv, OneReportInv, PushDone
<1>4. Pending' = Pending
  BY <1>2, <1>3, OnePassed DEF Pending
<1>5. ASSUME NEW n \in 1..Pending PROVE EventPending'[n] = EventPending[n]
  <2>1. /\ n \in Nat /\ n >= 1 /\ n \in 1..Pending' /\ n < EventRingSize
        /\ event_dequeue \in EventSlots /\ event_dequeue' \in EventSlots
    BY <1>1, <1>4 DEF PendingFacts
  <2>2. /\ EventPending'[n] = Twice'[event_dequeue' + n - 1 + InHand']
        /\ EventPending[n] = Twice[event_dequeue + n - 1 + InHand]
    BY <1>1, <2>1 DEF PendingFacts
  <2>3. Twice' = Twice
    BY <1>3, OnePassed, TwiceRepeats
  <2>4. CASE event_dequeue + 1 < EventRingSize
    <3>1. event_dequeue' = event_dequeue + 1
      BY <1>3, <2>1, <2>4, OnePassed
    <3>2. event_dequeue' + n - 1 + InHand' = event_dequeue + n - 1 + InHand
      BY <1>2, <2>1, <3>1
    <3> QED
      BY <2>2, <2>3, <3>2
  <2>5. CASE event_dequeue + 1 >= EventRingSize
    <3>1. event_dequeue' = 0 /\ event_dequeue = EventRingSize - 1
      BY <1>3, <2>1, <2>5, OnePassed
    <3>2. /\ event_dequeue' + n - 1 + InHand' = n - 1 /\ n - 1 \in EventSlots
          /\ event_dequeue + n - 1 + InHand = (n - 1) + EventRingSize
      BY <1>2, <2>1, <3>1
    <3> QED
      BY <2>2, <2>3, <3>2, TwiceRepeats
  <2> QED
    BY <2>1, <2>4, <2>5
<1> QED
  BY <1>1, <1>4, <1>5, SeqEqual DEF PendingFacts

\* The controller's event goes to the end of the queue, which has room.
LEMMA PostIsPut ==
  ASSUME RingInv, RingInv', NEW trb \in Nat, NEW slot \in EpSlots \cup {NoTrb},
         PostEvent(trb, slot), UNCHANGED <<event_dequeue, event_cycle, pc>>
  PROVE  EventQueue!Put
<1>1. PendingFacts /\ PendingFacts' /\ TypeOK /\ EventPlaces
  BY PendingIsSeq, PendingIsSeqNext DEF RingInv
<1>2. InHand \in 0..1 /\ InHand' = InHand /\ EventCount \in Nat
  BY PendingPlaces DEF InHand
<1>3. EventCount' = EventCount + 1
  BY <1>1, EventWrap DEF PostEvent, EventRoom, TypeOK, EventPlaces, EventCount
<1>4. Pending' = Pending + 1
  BY <1>2, <1>3 DEF Pending
<1>5. ASSUME NEW n \in 1..Pending PROVE EventPending'[n] = EventPending[n]
  <2> DEFINE k     == event_dequeue + n - 1 + InHand
             place == IF k < EventRingSize THEN k ELSE k - EventRingSize
  <2>0. /\ event_dequeue \in EventSlots /\ n \in Nat /\ n >= 1
        /\ n + InHand <= EventCount /\ EventCount < EventRingSize
        /\ hwEnqueue \in EventSlots
    BY <1>1, <1>2, PendingPlaces DEF PendingFacts, Pending, TypeOK
  <2>1. k \in 0..(2 * EventRingSize - 1)
    BY <1>2, <2>0
  <2>2. place \in EventSlots /\ place # hwEnqueue
    BY <1>1, <1>2, <2>0 DEF EventCount, EventPlaces, TypeOK
  <2>3. event_ring'[place] = event_ring[place]
    BY <1>1, <2>2 DEF PostEvent, TypeOK
  <2>4. Twice'[k] = Twice[k]
    BY <2>1, <2>3 DEF Twice
  <2>5. EventPending[n] = Twice[k]
    BY <1>1 DEF PendingFacts
  <2>6. n \in 1..Pending' /\ k = event_dequeue' + n - 1 + InHand'
    BY <1>1, <1>2, <1>4 DEF PendingFacts
  <2>7. EventPending'[n] = Twice'[k]
    <3> HIDE DEF k
    <3> QED
      BY <1>1, <2>6 DEF PendingFacts
  <2> QED
    BY <2>4, <2>5, <2>7
<1> QED
  BY <1>1, <1>4, <1>5, PutByPlace DEF PendingFacts, EventQueue!Put

LEMMA EventsStay ==
  ASSUME UNCHANGED <<event_ring, hwEnqueue, hwPcs, event_dequeue, event_cycle>>,
         InHand' = InHand
  PROVE  UNCHANGED EventPending
  BY DEF EventPending, EventCount, EventAt

LEMMA StepIsEventQueueStep ==
  ASSUME RingInv, RingInv', [Next]_vars
  PROVE  [EventQueue!QNext]_EventPending
<1>1. CASE FirstReport \/ HwFollowLink \/ UNCHANGED vars
  <2>1. /\ UNCHANGED <<event_ring, hwEnqueue, hwPcs, event_dequeue, event_cycle>>
        /\ InHand' = InHand
    BY <1>1 DEF FirstReport, QueueReport, HwFollowLink, vars, hwEvVars, drvEvVars, InHand
  <2> QED
    BY <2>1, EventsStay
<1>2. CASE PushDone
  BY <1>2, InHandPassed
<1>3. CASE ReportDone
  <2>1. /\ UNCHANGED <<event_ring, hwEnqueue, hwPcs, event_dequeue, event_cycle>>
        /\ InHand = 0 /\ InHand' = 1
    BY <1>3 DEF ReportDone, QueueReport, hwEvVars, drvEvVars, InHand
  <2> QED
    BY <2>1, TakenInHand DEF EventQueue!QNext
<1>4. CASE OtherEvent
  BY <1>4, OtherTaken DEF EventQueue!QNext
<1>5. CASE HwReport
  <2>1. intr_ring[hwDequeue].trb \in Nat /\ hwDequeue \in EpSlots
    BY <1>5 DEF HwReport, TrbValid, RingInv, TypeOK
  <2> QED
    BY <1>5, <2>1, PostIsPut DEF HwReport, drvEvVars, EventQueue!QNext
<1>6. CASE HwPortEvent
  BY <1>6, PostIsPut DEF HwPortEvent, drvEvVars, EventQueue!QNext
<1> QED
  BY <1>1, <1>2, <1>3, <1>4, <1>5, <1>6 DEF Next, DriverStep, HwStep

-----------------------------------------------------------------------------
(* The report under way.                                                    *)

\* During a push no report waits, and otherwise a posted one does.
LEMMA WaitsIsPosted ==
  ASSUME RingInv
  PROVE  /\ pc = "push" => ~ReportWaits
         /\ pc # "push" => (ReportWaits <=> \E i \in EventSlots : PostedReport(i))
  BY DEF RingInv, OneReportInv, ReportWaits

LEMMA FedInit == Init => FedInv
<1> SUFFICES ASSUME Init PROVE FedInv
  OBVIOUS
<1>1. \A i \in EventSlots : ~PostedReport(i)
  BY DEF Init, PostedReport
<1>2. sent = 0 /\ fed = 0 /\ pc = "start" /\ ~ReportWaits
  BY <1>1 DEF Init, ReportWaits
<1> QED
  BY <1>1, <1>2 DEF FedInv

\* FirstReport and ReportDone queue a TRB: it is the one half written.
LEMMA FirstReportFed == RingInv /\ RingInv' /\ FedInv /\ FirstReport => FedInv'
<1> SUFFICES ASSUME RingInv, RingInv', FedInv, FirstReport PROVE FedInv'
  OBVIOUS
<1>1. /\ TypeOK /\ EpPlaces /\ EpCount = 0 /\ ep_push_parameter /\ UNCHANGED hwEpVars
      /\ pc = "start" /\ pc' = "push" /\ UNCHANGED <<fed, sent>>
  BY DEF RingInv, OneReportInv, FirstReport, QueueReport
<1>2. intr_ring'[intr_enqueue'].trb = queued'
  BY <1>1, ParameterStored
<1>3. ~ReportWaits
  BY <1>1 DEF FedInv, ReportWaits
<1>4. ~ReportWaits'
  BY <1>1 DEF RingInv, OneReportInv, ReportWaits
<1> QED
  BY <1>1, <1>2, <1>3, <1>4 DEF FedInv

LEMMA ReportDoneFed == RingInv /\ RingInv' /\ FedInv /\ ReportDone => FedInv'
<1> SUFFICES ASSUME RingInv, RingInv', FedInv, ReportDone PROVE FedInv'
  OBVIOUS
<1>1. /\ TypeOK /\ EpPlaces /\ EventPlaces /\ ep_push_parameter /\ UNCHANGED hwEpVars
      /\ pc = "poll" /\ pc' = "push" /\ fed' = keyboard_report /\ sent' = sent
  BY DEF RingInv, ReportDone, QueueReport
<1>2. event_dequeue \in EventSlots /\ PostedReport(event_dequeue)
  BY <1>1, ReadyIsPosted DEF ReportDone, PostedReport, HeadSlot, TypeOK
<1>3. EpCount = 0
  BY <1>2 DEF RingInv, OneReportInv
<1>4. intr_ring'[intr_enqueue'].trb = queued'
  BY <1>1, <1>3, ParameterStored
<1>5. ReportWaits
  BY <1>1, <1>2 DEF ReportWaits
<1>6. ~ReportWaits'
  BY <1>1 DEF RingInv, OneReportInv, ReportWaits
<1> QED
  BY <1>1, <1>4, <1>5, <1>6 DEF FedInv

LEMMA PushDoneFed == RingInv /\ RingInv' /\ FedInv /\ PushDone => FedInv'
<1> SUFFICES ASSUME RingInv, RingInv', FedInv, PushDone PROVE FedInv'
  OBVIOUS
<1>1. /\ TypeOK /\ EpPlaces /\ EventPlaces /\ EpCount = 0
      /\ intr_enqueue < LinkIndex /\ intr_enqueue \in EpSlots /\ Posted(event_dequeue)
      /\ ep_push_control /\ UNCHANGED hwEpVars /\ AdvanceEvent /\ UNCHANGED hwEvVars
      /\ pc = "push" /\ pc' = "poll" /\ intr_wait_trb' = intr_enqueue
      /\ UNCHANGED <<fed, sent, queued>>
  <2>1. TypeOK /\ EpPlaces /\ EventPlaces /\ pc = "push"
    BY DEF RingInv, PushDone
  <2>2. EpCount = 0 /\ intr_enqueue < LinkIndex /\ Posted(event_dequeue)
    BY <2>1 DEF RingInv, OneReportInv
  <2> QED
    BY <2>1, <2>2 DEF PushDone, TypeOK, reportVars
<1>2. EpCount' = 1 /\ intr_ring'[intr_enqueue].trb = queued'
  BY <1>1, ControlStored DEF FedInv
<1>3. intr_enqueue' = intr_enqueue + 1
  BY <1>1 DEF ep_push_control
<1>4. \A i \in EventSlots : ~PostedReport(i)'
  BY <1>2 DEF RingInv, OneReportInv
<1>5. ~ReportWaits /\ ~ReportWaits'
  BY <1>1, <1>4, WaitsIsPosted DEF ReportWaits
<1> QED
  BY <1>1, <1>2, <1>3, <1>4, <1>5 DEF FedInv

\* What the other steps leave alone of the driver's part of FedInv.
DriverKept ==
  UNCHANGED <<intr_ring, intr_enqueue, intr_wait_trb, queued, fed, pc>>

LEMMA OtherEventFed == RingInv /\ RingInv' /\ FedInv /\ OtherEvent => FedInv'
<1> SUFFICES ASSUME RingInv, RingInv', FedInv, OtherEvent PROVE FedInv'
  OBVIOUS
<1>1. /\ TypeOK /\ EventPlaces /\ AdvanceEvent /\ UNCHANGED hwEvVars /\ DriverKept
      /\ UNCHANGED <<keyboard_report, sent>> /\ pc = "poll" /\ EpCount' = EpCount
  BY EpUnchanged DEF RingInv, OtherEvent, DriverKept, epVars, hwEpVars, reportVars
<1>2. Posted(event_dequeue) /\ event_dequeue \in EventSlots
  BY ReadyIsPosted DEF RingInv, OtherEvent, TypeOK
<1>3. ~PostedReport(event_dequeue)
  <2>1. intr_wait_trb = NoTrb \/ event_ring[event_dequeue].slot # intr_wait_trb
    BY DEF OtherEvent, HeadSlot
  <2> QED
    BY <1>1, <1>2, <2>1 DEF FedInv, PostedReport
<1>4. \A i \in EventSlots : /\ PostedReport(i)' <=> PostedReport(i)
                            /\ event_ring'[i] = event_ring[i]
  BY <1>1, <1>2, <1>3, EventPassed DEF PostedReport
<1>5. ReportWaits' <=> ReportWaits
  BY <1>1, <1>4 DEF DriverKept, ReportWaits
<1> QED
  BY <1>1, <1>4, <1>5 DEF FedInv, DriverKept

LEMMA HwFollowLinkFed == RingInv /\ RingInv' /\ FedInv /\ HwFollowLink => FedInv'
<1> SUFFICES ASSUME RingInv, RingInv', FedInv, HwFollowLink PROVE FedInv'
  OBVIOUS
<1>1. /\ DriverKept /\ UNCHANGED <<keyboard_report, sent>> /\ EpCount' = EpCount
      /\ UNCHANGED <<event_ring, hwEnqueue, hwPcs, event_dequeue, event_cycle>>
  BY HwFollowLinkInv DEF HwFollowLink, DriverKept, epVars, hwEvVars, drvEvVars, reportVars
<1>2. \A i \in EventSlots : PostedReport(i)' <=> PostedReport(i)
  BY <1>1, EventsUnchanged
<1>3. ReportWaits' <=> ReportWaits
  BY <1>1, <1>2 DEF DriverKept, ReportWaits
<1> QED
  BY <1>1, <1>2, <1>3 DEF FedInv, DriverKept

\* The controller runs the TRB queued last, and posts its event.
LEMMA HwReportFed == RingInv /\ RingInv' /\ FedInv /\ HwReport => FedInv'
<1> SUFFICES ASSUME RingInv, RingInv', FedInv, HwReport PROVE FedInv'
  OBVIOUS
<1>1. /\ TypeOK /\ EpPlaces /\ EventPlaces /\ EpCount = 1 /\ EpCount' = 0
      /\ ~HwAhead /\ hwDequeue \in EpSlots /\ pc = "poll"
  <2>1. TypeOK /\ EpPlaces /\ EventPlaces /\ EpCount = 1 /\ EpCount' = 0 /\ TrbValid
    BY HwReportInv DEF RingInv, HwReport
  <2>2. ~HwAhead
    BY <2>1, ValidIsPending
  <2>3. hwDequeue \in EpSlots
    BY <2>1 DEF TrbValid, TypeOK
  <2>4. pc = "poll"
    BY <2>1 DEF RingInv, OneReportInv
  <2> QED
    BY <2>1, <2>2, <2>3, <2>4
<1>2. /\ PostEvent(intr_ring[hwDequeue].trb, hwDequeue) /\ DriverKept /\ UNCHANGED drvEvVars
      /\ sent' = sent + 1 /\ keyboard_report' = sent + 1
  BY DEF HwReport, DriverKept, epVars
<1>3. hwDequeue = intr_wait_trb /\ intr_ring[hwDequeue].trb = queued
  <2>1. intr_enqueue >= 1 /\ intr_wait_trb = intr_enqueue - 1
        /\ intr_ring[intr_wait_trb].trb = queued
    BY <1>1 DEF FedInv
  <2>2. hwDequeue = intr_enqueue - 1
    BY <1>1, <2>1 DEF EpCount, TypeOK
  <2> QED
    BY <2>1, <2>2
<1>4. /\ hwEnqueue \in EventSlots
      /\ event_ring'[hwEnqueue].slot = hwDequeue
      /\ event_ring'[hwEnqueue].trb = intr_ring[hwDequeue].trb
      /\ \A i \in EventSlots : PostedReport(i)' <=> i = hwEnqueue
  <2>1. intr_ring[hwDequeue].trb \in Nat /\ hwDequeue \in EpSlots \cup {NoTrb}
    BY <1>1 DEF TypeOK
  <2>2. /\ hwEnqueue \in EventSlots /\ event_ring'[hwEnqueue].slot = hwDequeue
        /\ \A i \in EventSlots :
             /\ Posted(i)' <=> Posted(i) \/ i = hwEnqueue
             /\ event_ring'[i].slot = IF i = hwEnqueue THEN hwDequeue ELSE event_ring[i].slot
    BY <1>1, <1>2, <2>1, EventPosted
  <2>3. \A i \in EventSlots : ~PostedReport(i)
    BY <1>1 DEF RingInv, OneReportInv
  <2>4. \A i \in EventSlots : PostedReport(i)' <=> i = hwEnqueue
    BY <1>1, <2>2, <2>3 DEF PostedReport
  <2> QED
    BY <1>1, <1>2, <2>2, <2>4, EntryPosted
<1>5. ~ReportWaits
  BY <1>1 DEF RingInv, OneReportInv, ReportWaits
<1>6. pc' = "poll" /\ ReportWaits'
  BY <1>1, <1>2, <1>4 DEF DriverKept, ReportWaits
<1>7. sent' = fed' + 1 /\ keyboard_report' = sent'
  BY <1>2, <1>5 DEF FedInv, DriverKept
<1>8. \A i \in EventSlots : PostedReport(i)' =>
        event_ring'[i].slot = intr_wait_trb' /\ event_ring'[i].trb = queued'
  BY <1>2, <1>3, <1>4 DEF DriverKept
<1> QED
  BY <1>1, <1>6, <1>7, <1>8 DEF FedInv

LEMMA HwPortEventFed == RingInv /\ RingInv' /\ FedInv /\ HwPortEvent => FedInv'
<1> SUFFICES ASSUME RingInv, RingInv', FedInv, HwPortEvent PROVE FedInv'
  OBVIOUS
<1>1. /\ TypeOK /\ EventPlaces /\ PostEvent(0, NoTrb) /\ DriverKept /\ UNCHANGED drvEvVars
      /\ UNCHANGED <<keyboard_report, sent>> /\ EpCount' = EpCount
  BY EpUnchanged DEF RingInv, HwPortEvent, DriverKept, epVars, hwEpVars, reportVars
<1>2. \A i \in EventSlots :
        /\ PostedReport(i)' <=> PostedReport(i)
        /\ PostedReport(i) => event_ring'[i] = event_ring[i]
  <2>1. /\ ~Posted(hwEnqueue)
        /\ \A i \in EventSlots :
             /\ Posted(i)' <=> Posted(i) \/ i = hwEnqueue
             /\ event_ring'[i].slot = IF i = hwEnqueue THEN NoTrb ELSE event_ring[i].slot
    BY <1>1, EventPosted
  <2>2. \A i \in EventSlots : i # hwEnqueue => event_ring'[i] = event_ring[i]
    BY <1>1, EntryPosted
  <2> QED
    BY <2>1, <2>2 DEF PostedReport
<1>3. ReportWaits' <=> ReportWaits
  BY <1>1, <1>2 DEF DriverKept, drvEvVars, ReportWaits
<1> QED
  BY <1>1, <1>2, <1>3 DEF FedInv, DriverKept

LEMMA StepFed == RingInv /\ RingInv' /\ FedInv /\ [Next]_vars => FedInv'
<1> SUFFICES ASSUME RingInv, RingInv', FedInv, [Next]_vars PROVE FedInv'
  OBVIOUS
<1>1. CASE UNCHANGED vars
  BY <1>1 DEF vars, epVars, hwEpVars, hwEvVars, drvEvVars, reportVars, FedInv, ReportWaits,
              PostedReport, Posted, EpCount, HwAhead
<1> QED
  BY <1>1, FirstReportFed, ReportDoneFed, PushDoneFed, OtherEventFed, HwFollowLinkFed,
     HwReportFed, HwPortEventFed
     DEF Next, DriverStep, HwStep

\* The invariant says what FedInOrder does: at most one report waits, so the
\* difference of fed and sent counts them.
LEMMA FedInvMeans == RingInv /\ FedInv => FedInOrder
<1> SUFFICES ASSUME RingInv, FedInv PROVE FedInOrder
  OBVIOUS
<1> DEFINE waiting == {i \in EventSlots : /\ PostedReport(i)
                                          /\ pc = "push" => i # event_dequeue}
<1>1. fed \in Nat /\ TypeOK /\ EventPlaces
  BY DEF RingInv, TypeOK
<1>2. fed + Cardinality(waiting) = sent
  <2>1. CASE ReportWaits
    <3>1. PICK i \in EventSlots : i \in waiting
      BY <2>1 DEF ReportWaits
    <3>2. waiting = {i}
      BY <3>1 DEF RingInv, OneReportInv
    <3> QED
      BY <1>1, <2>1, <3>2, FS_Singleton DEF FedInv
  <2>2. CASE ~ReportWaits
    <3>1. waiting = {}
      BY <2>2 DEF ReportWaits
    <3> QED
      BY <1>1, <2>2, <3>1, FS_EmptySet DEF FedInv
  <2> QED
    BY <2>1, <2>2
<1>3. MatchIsOwn
  <2> SUFFICES ASSUME pc = "poll", EventReady, HeadSlot # NoTrb
               PROVE  HeadSlot = intr_wait_trb /\ event_ring[event_dequeue].trb = queued
    BY DEF MatchIsOwn
  <2>1. event_dequeue \in EventSlots /\ PostedReport(event_dequeue)
    BY <1>1, ReadyIsPosted DEF PostedReport, HeadSlot, TypeOK
  <2> QED
    BY <2>1 DEF FedInv, HeadSlot
<1> QED
  BY <1>2, <1>3 DEF FedInOrder
-----------------------------------------------------------------------------
\* Whatever the places of driver and controller in the rings of any size, the
\* interrupt transfer ring is a queue of one TRB.
THEOREM TransferRingImplementsQueue == Spec => TransferRingIsQueue
<1>1. Init => EpQueue!QInit
  <2>1. Init => EpCount = 0
    BY DEF Init, EpCount, HwAhead
  <2> QED
    BY <2>1, NonePending DEF EpQueue!QInit
<1>2. RingInv /\ RingInv' /\ [Next]_vars => [EpQueue!QNext]_EpPending
  BY StepIsQueueStep
<1> QED
  BY <1>1, <1>2, InitInv, StepInv, PTL
     DEF Spec, TransferRingIsQueue, EpQueue!QSpec

\* The event ring is a queue of all its slots but one: every event is handled
\* once and in order, and none of an earlier lap is taken for new.
THEOREM EventRingImplementsQueue == Spec => EventRingIsQueue
<1>1. Init => EventQueue!QInit
  <2>1. Init => EventCount = 1 /\ InHand = 1
    BY DEF Init, EventCount, InHand
  <2>2. EventCount = 1 /\ InHand = 1 => EventPending = << >>
    BY DEF EventPending
  <2> QED
    BY <2>1, <2>2 DEF EventQueue!QInit
<1>2. RingInv /\ RingInv' /\ [Next]_vars => [EventQueue!QNext]_EventPending
  BY StepIsEventQueueStep
<1> QED
  BY <1>1, <1>2, InitInv, StepInv, PTL
     DEF Spec, EventRingIsQueue, EventQueue!QSpec

\* The places of both sides, the cycle bits and the one report under way fit
\* together in every state.
THEOREM RingsFit == Spec => []RingInv
  BY InitInv, StepInv, PTL DEF Spec

\* One buffer is enough: no report is lost, fed twice or fed after the buffer was
\* zeroed, and the completion usb_kbd_poll takes is that of the TRB queued last.
THEOREM ReportsFedInOrder == Spec => []FedInOrder
<1>1. Init => RingInv /\ FedInv
  BY InitInv, FedInit
<1>2. RingInv /\ FedInv /\ [Next]_vars => RingInv' /\ FedInv'
  BY StepInv, StepFed
<1> QED
  BY <1>1, <1>2, FedInvMeans, PTL DEF Spec
=============================================================================
