----------------------- MODULE ScancodeQueue_proofs -----------------------
(***************************************************************************)
(* What holds of the PS/2 ring for every ring size, drain limit and number *)
(* of bytes: its indices stay in range, and the two unsynchronised         *)
(* producers never make the main loop dispatch a slot nobody wrote.        *)
(***************************************************************************)
EXTENDS ScancodeQueue, FiniteSetTheorems, TLAPS

USE QSizeAssumption, DrainAssumption, BytesAssumption

(* The successor of a slot is a slot: the next one, or slot 0 at the end.   *)
LEMMA NextSlot ==
  ASSUME NEW k \in Slots
  PROVE  /\ Next1(k) \in Slots
         /\ Next1(k) = IF k = QSize - 1 THEN 0 ELSE k + 1
<1>1. CASE k = QSize - 1
  <2>1. (k + 1) % QSize = 0
    BY <1>1
  <2> QED BY <1>1, <2>1 DEF Next1, Slots
<1>2. CASE k # QSize - 1
  <2>1. k + 1 \in 0..(QSize - 1)
    BY <1>2 DEF Slots
  <2>2. (k + 1) % QSize = k + 1
    BY <2>1
  <2> QED BY <1>2, <2>1, <2>2 DEF Next1, Slots
<1> QED BY <1>1, <1>2

-----------------------------------------------------------------------------
(* Type correctness.                                                        *)
LEMMA TypeInit == Init => TypeOK
<1> SUFFICES ASSUME Init PROVE TypeOK
  OBVIOUS
<1>1. 0 \in Slots /\ 0 \in Bytes /\ Idle \in 0..Idle /\ 0 \in 0..DrainMax
  BY DEF Slots, Bytes, Idle
<1>2. dispatched \in Seq(Bytes)
  BY DEF Init
<1> QED BY <1>1, <1>2 DEF Init, TypeOK, MainPcs

LEMMA QueuedTyped == TypeOK => InQueue \subseteq Bytes
BY DEF TypeOK, InQueue, Occupied

LEMMA TypeNext == TypeOK /\ [Next]_vars => TypeOK'
<1> SUFFICES ASSUME TypeOK, [Next]_vars PROVE TypeOK'
  OBVIOUS
<1> USE DEF TypeOK, switches, usbVars, queueVars, kbcVars, mainVars, history
<1>0. /\ Next1(fila_fim) \in Slots /\ Next1(fila_inicio) \in Slots
      /\ 0 \in Slots /\ InQueue \subseteq Bytes
  BY NextSlot, QueuedTyped DEF Slots
<1>1. CASE KbcPresent
  BY <1>1 DEF KbcPresent, Bytes
<1>2. CASE IsrEnter
  <2>1. isr' \in 0..Idle
    BY <1>2 DEF IsrEnter, Idle
  <2>2. pc' \in MainPcs /\ (pc' = "data" => pc = "data")
    BY <1>2 DEF IsrEnter, MainPcs
  <2>3. UNCHANGED <<fila_scancodes, fila_inicio, fila_fim, obf, data, i, aux,
                    sc, prox, ps2_keyboard_enabled, input_mode,
                    usb_fallback_done, auto_usb_selected, dispatched, dropped,
                    flushed, raced>> /\ irq1' = FALSE
    BY <1>2 DEF IsrEnter
  <2> QED BY <2>1, <2>2, <2>3
<1>3. CASE IsrIteration
  <2>1. isr' \in 0..Idle
    BY <1>3 DEF IsrIteration, Idle
  <2>2. CASE ps2_keyboard_enabled /\ data \notin AuxBytes
    BY <1>0, <1>3, <2>1, <2>2 DEF IsrIteration, EnqueueAtomic, MainMidDrain
  <2>3. CASE ~(ps2_keyboard_enabled /\ data \notin AuxBytes)
    BY <1>3, <2>1, <2>3 DEF IsrIteration, MainMidDrain
  <2> QED BY <2>2, <2>3
<1>4. CASE IsrExit
  BY <1>4 DEF IsrExit, Idle
<1>5. CASE TimerInterrupt
  BY <1>5 DEF TimerInterrupt, MainPcs
<1>6. CASE TopStep
  BY <1>0, <1>6 DEF TopStep, LegacyEnable, LegacyStart, LegacyEnd, SelectUsb,
     FlushStart, FlushEnd, GoPoll, Main, MainPcs
<1>7. CASE PollDisabled \/ PollEnabled
  BY <1>7 DEF PollDisabled, PollEnabled, Main, MainPcs
<1>8. CASE DrainStatus
  BY <1>8 DEF DrainStatus, Main, MainPcs
<1>9. CASE DrainData
  <2>1. i' \in 0..DrainMax
    BY <1>9 DEF DrainData, Main
  <2> QED BY <1>9, <2>1 DEF DrainData, Main, MainPcs
<1>10. CASE EnqCheck
  BY <1>0, <1>10 DEF EnqCheck, Main, MainPcs
<1>11. CASE EnqWrite \/ EnqPublish
  BY <1>11 DEF EnqWrite, EnqPublish, Main, MainPcs
<1>12. CASE DeqCheck
  BY <1>12 DEF DeqCheck, Main, MainPcs
<1>13. CASE DeqTake
  BY <1>0, <1>13 DEF DeqTake, Main, MainPcs
<1>14. CASE IdleStep
  BY <1>14 DEF IdleStep, Pause, Halt, Main, MainPcs
<1>15. CASE UNCHANGED vars
  BY <1>15 DEF vars
<1> QED BY <1>1, <1>2, <1>3, <1>4, <1>5, <1>6, <1>7, <1>8, <1>9, <1>10,
           <1>11, <1>12, <1>13, <1>14, <1>15
        DEF Next, IsrStep, MainStep, PollStep

(* The ring's indices and every other variable keep their types, for every  *)
(* ring size (kbd.c 22-25 and 254-275).                                     *)
THEOREM TypeCorrect == Spec => []TypeOK
<1>1. Init => TypeOK
  BY TypeInit
<1>2. TypeOK /\ [Next]_vars => TypeOK'
  BY TypeNext
<1> QED BY <1>1, <1>2, PTL DEF Spec

-----------------------------------------------------------------------------
(* No garbage: GhostInv is inductive relative to TypeOK.                    *)
LEMMA GhostInit == Init => GhostInv
BY DEF Init, GhostInv, Written, Clear, NoGhostScancode, Switching

(* Storing a byte outside bad at index g keeps every clear index clear, and *)
(* clears the index after g.                                                *)
LEMMA WriteClears ==
  ASSUME NEW slots \in [Slots -> Bytes], NEW inicio \in Slots,
         NEW g \in Slots, NEW b \in Bytes, NEW bad, b \notin bad,
         Clear(slots, inicio, g, bad)
  PROVE  LET new == [slots EXCEPT ![g] = b]
         IN  /\ \A f \in Slots :
                    Clear(slots, inicio, f, bad) => Clear(new, inicio, f, bad)
             /\ Clear(new, inicio, Next1(g), bad)
<1> DEFINE new == [slots EXCEPT ![g] = b]
<1>1. \A k \in Slots : slots[k] \notin bad => new[k] \notin bad
  OBVIOUS
<1>2. new[g] \notin bad
  OBVIOUS
<1>3. ASSUME NEW f \in Slots, Clear(slots, inicio, f, bad)
      PROVE  Clear(new, inicio, f, bad)
  BY <1>1, <1>3 DEF Clear
<1>4. Clear(new, inicio, Next1(g), bad)
  <2> HIDE DEF new
  <2>1. CASE g = QSize - 1
    <3>1. \A k \in Slots : k # g => k < g
      BY <2>1 DEF Slots
    <3>2. \A k \in Slots : new[k] \notin bad
      BY <1>1, <1>2, <3>1 DEF Clear
    <3> QED BY <3>2 DEF Clear
  <2>2. CASE g # QSize - 1
    <3>1. Next1(g) = g + 1 /\ g \in Nat
      BY <2>2, NextSlot DEF Slots
    <3>2. \A k \in Slots : k < g + 1 => new[k] \notin bad
      BY <1>1, <1>2 DEF Clear, Slots
    <3>3. g + 1 < inicio => g < inicio
      BY DEF Slots
    <3> QED BY <1>1, <3>1, <3>2, <3>3 DEF Clear
  <2> QED BY <2>1, <2>2
<1> QED BY <1>3, <1>4

LEMMA GhostNext == TypeOK /\ GhostInv /\ [Next]_vars => GhostInv'
<1> SUFFICES ASSUME TypeOK, GhostInv, [Next]_vars PROVE GhostInv'
  OBVIOUS
<1> USE DEF switches, usbVars, queueVars, kbcVars, mainVars, history
<1>0. /\ Next1(fila_fim) \in Slots /\ Next1(fila_inicio) \in Slots
      /\ 0 \in Slots
  BY NextSlot DEF Slots, TypeOK
<1>1. CASE KbcPresent
  BY <1>1 DEF KbcPresent, GhostInv, Written, Clear, NoGhostScancode, TypeOK, Switching, Bytes
<1>2. CASE IsrEnter
  BY <1>2 DEF IsrEnter, GhostInv, Written, Clear, NoGhostScancode, TypeOK, Switching
<1>3. CASE IsrIteration
  <2>1. data # 0 /\ data \in Bytes
    BY <1>3 DEF IsrIteration, GhostInv, TypeOK
  <2>2. CASE UNCHANGED queueVars
    BY <1>3, <2>1, <2>2 DEF IsrIteration, GhostInv, Written, Clear, NoGhostScancode, TypeOK, Switching
  <2>3. CASE /\ Next1(fila_fim) # fila_inicio
             /\ fila_scancodes' = [fila_scancodes EXCEPT ![fila_fim] = data]
             /\ fila_fim' = Next1(fila_fim)
             /\ fila_inicio' = fila_inicio
    <3> DEFINE new == [fila_scancodes EXCEPT ![fila_fim] = data]
    <3>1. /\ \A f \in Slots : Written(fila_scancodes, fila_inicio, f)
                              => Written(new, fila_inicio, f)
          /\ Written(new, fila_inicio, Next1(fila_fim))
      BY <2>1, WriteClears DEF GhostInv, TypeOK, Written
    <3>2. /\ fila_scancodes' = new /\ fila_inicio' = fila_inicio
          /\ fila_fim' = Next1(fila_fim) /\ fila_fim' # fila_inicio'
          /\ UNCHANGED <<pc, prox, sc, data, dispatched>> /\ obf' = FALSE
      BY <1>3, <2>3 DEF IsrIteration
    <3> HIDE DEF new
    <3>3. prox \in Slots
      BY DEF TypeOK
    <3> QED BY <2>1, <3>1, <3>2, <3>3 DEF GhostInv, NoGhostScancode, Switching
  <2> QED BY <1>3, <2>2, <2>3 DEF IsrIteration, EnqueueAtomic
<1>4. CASE IsrExit
  BY <1>4 DEF IsrExit, GhostInv, Written, Clear, NoGhostScancode, TypeOK, Switching
<1>5. CASE TimerInterrupt
  BY <1>5 DEF TimerInterrupt, GhostInv, Written, Clear, NoGhostScancode, TypeOK, Switching
<1>6. CASE TopStep
  <2>1. CASE LegacyStart \/ FlushStart
    BY <2>1 DEF LegacyStart, FlushStart, Main, GhostInv, Written, Clear,
       NoGhostScancode, TypeOK, Switching, Slots
  <2>2. CASE LegacyEnd \/ FlushEnd
    BY <2>2 DEF LegacyEnd, FlushEnd, Main, GhostInv, Written, Clear,
       NoGhostScancode, TypeOK, Switching, Slots
  <2>3. CASE LegacyEnable \/ SelectUsb \/ GoPoll
    BY <2>3 DEF LegacyEnable, SelectUsb, GoPoll, Main, GhostInv, Written, Clear,
       NoGhostScancode, TypeOK, Switching
  <2> QED BY <1>6, <2>1, <2>2, <2>3 DEF TopStep
<1>7. CASE PollDisabled \/ PollEnabled \/ DrainStatus \/ DeqCheck
  BY <1>7 DEF PollDisabled, PollEnabled, DrainStatus, DeqCheck, Main,
     GhostInv, Written, Clear, NoGhostScancode, TypeOK, Switching
<1>8. CASE DrainData
  BY <1>8 DEF DrainData, Main, GhostInv, Written, Clear, NoGhostScancode, TypeOK, Switching
<1>9. CASE EnqCheck
  BY <1>9 DEF EnqCheck, Main, GhostInv, Written, Clear, NoGhostScancode, TypeOK, Switching
<1>10. CASE EnqWrite
  <2>1. sc # 0 /\ sc \in Bytes /\ Written(fila_scancodes, fila_inicio, fila_fim)
    BY <1>10 DEF EnqWrite, Main, GhostInv, TypeOK
  <2> DEFINE new == [fila_scancodes EXCEPT ![fila_fim] = sc]
  <2>2. /\ \A f \in Slots : Written(fila_scancodes, fila_inicio, f)
                            => Written(new, fila_inicio, f)
        /\ Written(new, fila_inicio, Next1(fila_fim))
    BY <2>1, WriteClears DEF TypeOK, Written
  <2>3. /\ fila_scancodes' = new /\ pc = "write" /\ pc' = "publish"
        /\ UNCHANGED <<fila_inicio, fila_fim, prox, sc, data, obf, dispatched>>
    BY <1>10 DEF EnqWrite, Main
  <2> HIDE DEF new
  <2>4. prox \in Slots /\ fila_fim \in Slots
    BY DEF TypeOK
  <2> QED BY <2>1, <2>2, <2>3, <2>4 DEF GhostInv, NoGhostScancode, Switching
<1>11. CASE EnqPublish
  BY <1>11 DEF EnqPublish, Main, GhostInv, Written, Clear, NoGhostScancode, TypeOK, Switching
<1>12. CASE DeqTake
  <2>1. /\ fila_inicio # fila_fim
        /\ Written(fila_scancodes, fila_inicio, fila_fim)
    BY <1>12 DEF DeqTake, Main, GhostInv
  <2>2. fila_inicio \in Slots /\ fila_fim \in Slots /\ dispatched \in Seq(Bytes)
    BY DEF TypeOK
  <2>3. sc' # 0
    <3>1. CASE fila_inicio < fila_fim
      BY <1>12, <2>1, <2>2, <3>1 DEF DeqTake, Written, Clear
    <3>2. CASE fila_fim < fila_inicio
      BY <1>12, <2>1, <2>2, <3>2 DEF DeqTake, Written, Clear
    <3> QED BY <2>1, <2>2, <3>1, <3>2 DEF Slots
  <2>4. fila_fim < Next1(fila_inicio) => fila_fim < fila_inicio
    BY <2>1, <2>2, NextSlot DEF Slots
  <2>5. Written(fila_scancodes, Next1(fila_inicio), fila_fim)
    BY <2>1, <2>4 DEF Written, Clear
  <2>6. /\ dispatched' = Append(dispatched, sc') /\ pc' = "dequeue"
        /\ fila_inicio' = Next1(fila_inicio)
        /\ UNCHANGED <<fila_scancodes, fila_fim, data, obf>>
    BY <1>12 DEF DeqTake, Main, kbcVars
  <2>7. sc' \in Bytes
    BY <1>12, <2>2 DEF DeqTake, TypeOK
  <2>8. NoGhostScancode'
    <3>1. \A n \in DOMAIN dispatched' :
             IF n = Len(dispatched) + 1 THEN dispatched'[n] = sc'
             ELSE n \in DOMAIN dispatched /\ dispatched'[n] = dispatched[n]
      BY <2>2, <2>6, <2>7
    <3> QED BY <2>3, <3>1 DEF GhostInv, NoGhostScancode, Switching
  <2>9. obf' \/ pc' = "data" => data' # 0
    BY <2>6 DEF GhostInv
  <2> QED BY <2>5, <2>6, <2>8, <2>9 DEF GhostInv, Switching
<1>13. CASE IdleStep
  BY <1>13 DEF IdleStep, Pause, Halt, Main, GhostInv, Written, Clear,
     NoGhostScancode, TypeOK, Switching
<1>14. CASE UNCHANGED vars
  BY <1>14 DEF vars, GhostInv, Written, Clear, NoGhostScancode, TypeOK, Switching
<1> QED BY <1>1, <1>2, <1>3, <1>4, <1>5, <1>6, <1>7, <1>8, <1>9, <1>10,
           <1>11, <1>12, <1>13, <1>14
        DEF Next, IsrStep, MainStep, PollStep

(* No byte that was never received reaches processar_set1, whatever the     *)
(* interrupt handler and the main loop's own drain do to each other inside  *)
(* enfileirar (kbd.c 254-275 and 454-460).                                  *)
THEOREM NoGhost == Spec => []NoGhostScancode
<1>1. Init => TypeOK /\ GhostInv
  BY TypeInit, GhostInit
<1>2. TypeOK /\ GhostInv /\ [Next]_vars => (TypeOK /\ GhostInv)'
  BY TypeNext, GhostNext
<1>3. GhostInv => NoGhostScancode
  BY DEF GhostInv
<1> QED BY <1>1, <1>2, <1>3, PTL DEF Spec
-----------------------------------------------------------------------------
(* Nothing flushed comes back: FreshInv is inductive relative to TypeOK and *)
(* GhostInv.                                                                *)
LEMMA FreshInit == Init => FreshInv
BY DEF Init, FreshInv, Fresh, Clear, Switching, Polling, Slots

(* A step of the main loop that touches neither the ring nor a byte.        *)
LEMMA QuietStep ==
  ASSUME TypeOK, FreshInv, ~Switching, pc' \notin {"legacy2", "off2", "write", "publish", "check"},
         pc' = "data" => obf,
         pc' \in Polling => ps2_keyboard_enabled',
         UNCHANGED <<fila_scancodes, fila_inicio, fila_fim, obf, data, flushed>>
  PROVE  FreshInv'
BY DEF FreshInv, Fresh, Switching

LEMMA FreshNext == TypeOK /\ GhostInv /\ FreshInv /\ [Next]_vars => FreshInv'
<1> SUFFICES ASSUME TypeOK, GhostInv, FreshInv, [Next]_vars PROVE FreshInv'
  OBVIOUS
<1> USE DEF switches, usbVars, queueVars, kbcVars, mainVars, history
<1>0. /\ Next1(fila_fim) \in Slots /\ Next1(fila_inicio) \in Slots
      /\ 0 \in Slots /\ fila_fim \in Slots /\ fila_inicio \in Slots
      /\ prox \in Slots
  BY NextSlot DEF Slots, TypeOK
<1>1. CASE KbcPresent
  BY <1>1 DEF KbcPresent, FreshInv, Fresh, Clear, TypeOK, Switching, Bytes
<1>2. CASE IsrEnter
  BY <1>2 DEF IsrEnter, FreshInv, Fresh, Clear, TypeOK, Switching, Polling
<1>3. CASE IsrIteration
  <2>1. /\ data \notin flushed /\ data \in Bytes /\ obf
        /\ \A k \in Slots : fila_scancodes[k] # data
        /\ pc \in {"check", "write", "publish"} => sc # data
    BY <1>3 DEF IsrIteration, FreshInv, TypeOK
  <2>2. CASE UNCHANGED queueVars /\ flushed' = flushed
    BY <1>3, <2>1, <2>2 DEF IsrIteration, FreshInv, Fresh, Clear, TypeOK,
       Switching, Polling
  <2>3. CASE UNCHANGED queueVars /\ ~ps2_keyboard_enabled
    <3>1. pc \notin Polling
      BY <2>3 DEF FreshInv
    <3>2. flushed' = flushed \cup {data}
      BY <1>3, <2>3 DEF IsrIteration
    <3> QED BY <1>3, <2>1, <2>3, <3>1, <3>2 DEF IsrIteration, FreshInv, Fresh,
            Clear, TypeOK, Switching, Polling, Bytes
  <2>4. CASE /\ Next1(fila_fim) # fila_inicio
             /\ fila_scancodes' = [fila_scancodes EXCEPT ![fila_fim] = data]
             /\ fila_fim' = Next1(fila_fim)
             /\ fila_inicio' = fila_inicio
             /\ ps2_keyboard_enabled
    <3> DEFINE new == [fila_scancodes EXCEPT ![fila_fim] = data]
    <3>1. ~Switching =>
             /\ \A f \in Slots : Fresh(fila_scancodes, fila_inicio, f)
                                 => Clear(new, fila_inicio, f, flushed)
             /\ Clear(new, fila_inicio, Next1(fila_fim), flushed)
      BY <1>0, <2>1, WriteClears DEF FreshInv, TypeOK, Fresh
    <3>2. \A k \in Slots : new[k] <= data
      BY <2>1 DEF FreshInv, TypeOK, Bytes
    <3>3. /\ fila_scancodes' = new /\ fila_inicio' = fila_inicio
          /\ fila_fim' = Next1(fila_fim) /\ flushed' = flushed /\ obf' = FALSE
          /\ UNCHANGED <<pc, prox, sc, data, ps2_keyboard_enabled>>
      BY <1>3, <2>4 DEF IsrIteration
    <3> HIDE DEF new
    <3> QED BY <1>0, <2>1, <3>1, <3>2, <3>3
            DEF FreshInv, Fresh, Switching, Polling
  <2> QED BY <1>3, <2>2, <2>3, <2>4 DEF IsrIteration, EnqueueAtomic
<1>4. CASE IsrExit
  BY <1>4 DEF IsrExit, FreshInv, Fresh, Clear, TypeOK, Switching, Polling
<1>5. CASE TimerInterrupt
  BY <1>5 DEF TimerInterrupt, FreshInv, Fresh, Clear, TypeOK, Switching, Polling
<1>6. CASE TopStep
  <2>1. \A v \in InQueue : v <= data /\ (obf => v # data)
    BY DEF FreshInv, InQueue, Occupied
  <2>2. InQueue \subseteq Bytes
    BY QueuedTyped
  <2>3. CASE LegacyStart \/ FlushStart
    <3>1. flushed' = flushed \cup InQueue /\ pc' \in {"legacy2", "off2"}
      BY <2>3 DEF LegacyStart, FlushStart, Main
    <3>2. UNCHANGED <<obf, data, fila_scancodes>>
      BY <2>3 DEF LegacyStart, FlushStart
    <3> QED BY <2>1, <2>2, <3>1, <3>2 DEF FreshInv, Switching, Polling, TypeOK, Bytes
  <2>4. CASE LegacyEnd \/ FlushEnd
    <3>1. /\ fila_fim' = 0 /\ pc' = "poll" /\ fila_inicio' = fila_inicio
          /\ fila_inicio = 0
      BY <2>4 DEF LegacyEnd, FlushEnd, Main, GhostInv, Switching
    <3>2. UNCHANGED <<obf, data, fila_scancodes>>
      BY <2>4 DEF LegacyEnd, FlushEnd
    <3>3. flushed' \subseteq flushed \cup InQueue
      BY <2>4 DEF LegacyEnd, FlushEnd
    <3>4. Fresh(fila_scancodes, fila_inicio, fila_fim)'
      BY <3>1 DEF Fresh, Clear, Slots
    <3> QED BY <2>1, <2>2, <3>1, <3>2, <3>3, <3>4
            DEF FreshInv, Switching, Polling, TypeOK, Bytes
  <2>5. CASE LegacyEnable \/ SelectUsb \/ GoPoll
    <3>1. pc = "top" /\ pc' \in {"legacy1", "off1", "poll"}
      BY <2>5 DEF LegacyEnable, SelectUsb, GoPoll, Main
    <3>2. UNCHANGED <<fila_scancodes, fila_inicio, fila_fim, obf, data, flushed>>
      BY <2>5 DEF LegacyEnable, SelectUsb, GoPoll
    <3> QED BY <3>1, <3>2, QuietStep DEF Switching, Polling
  <2> QED BY <1>6, <2>3, <2>4, <2>5 DEF TopStep
<1>7. CASE PollDisabled \/ PollEnabled \/ DrainStatus \/ DeqCheck
  <2>1. /\ pc \in {"poll", "status", "dequeue"}
        /\ pc' \in {"idle", "status", "data", "dequeue", "take"}
        /\ pc' = "data" => obf
    BY <1>7 DEF PollDisabled, PollEnabled, DrainStatus, DeqCheck, Main
  <2>2. UNCHANGED <<fila_scancodes, fila_inicio, fila_fim, obf, data, flushed>>
    BY <1>7 DEF PollDisabled, PollEnabled, DrainStatus, DeqCheck
  <2>3. pc' \in Polling => ps2_keyboard_enabled'
    BY <1>7 DEF PollDisabled, PollEnabled, DrainStatus, DeqCheck, Main,
       FreshInv, Polling
  <2> QED BY <2>1, <2>2, <2>3, QuietStep DEF Switching
<1>8. CASE DrainData
  BY <1>8 DEF DrainData, Main, FreshInv, Fresh, Clear, TypeOK, Switching,
     Polling, Bytes
<1>9. CASE EnqCheck
  BY <1>9 DEF EnqCheck, Main, FreshInv, Fresh, Clear, TypeOK, Switching, Polling
<1>10. CASE EnqWrite
  <2>1. /\ sc \in Bytes /\ sc \notin flushed /\ sc <= data
        /\ obf => sc # data
    BY <1>10 DEF EnqWrite, Main, FreshInv, TypeOK
  <2>2. Fresh(fila_scancodes, fila_inicio, fila_fim)
    BY <1>10 DEF EnqWrite, Main, FreshInv, Switching
  <2> DEFINE new == [fila_scancodes EXCEPT ![fila_fim] = sc]
  <2>3. /\ \A f \in Slots : Fresh(fila_scancodes, fila_inicio, f)
                            => Clear(new, fila_inicio, f, flushed)
        /\ Clear(new, fila_inicio, Next1(fila_fim), flushed)
    BY <1>0, <2>1, <2>2, WriteClears DEF TypeOK, Fresh
  <2>4. \A k \in Slots : new[k] <= data /\ (obf => new[k] # data)
    BY <2>1 DEF FreshInv, TypeOK
  <2>5. /\ fila_scancodes' = new /\ pc = "write" /\ pc' = "publish"
        /\ UNCHANGED <<fila_inicio, fila_fim, prox, sc, data, obf, flushed,
                       ps2_keyboard_enabled>>
    BY <1>10 DEF EnqWrite, Main
  <2> HIDE DEF new
  <2> QED BY <1>0, <2>1, <2>2, <2>3, <2>4, <2>5
          DEF FreshInv, Fresh, Switching, Polling
<1>11. CASE EnqPublish
  BY <1>11 DEF EnqPublish, Main, FreshInv, Fresh, Clear, TypeOK, Switching, Polling
<1>12. CASE DeqTake
  <2>1. /\ fila_inicio # fila_fim
        /\ Fresh(fila_scancodes, fila_inicio, fila_fim)
    BY <1>12 DEF DeqTake, Main, GhostInv, FreshInv, Switching
  <2>2. fila_fim < Next1(fila_inicio) => fila_fim < fila_inicio
    BY <1>0, <2>1, NextSlot DEF Slots
  <2>3. Clear(fila_scancodes, Next1(fila_inicio), fila_fim, flushed)
    BY <2>1, <2>2 DEF Fresh, Clear
  <2>4. /\ pc = "take" /\ pc' = "dequeue"
        /\ fila_inicio' = Next1(fila_inicio)
        /\ UNCHANGED <<fila_scancodes, fila_fim, data, obf, flushed,
                       ps2_keyboard_enabled>>
    BY <1>12 DEF DeqTake, Main, kbcVars
  <2> QED BY <2>3, <2>4 DEF FreshInv, Fresh, Switching, Polling
<1>13. CASE IdleStep
  <2>1. pc = "idle" /\ pc' \in {"top", "hlt"}
    BY <1>13 DEF IdleStep, Pause, Halt, Main
  <2>2. UNCHANGED <<fila_scancodes, fila_inicio, fila_fim, obf, data, flushed>>
    BY <1>13 DEF IdleStep, Pause, Halt
  <2> QED BY <2>1, <2>2, QuietStep DEF Switching, Polling
<1>14. CASE UNCHANGED vars
  BY <1>14 DEF vars, FreshInv, Fresh, Clear, TypeOK, Switching, Polling
<1> QED BY <1>1, <1>2, <1>3, <1>4, <1>5, <1>6, <1>7, <1>8, <1>9, <1>10,
           <1>11, <1>12, <1>13, <1>14
        DEF Next, IsrStep, MainStep, PollStep

LEMMA OnlyFreshDispatched ==
  ASSUME TypeOK, GhostInv, FreshInv, [Next]_vars, dispatched' # dispatched
  PROVE  dispatched'[Len(dispatched')] \notin flushed
<1>1. DeqTake
  BY DEF Next, IsrStep, MainStep, TopStep, PollStep, IdleStep, KbcPresent,
     IsrEnter, IsrIteration, IsrExit, TimerInterrupt, LegacyEnable,
     LegacyStart, LegacyEnd, SelectUsb, FlushStart, FlushEnd, GoPoll,
     PollDisabled, PollEnabled, DrainStatus, DrainData, EnqCheck, EnqWrite,
     EnqPublish, DeqCheck, Pause, Halt, history, vars
<1>2. /\ fila_inicio # fila_fim
      /\ Fresh(fila_scancodes, fila_inicio, fila_fim)
  BY <1>1 DEF DeqTake, Main, GhostInv, FreshInv, Switching
<1>3. fila_inicio \in Slots /\ fila_fim \in Slots /\ dispatched \in Seq(Bytes)
  BY DEF TypeOK
<1>4. fila_scancodes[fila_inicio] \notin flushed
  <2>1. CASE fila_inicio < fila_fim
    BY <1>2, <1>3, <2>1 DEF Fresh, Clear
  <2>2. CASE fila_fim < fila_inicio
    BY <1>2, <1>3, <2>2 DEF Fresh, Clear
  <2> QED BY <1>2, <1>3, <2>1, <2>2 DEF Slots
<1>5. fila_scancodes[fila_inicio] \in Bytes
  BY <1>3 DEF TypeOK
<1>6. dispatched' = Append(dispatched, fila_scancodes[fila_inicio])
  BY <1>1 DEF DeqTake
<1> QED BY <1>3, <1>4, <1>5, <1>6

(* What a switch of the input path empties out of the ring, or the handler  *)
(* reads while PS/2 is off, is never handed to processar_set1 later,        *)
(* although a flush resets the two indices one after the other with         *)
(* interrupts on (kbd.c 226-248 and 269-285).                               *)
THEOREM FlushedStaysOut == Spec => FlushedNeverDispatched
<1>1. Init => TypeOK /\ GhostInv /\ FreshInv
  BY TypeInit, GhostInit, FreshInit
<1>2. TypeOK /\ GhostInv /\ FreshInv /\ [Next]_vars => (TypeOK /\ GhostInv /\ FreshInv)'
  BY TypeNext, GhostNext, FreshNext
<1>3. TypeOK /\ GhostInv /\ FreshInv /\ [Next]_vars =>
        [dispatched' # dispatched => dispatched'[Len(dispatched')] \notin flushed]_vars
  BY OnlyFreshDispatched
<1> QED BY <1>1, <1>2, <1>3, PTL DEF Spec, FlushedNeverDispatched
-----------------------------------------------------------------------------
(* The ring by rank: how its slots are counted from the oldest one.         *)

(* A rank tells its slot, and 0 is the oldest's.                            *)
LEMMA RankOfSlot ==
  ASSUME fila_inicio \in Slots
  PROVE  /\ \A k \in Slots : Rank(k) \in 0..(QSize - 1) /\ (Rank(k) = 0 <=> k = fila_inicio)
         /\ \A k, l \in Slots : Rank(k) = Rank(l) => k = l
BY DEF Slots, Rank

(* The occupied slots are those with a rank below that of fila_fim.         *)
LEMMA OccupiedByRank ==
  ASSUME fila_inicio \in Slots, fila_fim \in Slots
  PROVE  Occupied = {k \in Slots : Rank(k) < Rank(fila_fim)}
BY DEF Slots, Rank, Occupied

(* The next slot has the next rank, but for the last one.                   *)
LEMMA RankOfNext ==
  ASSUME fila_inicio \in Slots, NEW k \in Slots
  PROVE  IF Next1(k) = fila_inicio THEN Rank(k) = QSize - 1
         ELSE Rank(Next1(k)) = Rank(k) + 1
<1>1. Next1(k) = IF k = QSize - 1 THEN 0 ELSE k + 1
  BY NextSlot
<1> QED BY <1>1 DEF Slots, Rank

(* A ring that grows by the slot at fila_fim.                               *)
LEMMA RingGrows ==
  ASSUME fila_inicio \in Slots, fila_fim \in Slots, Next1(fila_fim) # fila_inicio,
         fila_inicio' = fila_inicio, fila_fim' = Next1(fila_fim)
  PROVE  /\ Occupied' = Occupied \cup {fila_fim} /\ fila_fim \notin Occupied
         /\ \A k \in Slots : Rank(k)' = Rank(k)
         /\ \A k \in Occupied : Rank(k) < Rank(fila_fim)
<1>1. \A k \in Slots : Rank(k)' = Rank(k) BY DEF Rank
<1>2. Occupied = {k \in Slots : Rank(k) < Rank(fila_fim)} BY OccupiedByRank
<1>3. Next1(fila_fim) \in Slots BY NextSlot
<1>4. Occupied' = {k \in Slots : Rank(k) < Rank(Next1(fila_fim))}
  <2>1. Occupied' = {k \in Slots : IF fila_inicio <= Next1(fila_fim)
                                   THEN fila_inicio <= k /\ k < Next1(fila_fim)
                                   ELSE fila_inicio <= k \/ k < Next1(fila_fim)}
    BY DEF Occupied
  <2> QED BY <1>3, <2>1 DEF Slots, Rank
<1>5. Rank(Next1(fila_fim)) = Rank(fila_fim) + 1 BY RankOfNext
<1>6. \A k \in Slots : Rank(k) \in Nat /\ (Rank(k) = Rank(fila_fim) => k = fila_fim)
  BY RankOfSlot
<1>7. Occupied' = Occupied \cup {fila_fim} BY <1>2, <1>4, <1>5, <1>6
<1> QED BY <1>1, <1>2, <1>6, <1>7

(* A ring that loses its oldest slot.                                       *)
LEMMA RingShrinks ==
  ASSUME fila_inicio \in Slots, fila_fim \in Slots, fila_inicio # fila_fim,
         fila_inicio' = Next1(fila_inicio), fila_fim' = fila_fim
  PROVE  /\ Occupied' = Occupied \ {fila_inicio} /\ fila_inicio \in Occupied
         /\ Rank(fila_inicio) = 0
         /\ \A k \in Slots : k # fila_inicio => Rank(k) = Rank(k)' + 1
<1>1. Next1(fila_inicio) = IF fila_inicio = QSize - 1 THEN 0 ELSE fila_inicio + 1
  BY NextSlot
<1>2. \A k \in Slots : k # fila_inicio => Rank(k) = Rank(k)' + 1
  BY <1>1 DEF Slots, Rank
<1>3. Occupied' = Occupied \ {fila_inicio} /\ fila_inicio \in Occupied
  BY <1>1 DEF Slots, Occupied
<1> QED BY <1>2, <1>3, RankOfSlot

(* Queued lists the occupied slots by rank.                                 *)
LEMMA QueuedByRank ==
  ASSUME TypeOK
  PROVE  /\ Cardinality(Occupied) \in Nat /\ IsFiniteSet(Occupied)
         /\ \A n \in 1..Cardinality(Occupied) :
              /\ (fila_inicio + n - 1) % QSize \in Occupied
              /\ Rank((fila_inicio + n - 1) % QSize) = n - 1
         /\ \A k \in Occupied : \E n \in 1..Cardinality(Occupied) :
              k = (fila_inicio + n - 1) % QSize
<1> DEFINE N == Rank(fila_fim)
           slot(n) == (fila_inicio + n - 1) % QSize
           f == [n \in 1..N |-> slot(n)]
<1>0. fila_inicio \in Slots /\ fila_fim \in Slots BY DEF TypeOK
<1>1. N \in 0..(QSize - 1) BY <1>0, RankOfSlot
<1>2. Occupied = {k \in Slots : Rank(k) < N} BY <1>0, OccupiedByRank
<1>3. ASSUME NEW n \in 1..N
      PROVE  slot(n) \in Slots /\ Rank(slot(n)) = n - 1
  <2> DEFINE m == fila_inicio + n - 1
  <2>1. m \in 0..(2 * QSize - 2) /\ n \in 1..(QSize - 1) BY <1>0, <1>1 DEF Slots
  <2>2. m % QSize = IF m < QSize THEN m ELSE m - QSize
    <3>1. CASE m < QSize
      <4>1. m \in 0..(QSize - 1) BY <2>1, <3>1
      <4> HIDE DEF m
      <4> QED BY <4>1, <3>1
    <3>2. CASE ~(m < QSize)
      <4> DEFINE x == m - QSize
      <4>1. x \in 0..(QSize - 1) /\ m = x + QSize BY <2>1, <3>2
      <4>2. (x + QSize) % QSize = x
        <5> HIDE DEF x
        <5> QED BY <4>1
      <4> QED BY <4>1, <4>2, <3>2
    <3> QED BY <3>1, <3>2
  <2>3. slot(n) = IF m < QSize THEN m ELSE m - QSize BY <2>2
  <2> HIDE DEF slot
  <2> QED BY <1>0, <2>1, <2>3 DEF Slots, Rank
<1> HIDE DEF slot, N
<1>4. ASSUME NEW k \in Occupied
      PROVE  \E n \in 1..N : k = slot(n)
  <2>1. k \in Slots /\ Rank(k) \in 0..(N - 1)
    BY <1>0, <1>1, <1>2, RankOfSlot
  <2>2. Rank(k) + 1 \in 1..N BY <1>1, <2>1
  <2>3. slot(Rank(k) + 1) \in Slots /\ Rank(slot(Rank(k) + 1)) = Rank(k)
    BY <1>3, <2>1, <2>2
  <2>4. k = slot(Rank(k) + 1) BY <1>0, <2>1, <2>3, RankOfSlot
  <2> QED BY <2>2, <2>4
<1>5. \A n \in 1..N : slot(n) \in Occupied BY <1>1, <1>2, <1>3
<1>6. f \in Bijection(1..N, Occupied)
  <2>1. f \in [1..N -> Occupied] BY <1>5
  <2>2. \A a, b \in 1..N : f[a] = f[b] => a = b
    <3>1. \A a, b \in 1..N : f[a] = f[b] => a - 1 = b - 1 BY <1>3
    <3> QED BY <1>1, <3>1
  <2>3. \A v \in Occupied : \E a \in 1..N : f[a] = v BY <1>4
  <2> HIDE DEF f
  <2> QED BY <2>1, <2>2, <2>3 DEF Bijection, Injection, IsInjective, Surjection
<1>7. Cardinality(Occupied) = N /\ IsFiniteSet(Occupied)
  <2>1. IsFiniteSet(1..N) /\ Cardinality(1..N) = N
    <3>1. IsFiniteSet(1..N) /\ Cardinality(1..N) = IF 1 > N THEN 0 ELSE N - 1 + 1
      BY <1>1, FS_Interval
    <3> QED BY <1>1, <3>1
  <2> HIDE DEF f
  <2> QED BY <1>6, <2>1, FS_Bijection DEF ExistsBijection
<1>8. \A n \in 1..N : slot(n) \in Occupied /\ Rank(slot(n)) = n - 1
  BY <1>3, <1>5
<1> QED BY <1>1, <1>4, <1>7, <1>8 DEF slot
-----------------------------------------------------------------------------
(* Order, and nothing lost: OrderInv, relative to the three before.         *)

LEMMA OrderInit == Init => OrderInv
<1> SUFFICES ASSUME Init PROVE OrderInv
  OBVIOUS
<1>1. DOMAIN dispatched = {} BY DEF Init
<1>2. Occupied = {} BY DEF Init, Occupied, Slots
<1>3. 1..data = {} BY DEF Init
<1> QED BY <1>1, <1>2, <1>3 DEF Init, OrderInv, HandledInOrder, Increasing, MainInStep,
        InOrder, Holding, Switching

(* Once the interrupt has taken a byte from under main, it has.             *)
LEMMA RacedForGood == TypeOK /\ [Next]_vars /\ ~raced' => ~raced
BY DEF TypeOK, Next, IsrStep, MainStep, TopStep, PollStep, IdleStep, KbcPresent,
   IsrEnter, IsrIteration, IsrExit, TimerInterrupt, LegacyEnable,
   LegacyStart, LegacyEnd, SelectUsb, FlushStart, FlushEnd, GoPoll,
   PollDisabled, PollEnabled, DrainStatus, DrainData, EnqCheck, EnqWrite,
   EnqPublish, DeqCheck, DeqTake, Pause, Halt, history, vars

(* What the handler of the interrupt takes, while main holds nothing.       *)
LEMMA IsrUnraced ==
  ASSUME TypeOK, IsrIteration, ~raced'
  PROVE  ~MainMidDrain
BY DEF TypeOK, IsrIteration

(* Main's copies, step by step.                                             *)
LEMMA MainInStepNext ==
  ASSUME TypeOK, MainInStep, [Next]_vars, ~raced'
  PROVE  MainInStep'
<1> USE DEF switches, usbVars, queueVars, kbcVars, mainVars, history
<1>1. CASE KbcPresent
  BY <1>1 DEF KbcPresent, MainInStep, Holding, TypeOK
<1>2. CASE IsrEnter
  BY <1>2 DEF IsrEnter, MainInStep, Holding, TypeOK
<1>3. CASE IsrIteration
  <2>1. pc \notin {"data", "check", "write", "publish"}
    BY <1>3, IsrUnraced DEF MainMidDrain
  <2> QED BY <1>3, <2>1 DEF IsrIteration, MainInStep, Holding, TypeOK
<1>4. CASE IsrExit
  BY <1>4 DEF IsrExit, MainInStep, Holding, TypeOK
<1>5. CASE TimerInterrupt
  BY <1>5 DEF TimerInterrupt, MainInStep, Holding, TypeOK
<1>6. CASE TopStep
  BY <1>6 DEF TopStep, LegacyEnable, LegacyStart, LegacyEnd, SelectUsb, FlushStart,
     FlushEnd, GoPoll, Main, MainInStep, Holding
<1>7. CASE PollDisabled \/ PollEnabled \/ DeqCheck
  BY <1>7 DEF PollDisabled, PollEnabled, DeqCheck, Main, MainInStep, Holding
<1>8. CASE DrainStatus
  <2>1. pc' \in {"data", "dequeue"} /\ (pc' = "data" => obf) /\ UNCHANGED <<obf, data>>
    BY <1>8 DEF DrainStatus, Main
  <2>2. aux' <=> (obf /\ data \in AuxBytes)
    BY <1>8 DEF DrainStatus
  <2> QED BY <2>1, <2>2 DEF MainInStep, Holding
<1>9. CASE DrainData
  <2>1. pc = "data" /\ pc' = IF aux THEN "status" ELSE "check"
    BY <1>9 DEF DrainData, Main
  <2>2. sc' = data /\ (aux <=> data \in AuxBytes)
    BY <1>9, <2>1 DEF DrainData, MainInStep
  <2> QED BY <2>1, <2>2 DEF MainInStep, Holding
<1>10. CASE EnqCheck
  BY <1>10 DEF EnqCheck, Main, MainInStep, Holding
<1>11. CASE EnqWrite
  <2>1. fila_scancodes'[fila_fim] = sc BY <1>11 DEF EnqWrite, TypeOK
  <2> QED BY <1>11, <2>1 DEF EnqWrite, Main, MainInStep, Holding
<1>12. CASE EnqPublish
  BY <1>12 DEF EnqPublish, Main, MainInStep, Holding
<1>13. CASE DeqTake
  BY <1>13 DEF DeqTake, Main, MainInStep, Holding
<1>14. CASE IdleStep
  BY <1>14 DEF IdleStep, Pause, Halt, Main, MainInStep, Holding
<1>15. CASE UNCHANGED vars
  BY <1>15 DEF vars, MainInStep, Holding
<1> QED BY <1>1, <1>2, <1>3, <1>4, <1>5, <1>6, <1>7, <1>8, <1>9, <1>10,
           <1>11, <1>12, <1>13, <1>14, <1>15
        DEF Next, IsrStep, MainStep, PollStep

(* Only DeqTake hands a byte on; the controller only goes on to later ones. *)
LEMMA HandledUnchanged ==
  ASSUME TypeOK, [Next]_vars, ~DeqTake
  PROVE  /\ dispatched' = dispatched
         /\ \/ data' = data /\ (obf' => obf)
            \/ data' = data + 1 /\ ~obf
<1> USE DEF switches, usbVars, queueVars, kbcVars, mainVars, history
<1>1. CASE KbcPresent
  BY <1>1 DEF KbcPresent
<1>2. CASE IsrStep \/ TimerInterrupt \/ UNCHANGED vars
  BY <1>2 DEF IsrStep, IsrEnter, IsrIteration, IsrExit, TimerInterrupt, vars
<1>3. CASE TopStep \/ IdleStep
  BY <1>3 DEF TopStep, IdleStep, LegacyEnable, LegacyStart, LegacyEnd, SelectUsb,
     FlushStart, FlushEnd, GoPoll, Pause, Halt
<1>4. CASE PollStep
  BY <1>4 DEF PollStep, PollDisabled, PollEnabled, DrainStatus, DrainData, EnqCheck,
     EnqWrite, EnqPublish, DeqCheck
<1> QED BY <1>1, <1>2, <1>3, <1>4 DEF Next, MainStep

(* The oldest byte of the ring joins those handled.                         *)
LEMMA Appended ==
  ASSUME TypeOK, GhostInv, DeqTake
  PROVE  /\ fila_inicio \in Slots /\ fila_fim \in Slots /\ fila_inicio # fila_fim
         /\ pc = "take" /\ pc' = "dequeue" /\ fila_inicio' = Next1(fila_inicio)
         /\ UNCHANGED <<fila_scancodes, fila_fim, data, obf, dropped, flushed>>
         /\ DOMAIN dispatched' = DOMAIN dispatched \cup {Len(dispatched) + 1}
         /\ DOMAIN dispatched = 1..Len(dispatched) /\ Len(dispatched) \in Nat
         /\ dispatched'[Len(dispatched) + 1] = fila_scancodes[fila_inicio]
         /\ \A n \in DOMAIN dispatched : dispatched'[n] = dispatched[n]
<1>1. /\ dispatched' = Append(dispatched, fila_scancodes[fila_inicio])
      /\ dispatched \in Seq(Bytes) /\ fila_scancodes[fila_inicio] \in Bytes
  BY DEF DeqTake, TypeOK
<1>2. /\ fila_inicio \in Slots /\ fila_fim \in Slots /\ fila_inicio # fila_fim
      /\ pc = "take" /\ pc' = "dequeue" /\ fila_inicio' = Next1(fila_inicio)
      /\ UNCHANGED <<fila_scancodes, fila_fim, data, obf, dropped, flushed>>
  BY DEF DeqTake, Main, TypeOK, GhostInv, kbcVars
<1> QED BY <1>1, <1>2

(* What was handled, step by step.                                          *)
LEMMA HandledNext ==
  ASSUME TypeOK, GhostInv, FreshInv, HandledInOrder, ~Switching => InOrder, [Next]_vars
  PROVE  HandledInOrder'
<1>1. CASE ~DeqTake
  <2>1. data \in Nat /\ dispatched \in Seq(Bytes) /\ \A n \in DOMAIN dispatched : dispatched[n] \in Nat
    BY DEF TypeOK, Bytes
  <2> QED BY <1>1, <2>1, HandledUnchanged DEF HandledInOrder, Increasing
<1>2. CASE DeqTake
  <2>1. /\ DOMAIN dispatched' = DOMAIN dispatched \cup {Len(dispatched) + 1}
        /\ DOMAIN dispatched = 1..Len(dispatched) /\ Len(dispatched) \in Nat
        /\ dispatched'[Len(dispatched) + 1] = fila_scancodes[fila_inicio]
        /\ \A n \in DOMAIN dispatched : dispatched'[n] = dispatched[n]
        /\ UNCHANGED <<data, obf>> /\ pc = "take" /\ fila_inicio \in Slots
    BY <1>2, Appended
  <2>2. fila_inicio \in Occupied
    BY <1>2, Appended DEF Occupied, Slots
  <2>3. /\ fila_scancodes[fila_inicio] \notin AuxBytes
        /\ \A n \in DOMAIN dispatched : dispatched[n] < fila_scancodes[fila_inicio]
    BY <2>1, <2>2 DEF InOrder, Switching
  <2>4. fila_scancodes[fila_inicio] <= data /\ (obf => fila_scancodes[fila_inicio] # data)
    BY <2>1 DEF FreshInv
  <2>5. Increasing(dispatched')
    BY <2>1, <2>3 DEF HandledInOrder, Increasing
  <2> QED BY <2>1, <2>3, <2>4, <2>5 DEF HandledInOrder
<1> QED BY <1>1, <1>2

(* A step that leaves the ring and what was handled alone.                  *)
LEMMA OrderKept ==
  ASSUME ~Switching => InOrder, ~Switching' => ~Switching, Holding' => Holding /\ sc' = sc,
         UNCHANGED <<fila_scancodes, fila_inicio, fila_fim, dispatched>>
  PROVE  ~Switching' => InOrder'
<1>1. Occupied' = Occupied BY DEF Occupied
<1>2. \A k \in Slots : Rank(k)' = Rank(k) BY DEF Rank
<1>3. Occupied \subseteq Slots BY DEF Occupied
<1> QED BY <1>1, <1>2, <1>3 DEF InOrder

(* A byte that comes after all others and is queued last.                   *)
LEMMA OrderGrows ==
  ASSUME TypeOK, InOrder, NEW b \in Nat, b \notin AuxBytes, Next1(fila_fim) # fila_inicio,
         \A k \in Occupied : fila_scancodes[k] < b,
         \A n \in DOMAIN dispatched : dispatched[n] < b,
         fila_inicio' = fila_inicio, fila_fim' = Next1(fila_fim), dispatched' = dispatched,
         fila_scancodes' = [fila_scancodes EXCEPT ![fila_fim] = b], ~Holding'
  PROVE  InOrder'
<1>0. fila_inicio \in Slots /\ fila_fim \in Slots /\ fila_scancodes \in [Slots -> Bytes]
  BY DEF TypeOK
<1>1. /\ Occupied' = Occupied \cup {fila_fim} /\ fila_fim \notin Occupied
      /\ \A k \in Slots : Rank(k)' = Rank(k)
      /\ \A k \in Occupied : Rank(k) < Rank(fila_fim)
  BY <1>0, RingGrows
<1>2. Occupied \subseteq Slots BY DEF Occupied
<1>3. \A k \in Slots : Rank(k) \in Nat BY <1>0, RankOfSlot
<1>4. /\ \A k \in Occupied : fila_scancodes'[k] = fila_scancodes[k]
      /\ fila_scancodes'[fila_fim] = b
  BY <1>0, <1>1, <1>2
<1>5. ASSUME NEW k \in Occupied'
      PROVE  /\ fila_scancodes'[k] \notin AuxBytes
             /\ \A n \in DOMAIN dispatched' : dispatched'[n] < fila_scancodes'[k]
  BY <1>1, <1>4 DEF InOrder
<1>6. ASSUME NEW k \in Occupied', NEW l \in Occupied', Rank(k)' < Rank(l)'
      PROVE  fila_scancodes'[k] < fila_scancodes'[l]
  <2>1. k \in Slots /\ l \in Slots /\ Rank(k) < Rank(l) BY <1>0, <1>1, <1>2, <1>6
  <2>2. CASE l = fila_fim
    <3>1. k # fila_fim BY <1>3, <2>1, <2>2
    <3> QED BY <1>1, <1>4, <2>2, <3>1
  <2>3. CASE l # fila_fim
    <3>1. l \in Occupied BY <1>1, <2>3
    <3>2. k # fila_fim BY <1>1, <1>3, <2>1, <3>1
    <3> QED BY <1>1, <1>4, <2>1, <3>1, <3>2 DEF InOrder
  <2> QED BY <2>2, <2>3
<1> QED BY <1>5, <1>6 DEF InOrder

(* Order in the ring, step by step.                                         *)
LEMMA InOrderNext ==
  ASSUME TypeOK, GhostInv, FreshInv, HandledInOrder, MainInStep, ~Switching => InOrder,
         [Next]_vars, ~raced'
  PROVE  ~Switching' => InOrder'
<1> USE DEF switches, usbVars, queueVars, kbcVars, mainVars, history
<1>0. /\ fila_inicio \in Slots /\ fila_fim \in Slots /\ data \in Nat /\ sc \in Nat
      /\ fila_scancodes \in [Slots -> Bytes] /\ Occupied \subseteq Slots
      /\ \A k \in Slots : fila_scancodes[k] \in Nat
      /\ \A n \in DOMAIN dispatched : dispatched[n] \in Nat
  BY DEF TypeOK, Bytes, Occupied
<1>1. CASE KbcPresent \/ IsrExit
  BY <1>1, OrderKept DEF KbcPresent, IsrExit, Switching, Holding
<1>2. CASE IsrEnter \/ TimerInterrupt
  BY <1>2, OrderKept DEF IsrEnter, TimerInterrupt, Switching, Holding
<1>3. CASE IsrIteration
  <2>1. ~Holding /\ pc' = pc /\ dispatched' = dispatched
    BY <1>3, IsrUnraced DEF IsrIteration, MainMidDrain, Holding
  <2>2. CASE UNCHANGED <<fila_scancodes, fila_inicio, fila_fim>>
    BY <2>1, <2>2, OrderKept DEF Switching, Holding
  <2>3. CASE /\ Next1(fila_fim) # fila_inicio /\ data \notin AuxBytes
             /\ fila_scancodes' = [fila_scancodes EXCEPT ![fila_fim] = data]
             /\ fila_fim' = Next1(fila_fim)
             /\ fila_inicio' = fila_inicio
    <3> SUFFICES ASSUME ~Switching PROVE InOrder'
      BY <2>1 DEF Switching
    <3>1. obf BY <1>3 DEF IsrIteration
    <3>2. \A k \in Occupied : fila_scancodes[k] < data
      BY <1>0, <3>1 DEF FreshInv
    <3>3. \A n \in DOMAIN dispatched : dispatched[n] < data
      BY <1>0, <3>1 DEF HandledInOrder
    <3>4. ~Holding' BY <2>1 DEF Holding
    <3> QED BY <1>0, <2>1, <2>3, <3>2, <3>3, <3>4, OrderGrows
  <2> QED BY <1>3, <2>2, <2>3 DEF IsrIteration, EnqueueAtomic
<1>4. CASE LegacyEnable \/ SelectUsb \/ GoPoll
  BY <1>4, OrderKept DEF LegacyEnable, SelectUsb, GoPoll, Main, Switching, Holding
<1>5. CASE LegacyStart \/ FlushStart
  BY <1>5 DEF LegacyStart, FlushStart, Main, Switching
<1>6. CASE LegacyEnd \/ FlushEnd
  <2>1. fila_inicio' = 0 /\ fila_fim' = 0 /\ pc' = "poll"
    BY <1>6 DEF LegacyEnd, FlushEnd, Main, GhostInv, Switching
  <2>2. Occupied' = {} BY <2>1 DEF Occupied, Slots
  <2> QED BY <2>1, <2>2 DEF InOrder, Holding
<1>7. CASE PollDisabled \/ PollEnabled \/ DrainStatus \/ DeqCheck
  BY <1>7, OrderKept DEF PollDisabled, PollEnabled, DrainStatus, DeqCheck, Main,
     Switching, Holding
<1>8. CASE DrainData
  <2>1. /\ pc = "data" /\ pc' \in {"status", "check"} /\ sc' = data
        /\ UNCHANGED <<fila_scancodes, fila_inicio, fila_fim, dispatched>>
    BY <1>8 DEF DrainData, Main
  <2>2. obf BY <2>1 DEF MainInStep
  <2>3. Occupied' = Occupied /\ \A k \in Slots : Rank(k)' = Rank(k)
    BY <2>1 DEF Occupied, Rank
  <2>4. \A k \in Occupied : fila_scancodes[k] < data
    BY <1>0, <2>2 DEF FreshInv
  <2>5. \A n \in DOMAIN dispatched : dispatched[n] < data
    BY <1>0, <2>2 DEF HandledInOrder
  <2> QED BY <1>0, <2>1, <2>3, <2>4, <2>5 DEF InOrder, Switching
<1>9. CASE EnqCheck
  BY <1>9, OrderKept DEF EnqCheck, Main, Switching, Holding
<1>10. CASE EnqWrite
  <2>1. /\ pc = "write" /\ pc' = "publish"
        /\ fila_scancodes' = [fila_scancodes EXCEPT ![fila_fim] = sc]
        /\ UNCHANGED <<fila_inicio, fila_fim, sc, dispatched>>
    BY <1>10 DEF EnqWrite, Main
  <2>2. fila_fim \notin Occupied BY <1>0 DEF Occupied, Slots
  <2>3. \A k \in Occupied : fila_scancodes'[k] = fila_scancodes[k]
    BY <1>0, <2>1, <2>2
  <2>4. Occupied' = Occupied /\ \A k \in Slots : Rank(k)' = Rank(k)
    BY <2>1 DEF Occupied, Rank
  <2> QED BY <1>0, <2>1, <2>3, <2>4 DEF InOrder, Switching, Holding
<1>11. CASE EnqPublish
  <2>1. /\ pc = "publish" /\ pc' = "status" /\ fila_fim' = Next1(fila_fim)
        /\ Next1(fila_fim) # fila_inicio /\ fila_scancodes[fila_fim] = sc
        /\ UNCHANGED <<fila_scancodes, fila_inicio, dispatched>> /\ sc \notin AuxBytes
    BY <1>11 DEF EnqPublish, Main, MainInStep, Holding
  <2>2. fila_scancodes' = [fila_scancodes EXCEPT ![fila_fim] = sc]
    BY <1>0, <2>1
  <2>3. InOrder BY <2>1 DEF Switching
  <2>4. /\ \A k \in Occupied : fila_scancodes[k] < sc
        /\ \A n \in DOMAIN dispatched : dispatched[n] < sc
    BY <2>1, <2>3 DEF InOrder, Holding
  <2>5. ~Holding' BY <2>1 DEF Holding
  <2> QED BY <1>0, <2>1, <2>2, <2>3, <2>4, <2>5, OrderGrows
<1>12. CASE DeqTake
  <2>1. /\ fila_inicio # fila_fim /\ fila_inicio' = Next1(fila_inicio)
        /\ pc = "take" /\ pc' = "dequeue" /\ UNCHANGED <<fila_scancodes, fila_fim>>
        /\ DOMAIN dispatched' = DOMAIN dispatched \cup {Len(dispatched) + 1}
        /\ dispatched'[Len(dispatched) + 1] = fila_scancodes[fila_inicio]
        /\ \A n \in DOMAIN dispatched : dispatched'[n] = dispatched[n]
    BY <1>12, Appended
  <2>2. InOrder BY <2>1 DEF Switching
  <2>3. /\ Occupied' = Occupied \ {fila_inicio} /\ fila_inicio \in Occupied
        /\ Rank(fila_inicio) = 0
        /\ \A k \in Slots : k # fila_inicio => Rank(k) = Rank(k)' + 1
    BY <1>0, <2>1, RingShrinks
  <2>4. \A k \in Slots : Rank(k) \in Nat /\ (Rank(k) = 0 <=> k = fila_inicio)
    BY <1>0, RankOfSlot
  <2>5. \A k \in Occupied' : Rank(k)' \in Int /\ Rank(k) = Rank(k)' + 1
    <3>1. \A k \in Slots : Rank(k)' \in Int
      <4>1. fila_inicio' \in Slots BY <1>0, <2>1, NextSlot
      <4> QED BY <4>1 DEF Rank, Slots
    <3> QED BY <1>0, <2>3, <3>1
  <2>6. ASSUME NEW k \in Occupied'
        PROVE  /\ fila_scancodes'[k] \notin AuxBytes
               /\ \A n \in DOMAIN dispatched' : dispatched'[n] < fila_scancodes'[k]
    <3>1. k \in Occupied /\ k # fila_inicio /\ k \in Slots BY <1>0, <2>3
    <3>2. Rank(fila_inicio) < Rank(k) BY <2>3, <2>4, <3>1
    <3>3. fila_scancodes[fila_inicio] < fila_scancodes[k]
      BY <2>2, <2>3, <3>1, <3>2 DEF InOrder
    <3> QED BY <2>1, <2>2, <3>1, <3>3 DEF InOrder
  <2>7. ASSUME NEW k \in Occupied', NEW l \in Occupied', Rank(k)' < Rank(l)'
        PROVE  fila_scancodes'[k] < fila_scancodes'[l]
    <3>1. k \in Occupied /\ l \in Occupied BY <2>3
    <3>2. Rank(k) < Rank(l) BY <2>5, <2>7
    <3> QED BY <2>1, <2>2, <3>1, <3>2 DEF InOrder
  <2> QED BY <2>1, <2>6, <2>7 DEF InOrder, Holding
<1>13. CASE IdleStep
  BY <1>13, OrderKept DEF IdleStep, Pause, Halt, Main, Switching, Holding
<1>14. CASE UNCHANGED vars
  BY <1>14, OrderKept DEF vars, Switching, Holding
<1> QED BY <1>1, <1>2, <1>3, <1>4, <1>5, <1>6, <1>7, <1>8, <1>9, <1>10,
           <1>11, <1>12, <1>13, <1>14
        DEF Next, IsrStep, MainStep, TopStep, PollStep
-----------------------------------------------------------------------------
(* A step that moves no byte, or only more of them out of the way.          *)
LEMMA AccountKept ==
  ASSUME NEW b \in Nat, Accounted(b),
         b = data /\ obf => b = data' /\ obf',
         dispatched' = dispatched, InQueue \subseteq InQueue', pc' = "off2" => pc = "off2",
         b = sc /\ Holding => b = sc' /\ Holding',
         dropped \subseteq dropped', flushed \subseteq flushed'
  PROVE  Accounted(b)'
<1>1. Handled' = Handled BY DEF Handled
<1>2. CASE b = data /\ obf BY <1>2 DEF Accounted
<1>3. CASE b = sc /\ Holding BY <1>3 DEF Accounted
<1>4. CASE b \in Handled BY <1>1, <1>4 DEF Accounted
<1>5. CASE b \in InQueue /\ pc # "off2" BY <1>5 DEF Accounted
<1>6. CASE b \in dropped \cup flushed BY <1>6 DEF Accounted
<1> QED BY <1>2, <1>3, <1>4, <1>5, <1>6 DEF Accounted

(* A byte stored at fila_fim and published is in the ring with the others.  *)
LEMMA QueueGrows ==
  ASSUME TypeOK, Next1(fila_fim) # fila_inicio, NEW b \in Nat,
         fila_scancodes' = [fila_scancodes EXCEPT ![fila_fim] = b],
         fila_inicio' = fila_inicio, fila_fim' = Next1(fila_fim)
  PROVE  InQueue' = InQueue \cup {b}
<1>0. fila_inicio \in Slots /\ fila_fim \in Slots /\ fila_scancodes \in [Slots -> Bytes]
  BY DEF TypeOK
<1>1. Occupied' = Occupied \cup {fila_fim} /\ fila_fim \notin Occupied
  BY <1>0, RingGrows
<1>2. Occupied \subseteq Slots BY DEF Occupied
<1>3. /\ \A k \in Occupied : fila_scancodes'[k] = fila_scancodes[k]
      /\ fila_scancodes'[fila_fim] = b
  BY <1>0, <1>1, <1>2
<1> QED BY <1>1, <1>3 DEF InQueue

(* Where every byte is, step by step.                                       *)
LEMMA AccountedNext ==
  ASSUME TypeOK, GhostInv, MainInStep, \A b \in 1..data : Accounted(b),
         [Next]_vars, ~raced'
  PROVE  \A b \in 1..data' : Accounted(b)'
<1> USE DEF switches, usbVars, queueVars, kbcVars, mainVars, history
<1>0. /\ fila_inicio \in Slots /\ fila_fim \in Slots /\ data \in Nat /\ sc \in Nat
      /\ fila_scancodes \in [Slots -> Bytes] /\ Occupied \subseteq Slots
  BY DEF TypeOK, Bytes, Occupied
<1>1. CASE KbcPresent
  <2>1. /\ data' = data + 1 /\ obf' /\ ~obf
        /\ UNCHANGED <<fila_scancodes, fila_inicio, fila_fim, dispatched, pc, sc, dropped, flushed>>
    BY <1>1 DEF KbcPresent
  <2>2. InQueue' = InQueue /\ Holding' = Holding
    BY <2>1 DEF InQueue, Occupied, Holding
  <2>3. ASSUME NEW b \in 1..data' PROVE Accounted(b)'
    <3>1. CASE b = data' BY <2>1, <3>1 DEF Accounted
    <3>2. CASE b # data'
      <4>1. b \in 1..data /\ b \in Nat BY <1>0, <2>1, <3>2
      <4> QED BY <2>1, <2>2, <4>1, AccountKept
    <3> QED BY <3>1, <3>2
  <2> QED BY <2>3
<1>2. CASE ~KbcPresent
  <2>1. data' = data
    BY <1>2 DEF Next, IsrStep, MainStep, TopStep, PollStep, IdleStep, IsrEnter,
       IsrIteration, IsrExit, TimerInterrupt, LegacyEnable,
       LegacyStart, LegacyEnd, SelectUsb, FlushStart, FlushEnd, GoPoll,
       PollDisabled, PollEnabled, DrainStatus, DrainData, EnqCheck, EnqWrite,
       EnqPublish, DeqCheck, DeqTake, Pause, Halt, vars
  <2> SUFFICES ASSUME NEW b \in 1..data PROVE Accounted(b)'
    BY <2>1
  <2>2. b \in Nat /\ Accounted(b) BY <1>0
  <2>3. UNCHANGED <<fila_scancodes, fila_inicio, fila_fim>> => InQueue' = InQueue
    BY DEF InQueue, Occupied
  <2>4. CASE IsrEnter \/ TimerInterrupt \/ IsrExit
    BY <2>2, <2>3, <2>4, AccountKept DEF IsrEnter, TimerInterrupt, IsrExit, Holding
  <2>5. CASE IsrIteration
    <3>1. /\ pc \notin {"data", "check", "write", "publish"} /\ UNCHANGED <<pc, data, sc, dispatched>>
          /\ dropped \subseteq dropped' /\ flushed \subseteq flushed'
      BY <2>5, IsrUnraced DEF IsrIteration, MainMidDrain, EnqueueAtomic
    <3>2. CASE b = data /\ obf
      <4>1. CASE data \in dropped' \cup flushed' BY <3>1, <3>2, <4>1 DEF Accounted
      <4>2. CASE data \notin dropped' \cup flushed'
        <5>1. /\ ps2_keyboard_enabled /\ Next1(fila_fim) # fila_inicio
              /\ fila_scancodes' = [fila_scancodes EXCEPT ![fila_fim] = data]
              /\ fila_inicio' = fila_inicio /\ fila_fim' = Next1(fila_fim)
          BY <2>5, <4>2 DEF IsrIteration, EnqueueAtomic
        <5>2. b \in InQueue' BY <1>0, <3>2, <5>1, QueueGrows
        <5>3. pc' # "off2" BY <3>1, <5>1 DEF MainInStep
        <5> QED BY <5>2, <5>3 DEF Accounted
      <4> QED BY <4>1, <4>2
    <3>3. CASE ~(b = data /\ obf)
      <4>1. CASE UNCHANGED <<fila_scancodes, fila_inicio, fila_fim>>
        BY <2>2, <2>3, <3>1, <3>3, <4>1, AccountKept DEF Holding
      <4>2. CASE /\ Next1(fila_fim) # fila_inicio
                 /\ fila_scancodes' = [fila_scancodes EXCEPT ![fila_fim] = data]
                 /\ fila_inicio' = fila_inicio /\ fila_fim' = Next1(fila_fim)
        <5>1. InQueue \subseteq InQueue' BY <1>0, <4>2, QueueGrows
        <5> QED BY <2>2, <3>1, <3>3, <5>1, AccountKept DEF Holding
      <4> QED BY <2>5, <4>1, <4>2 DEF IsrIteration, EnqueueAtomic
    <3> QED BY <3>2, <3>3
  <2>6. CASE LegacyEnable \/ SelectUsb \/ GoPoll
    BY <2>2, <2>3, <2>6, AccountKept DEF LegacyEnable, SelectUsb, GoPoll, Main, Holding
  <2>7. CASE LegacyStart \/ FlushStart \/ LegacyEnd
    <3>1. /\ flushed' = flushed \cup InQueue /\ UNCHANGED <<obf, data, dispatched, dropped>>
          /\ ~Holding /\ pc # "off2"
      BY <2>7 DEF LegacyStart, FlushStart, LegacyEnd, Main, Holding
    <3>2. Handled' = Handled BY <3>1 DEF Handled
    <3> QED BY <2>2, <3>1, <3>2 DEF Accounted
  <2>8. CASE FlushEnd
    <3>1. /\ UNCHANGED <<obf, data, dispatched, dropped, flushed>> /\ ~Holding /\ pc = "off2"
      BY <2>8 DEF FlushEnd, Main, Holding
    <3>2. Handled' = Handled BY <3>1 DEF Handled
    <3> QED BY <2>2, <3>1, <3>2 DEF Accounted
  <2>9. CASE PollDisabled \/ PollEnabled \/ DrainStatus \/ DeqCheck
    BY <2>2, <2>3, <2>9, AccountKept DEF PollDisabled, PollEnabled, DrainStatus, DeqCheck,
       Main, Holding
  <2>10. CASE DrainData
    <3>1. /\ pc = "data" /\ pc' = (IF aux THEN "status" ELSE "check") /\ sc' = data
          /\ dropped' = (IF aux THEN dropped \cup {data} ELSE dropped)
          /\ UNCHANGED <<fila_scancodes, fila_inicio, fila_fim, dispatched, flushed>>
      BY <2>10 DEF DrainData, Main
    <3>2. CASE b = data /\ obf
      <4>1. CASE aux BY <3>1, <3>2, <4>1 DEF Accounted
      <4>2. CASE ~aux BY <3>1, <3>2, <4>2 DEF Accounted, Holding
      <4> QED BY <4>1, <4>2
    <3>3. CASE ~(b = data /\ obf)
      BY <2>2, <2>3, <3>1, <3>3, AccountKept DEF Holding
    <3> QED BY <3>2, <3>3
  <2>11. CASE EnqCheck
    <3>1. /\ pc = "check" /\ pc' = (IF Next1(fila_fim) = fila_inicio THEN "status" ELSE "write")
          /\ dropped' = (IF Next1(fila_fim) = fila_inicio THEN dropped \cup {sc} ELSE dropped)
          /\ UNCHANGED <<fila_scancodes, fila_inicio, fila_fim, obf, data, sc, dispatched, flushed>>
      BY <2>11 DEF EnqCheck, Main
    <3>2. CASE Next1(fila_fim) = fila_inicio
      <4>1. CASE b = sc BY <3>1, <3>2, <4>1 DEF Accounted
      <4>2. CASE b # sc BY <2>2, <2>3, <3>1, <4>2, AccountKept
      <4> QED BY <4>1, <4>2
    <3>3. CASE Next1(fila_fim) # fila_inicio
      BY <2>2, <2>3, <3>1, <3>3, AccountKept DEF Holding
    <3> QED BY <3>2, <3>3
  <2>12. CASE EnqWrite
    <3>1. /\ pc = "write" /\ pc' = "publish"
          /\ fila_scancodes' = [fila_scancodes EXCEPT ![fila_fim] = sc]
          /\ UNCHANGED <<fila_inicio, fila_fim, obf, data, sc, dispatched, dropped, flushed>>
      BY <2>12 DEF EnqWrite, Main
    <3>2. fila_fim \notin Occupied /\ Occupied' = Occupied
      BY <1>0, <3>1 DEF Occupied, Slots
    <3>3. \A k \in Occupied : fila_scancodes'[k] = fila_scancodes[k]
      BY <1>0, <3>1, <3>2
    <3>4. InQueue' = InQueue BY <3>2, <3>3 DEF InQueue
    <3> QED BY <2>2, <3>1, <3>4, AccountKept DEF Holding
  <2>13. CASE EnqPublish
    <3>1. /\ pc = "publish" /\ pc' = "status" /\ fila_fim' = Next1(fila_fim)
          /\ Next1(fila_fim) # fila_inicio /\ fila_scancodes[fila_fim] = sc
          /\ UNCHANGED <<fila_scancodes, fila_inicio, obf, data, sc, dispatched, dropped, flushed>>
      BY <2>13 DEF EnqPublish, Main, MainInStep
    <3>2. fila_scancodes' = [fila_scancodes EXCEPT ![fila_fim] = sc]
      BY <1>0, <3>1
    <3>3. InQueue' = InQueue \cup {sc} BY <1>0, <3>1, <3>2, QueueGrows
    <3>4. CASE b = sc BY <3>1, <3>3, <3>4 DEF Accounted
    <3>5. CASE b # sc BY <2>2, <3>1, <3>3, <3>5, AccountKept
    <3> QED BY <3>4, <3>5
  <2>14. CASE DeqTake
    <3>1. /\ fila_inicio # fila_fim /\ fila_inicio' = Next1(fila_inicio)
          /\ pc = "take" /\ pc' = "dequeue"
          /\ UNCHANGED <<fila_scancodes, fila_fim, data, obf, dropped, flushed>>
          /\ DOMAIN dispatched' = DOMAIN dispatched \cup {Len(dispatched) + 1}
          /\ dispatched'[Len(dispatched) + 1] = fila_scancodes[fila_inicio]
          /\ \A n \in DOMAIN dispatched : dispatched'[n] = dispatched[n]
      BY <2>14, Appended
    <3>2. Occupied' = Occupied \ {fila_inicio} BY <1>0, <3>1, RingShrinks
    <3>3. Handled' = Handled \cup {fila_scancodes[fila_inicio]}
      BY <3>1 DEF Handled
    <3>4. InQueue \subseteq InQueue' \cup {fila_scancodes[fila_inicio]}
      BY <3>1, <3>2 DEF InQueue
    <3> QED BY <2>2, <3>1, <3>3, <3>4 DEF Accounted, Holding
  <2>15. CASE IdleStep
    BY <2>2, <2>3, <2>15, AccountKept DEF IdleStep, Pause, Halt, Main, Holding
  <2>16. CASE UNCHANGED vars
    BY <2>2, <2>3, <2>16, AccountKept DEF vars, Holding
  <2> QED BY <1>2, <2>4, <2>5, <2>6, <2>7, <2>8, <2>9, <2>10, <2>11, <2>12,
             <2>13, <2>14, <2>15, <2>16
          DEF Next, IsrStep, MainStep, TopStep, PollStep
<1> QED BY <1>1, <1>2

LEMMA OrderNext ==
  ASSUME TypeOK, GhostInv, FreshInv, OrderInv, [Next]_vars
  PROVE  OrderInv'
<1> SUFFICES ASSUME ~raced' PROVE OrderInv'
  BY DEF OrderInv
<1>1. ~raced BY RacedForGood
<1>2. /\ HandledInOrder /\ MainInStep /\ (~Switching => InOrder)
      /\ \A b \in 1..data : Accounted(b)
  BY <1>1 DEF OrderInv
<1>3. HandledInOrder' BY <1>2, HandledNext
<1>4. MainInStep' BY <1>2, MainInStepNext
<1>5. ~Switching' => InOrder' BY <1>2, InOrderNext
<1>6. \A b \in 1..data' : Accounted(b)' BY <1>2, AccountedNext
<1> QED BY <1>3, <1>4, <1>5, <1>6 DEF OrderInv

(* Two increasing sequences, the second above the first.                    *)
LEMMA IncreasingConcat ==
  ASSUME NEW s \in Seq(Nat), NEW t \in Seq(Nat), Increasing(s), Increasing(t),
         \A m \in DOMAIN s : \A n \in DOMAIN t : s[m] < t[n]
  PROVE  /\ s \o t \in Seq(Nat) /\ Increasing(s \o t)
         /\ \A m \in DOMAIN (s \o t) :
              \/ \E n \in DOMAIN s : (s \o t)[m] = s[n]
              \/ \E n \in DOMAIN t : (s \o t)[m] = t[n]
<1> DEFINE u == s \o t
<1>1. /\ Len(s) \in Nat /\ Len(t) \in Nat /\ DOMAIN s = 1..Len(s) /\ DOMAIN t = 1..Len(t)
      /\ u \in Seq(Nat) /\ DOMAIN u = 1..(Len(s) + Len(t))
      /\ \A m \in DOMAIN s : s[m] \in Nat
      /\ \A m \in DOMAIN t : t[m] \in Nat
  OBVIOUS
<1>2. ASSUME NEW m \in DOMAIN u
      PROVE  \/ m \in DOMAIN s /\ u[m] = s[m]
             \/ m > Len(s) /\ m - Len(s) \in DOMAIN t /\ u[m] = t[m - Len(s)]
  BY <1>1
<1> HIDE DEF u
<1>3. Increasing(u)
  <2> SUFFICES ASSUME NEW m \in DOMAIN u, NEW n \in DOMAIN u, m < n PROVE u[m] < u[n]
    BY DEF Increasing
  <2>1. CASE n \in DOMAIN s /\ u[n] = s[n]
    <3>1. m \in DOMAIN s /\ u[m] = s[m] BY <1>1, <1>2, <2>1
    <3> QED BY <2>1, <3>1 DEF Increasing
  <2>2. CASE n > Len(s) /\ n - Len(s) \in DOMAIN t /\ u[n] = t[n - Len(s)]
    <3>1. CASE m \in DOMAIN s /\ u[m] = s[m] BY <2>2, <3>1
    <3>2. CASE m > Len(s) /\ m - Len(s) \in DOMAIN t /\ u[m] = t[m - Len(s)]
      <4>1. m - Len(s) < n - Len(s) BY <1>1
      <4> QED BY <2>2, <3>2, <4>1 DEF Increasing
    <3> QED BY <1>2, <3>1, <3>2
  <2> QED BY <1>2, <2>1, <2>2
<1>4. \A m \in DOMAIN u : (\E n \in DOMAIN s : u[m] = s[n]) \/ (\E n \in DOMAIN t : u[m] = t[n])
  BY <1>2
<1> QED BY <1>1, <1>3, <1>4 DEF u

LEMMA OrderSafe == TypeOK /\ GhostInv /\ FreshInv /\ OrderInv => FifoUnlessRaced
<1> SUFFICES ASSUME TypeOK, OrderInv, ~raced, ~Switching
             PROVE  /\ Increasing(dispatched \o Queued \o InHand)
                    /\ \A n \in DOMAIN dispatched : dispatched[n] \notin AuxBytes
                    /\ NothingLost
  BY DEF FifoUnlessRaced
<1> DEFINE C == Cardinality(Occupied)
           slot(n) == (fila_inicio + n - 1) % QSize
<1>1. /\ HandledInOrder /\ InOrder
      /\ \A b \in 1..data : Accounted(b)
  BY DEF OrderInv
<1>2. /\ C \in Nat
      /\ \A n \in 1..C : slot(n) \in Occupied /\ Rank(slot(n)) = n - 1
      /\ \A k \in Occupied : \E n \in 1..C : k = slot(n)
  BY QueuedByRank
<1>3. Queued = [n \in 1..C |-> fila_scancodes[slot(n)]]
  BY DEF Queued
<1> HIDE DEF slot, C
<1>4. Occupied \subseteq Slots /\ fila_scancodes \in [Slots -> Bytes] /\ Bytes \subseteq Nat
  BY DEF Occupied, TypeOK, Bytes
<1>5. /\ Queued \in Seq(Nat) /\ DOMAIN Queued = 1..C
      /\ \A n \in 1..C : Queued[n] = fila_scancodes[slot(n)]
  <2>1. \A n \in 1..C : fila_scancodes[slot(n)] \in Nat BY <1>2, <1>4
  <2>2. [n \in 1..C |-> fila_scancodes[slot(n)]] \in [1..C -> Nat] BY <2>1
  <2>3. \A f \in [1..C -> Nat] : f \in Seq(Nat) BY <1>2
  <2> QED BY <1>3, <2>2, <2>3
<1>6. Increasing(Queued)
  <2> SUFFICES ASSUME NEW m \in 1..C, NEW n \in 1..C, m < n PROVE Queued[m] < Queued[n]
    BY <1>5 DEF Increasing
  <2>1. Rank(slot(m)) < Rank(slot(n)) BY <1>2
  <2> QED BY <1>1, <1>2, <1>5, <2>1 DEF InOrder
<1>7. dispatched \in Seq(Nat) /\ Increasing(dispatched)
  <2>1. dispatched \in Seq(Bytes) BY DEF TypeOK
  <2>2. Len(dispatched) \in Nat /\ dispatched \in [1..Len(dispatched) -> Bytes]
    BY <2>1
  <2>3. dispatched \in [1..Len(dispatched) -> Nat] BY <1>4, <2>2
  <2>4. dispatched \in Seq(Nat) BY <2>2, <2>3
  <2> QED BY <1>1, <2>4 DEF HandledInOrder
<1>8. \A m \in DOMAIN dispatched : \A n \in DOMAIN Queued : dispatched[m] < Queued[n]
  BY <1>1, <1>2, <1>5 DEF InOrder
<1>9. /\ dispatched \o Queued \in Seq(Nat) /\ Increasing(dispatched \o Queued)
      /\ \A m \in DOMAIN (dispatched \o Queued) :
           \/ \E n \in DOMAIN dispatched : (dispatched \o Queued)[m] = dispatched[n]
           \/ \E n \in DOMAIN Queued : (dispatched \o Queued)[m] = Queued[n]
  BY <1>5, <1>6, <1>7, <1>8, IncreasingConcat
<1>10. /\ InHand \in Seq(Nat) /\ Increasing(InHand)
       /\ \A n \in DOMAIN InHand : Holding /\ InHand[n] = sc
       /\ Holding => 1 \in DOMAIN InHand /\ InHand[1] = sc
  <2>1. sc \in Nat BY DEF TypeOK, Bytes
  <2>2. CASE Holding
    <3>1. InHand = <<sc>> BY <2>2 DEF Holding, InHand
    <3> QED BY <2>1, <2>2, <3>1 DEF Increasing
  <2>3. CASE ~Holding
    <3>1. InHand = << >> BY <2>3 DEF Holding, InHand
    <3> QED BY <2>3, <3>1 DEF Increasing
  <2> QED BY <2>2, <2>3
<1>11. \A m \in DOMAIN (dispatched \o Queued) : \A n \in DOMAIN InHand :
          (dispatched \o Queued)[m] < InHand[n]
  <2> SUFFICES ASSUME NEW m \in DOMAIN (dispatched \o Queued), NEW n \in DOMAIN InHand
               PROVE  (dispatched \o Queued)[m] < InHand[n]
    OBVIOUS
  <2>1. Holding /\ InHand[n] = sc BY <1>10
  <2>2. /\ \A k \in Occupied : fila_scancodes[k] < sc
        /\ \A j \in DOMAIN dispatched : dispatched[j] < sc
    BY <1>1, <2>1 DEF InOrder
  <2>3. \A j \in DOMAIN Queued : Queued[j] < sc BY <1>2, <1>5, <2>2
  <2> QED BY <1>9, <2>1, <2>2, <2>3
<1>12. Increasing(dispatched \o Queued \o InHand)
  BY <1>9, <1>10, <1>11, IncreasingConcat
<1>13. NothingLost
  <2> SUFFICES ASSUME NEW b \in 1..data
               PROVE  \/ (b = data /\ obf)
                      \/ \E s \in {dispatched, Queued, InHand} : \E n \in DOMAIN s : s[n] = b
                      \/ b \in dropped \cup flushed
    BY DEF NothingLost
  <2>1. CASE b \in Handled BY <2>1 DEF Handled
  <2>2. CASE b \in InQueue
    <3>1. PICK k \in Occupied : b = fila_scancodes[k] BY <2>2 DEF InQueue
    <3>2. PICK n \in 1..C : k = slot(n) BY <1>2
    <3>3. n \in DOMAIN Queued /\ Queued[n] = b BY <1>5, <3>1, <3>2
    <3> QED BY <3>3
  <2>3. CASE b = sc /\ Holding BY <1>10, <2>3
  <2> QED BY <1>1, <2>1, <2>2, <2>3 DEF Accounted
<1> QED BY <1>1, <1>12, <1>13 DEF HandledInOrder

(* The ring hands on every keyboard byte, in the order the controller sent  *)
(* them, for every size of the ring and any number of bytes, as long as the *)
(* interrupt never took a byte between the main loop's read of the status   *)
(* port and its publication of fila_fim (kbd.c 254-275 and 439-460).        *)
THEOREM FifoOfTheController == Spec => []FifoUnlessRaced
<1>1. Init => TypeOK /\ GhostInv /\ FreshInv /\ OrderInv
  BY TypeInit, GhostInit, FreshInit, OrderInit
<1>2. TypeOK /\ GhostInv /\ FreshInv /\ OrderInv /\ [Next]_vars
        => (TypeOK /\ GhostInv /\ FreshInv /\ OrderInv)'
  BY TypeNext, GhostNext, FreshNext, OrderNext
<1>3. TypeOK /\ GhostInv /\ FreshInv /\ OrderInv => FifoUnlessRaced
  BY OrderSafe
<1> QED BY <1>1, <1>2, <1>3, PTL DEF Spec
-----------------------------------------------------------------------------
(* No byte three times: TwiceInv, relative to TypeOK and GhostInv.          *)

LEMMA PlacesAre ==
  \A p : p \in Places <=> \/ \E n \in DOMAIN dispatched : p = <<"handled", n>>
                          \/ ~Switching /\ \E k \in Occupied : p = <<"queued", k>>
                          \/ Holding /\ p = <<"held", 0>>
BY DEF Places

LEMMA ByteOf ==
  \A n : /\ ByteAt(<<"handled", n>>) = dispatched[n]
         /\ ByteAt(<<"queued", n>>) = fila_scancodes[n]
         /\ ByteAt(<<"held", n>>) = sc
BY DEF ByteAt

LEMMA PlacesTyped == TypeOK => \A p \in Places : ByteAt(p) \in Nat
<1> SUFFICES ASSUME TypeOK, NEW p \in Places PROVE ByteAt(p) \in Nat
  OBVIOUS
<1>1. /\ Bytes \subseteq Nat /\ sc \in Bytes
      /\ \A n \in DOMAIN dispatched : dispatched[n] \in Bytes
      /\ \A k \in Occupied : fila_scancodes[k] \in Bytes
  BY DEF TypeOK, Bytes, Occupied
<1>2. CASE \E n \in DOMAIN dispatched : p = <<"handled", n>>
  BY <1>1, <1>2, ByteOf
<1>3. CASE \E k \in Occupied : p = <<"queued", k>>
  BY <1>1, <1>3, ByteOf
<1>4. CASE p = <<"held", 0>>
  BY <1>1, <1>4, ByteOf
<1> QED BY <1>2, <1>3, <1>4, PlacesAre

LEMMA TwiceInit == Init => TwiceInv
<1> SUFFICES ASSUME Init PROVE TwiceInv
  OBVIOUS
<1>1. DOMAIN dispatched = {} /\ Occupied = {} /\ ~Holding /\ pc = "top"
  BY DEF Init, Occupied, Slots, Holding
<1>2. Places = {} BY <1>1, PlacesAre
<1> QED BY <1>1, <1>2 DEF TwiceInv, NeverThrice, PlacesSeen, ProxInRing

(* A step that takes bytes out of places only.                              *)
LEMMA FewerPlaces ==
  ASSUME dispatched' = dispatched,
         ~Switching' => /\ ~Switching /\ Occupied' \subseteq Occupied
                        /\ \A k \in Occupied' : fila_scancodes'[k] = fila_scancodes[k],
         Holding' => Holding /\ sc' = sc
  PROVE  Places' \subseteq Places /\ \A p \in Places' : ByteAt(p)' = ByteAt(p)
<1> SUFFICES ASSUME NEW p \in Places' PROVE p \in Places /\ ByteAt(p)' = ByteAt(p)
  OBVIOUS
<1>1. \/ \E n \in DOMAIN dispatched' : p = <<"handled", n>>
      \/ ~Switching' /\ \E k \in Occupied' : p = <<"queued", k>>
      \/ Holding' /\ p = <<"held", 0>>
  BY DEF Places
<1>2. CASE \E n \in DOMAIN dispatched' : p = <<"handled", n>>
  BY <1>2, PlacesAre DEF ByteAt
<1>3. CASE ~Switching' /\ \E k \in Occupied' : p = <<"queued", k>>
  BY <1>3, PlacesAre DEF ByteAt
<1>4. CASE Holding' /\ p = <<"held", 0>>
  BY <1>4, PlacesAre DEF ByteAt
<1> QED BY <1>1, <1>2, <1>3, <1>4

LEMMA TwiceFewer ==
  ASSUME TypeOK, TwiceInv,
         Places' \subseteq Places, \A p \in Places' : ByteAt(p)' = ByteAt(p),
         (data' = data /\ (obf' => obf)) \/ (data' = data + 1 /\ ~obf),
         pc' = "data" => obf \/ pc = "data"
  PROVE  NeverThrice' /\ PlacesSeen' /\ (pc' = "data" => AtMostOnePlace(data)')
<1>1. NeverThrice' BY DEF TwiceInv, NeverThrice
<1>2. \A p \in Places : ByteAt(p) \in Nat /\ data \in Nat BY PlacesTyped DEF TypeOK, Bytes
<1>3. PlacesSeen' BY <1>2 DEF TwiceInv, PlacesSeen
<1>4. ASSUME pc' = "data" PROVE AtMostOnePlace(data)'
  <2>1. CASE data' = data /\ obf
    <3>1. \A p \in Places' : ByteAt(p)' # data' BY <2>1 DEF TwiceInv, PlacesSeen
    <3> QED BY <3>1 DEF AtMostOnePlace
  <2>2. CASE data' = data /\ ~obf
    BY <1>4, <2>2 DEF TwiceInv, AtMostOnePlace
  <2>3. CASE data' = data + 1
    <3>1. \A p \in Places' : ByteAt(p)' # data' BY <1>2, <2>3 DEF TwiceInv, PlacesSeen
    <3> QED BY <3>1 DEF AtMostOnePlace
  <2> QED BY <2>1, <2>2, <2>3
<1> QED BY <1>1, <1>3, <1>4

(* A step that moves one byte, from place a to place b.                     *)
LEMMA TwiceMoves ==
  ASSUME TypeOK, TwiceInv, NEW a \in Places, NEW b, Places' \subseteq (Places \ {a}) \cup {b},
         ByteAt(b)' = ByteAt(a),
         \A p \in Places \ {a} : p # b => ByteAt(p)' = ByteAt(p),
         data' = data, obf' = obf, pc' # "data"
  PROVE  NeverThrice' /\ PlacesSeen'
<1> DEFINE old(p) == IF p = b THEN a ELSE p
<1>1. \A p \in Places' : old(p) \in Places /\ ByteAt(p)' = ByteAt(old(p))
  OBVIOUS
<1>2. \A p, q \in Places' : old(p) = old(q) => p = q
  OBVIOUS
<1> HIDE DEF old
<1>3. NeverThrice' BY <1>1, <1>2 DEF TwiceInv, NeverThrice
<1>4. PlacesSeen' BY <1>1 DEF TwiceInv, PlacesSeen
<1> QED BY <1>3, <1>4

(* A step that puts the byte at the data port in a new place a.             *)
LEMMA TwiceNew ==
  ASSUME TypeOK, TwiceInv, NEW a, a \notin Places, Places' \subseteq Places \cup {a},
         AtMostOnePlace(data), obf \/ pc' # "data",
         ByteAt(a)' = data, \A p \in Places : ByteAt(p)' = ByteAt(p),
         data' = data, ~obf'
  PROVE  NeverThrice' /\ PlacesSeen' /\ (pc' = "data" => AtMostOnePlace(data)')
<1>1. \A p \in Places' : IF p = a THEN ByteAt(p)' = data
                         ELSE p \in Places /\ ByteAt(p)' = ByteAt(p)
  OBVIOUS
<1>2. data \in Nat BY DEF TypeOK, Bytes
<1>3. NeverThrice'
  <2> SUFFICES ASSUME NEW p \in Places', NEW q \in Places', NEW r \in Places',
                      ByteAt(p)' = ByteAt(q)', ByteAt(q)' = ByteAt(r)'
               PROVE  p = q \/ q = r \/ p = r
    BY DEF NeverThrice
  <2>1. CASE p # a /\ q # a /\ r # a
    BY <1>1, <2>1 DEF TwiceInv, NeverThrice
  <2>2. CASE p = a
    BY <1>1, <2>2 DEF AtMostOnePlace
  <2>3. CASE q = a
    BY <1>1, <2>3 DEF AtMostOnePlace
  <2>4. CASE r = a
    BY <1>1, <2>4 DEF AtMostOnePlace
  <2> QED BY <2>1, <2>2, <2>3, <2>4
<1>4. PlacesSeen' BY <1>1, <1>2 DEF TwiceInv, PlacesSeen
<1>5. ASSUME pc' = "data" PROVE AtMostOnePlace(data)'
  <2>1. \A p \in Places : ByteAt(p) # data BY <1>5 DEF TwiceInv, PlacesSeen
  <2>2. \A p \in Places' : ByteAt(p)' = data' => p = a BY <1>1, <2>1
  <2> QED BY <2>2 DEF AtMostOnePlace
<1> QED BY <1>3, <1>4, <1>5

(* Where main's copy of fila_fim may point, step by step.                   *)
LEMMA ProxInRingNext ==
  ASSUME TypeOK, ProxInRing, [Next]_vars
  PROVE  ProxInRing'
<1> USE DEF switches, usbVars, queueVars, kbcVars, mainVars, history
<1>0. fila_inicio \in Slots /\ fila_fim \in Slots /\ prox \in Slots /\ Next1(fila_fim) \in Slots
  BY NextSlot DEF TypeOK
<1>1. CASE pc' \notin {"write", "publish"}
  BY <1>1 DEF ProxInRing
<1>2. CASE UNCHANGED <<fila_scancodes, fila_inicio, fila_fim, prox, sc, pc>>
  BY <1>2 DEF ProxInRing, Rank
<1>3. CASE IsrIteration
  <2>1. UNCHANGED <<fila_inicio, prox, sc, pc>>
    BY <1>3 DEF IsrIteration, EnqueueAtomic
  <2>2. CASE UNCHANGED <<fila_scancodes, fila_fim>>
    BY <1>2, <2>1, <2>2
  <2>3. CASE /\ Next1(fila_fim) # fila_inicio /\ fila_fim' = Next1(fila_fim)
    <3> SUFFICES ASSUME pc \in {"write", "publish"}, pc = "publish" => fila_scancodes[fila_fim] = sc \/ Rank(prox) <= Rank(fila_fim),
                        Rank(prox) <= Rank(fila_fim) \/ prox = Next1(fila_fim)
                 PROVE  ProxInRing'
      BY <1>1, <2>1 DEF ProxInRing
    <3>1. Rank(Next1(fila_fim)) = Rank(fila_fim) + 1 BY <1>0, <2>3, RankOfNext
    <3>2. Rank(prox) \in Nat /\ Rank(fila_fim) \in Nat BY <1>0, RankOfSlot
    <3>3. Rank(prox) <= Rank(Next1(fila_fim)) BY <3>1, <3>2
    <3>4. (Rank(prox) <= Rank(fila_fim))' BY <2>1, <2>3, <3>3 DEF Rank
    <3> QED BY <3>4 DEF ProxInRing
  <2> QED BY <1>3, <2>2, <2>3 DEF IsrIteration, EnqueueAtomic
<1>4. CASE EnqCheck
  BY <1>4 DEF EnqCheck, Main, ProxInRing
<1>5. CASE EnqWrite
  <2>1. /\ pc = "write" /\ pc' = "publish" /\ UNCHANGED <<fila_inicio, fila_fim, prox, sc>>
        /\ fila_scancodes'[fila_fim] = sc
    BY <1>0, <1>5 DEF EnqWrite, Main, TypeOK
  <2> QED BY <2>1 DEF ProxInRing, Rank
<1>6. CASE KbcPresent \/ IsrExit \/ UNCHANGED vars
  BY <1>2, <1>6 DEF KbcPresent, IsrExit, vars
<1>7. CASE IsrEnter
  BY <1>1, <1>2, <1>7 DEF IsrEnter
<1>8. CASE TimerInterrupt \/ TopStep \/ IdleStep
  BY <1>1, <1>8 DEF TimerInterrupt, TopStep, IdleStep, LegacyEnable, LegacyStart,
     LegacyEnd, SelectUsb, FlushStart, FlushEnd, GoPoll, Pause, Halt, Main
<1>9. CASE PollDisabled \/ PollEnabled \/ DrainStatus \/ DrainData \/ EnqPublish \/ DeqCheck \/ DeqTake
  BY <1>1, <1>9 DEF PollDisabled, PollEnabled, DrainStatus, DrainData, EnqPublish,
     DeqCheck, DeqTake, Main
<1> QED BY <1>3, <1>4, <1>5, <1>6, <1>7, <1>8, <1>9
        DEF Next, IsrStep, MainStep, PollStep

(* The slots at stake once fila_fim moves.                                  *)
LEMMA RingCut ==
  ASSUME fila_inicio \in Slots, fila_fim \in Slots, NEW f \in Slots, Rank(f) <= Rank(fila_fim),
         fila_inicio' = fila_inicio, fila_fim' = f
  PROVE  Occupied' \subseteq Occupied
<1>1. Occupied = {k \in Slots : Rank(k) < Rank(fila_fim)} BY OccupiedByRank
<1>2. Occupied' \subseteq {k \in Slots : Rank(k) < Rank(f)}
  <2>1. Occupied' = {k \in Slots : IF fila_inicio <= f THEN fila_inicio <= k /\ k < f
                                   ELSE fila_inicio <= k \/ k < f}
    BY DEF Occupied
  <2> QED BY <2>1 DEF Slots, Rank
<1>3. \A k \in Slots : Rank(k) \in Nat BY RankOfSlot
<1> QED BY <1>1, <1>2, <1>3

(* The bytes and their places, step by step.                                *)
LEMMA PlacesNext ==
  ASSUME TypeOK, GhostInv, TwiceInv, [Next]_vars
  PROVE  NeverThrice' /\ PlacesSeen' /\ (pc' = "data" => AtMostOnePlace(data)')
<1> USE DEF switches, usbVars, queueVars, kbcVars, mainVars, history
<1>0. /\ fila_inicio \in Slots /\ fila_fim \in Slots /\ prox \in Slots
      /\ fila_scancodes \in [Slots -> Bytes] /\ Occupied \subseteq Slots
      /\ fila_fim \notin Occupied
  BY DEF TypeOK, Occupied, Slots
<1>1. ASSUME ~DeqTake, pc' = "data" => obf \/ pc = "data",
             ~Switching' => ~Switching /\ Occupied' \subseteq Occupied,
             \A k \in Occupied : fila_scancodes'[k] = fila_scancodes[k],
             Holding' => Holding /\ sc' = sc
      PROVE  NeverThrice' /\ PlacesSeen' /\ (pc' = "data" => AtMostOnePlace(data)')
  <2>1. /\ dispatched' = dispatched
        /\ (data' = data /\ (obf' => obf)) \/ (data' = data + 1 /\ ~obf)
    BY <1>1, HandledUnchanged
  <2>2. /\ Places' \subseteq Places
        /\ \A p \in Places' : ByteAt(p)' = ByteAt(p)
    BY <1>1, <2>1, FewerPlaces
  <2> QED BY <1>1, <2>1, <2>2, TwiceFewer
<1>2. UNCHANGED <<fila_scancodes, fila_inicio, fila_fim>> =>
        /\ Occupied' = Occupied
        /\ \A k \in Occupied : fila_scancodes'[k] = fila_scancodes[k]
  BY DEF Occupied
<1>3. pc # "take" => ~DeqTake BY DEF DeqTake, Main
<1>4. CASE DeqTake
  <2>a. PICK a : a = <<"queued", fila_inicio>> OBVIOUS
  <2>b. PICK b : b = <<"handled", Len(dispatched) + 1>> OBVIOUS
  <2>1. /\ fila_inicio # fila_fim /\ fila_inicio' = Next1(fila_inicio)
        /\ pc = "take" /\ pc' = "dequeue"
        /\ UNCHANGED <<fila_scancodes, fila_fim, data, obf>>
        /\ DOMAIN dispatched' = DOMAIN dispatched \cup {Len(dispatched) + 1}
        /\ DOMAIN dispatched = 1..Len(dispatched) /\ Len(dispatched) \in Nat
        /\ dispatched'[Len(dispatched) + 1] = fila_scancodes[fila_inicio]
        /\ \A n \in DOMAIN dispatched : dispatched'[n] = dispatched[n]
    BY <1>4, Appended
  <2>2. Occupied' = Occupied \ {fila_inicio} /\ fila_inicio \in Occupied
    BY <1>0, <2>1, RingShrinks
  <2>3. a \in Places BY <2>a, <2>1, <2>2, PlacesAre DEF Switching
  <2>4. ByteAt(b)' = ByteAt(a)
    <3>1. ByteAt(b)' = dispatched'[Len(dispatched) + 1] BY <2>b DEF ByteAt
    <3>2. ByteAt(a) = fila_scancodes[fila_inicio] BY <2>a, ByteOf
    <3> QED BY <2>1, <3>1, <3>2
  <2>5. ~Holding /\ ~Holding' /\ ~Switching BY <2>1 DEF Holding, Switching
  <2>6. \A p \in Places' : p = b \/ (p \in Places /\ p # a)
    <3> SUFFICES ASSUME NEW p \in Places' PROVE p = b \/ (p \in Places /\ p # a)
      OBVIOUS
    <3>1. \/ \E n \in DOMAIN dispatched' : p = <<"handled", n>>
          \/ \E k \in Occupied' : p = <<"queued", k>>
      BY <2>5 DEF Places
    <3>2. CASE \E n \in DOMAIN dispatched' : p = <<"handled", n>>
      BY <2>a, <2>b, <2>1, <3>2, PlacesAre
    <3>3. CASE \E k \in Occupied' : p = <<"queued", k>>
      BY <2>a, <2>2, <2>5, <3>3, PlacesAre
    <3> QED BY <3>1, <3>2, <3>3
  <2>7. \A p \in Places \ {a} : ByteAt(p)' = ByteAt(p)
    <3> SUFFICES ASSUME NEW p \in Places PROVE ByteAt(p)' = ByteAt(p)
      OBVIOUS
    <3>1. CASE \E n \in DOMAIN dispatched : p = <<"handled", n>>
      BY <2>1, <3>1 DEF ByteAt
    <3>2. CASE \E k \in Occupied : p = <<"queued", k>>
      BY <2>1, <3>2 DEF ByteAt
    <3> QED BY <2>5, <3>1, <3>2, PlacesAre
  <2>8. Places' \subseteq (Places \ {a}) \cup {b} BY <2>6
  <2>8a. data' = data /\ obf' = obf /\ pc' # "data" BY <2>1
  <2>9. NeverThrice' /\ PlacesSeen' BY <2>8a, <2>3, <2>4, <2>7, <2>8, TwiceMoves
  <2> QED BY <2>1, <2>9
<1>5. CASE KbcPresent
  <2>1. /\ pc' = pc /\ sc' = sc /\ UNCHANGED <<fila_scancodes, fila_inicio, fila_fim, dispatched>>
        /\ data' = data + 1 /\ ~obf
    BY <1>5 DEF KbcPresent
  <2>2. /\ Places' \subseteq Places
        /\ \A p \in Places' : ByteAt(p)' = ByteAt(p)
    BY <1>2, <2>1, FewerPlaces DEF Switching, Holding
  <2> QED BY <2>1, <2>2, TwiceFewer
<1>6. CASE IsrEnter \/ IsrExit \/ TimerInterrupt
  <2>1. /\ ~DeqTake /\ sc' = sc /\ UNCHANGED <<fila_scancodes, fila_inicio, fila_fim>>
        /\ pc' = pc \/ (pc = "hlt" /\ pc' = "top")
    BY <1>6 DEF IsrEnter, IsrExit, TimerInterrupt, DeqTake, Main, Idle
  <2> QED BY <1>1, <1>2, <2>1 DEF Switching, Holding
<1>7. CASE IsrIteration
  <2>1. UNCHANGED <<pc, sc, dispatched, data, fila_inicio>> /\ obf /\ ~obf'
    BY <1>7 DEF IsrIteration, EnqueueAtomic
  <2>2. ~DeqTake BY <1>7 DEF IsrIteration, DeqTake, Main, Idle
  <2>3. CASE UNCHANGED <<fila_scancodes, fila_inicio, fila_fim>>
    BY <1>1, <1>2, <2>1, <2>2, <2>3 DEF Switching, Holding
  <2>4. CASE /\ Next1(fila_fim) # fila_inicio /\ fila_fim' = Next1(fila_fim)
             /\ fila_scancodes' = [fila_scancodes EXCEPT ![fila_fim] = data]
    <3>a. PICK a : a = <<"queued", fila_fim>> OBVIOUS
    <3>1. Occupied' = Occupied \cup {fila_fim} BY <1>0, <2>1, <2>4, RingGrows
    <3>2. /\ \A k \in Occupied : fila_scancodes'[k] = fila_scancodes[k]
          /\ fila_scancodes'[fila_fim] = data
      BY <1>0, <2>4
    <3>3. a \notin Places BY <1>0, <3>a, PlacesAre
    <3>4. Places' \subseteq Places \cup {a}
      <4> SUFFICES ASSUME NEW p \in Places' PROVE p \in Places \/ p = a
        OBVIOUS
      <4>1. \/ \E n \in DOMAIN dispatched : p = <<"handled", n>>
            \/ ~Switching /\ \E k \in Occupied' : p = <<"queued", k>>
            \/ Holding /\ p = <<"held", 0>>
        BY <2>1 DEF Places, Switching, Holding
      <4> QED BY <3>a, <3>1, <4>1, PlacesAre
    <3>5. ByteAt(a)' = data BY <3>a, <3>2 DEF ByteAt
    <3>6. \A p \in Places : ByteAt(p)' = ByteAt(p)
      <4> SUFFICES ASSUME NEW p \in Places PROVE ByteAt(p)' = ByteAt(p)
        OBVIOUS
      <4>1. CASE \E n \in DOMAIN dispatched : p = <<"handled", n>>
        BY <2>1, <4>1 DEF ByteAt
      <4>2. CASE \E k \in Occupied : p = <<"queued", k>>
        BY <3>2, <4>2 DEF ByteAt
      <4>3. CASE p = <<"held", 0>>
        BY <2>1, <4>3 DEF ByteAt
      <4> QED BY <4>1, <4>2, <4>3, PlacesAre
    <3>7. AtMostOnePlace(data)
      BY <2>1 DEF TwiceInv, PlacesSeen, AtMostOnePlace
    <3>8. data' = data /\ (obf \/ pc' # "data") BY <2>1
    <3> QED BY <2>1, <3>3, <3>4, <3>5, <3>6, <3>7, <3>8, TwiceNew
  <2> QED BY <1>7, <2>3, <2>4 DEF IsrIteration, EnqueueAtomic
<1>8. CASE LegacyEnable \/ SelectUsb \/ GoPoll
  <2>1. /\ pc = "top" /\ pc' \in {"legacy1", "off1", "poll"} /\ sc' = sc
        /\ UNCHANGED <<fila_scancodes, fila_inicio, fila_fim>>
    BY <1>8 DEF LegacyEnable, SelectUsb, GoPoll, Main
  <2> QED BY <1>1, <1>2, <1>3, <2>1 DEF Switching, Holding
<1>9. CASE LegacyStart \/ FlushStart
  <2>1. pc' \in {"legacy2", "off2"} /\ pc \in {"legacy1", "off1"} /\ UNCHANGED fila_scancodes
    BY <1>9 DEF LegacyStart, FlushStart, Main
  <2> QED BY <1>1, <1>3, <2>1 DEF Switching, Holding
<1>10. CASE LegacyEnd \/ FlushEnd
  <2>1. /\ pc' = "poll" /\ pc \in {"legacy2", "off2"} /\ sc' = sc
        /\ fila_fim' = 0 /\ fila_inicio' = 0 /\ UNCHANGED <<fila_scancodes, dispatched, data, obf>>
    BY <1>10 DEF LegacyEnd, FlushEnd, Main, GhostInv, Switching
  <2>2. Occupied' = {} BY <2>1 DEF Occupied, Slots
  <2>3. ~Holding' BY <2>1 DEF Holding
  <2>4. \A p \in Places' : \E n \in DOMAIN dispatched : p = <<"handled", n>>
    BY <2>1, <2>2, <2>3 DEF Places
  <2>5. Places' \subseteq Places BY <2>4, PlacesAre
  <2>6. \A p \in Places' : ByteAt(p)' = ByteAt(p) BY <2>1, <2>4 DEF ByteAt
  <2> QED BY <2>1, <2>5, <2>6, TwiceFewer
<1>11. CASE PollDisabled \/ PollEnabled \/ DeqCheck \/ IdleStep
  <2>1. /\ pc \in {"poll", "dequeue", "idle"} /\ pc' \in {"idle", "status", "take", "top", "hlt"}
        /\ sc' = sc /\ UNCHANGED <<fila_scancodes, fila_inicio, fila_fim>>
    BY <1>11 DEF PollDisabled, PollEnabled, DeqCheck, IdleStep, Pause, Halt, Main
  <2> QED BY <1>1, <1>2, <1>3, <2>1 DEF Switching, Holding
<1>12. CASE DrainStatus
  <2>1. /\ pc = "status" /\ pc' \in {"data", "dequeue"} /\ (pc' = "data" => obf)
        /\ sc' = sc /\ UNCHANGED <<fila_scancodes, fila_inicio, fila_fim>>
    BY <1>12 DEF DrainStatus, Main
  <2> QED BY <1>1, <1>2, <1>3, <2>1 DEF Switching, Holding
<1>13. CASE DrainData
  <2>1. /\ pc = "data" /\ pc' \in {"status", "check"} /\ sc' = data /\ ~obf'
        /\ UNCHANGED <<fila_scancodes, fila_inicio, fila_fim, dispatched, data>>
    BY <1>13 DEF DrainData, Main
  <2>2. ~Holding /\ ~Switching /\ ~Switching' BY <2>1 DEF Holding, Switching
  <2> DEFINE a == <<"held", 0>>
  <2>3. a \notin Places BY <2>2, PlacesAre
  <2>4. Places' \subseteq Places \cup {a}
    <3> SUFFICES ASSUME NEW p \in Places' PROVE p \in Places \/ p = a
      OBVIOUS
    <3>1. \/ \E n \in DOMAIN dispatched : p = <<"handled", n>>
          \/ \E k \in Occupied : p = <<"queued", k>>
          \/ p = <<"held", 0>>
      BY <1>2, <2>1 DEF Places
    <3> QED BY <2>2, <3>1, PlacesAre
  <2>5. ByteAt(a)' = data BY <2>1 DEF ByteAt
  <2>6. \A p \in Places : ByteAt(p)' = ByteAt(p)
    <3> SUFFICES ASSUME NEW p \in Places PROVE ByteAt(p)' = ByteAt(p)
      OBVIOUS
    <3>1. CASE \E n \in DOMAIN dispatched : p = <<"handled", n>>
      BY <2>1, <3>1 DEF ByteAt
    <3>2. CASE \E k \in Occupied : p = <<"queued", k>>
      BY <2>1, <3>2 DEF ByteAt
    <3> QED BY <2>2, <3>1, <3>2, PlacesAre
  <2>7. AtMostOnePlace(data) BY <2>1 DEF TwiceInv
  <2> HIDE DEF a
  <2> QED BY <2>1, <2>3, <2>4, <2>5, <2>6, <2>7, TwiceNew
<1>14. CASE EnqCheck
  <2>1. /\ pc = "check" /\ pc' \in {"status", "write"} /\ sc' = sc
        /\ UNCHANGED <<fila_scancodes, fila_inicio, fila_fim>>
    BY <1>14 DEF EnqCheck, Main
  <2> QED BY <1>1, <1>2, <1>3, <2>1 DEF Switching, Holding
<1>15. CASE EnqWrite
  <2>1. /\ pc = "write" /\ pc' = "publish" /\ sc' = sc
        /\ fila_scancodes' = [fila_scancodes EXCEPT ![fila_fim] = sc]
        /\ UNCHANGED <<fila_inicio, fila_fim>>
    BY <1>15 DEF EnqWrite, Main
  <2>2. Occupied' = Occupied BY <2>1 DEF Occupied
  <2>3. \A k \in Occupied : fila_scancodes'[k] = fila_scancodes[k] BY <1>0, <2>1
  <2> QED BY <1>1, <1>3, <2>1, <2>2, <2>3 DEF Switching, Holding
<1>16. CASE EnqPublish
  <2>1. /\ pc = "publish" /\ pc' = "status" /\ fila_fim' = prox
        /\ UNCHANGED <<fila_scancodes, fila_inicio, sc, dispatched, data, obf>>
    BY <1>16 DEF EnqPublish, Main
  <2>2. CASE Rank(prox) <= Rank(fila_fim)
    <3>1. Occupied' \subseteq Occupied BY <1>0, <2>1, <2>2, RingCut
    <3> QED BY <1>1, <1>3, <2>1, <3>1 DEF Switching, Holding
  <2>3. CASE prox = Next1(fila_fim) /\ prox # fila_inicio /\ fila_scancodes[fila_fim] = sc
    <3>a. PICK a : a = <<"held", 0>> OBVIOUS
    <3>b. PICK b : b = <<"queued", fila_fim>> OBVIOUS
    <3>1. Occupied' = Occupied \cup {fila_fim} BY <1>0, <2>1, <2>3, RingGrows
    <3>2. Holding /\ ~Holding' /\ ~Switching BY <2>1 DEF Holding, Switching
    <3>3. a \in Places BY <3>a, <3>2, PlacesAre
    <3>4. Places' \subseteq (Places \ {a}) \cup {b}
      <4> SUFFICES ASSUME NEW p \in Places' PROVE (p \in Places /\ p # a) \/ p = b
        OBVIOUS
      <4>1. \/ \E n \in DOMAIN dispatched : p = <<"handled", n>>
            \/ \E k \in Occupied' : p = <<"queued", k>>
        BY <2>1, <3>2 DEF Places
      <4>2. CASE \E n \in DOMAIN dispatched : p = <<"handled", n>>
        BY <3>a, <4>2, PlacesAre
      <4>3. CASE \E k \in Occupied' : p = <<"queued", k>>
        BY <3>a, <3>b, <3>1, <3>2, <4>3, PlacesAre
      <4> QED BY <4>1, <4>2, <4>3
    <3>5. ByteAt(b)' = ByteAt(a)
      <4>1. ByteAt(b)' = fila_scancodes'[fila_fim] BY <3>b DEF ByteAt
      <4>2. ByteAt(a) = sc BY <3>a, ByteOf
      <4> QED BY <2>1, <2>3, <4>1, <4>2
    <3>6. \A p \in Places \ {a} : ByteAt(p)' = ByteAt(p)
      <4> SUFFICES ASSUME NEW p \in Places PROVE ByteAt(p)' = ByteAt(p)
        OBVIOUS
      <4>1. CASE \E n \in DOMAIN dispatched : p = <<"handled", n>>
        BY <2>1, <4>1 DEF ByteAt
      <4>2. CASE \E k \in Occupied : p = <<"queued", k>>
        BY <2>1, <4>2 DEF ByteAt
      <4>3. CASE p = <<"held", 0>>
        BY <2>1, <4>3 DEF ByteAt
      <4> QED BY <4>1, <4>2, <4>3, PlacesAre
    <3>6a. data' = data /\ obf' = obf /\ pc' # "data" BY <2>1
    <3>7. NeverThrice' /\ PlacesSeen' BY <3>6a, <3>3, <3>4, <3>5, <3>6, TwiceMoves
    <3> QED BY <2>1, <3>7
  <2> QED BY <2>1, <2>2, <2>3 DEF TwiceInv, ProxInRing
<1>17. CASE UNCHANGED vars
  <2>1. /\ pc' = pc /\ sc' = sc /\ UNCHANGED <<fila_scancodes, fila_inicio, fila_fim, dispatched>>
        /\ data' = data /\ obf' = obf
    BY <1>17 DEF vars
  <2>2. /\ Places' \subseteq Places
        /\ \A p \in Places' : ByteAt(p)' = ByteAt(p)
    BY <1>2, <2>1, FewerPlaces DEF Switching, Holding
  <2> QED BY <2>1, <2>2, TwiceFewer
<1> QED BY <1>4, <1>5, <1>6, <1>7, <1>8, <1>9, <1>10, <1>11, <1>12, <1>13,
           <1>14, <1>15, <1>16, <1>17
        DEF Next, IsrStep, MainStep, TopStep, PollStep

LEMMA TwiceNext == TypeOK /\ GhostInv /\ TwiceInv /\ [Next]_vars => TwiceInv'
<1> SUFFICES ASSUME TypeOK, GhostInv, TwiceInv, [Next]_vars PROVE TwiceInv'
  OBVIOUS
<1>1. ProxInRing' BY ProxInRingNext DEF TwiceInv
<1>2. NeverThrice' /\ PlacesSeen' /\ (pc' = "data" => AtMostOnePlace(data)') BY PlacesNext
<1> QED BY <1>1, <1>2 DEF TwiceInv

(* A set without three different members has at most two.                   *)
LEMMA NoThreeMembers ==
  ASSUME NEW S, IsFiniteSet(S), \A x, y, z \in S : x = y \/ y = z \/ x = z
  PROVE  Cardinality(S) <= 2
<1>1. CASE S = {}
  BY <1>1, FS_EmptySet
<1>2. CASE S # {}
  <2>1. PICK x \in S : TRUE BY <1>2
  <2>2. IsFiniteSet(S \ {x}) /\ Cardinality(S \ {x}) = Cardinality(S) - 1
    BY <2>1, FS_RemoveElement
  <2>3. Cardinality(S) \in Nat BY FS_CardinalityType
  <2>4. CASE S \ {x} = {}
    BY <2>2, <2>3, <2>4, FS_EmptySet
  <2>5. CASE S \ {x} # {}
    <3>1. PICK y \in S \ {x} : TRUE BY <2>5
    <3>2. Cardinality((S \ {x}) \ {y}) = Cardinality(S \ {x}) - 1
      BY <2>2, <3>1, FS_RemoveElement
    <3>3. (S \ {x}) \ {y} = {} BY <2>1, <3>1
    <3>4. Cardinality((S \ {x}) \ {y}) = 0 BY <3>3, FS_EmptySet
    <3> QED BY <2>2, <2>3, <3>2, <3>4
  <2> QED BY <2>4, <2>5
<1> QED BY <1>1, <1>2

LEMMA TwiceSafe == TypeOK /\ TwiceInv => AtMostTwice
<1> SUFFICES ASSUME TypeOK, TwiceInv, NEW b \in 1..NBytes
             PROVE  Cardinality({n \in DOMAIN dispatched : dispatched[n] = b}) <= 2
  BY DEF AtMostTwice
<1> DEFINE S == {n \in DOMAIN dispatched : dispatched[n] = b}
<1>1. IsFiniteSet(S)
  <2>1. dispatched \in Seq(Bytes) BY DEF TypeOK
  <2>2. DOMAIN dispatched = 1..Len(dispatched) /\ Len(dispatched) \in Nat BY <2>1
  <2>3. IsFiniteSet(1..Len(dispatched)) BY <2>2, FS_Interval
  <2> QED BY <2>2, <2>3, FS_Subset
<1>2. ASSUME NEW x \in S, NEW y \in S, NEW z \in S PROVE x = y \/ y = z \/ x = z
  <2> DEFINE h(n) == <<"handled", n>>
  <2>1. \A n \in S : h(n) \in Places /\ ByteAt(h(n)) = b BY PlacesAre, ByteOf
  <2>2. \A m, n \in S : h(m) = h(n) => m = n OBVIOUS
  <2> HIDE DEF h, S
  <2>3. h(x) = h(y) \/ h(y) = h(z) \/ h(x) = h(z) BY <2>1 DEF TwiceInv, NeverThrice
  <2> QED BY <2>2, <2>3
<1> HIDE DEF S
<1>3. Cardinality(S) <= 2 BY <1>1, <1>2, NoThreeMembers
<1> QED BY <1>3 DEF S

(* No interleaving of the two producers, of a flush and of a lap of the     *)
(* ring hands one byte to processar_set1 three times, whatever the size of  *)
(* the ring and the number of bytes (kbd.c 254-285 and 426-460).            *)
THEOREM NoByteThrice == Spec => []AtMostTwice
<1>1. Init => TypeOK /\ GhostInv /\ TwiceInv
  BY TypeInit, GhostInit, TwiceInit
<1>2. TypeOK /\ GhostInv /\ TwiceInv /\ [Next]_vars => (TypeOK /\ GhostInv /\ TwiceInv)'
  BY TypeNext, GhostNext, TwiceNext
<1>3. TypeOK /\ TwiceInv => AtMostTwice
  BY TwiceSafe
<1> QED BY <1>1, <1>2, <1>3, PTL DEF Spec
=============================================================================
