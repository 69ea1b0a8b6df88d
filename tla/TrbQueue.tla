------------------------------ MODULE TrbQueue ------------------------------
(***************************************************************************)
(* What a ring of TRBs promises to the two sides that share it: entries    *)
(* leave in the order in which they were put, each one once, and at most   *)
(* Bound of them are under way.  TrbRings shows that the interrupt         *)
(* transfer ring and the event ring of src/src/usb_kbd.c implement it.     *)
(***************************************************************************)
EXTENDS Naturals, Sequences

CONSTANT Bound      \* most entries under way

VARIABLE q          \* the entries put and not yet taken

QInit == q = << >>

\* Any entry may be put: q' without its last is q.
Put == /\ Len(q) < Bound
       /\ Len(q') = Len(q) + 1 /\ SubSeq(q', 1, Len(q)) = q

Take == q # << >> /\ q' = Tail(q)

QNext == Put \/ Take

QSpec == QInit /\ [][QNext]_q
=============================================================================
