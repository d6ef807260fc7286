----------------------------- MODULE RingChannel -----------------------------
(***************************************************************************)
(* What a ring of frames between a processor and a PRU promises, whatever  *)
(* its offsets are: a counter of the frames that are published and not yet *)
(* taken.  Publishing adds one, taking removes one, and the ring keeps one *)
(* of its Slots free so that full and empty differ.  TxRing and RxRing     *)
(* implement it with two indices.                                          *)
(***************************************************************************)
EXTENDS Naturals

CONSTANT Slots     \* frames the memory of the ring holds

VARIABLE pending   \* frames published and not taken

Init == pending = 0

Publish == pending < Slots - 1 /\ pending' = pending + 1

Take == pending > 0 /\ pending' = pending - 1

Next == Publish \/ Take

Spec == Init /\ [][Next]_pending
=============================================================================
