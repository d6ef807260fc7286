------------------------------ MODULE LossyLink ------------------------------
(***************************************************************************)
(* What a transmit path promises: packets are numbered as they are         *)
(* accepted, and each one is delivered at most once and never after a      *)
(* later one.  Packets may be lost; a packet nobody accepted is never      *)
(* delivered.  VlcDriverTx implements it.                                  *)
(***************************************************************************)
EXTENDS Naturals

VARIABLES
  accepted,   \* packets accepted, also the number of the last one
  delivered,  \* packets delivered
  latest      \* the number of the last one delivered

Init == accepted = 0 /\ delivered = 0 /\ latest = 0

Accept == accepted' = accepted + 1 /\ UNCHANGED <<delivered, latest>>

Deliver ==
  /\ latest' \in latest + 1 .. accepted
  /\ delivered' = delivered + 1
  /\ UNCHANGED accepted

Next == Accept \/ Deliver

Spec == Init /\ [][Next]_<<accepted, delivered, latest>>
=============================================================================
