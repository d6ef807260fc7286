--------------------------- MODULE MCNodeReceiver ---------------------------
(***************************************************************************)
(* NodeReceiver for TLC: the numbers of corrupted frames.                  *)
(***************************************************************************)
EXTENDS NodeReceiver

\* A negative one, one in the rest of the last page, one beyond it.
MCWildNumbers == {-1, MAX_SEQ_NUMBER, MAX_SEQ_NUMBER + PAGE_REST}
=============================================================================
