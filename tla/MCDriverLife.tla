---------------------------- MODULE MCDriverLife ----------------------------
(***************************************************************************)
(* DriverLife for TLC: what the processes write to /proc/vlc.              *)
(***************************************************************************)
EXTENDS DriverLife

\* A number with something behind its newline, a number that does not fit and
\* has no newline, and a character that cannot be read.
MCBuffers == {<<1, 2, NEWLINE, 3>>, <<9, 9>>, <<5, FAULT>>}
=============================================================================
