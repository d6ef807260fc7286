\* Both drivers, every combination of failures, and two processes at the /proc
\* entry; 99 does not fit into an int of 6 bits.  The life of a module ends: it
\* is loaded, refused or gone.
CONSTANTS
  Buffers <- MCBuffers
  PoolBuffers = {b1, b2}
  Writers = {p, q}
  INT_BITS = 6
SPECIFICATION Spec
INVARIANTS WorkerEquipped CleanupReleasesAll FreedOnce ProcHoldsOneWrite
CHECK_DEADLOCK FALSE
