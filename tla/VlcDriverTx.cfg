\* Three buffers: one filled by vlc_tx, one queued, one free; every buffer
\* is used more than once, and the last packets find the pool both empty and
\* refilled.
CONSTANTS
  Buffers = {b1, b2, b3}
  NULL = NULL
  MaxPackets = 6
SPECIFICATION FairSpec
INVARIANTS TypeOK PoolReady ListsDisjoint
PROPERTIES IsLossyLink QueuedIsWritten StoppedForLackIsWoken
