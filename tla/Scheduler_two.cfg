\* Two VLC transmitters.
CONSTANTS
  N_VLC = 2
  SCALE = 2
  MAX_LENGTH = 2
  MAX_PICKS = 3
SPECIFICATION Spec
INVARIANTS TargetsOnce
