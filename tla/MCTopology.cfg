SPECIFICATION Spec
CONSTANTS
  CPU_BOUND = 3
  Aff = {1, 2, 3, 4}
  MaxFrames = 4
INVARIANTS
  PresentExact
  FrozenIffCorroborated
