SPECIFICATION Spec
CONSTANTS
  Capsules = {c1, c2}
  Times = {1, 4, 5, 6}
  Genesis = 2
  Period = 2
  BlockTime = 4
  SecondsPerBlock = 2
  None = None
SYMMETRY CapsuleSymmetry
INVARIANTS
  TypeOK
  OneItemPerCapsule
  UnlocksWithinAPeriod
  KeysArrive
