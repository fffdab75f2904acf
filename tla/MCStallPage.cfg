SPECIFICATION Spec
CONSTANTS
  Slots = {s1}
  Collects = {m1, m2}
  MaxLost = 1
  NoSlot = NoSlot
SYMMETRY MCSymmetry
INVARIANTS
  QuietSynced
CHECK_DEADLOCK FALSE
