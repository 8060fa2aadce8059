SPECIFICATION Spec
CONSTANTS
  s1 = s1
  s2 = s2
  Slots = {s1, s2}
  Instances <- RadioInstances
INVARIANTS OneCommandPerSlot PowerSettles
PROPERTIES AllAnswered
CHECK_DEADLOCK FALSE
