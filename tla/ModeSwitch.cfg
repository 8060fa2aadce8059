SPECIFICATION Spec
CONSTANTS
  Instances <- ModeInstances
  Cards = {"none", "gsm", "cdma"}
INVARIANTS LastCardsRun OneCdmaSlot
PROPERTIES ModeSettles
CHECK_DEADLOCK FALSE
