SPECIFICATION Spec
CONSTANTS
  Instances <- RatInstances
INVARIANTS TypeSettles EmergencyReleased RatRestored
PROPERTIES RequestsEnd
CHECK_DEADLOCK FALSE
