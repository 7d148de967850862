SPECIFICATION Spec
CONSTANTS
  MaxRenders = 2  Events = 2  Retries = 1
CHECK_DEADLOCK FALSE
INVARIANTS NoListenerLeft
