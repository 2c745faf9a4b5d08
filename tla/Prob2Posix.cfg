\* A thread kept waiting for 0.5 s, or a wait that returns unsignalled.
CONSTANTS
  MaxLate = 5
  Spurious = TRUE
SPECIFICATION Spec
INVARIANT TrylockFails
CHECK_DEADLOCK FALSE
