\* A machine that lets no thread wait more than 0.4 s to run.
CONSTANTS
  MaxLate = 4
  Spurious = FALSE
SPECIFICATION Spec
INVARIANTS
  TypeOK
  TrylockFails
  LockShowsTheChange
PROPERTIES
  SignalIsHeard
  Ends
CHECK_DEADLOCK FALSE
