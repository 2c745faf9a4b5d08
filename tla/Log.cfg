\* Two threads, three signals, both libraries.
CONSTANTS
  Threads = {t1, t2}
  MaxCalls = 2
  MaxSent = 3
  Nobody = Nobody
SPECIFICATION Spec
INVARIANTS TypeOK QuietHandlersNeverStick
PROPERTIES QuietRequestsArePosted
CHECK_DEADLOCK FALSE
