\* Every sequence of calls on rings of up to 4 slots.
CONSTANTS
  MaxLength = 4
  PtrBytes = 2
  Payloads = {p1, p2}
  NULL = NULL
  Garbage = Garbage
SPECIFICATION Spec
INVARIANTS TypeOK HeadFollowsTail ItemsAreStored
PROPERTY ImplementsFifo
