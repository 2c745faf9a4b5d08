\* The whole test program, with rings of 4 and lists of up to 4 items.
CONSTANTS
  BUF_SIZE = 4
  HALF_LIST_SIZE = 4
  Vals = {u, v}
  MaxFails = 1
  NULL = NULL
  Garbage = Garbage
SPECIFICATION Spec
INVARIANTS TypeOK FreedOnce
PROPERTIES TestsPass PassedTestsLeaveNothing
