\* Every tree of processes 0 to 5, one fork and one exit under the walk.
CONSTANTS
  Loaded = 5
  MaxForks = 1
  MaxExits = 1
SPECIFICATION Spec
INVARIANTS TypeOK ListedOnce FindsKernelThreads
PROPERTY WalkEnds
