\* The whole program while input keeps coming.
CONSTANTS
  Capacity = 1
  Chunk = 1
  MaxSent = 2
  Letter = Letter
  Space = Space
  Newline = Newline
  EofByte = Letter
SPECIFICATION TypingSpec
INVARIANTS ControlTypeOK ExitsWithFullCount
PROPERTIES ImplementsStats InterruptEndsProgram RequestIsServed
