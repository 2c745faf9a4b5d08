\* SIGINT while nobody types.
CONSTANTS
  Capacity = 1
  Chunk = 1
  MaxSent = 2
  Letter = Letter
  Space = Space
  Newline = Newline
  EofByte = Letter
SPECIFICATION Prob5Spec
PROPERTY CtrlCEndsLoop
