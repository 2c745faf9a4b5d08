\* Every interleaving of the writer, the counter and the printer.
CONSTANTS
  Capacity = 3
  Chunk = 2
  Letter = Letter
  Space = Space
  Newline = Newline
  EofByte = EofByte
SPECIFICATION Spec
INVARIANTS TypeOK CountsThePrefix
PROPERTY PrintsNoPartialCount
