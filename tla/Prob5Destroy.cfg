\* SIGUSR handlers during the shutdown.
CONSTANTS
  Capacity = 0
  Chunk = 1
  MaxSent = 2
  Letter = Letter
  Space = Space
  Newline = Newline
  EofByte = Letter
SPECIFICATION Prob5Spec
PROPERTY NoPostAfterDestroy
