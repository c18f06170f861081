CONSTANTS
  Width = 3
  StringLengths = {3, 4, 5}
  MaxLetters = 34
  BufferSize = 11
SPECIFICATION TextSpec
INVARIANTS
  PrintsTheLetters
  InBounds
