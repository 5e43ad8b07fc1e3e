SPECIFICATION BitmapSpec
CONSTANTS
  ByteBits = 1
  LimbBytes = 2
INVARIANTS
  WordsAreSets
