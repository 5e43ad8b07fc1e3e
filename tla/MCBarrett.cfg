SPECIFICATION BarrettSpec
CONSTANTS
  H = 128
  N = 241
  Mu = 271
  Products <- NearOrderProducts
INVARIANTS
  InRange
  Correct
