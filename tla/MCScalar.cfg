SPECIFICATION Spec
CONSTANTS
  ByteBits = 1
  LimbBytes = 2
  Order = 241
  Factors <- SomeFactors
  Exponents <- SomeExponents
INVARIANTS
  Computes
PROPERTIES
  ReducesByBarrett
