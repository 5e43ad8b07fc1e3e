SPECIFICATION Spec
CONSTANTS
  N = 11
  P = 13
  Top = 15
  Xs <- CurveX
  Ys <- CurveY
  Calls <- AllCalls
INVARIANTS
  AggregateIsSchnorr
  PopIsSchnorr
  PartialIsEquation
  EvidenceCountsOnce
CHECK_DEADLOCK FALSE
