SPECIFICATION Spec
CONSTANTS
  NodeSlots = 2
  MaxBits = 4
  Order = 5
  a1 = a1
  a2 = a2
  Accounts = {a1, a2}
  NoAccount = NoAccount
  Callers = {c1, c2}
  Payloads <- PairPayloads
  Registries <- PairRegistries
  Attestations <- PairAttestations
  NoHint = NoHint
  Garbled = Garbled
  NoCall = NoCall
INVARIANTS
  Agreement
  HintDecidesNothing
CHECK_DEADLOCK FALSE
