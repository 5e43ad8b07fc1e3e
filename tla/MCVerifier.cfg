SPECIFICATION FairSpec
CONSTANTS
  NodeSlots = 2
  MaxBits = 4
  Order = 3
  a1 = a1
  a2 = a2
  Accounts = {a1, a2}
  NoAccount = NoAccount
  Callers = {c1}
  Payloads <- AllPayloads
  Registries <- WideRegistries
  Attestations <- WideAttestations
  NoHint = NoHint
  Garbled = Garbled
  NoCall = NoCall
INVARIANTS
  TypeOK
  ProvenanceIsSigned
  AdverseNeedsMembers
PROPERTIES
  PolicySpec
  CheapChecksFirst
  EveryCallAnswered
CHECK_DEADLOCK FALSE
