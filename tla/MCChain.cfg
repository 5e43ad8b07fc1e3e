SPECIFICATION Spec
CONSTANTS
  NodeSlots = 2
  MaxBits = 4
  Order = 5
  a1 = a1
  a2 = a2
  a3 = a3
  Accounts = {a1, a2, a3}
  NoAccount = NoAccount
  Callers = {}
  Payloads <- SmallPayloads
  Registries = {}
  Attestations = {}
  NoHint = NoHint
  Garbled = Garbled
  NoCall = NoCall
  Program = Program
  Elsewhere = Elsewhere
  MsPerSecond = 2
  Memberships <- SmallMemberships
  Spares <- SmallSpares
  Bitmaps <- SmallBitmaps
  Grace = 2
  Skew = 1
  MaxTime = 2
  MaxVersions = 2
  Thresholds = {2}
  NoAttestation = NoAttestation
  NoReply = NoReply
INVARIANTS
  TypeOK
  AcceptedByMembers
  SupersededKeysStop
  HonestRoundsVerify
  EvidenceDoesNotAge
  TablesAreAsPublished
  NoGap
CHECK_DEADLOCK FALSE
