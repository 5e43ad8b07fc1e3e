SPECIFICATION Spec
CONSTANTS
  NodeSlots = 3
  MaxBits = 5
  Order = 2
  a1 = a1
  Accounts = {a1}
  NoAccount = NoAccount
  MaxNodes = 5
  WordMax = 5
  Snapshots <- SmallSnapshots
  Times = {0, 1, 2}
  WindowMs = 2
  Required = {0, 1, 2, 3}
INVARIANTS
  TypeOK
  HonestNeverFlagged
  CommitteeIsLive
  PolicedByTheDispatch
  PassedAreLive
CHECK_DEADLOCK FALSE
