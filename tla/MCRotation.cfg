SPECIFICATION Spec
CONSTANTS
  Programs = {here, elsewhere}
  Here = here
  Ids = {a, b}
  Honest = {h1, h2, h3}
  Others = {m}
  Rogue = {rogue}
  Malformed = {junk}
  None = none
  MaxMeant = 3
SYMMETRY Symmetry
INVARIANTS
  KeysAreWhereMeant
  OneSuccessor
  LateProofsAreToldApart
PROPERTIES
  AuthorizedSuccessors
CHECK_DEADLOCK FALSE
