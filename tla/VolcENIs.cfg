CONSTANTS
  e1 = e1
  e2 = e2
  e3 = e3
  e4 = e4
  e5 = e5
  e6 = e6
  Enis = {e1, e2, e3, e4, e5, e6}
  None = None
  Count = 2
  Envs <- Environments
  Hand = {e5, e6}
  Elsewhere = {e6}
SYMMETRY NewEniSymmetry
SPECIFICATION Spec
INVARIANTS
  TypeOK
  NoENILost
  TeardownRemovesAll
  AttachedWithinCount
  UnrelatedSpared
CHECK_DEADLOCK FALSE
