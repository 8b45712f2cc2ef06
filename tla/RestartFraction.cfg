CONSTANTS
  m1 = m1
  m2 = m2
  i1 = i1
  i2 = i2
  Macs = {m1, m2}
  IPs = {i1}
  None = None
  LeaseTime = 3
  OfferTime = 1
  Gran = 3
  MaxTime = 5
  MaxQueue = 2
  Pools <- OneSlot
  Envs <- StopOnly
SYMMETRY FullSymmetry
SPECIFICATION NodeSpec
INVARIANT
  NoDoubleAssignExact
