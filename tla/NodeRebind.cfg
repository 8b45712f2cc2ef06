CONSTANTS
  m1 = m1
  m2 = m2
  i1 = i1
  i2 = i2
  Macs = {m1, m2}
  IPs = {i1, i2}
  None = None
  LeaseTime = 3
  OfferTime = 1
  Gran = 2
  MaxTime = 3
  MaxQueue = 2
  Pools <- TwoPools
  Envs <- DiskFails
SYMMETRY MacSymmetry
SPECIFICATION NodeSpec
INVARIANTS
  AckedDurable
  HeldReserved
