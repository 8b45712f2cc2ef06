CONSTANTS
  m1 = m1
  m2 = m2
  i1 = i1
  i2 = i2
  Macs = {m1, m2}
  IPs = {i1, i2}
  None = None
  LeaseTime = 3
  OfferTime = 2
  Gran = 2
  MaxTime = 7
  Pools <- TwoPools
  Envs <- SafetyEnvs
SYMMETRY MacSymmetry
SPECIFICATION Spec
INVARIANTS
  TypeOK
  SlotsAccounted
  ExclusiveSlots
  GrantedRouted
  NoResurrection
  RoutesExact
