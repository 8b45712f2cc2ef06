CONSTANTS
  m1 = m1
  m2 = m2
  i1 = i1
  i2 = i2
  Macs = {m1, m2}
  IPs = {i1, i2}
  None = None
  LeaseTime = 2
  OfferTime = 1
  Gran = 2
  MaxTime = 5
  Pools <- OnePool
  Envs <- Readable
SPECIFICATION FairSpec
PROPERTIES
  OffersReclaimed
  LeasesReclaimed
