CONSTANTS
  n1 = n1
  n2 = n2
  c1 = c1
  c2 = c2
  f1 = f1
  Nodes = {n1, n2}
  Cidrs = {c1, c2}
  Foreign = {f1}
  None = None
  Envs <- GkeEnvs
SYMMETRY GkeSymmetry
SPECIFICATION Spec
INVARIANTS
  TypeOK
  AliasInRange
  ServedBound
PROPERTIES
  ForeignKept
  TeardownUnbinds
