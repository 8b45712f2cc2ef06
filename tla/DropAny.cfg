CONSTANTS
  d1 = d1
  d2 = d2
  t1 = t1
  c1 = c1
  a = a
  b = b
  Procs = {d1, d2, t1}
  Teardowns = {t1}
  Commands = {c1}
  Setters <- AllSetters
  None = None
  Concurrent = FALSE
  Targets = {a, b}
  Unprinted = {a}
  Accept = Accept
  Configs <- DropOneOrBoth
  Envs <- FailuresAndUses
SYMMETRY DaemonSymmetry
SPECIFICATION LifeSpec
INVARIANT
  DropsExact
CHECK_DEADLOCK FALSE
