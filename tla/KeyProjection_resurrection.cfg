\* Two processes, one of which restores from a snapshot that has aged.
CONSTANTS
  k1 = k1
  k2 = k2
  t1 = t1
  n1 = n1
  n2 = n2
  Keys = {k1}
  Tenants = {t1}
  Nodes = {n1, n2}
  Owner <- SameOwner
  MaxGen = 2
  MaxFaults = 0
SPECIFICATION Spec
INVARIANTS RevokedIsGone
CHECK_DEADLOCK FALSE
