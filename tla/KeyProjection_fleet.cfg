\* Two gateway processes that share the databases.
CONSTANTS
  k1 = k1
  k2 = k2
  t1 = t1
  n1 = n1
  n2 = n2
  Keys = {k1, k2}
  Tenants = {t1}
  Nodes = {n1, n2}
  Owner <- SameOwner
  MaxGen = 3
  MaxFaults = 1
SYMMETRY KeyNodeSymmetry
SPECIFICATION Spec
INVARIANTS StatusTruthful FenceSound ActiveIsConfigured
CHECK_DEADLOCK FALSE
