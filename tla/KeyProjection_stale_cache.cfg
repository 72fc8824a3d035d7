\* Two processes, one of which applies a change before the other sees it.
CONSTANTS
  k1 = k1
  k2 = k2
  t1 = t1
  n1 = n1
  n2 = n2
  Keys = {k1}
  Tenants = {t1}
  Nodes = {n1, n2}
  Owner <- SameOwner
  MaxGen = 2
  MaxFaults = 0
SPECIFICATION FairSpec
PROPERTY WorksEverywhere
CHECK_DEADLOCK FALSE
