\* One gateway process that crashes and restarts.
CONSTANTS
  k1 = k1
  k2 = k2
  t1 = t1
  n1 = n1
  Keys = {k1, k2}
  Tenants = {t1}
  Nodes = {n1}
  Owner <- SameOwner
  MaxGen = 4
  MaxFaults = 2
SPECIFICATION FairSpec
INVARIANTS CaughtUpCache
PROPERTIES KeepsPromise Converges WorksEverywhere
CHECK_DEADLOCK FALSE
