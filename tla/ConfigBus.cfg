\* Two publishers race for the generations of a tenant; one process.
CONSTANTS
  p1 = p1
  p2 = p2
  t1 = t1
  n1 = n1
  Publishers = {p1, p2}
  Tenants = {t1}
  Nodes = {n1}
  MaxGen = 3
  MaxFaults = 2
SPECIFICATION FairSpec
INVARIANTS BusInv
PROPERTIES SnapshotNeverRegresses EveryProcessConverges
