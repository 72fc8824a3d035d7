\* Three attempts of two tenants at two providers, one gateway with a fast clock.
CONSTANTS
  a1 = a1
  a2 = a2
  a3 = a3
  Attempts = {a1, a2, a3}
  TenantOf <- Tenant
  ProviderOf <- Provider
  TenantLimit = 1
  ProviderLimit = 1
  Skew <- OneFastClock
  TTL = 3
  Interval = 1
  MaxTime = 7
  MaxFaults = 2
SPECIFICATION Spec
INVARIANTS SemaphoreInv ReleasedStaysFree AbandonedExpires
CHECK_DEADLOCK FALSE
