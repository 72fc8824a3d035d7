\* Three attempts over the end of a month; the ledger and Redis both may fail.
CONSTANTS
  a1 = a1
  a2 = a2
  a3 = a3
  Attempts = {a1, a2, a3}
  Included = 2
  MaxConcurrent = 2
  MaxCost = 2
  MaxMonth = 2
  MaxLedgerFaults = 1
  MaxRedisFaults = 2
SYMMETRY AttemptSymmetry
SPECIFICATION Spec
INVARIANTS ExhaustedIsRejected OvershootBounded ChargedAtMostOnce
CHECK_DEADLOCK FALSE
