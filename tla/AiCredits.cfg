\* A reload, a checkout, runs and expiries on one balance.
SPECIFICATION FairSpec
CONSTANTS
  Procs = {c1, c2}
  MaxPayments = 2
  Amount = 2
  Threshold = 0
  Charge = 3
  MaxAttempts = 2
  MaxRuns = 1
  MaxChanges = 1
  MaxFaults = 1
CHECK_DEADLOCK FALSE
INVARIANTS
  NeverMoreThanPaid
  LedgerMatches
  OneReload
PROPERTIES
  PaidIsCredited
  ReloadEnds
