\* Two runs that leave the balance at the threshold together.
SPECIFICATION Spec
CONSTANTS
  Procs = {c1, c2}
  MaxPayments = 2
  Amount = 2
  Threshold = 0
  Charge = 1
  MaxAttempts = 2
  MaxRuns = 2
  MaxChanges = 0
  MaxFaults = 0
CHECK_DEADLOCK FALSE
PROPERTIES
  NoDoubleCharge
