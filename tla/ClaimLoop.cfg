\* The Runner with --concurrency 1 through restarts, and with 2.
SPECIFICATION MCSpec
CONSTANTS
  Wakes = {w1, w2}
  Concurrencies = {1, 2}
  MaxClaims = 3
  MaxRestarts = 1
  NoRecord = NoRecord
CHECK_DEADLOCK FALSE
INVARIANTS
  OneSessionPerWake
  WithinConcurrency
  DiskTellsJobs
PROPERTIES
  NeverRunTwice
  SavedResultKept
  LostSessionStops
  SavedResultSettles
