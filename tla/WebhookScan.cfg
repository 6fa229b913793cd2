\* Late and timely events, ties, overlapping passes, pauses.
SPECIFICATION FairSpec
CONSTANTS
  Events <- TwoEvents
  Scans = {s1, s2}
  Batch = 1
  Lookback = 2
  AuditBatch = 1
  AuditSpan = 1
  MaxTime = 4
INVARIANTS
  NothingFallsBehind
PROPERTIES
  TimelyIsQueued
  QueuedOrReported
