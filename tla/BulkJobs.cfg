\* One job of two chunks, the last one short; ticks that overtake each other, a crash.
SPECIFICATION FairSpec
CONSTANTS
  Jobs <- OneJob
  Total = 3
  ChunkSize = 2
  Ticks = {t1, t2}
  Ops <- BothOps
  MaxReaps = 1
  MaxCrashes = 1
CHECK_DEADLOCK FALSE
INVARIANTS
  CountsAgree
  AppliedUnlessFailed
  WorkersBounded
PROPERTIES
  EveryJobSettles
