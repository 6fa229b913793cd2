\* A held action and an action of a rule, a run of the rule, two workers, two people, a crash.
SPECIFICATION PromptSpec
CONSTANTS
  Approvals = {a1}
  Direct = {d1}
  Requests = {q1, q2}
  Runs = {x1}
  Ticks = {t1, t2}
  BatchSize = 2
  MaxAttempts = 2
  MaxFailures = 2
  BreakerThreshold = 2
  MaxLate = 0
  MaxCrashes = 1
CHECK_DEADLOCK FALSE
INVARIANTS
  ApprovedIsQueued
  RepeatsBounded
  AttemptsBounded
  StreakIsEarned
PROPERTIES
  HoldsActions
  QueueDrains
