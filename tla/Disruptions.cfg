\* Everything people and failures do, around one claim: each way a wake may end.
SPECIFICATION Spec
CONSTANTS
  Wakes = {w1}
  Runs = {u1}
  Runners = {r1}
  Records = {NoRecord}
  Polls = {p1}
  Kinds = {"mention"}
  Exits = {"ok", "aborted"}
  Disruptions = {"fail", "die", "toggle", "reassign", "remove", "cancel", "age", "lapse", "ceiling", "stall"}
  MaxClaims = 1
  MaxAttempts = 1
  NoRecord = NoRecord
  NoRunner = NoRunner
  NoRun = NoRun
  NoWake = NoWake
CHECK_DEADLOCK FALSE
INVARIANTS
  HandedOverWithRun
PROPERTIES
  FinishedOwesRewake
