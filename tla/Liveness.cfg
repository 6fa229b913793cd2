\* Every wake and every claim ends.
SPECIFICATION FairSpec
CONSTANTS
  Wakes = {w1}
  Runs = {u1, u2}
  Runners = {r1}
  Records = {d1}
  Polls = {p1}
  Kinds = {"trigger"}
  Exits = {"limit_reached"}
  Disruptions = {"lapse", "stall", "ceiling", "age"}
  MaxClaims = 1
  MaxAttempts = 2
  NoRecord = NoRecord
  NoRunner = NoRunner
  NoRun = NoRun
  NoWake = NoWake
PROPERTIES
  EveryWakeEnds
  EveryClaimEnds
