\* Leases lapse: a wake, its repeats and the wake that follows it on one Runner, and one
\* wake that passes from session to session while the agent moves between Runners.
SPECIFICATION PartsSpec
CONSTANTS
  Wakes = {w1, w2}
  Runs = {u1}
  Runners = {r1, r2}
  Records = {d1}
  Polls = {p1}
  Kinds = {"trigger"}
  Exits = {"failed", "ok", "limit_reached"}
  Disruptions = {"lapse", "reassign"}
  MaxClaims = 2
  MaxAttempts = 2
  NoRecord = NoRecord
  NoRunner = NoRunner
  NoRun = NoRun
  NoWake = NoWake
  First = w1
  Home = r1
INVARIANTS
  OneOpenWake
  ClaimedIsReapable
  AttemptsBound
  DoneMeansCommented
  FenceHolds
PROPERTIES
  ImplementsLease
  RewokenOnce
