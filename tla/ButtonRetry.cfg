\* A button press whose first send fails.
SPECIFICATION FairSpec
CONSTANTS
  Events = {e1}
  Presses = {p1}
  Ticks = {t1}
  MaxAttempts = 3
  MaxOverlaps = 0
  MaxCrashes = 0
PROPERTIES
  EveryPressSettles
