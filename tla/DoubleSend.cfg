\* Two ticks that read the same delivery, and no crash.
SPECIFICATION FairSpec
CONSTANTS
  Events = {e1}
  Presses = {p1}
  Ticks = {t1, t2}
  MaxAttempts = 3
  MaxOverlaps = 1
  MaxCrashes = 0
PROPERTIES
  NoDoubleSend
