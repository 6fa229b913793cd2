\* Two ticks over the deliveries of a subscription, and a button press.
SPECIFICATION FairSpec
CONSTANTS
  Events = {e1}
  Presses = {p1}
  Ticks = {t1, t2}
  MaxAttempts = 3
  MaxOverlaps = 2
  MaxCrashes = 1
INVARIANTS
  RepeatsBounded
  GivenUpAfterAll
PROPERTIES
  SettledStays
  EveryDeliverySettles
