SPECIFICATION EventLogFairSpec
CONSTANTS
  Events = {good, bad}
  Poison = {bad}
  Producers = {p1, p2}
  Consumers = {w1, w2}
  MaxAttempts = 2
  MaxReplays = 1
  MaxSerial = 4
INVARIANTS
  HandledOnce
  SkippedOnlyOvertaken
PROPERTIES
  EventuallySettled
CHECK_DEADLOCK FALSE
