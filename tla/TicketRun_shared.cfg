\* Two streams on the one queue of the run.
SPECIFICATION FairSpec
CONSTANTS
  Subscribers = {s1, s2}
  Pollers = {}
  MaxEvents = 2
INVARIANTS QueueHoldsUntaken NoGapBehindCursor OneDuplicateAtMost
PROPERTY QueueDrains
CHECK_DEADLOCK FALSE
