\* Two streams on the one queue: the code does not keep DoneMeansComplete.
SPECIFICATION Spec
CONSTANTS
  Subscribers = {s1, s2}
  Pollers = {}
  MaxEvents = 2
INVARIANT DoneMeansComplete
CHECK_DEADLOCK FALSE
