\* One stream, opened at any moment of the run and possibly abandoned, and one
\* browser that polls.
SPECIFICATION FairSpec
CONSTANTS
  Subscribers = {s1}
  Pollers = {p1}
  MaxEvents = 3
INVARIANTS DoneSnapshotIsWhole
PROPERTIES FeedSpec StreamEnds PollerSeesTheEnd
CHECK_DEADLOCK FALSE
