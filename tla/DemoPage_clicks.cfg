\* Three clicks, and a poll or two before the run is done.
SPECIFICATION FairSpec
CONSTANTS
  MaxClicks = 3
  MaxPolls = 3
  LiveTraces <- MCLiveTraces
  RecordedTrace <- MCRecorded
INVARIANTS OneFlow PageIsTheClicks OverlaysClose BannersAreSeen
  LanesAreTrue
PROPERTY ClicksEnd
CHECK_DEADLOCK FALSE
