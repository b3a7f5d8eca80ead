SPECIFICATION FairSpec
CONSTANTS
  MaxClicks = 2
  MaxPolls = 3
  LiveTraces <- MCLiveTraces
  RecordedTrace <- MCRecorded
PROPERTIES
  MusicLastsTheReplay
CHECK_DEADLOCK FALSE
