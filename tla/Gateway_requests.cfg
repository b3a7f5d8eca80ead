\* Two requests of every kind, listings and restarts, and one thread.
SPECIFICATION Spec
CONSTANTS
  Request = {"r1", "r2"}
  Ask <- MCAsk
  MaxThreads = 1
INVARIANTS AnsweredRunIsWorkedOn JiraFindsAnAgent OthersOnlyByTheirOwnId
PROPERTIES RunsEnd ListingIsSafe
