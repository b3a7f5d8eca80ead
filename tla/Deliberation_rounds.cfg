\* Up to two peers, one of them possibly without an agent; three rounds.
SPECIFICATION FairTraceSpec
CONSTANTS
  t0 = t0
  t1 = t1
  t2 = t2
  absent = absent
  c1 = c1
  c2 = c2
  Team <- MCTeam
  Deployed <- MCDeployed
  Implemented <- MCDeployed
  PeerLists <- MCPeerLists
  Concern <- MCConcern
  Answers <- MCAnswers
  MaxRounds = 3
  Owners <- MCOwners
  Listed <- MCListed
  Investigations <- MCInvestigations
  Consequence <- MCConcern
  SignalLists <- MCSignalLists
INVARIANTS TimelineTellsTheRecord DocumentAgrees
  RuledOutForARecommended ConcernIsNewOnce
  QuietFindingIsUnanimous AbsentPeerCostsEveryRound
PROPERTIES TimelineIsAppendOnly BoardSpec Decides
CHECK_DEADLOCK FALSE
