\* Every set of consequences the owner may signal.
SPECIFICATION Spec
CONSTANT Declared <- MCDeclared
INVARIANTS ConsequencesReachTheirTeams HumanForACause
  ComesToOneRecommendation SignedOffLanesAgreed
CHECK_DEADLOCK FALSE
