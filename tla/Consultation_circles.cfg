\* Agents that consult up to two others each, down to the limit of the code.
SPECIFICATION FairSpec
CONSTANTS
  Agent <- MCAgent
  Deployed <- MCDeployed
  Asks <- MCAsks
  MaxAsks = 2
  Strays <- MCStrays
  MaxDepth = 3
INVARIANT AnswerTellsWhatIsMissing
PROPERTY QuestionEnds
CHECK_DEADLOCK FALSE
