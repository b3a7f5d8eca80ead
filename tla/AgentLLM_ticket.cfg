\* An agent of each tier, every mix of usable providers, ceilings and pins.
SPECIFICATION Spec
CONSTANTS
  Agent <- MCAgent
  Local <- MCLocal
  Cost <- MCCost
  limit = 4
  Env <- MCEnv
  Budgeted = TRUE
INVARIANTS CeilingStopsNextCall RouteIsCheapest GateLosesNothing
