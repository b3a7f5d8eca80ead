------------------------------ MODULE AgentLLM ------------------------------
(***************************************************************************)
(* The model behind the agents of one process: AgentLLM of llm/client.py,  *)
(* the availability cache of ModelRouter (llm/router.py), the TicketBudget *)
(* of llm/budget.py, and the way agents/base_agent.py enriches a review.   *)
(*                                                                         *)
(* The router is shared by the process and probes a provider once; an      *)
(* agent, which lives for one ticket, resolves its own tier once; the      *)
(* budget is one ticket's.  Providers come and go meanwhile.               *)
(***************************************************************************)
EXTENDS ModelRouter

CONSTANTS
  Agent,
  Env,            \* the environments the process may be started in
  Local,          \* the providers that are probed by opening a socket
  Cost,           \* what a call may be estimated at, and may cost
  limit,          \* limit_usd of a ticket's budget
  Budgeted        \* whether the agents are given a budget

ASSUME AgentLLMAssumption ==
  /\ Cost \subseteq Nat
  /\ limit \in Nat
  /\ Budgeted \in BOOLEAN

VARIABLES
  env,            \* os.environ, fixed at the start
  up,             \* the providers that are usable at this moment
  probed,         \* whether the router has probed the providers
  availability,   \* those that were usable when it did (_availability)
  resolution,     \* per agent, its cached resolution, if any
  call,           \* the call in progress: who, what model, at what estimate
  spent,          \* what the ticket has cost; its budget's total_cost_usd
  last,           \* the cost of its last call
  outcome         \* what the last request for prose came to

vars == <<env, up, probed, availability, resolution, call, spent, last, outcome>>

(* The tier of an agent, and the one at which any agent writes a review.   *)
LLM_TIER(agent) ==
  CASE agent = "mirrormaker"   -> "standard"
    [] agent = "kafka-clients" -> "deep"
    [] OTHER                   -> "small"

LLM_DESIGN_TIER == "deep"

NoCall == [agent |-> NotSet, model |-> NoModel, estimate |-> 0]
Unresolved == ModelSpec("unresolved", "null", "none", 0, 0)

Init ==
  /\ env \in Env
  /\ up \in SUBSET Providers
  /\ availability = {}
  /\ probed = FALSE
  /\ resolution = [a \in Agent |-> Unresolved]
  /\ call = NoCall
  /\ spent = 0
  /\ last = 0
  /\ outcome = "none"

-----------------------------------------------------------------------------
Idle == call = NoCall

(* The local server is started or stopped; an API key stays. *)
ProviderChanges ==
  /\ \E p \in Local : up' = (up \ {p}) \cup ({p} \ up)
  /\ UNCHANGED <<env, availability, probed, resolution, call, spent, last, outcome>>

(* A request of an agent asks the router when the environment does not     *)
(* decide it without; then every provider has been probed.                 *)
Probes(tier) ==
  ~env.disable /\ Requested(tier, env) \in Tier /\ env.pin = NoModel

ProbedAvailability(asked) == IF asked /\ ~probed THEN up ELSE availability

(* The agent's own resolution, from its cache when it has one. *)
Own(agent, available) ==
  IF resolution[agent] # Unresolved THEN resolution[agent]
  ELSE Resolve(LLM_TIER(agent), env, available, up)

(* What a request at the tier of a review comes to: an agent whose own     *)
(* tier that is uses its own resolution, any other the router.  A tier     *)
(* that raises comes to no model: _llm_text takes the exception.           *)
ForReview(agent, own, available) ==
  LET design == IF LLM_DESIGN_TIER = LLM_TIER(agent) THEN own
                ELSE Resolve(LLM_DESIGN_TIER, env, available, up)
  IN  IF design = Raises THEN NoModel ELSE design

(* Mutant: what the call will cost is left out of account. *)
ExceededAlready(estimate) == Budgeted /\ spent >= limit + estimate

would_exceed(estimate) == Budgeted /\ spent + estimate > limit

(* reason: a null resolution and a budget that is used up come to None; an *)
(* unknown tier raises out of reason.                                      *)
Reason(agent, model) ==
  \/ /\ model = Raises
     /\ outcome' = "raised"
     /\ UNCHANGED call
  \/ /\ model = NoModel
     /\ outcome' = "authored"
     /\ UNCHANGED call
  \/ /\ model \notin {Raises, NoModel}
     /\ \E estimate \in Cost :
          IF would_exceed(estimate)
          THEN outcome' = "authored" /\ UNCHANGED call
          ELSE /\ call' = [agent |-> agent, model |-> model, estimate |-> estimate]
               /\ outcome' = "asked"

(* _maybe_enrich_review: when the agent's own resolution is a model, the   *)
(* one for reviews is asked for the prose.  llm_enabled takes an exception *)
(* for "no model".                                                         *)
Enrich(agent) ==
  /\ Idle
  /\ LET asked == Probes(LLM_TIER(agent))
         available == ProbedAvailability(asked)
         own == Own(agent, available)
     IN  /\ availability' = available
         /\ probed' = (probed \/ asked)
         /\ resolution' = [resolution EXCEPT ![agent] =
                             IF own = Raises THEN Unresolved ELSE own]
         /\ IF own \in {NoModel, Raises}
            THEN outcome' = "authored" /\ UNCHANGED call
            ELSE Reason(agent, ForReview(agent, own, available))
  /\ UNCHANGED <<env, up, spent, last>>

(* reason() as a library call, at the agent's own tier. *)
ReasonDirectly(agent) ==
  /\ Idle
  /\ LET asked == Probes(LLM_TIER(agent))
         available == ProbedAvailability(asked)
         own == Own(agent, available)
     IN  /\ availability' = available
         /\ probed' = (probed \/ asked)
         /\ resolution' = [resolution EXCEPT ![agent] =
                             IF own = Raises THEN Unresolved ELSE own]
         /\ Reason(agent, own)
  /\ UNCHANGED <<env, up, spent, last>>

(* The provider answers; the call is recorded although it may turn out to  *)
(* have passed the limit.                                                  *)
Complete ==
  /\ ~Idle
  /\ \E cost \in Cost :
       /\ spent' = spent + cost
       /\ last' = cost
  /\ outcome' \in {"prose", "authored"}     \* an empty text is None too
  /\ call' = NoCall
  /\ UNCHANGED <<env, up, availability, probed, resolution>>

(* complete raises: an outage, a rate limit, a malformed response. *)
Fail ==
  /\ ~Idle
  /\ outcome' = "authored"
  /\ call' = NoCall
  /\ UNCHANGED <<env, up, availability, probed, resolution, spent, last>>

(* The next ticket: new agents and a new budget, the same router. *)
NextTicket ==
  /\ Idle
  /\ resolution' = [a \in Agent |-> Unresolved]
  /\ spent' = 0
  /\ last' = 0
  /\ outcome' = "none"
  /\ UNCHANGED <<env, up, availability, probed, call>>

Next ==
  \/ ProviderChanges \/ Complete \/ Fail \/ NextTicket
  \/ \E agent \in Agent : Enrich(agent) \/ ReasonDirectly(agent)

Spec == Init /\ [][Next]_vars
-----------------------------------------------------------------------------
LedgerTypeOK ==
  /\ spent \in Nat
  /\ last \in Nat
  /\ call \in [agent : Agent \cup {NotSet}, model : Models \cup {NoModel},
              estimate : Nat]

(* "the ceiling stops the next call": a ticket is never charged for a call *)
(* that was begun when its budget was used up, so that at most the last    *)
(* call of a ticket passes the limit, by no more than it was               *)
(* underestimated.                                                         *)
CeilingStopsNextCall ==
  /\ spent - last <= limit
  /\ ~Idle => spent + call.estimate <= limit

(* Whatever the cache, the ceiling on the price and the order of the       *)
(* rules: a request without a pin comes to a model exactly when some       *)
(* available one serves its tier within the ceiling, and no other such     *)
(* model is cheaper.                                                       *)
RouteIsCheapest ==
  \A tier \in Tier :
    Probes(tier) =>
      LET chosen == Resolve(tier, env, availability, up)
          fit == {m \in Models : /\ m.provider \in availability
                                 /\ tier_index(m.tier) >= tier_index(Requested(tier, env))
                                 /\ blended_cost(m) <= env.cap}
      IN  IF fit = {} THEN chosen = NoModel
          ELSE chosen \in fit /\ \A m \in fit : blended_cost(chosen) <= blended_cost(m)

(* An agent asks for the model of a review only when its own tier has a    *)
(* model, and looks for that one once per ticket; the router looks for the *)
(* providers once per process.  Unless a model is pinned, neither cache is *)
(* staler than the other, and the agent loses nothing by not asking: what  *)
(* it remembers is what the router would still find for it, and when that  *)
(* is no model, the router has none for its review either.                 *)
GateLosesNothing ==
  \A agent \in Agent :
    resolution[agent] # Unresolved /\ env.pin = NoModel =>
      /\ resolution[agent] = Resolve(LLM_TIER(agent), env, availability, up)
      /\ resolution[agent] = NoModel =>
           Resolve(LLM_DESIGN_TIER, env, availability, up) = NoModel

(* "`reason()` never raises".  Not kept: a misspelt tier override raises   *)
(* before the call.                                                        *)
ReasonNeverRaises == outcome # "raised"

(* "Hard ceiling; models above it are never selected".  Not kept: a pin is *)
(* returned before the ceiling is looked at.                               *)
CeilingOnPriceIsHard == ~Idle => blended_cost(call.model) <= env.cap
=============================================================================
