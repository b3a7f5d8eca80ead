-------------------------- MODULE AgentLLMProofs ---------------------------
(***************************************************************************)
(* Proofs about AgentLLM, for any agents, any environments, any costs and  *)
(* any limit of a budget.                                                  *)
(***************************************************************************)
EXTENDS AgentLLM, WellFoundedInduction, TLAPS

(* A call that is begun was let through by the budget. *)
LEMMA ReasonKeepsCeiling ==
  ASSUME NEW agent, NEW model,
         Budgeted, spent \in Nat, Idle, Reason(agent, model)
  PROVE  call' # NoCall => spent + call'.estimate <= limit
  <1>1. CASE model = Raises \/ model = NoModel
    BY <1>1 DEF Reason, Idle
  <1>2. CASE model \notin {Raises, NoModel}
    <2>1. PICK estimate \in Cost :
            IF would_exceed(estimate)
            THEN outcome' = "authored" /\ UNCHANGED call
            ELSE /\ call' = [agent |-> agent, model |-> model, estimate |-> estimate]
                 /\ outcome' = "asked"
      BY <1>2 DEF Reason
    <2>2. CASE would_exceed(estimate)
      BY <2>1, <2>2 DEF Idle
    <2>3. CASE ~would_exceed(estimate)
      BY <2>1, <2>3, AgentLLMAssumption DEF would_exceed
    <2> QED
      BY <2>2, <2>3
  <1> QED
    BY <1>1, <1>2

LEMMA ReasonTypes ==
  ASSUME NEW agent, NEW model,
         call.estimate \in Nat, Reason(agent, model)
  PROVE  call'.estimate \in Nat
  BY AgentLLMAssumption DEF Reason

-----------------------------------------------------------------------------
(* The inductive invariant: the ledger holds amounts, and the ceiling was  *)
(* kept when the last call began.                                          *)
CeilingInv ==
  /\ spent \in Nat
  /\ last \in Nat
  /\ call.estimate \in Nat
  /\ CeilingStopsNextCall

LEMMA InitCeiling == ASSUME Init PROVE CeilingInv
  BY AgentLLMAssumption DEF Init, CeilingInv, CeilingStopsNextCall, NoCall, Idle

LEMMA NextCeiling ==
  ASSUME Budgeted, CeilingInv, [Next]_vars
  PROVE  CeilingInv'
  <1> USE DEF CeilingInv
  <1>1. CASE ProviderChanges \/ UNCHANGED vars
    BY <1>1 DEF ProviderChanges, vars, CeilingStopsNextCall, Idle
  <1>2. CASE Complete
    <2>1. PICK cost \in Cost : spent' = spent + cost /\ last' = cost
      BY <1>2 DEF Complete
    <2>2. cost \in Nat /\ call' = NoCall /\ NoCall.estimate = 0
      BY <1>2, AgentLLMAssumption DEF Complete, NoCall
    (* What had been spent when the call began was within the limit. *)
    <2>3. spent + call.estimate <= limit
      BY <1>2 DEF Complete, CeilingStopsNextCall
    <2>4. spent' - last' <= limit
      BY <2>1, <2>2, <2>3, AgentLLMAssumption
    <2> QED
      BY <2>1, <2>2, <2>4 DEF CeilingStopsNextCall, Idle
  <1>3. CASE Fail
    BY <1>3 DEF Fail, CeilingStopsNextCall, Idle, NoCall
  <1>4. CASE NextTicket
    BY <1>4, AgentLLMAssumption DEF NextTicket, CeilingStopsNextCall, Idle
  <1>5. ASSUME NEW agent \in Agent, Enrich(agent) \/ ReasonDirectly(agent)
        PROVE  CeilingInv'
    <2>1. Idle /\ UNCHANGED <<spent, last>>
      BY <1>5 DEF Enrich, ReasonDirectly
    <2>2. UNCHANGED call \/ \E model : Reason(agent, model)
      BY <1>5 DEF Enrich, ReasonDirectly
    <2>3. call'.estimate \in Nat
      BY <2>2, ReasonTypes
    <2>4. call' # NoCall => spent + call'.estimate <= limit
      BY <2>1, <2>2, ReasonKeepsCeiling DEF Idle
    <2> QED
      BY <2>1, <2>3, <2>4 DEF CeilingStopsNextCall, Idle
  <1> QED
    BY <1>1, <1>2, <1>3, <1>4, <1>5 DEF Next

(* With a budget attached, no ticket is charged for a call that was begun  *)
(* when its budget was used up, whatever calls cost, however wrong the     *)
(* estimates are and whichever providers fail.                             *)
THEOREM CeilingKept ==
  ASSUME Budgeted
  PROVE  Spec => []CeilingStopsNextCall
  <1>1. Init => CeilingInv
    BY InitCeiling
  <1>2. CeilingInv /\ [Next]_vars => CeilingInv'
    BY NextCeiling
  <1>3. CeilingInv => CeilingStopsNextCall
    BY DEF CeilingInv
  <1> QED
    BY <1>1, <1>2, <1>3, PTL DEF Spec

-----------------------------------------------------------------------------
(* The catalog: what its ranking relies on. *)

(* The models and the tiers, entry by entry. *)
LEMMA Entries ==
  \A i \in 1 .. Len(CATALOG) :
    /\ CATALOG[i].input \in Nat
    /\ CATALOG[i].output \in Nat
    /\ CATALOG[i].tier \in Tier
    /\ CATALOG[i] # NoModel
  <1>1. Len(CATALOG) = 12 /\ Len(TIERS) = 4
    BY DEF CATALOG, TIERS
  <1>2. {"nano", "small", "standard", "deep"} \subseteq Tier
    BY <1>1 DEF Tier, TIERS
  <1>3. \A i \in 1 .. 12 :
          /\ CATALOG[i].input \in Nat
          /\ CATALOG[i].output \in Nat
          /\ CATALOG[i].tier \in {"nano", "small", "standard", "deep"}
          /\ CATALOG[i].provider # "null"
    BY DEF CATALOG, ModelSpec
  <1> QED
    BY <1>1, <1>2, <1>3 DEF NoModel, ModelSpec

(* A tier is known by its index, *)
LEMMA TierKnown ==
  /\ \A t \in Tier : tier_index(t) \in 1 .. Len(TIERS) /\ TIERS[tier_index(t)] = t
  /\ Len(TIERS) \in Nat
  /\ tier_index("small") = 2 /\ tier_index("standard") = 3 /\ tier_index("deep") = 4
  <1>1. \A t \in Tier : tier_index(t) \in 1 .. Len(TIERS) /\ TIERS[tier_index(t)] = t
    BY DEF Tier, tier_index
  <1>2. Len(TIERS) = 4
    BY DEF TIERS
  <1>3. "small" \in Tier /\ "standard" \in Tier /\ "deep" \in Tier
    BY <1>2 DEF Tier, TIERS
  <1> QED
    BY <1>1, <1>2, <1>3 DEF TIERS

(* and a model by its place. *)
LEMMA ModelKnown ==
  \A m \in Models :
    /\ blended_cost(m) \in Nat
    /\ is_free(m) => blended_cost(m) = 0
    /\ m.tier \in Tier
    /\ tier_index(m.tier) \in Nat
    /\ Place(m) \in Nat
    /\ CATALOG[Place(m)] = m
    /\ m # NoModel
  <1> SUFFICES ASSUME NEW m \in Models
               PROVE  /\ blended_cost(m) \in Nat
                      /\ is_free(m) => blended_cost(m) = 0
                      /\ m.tier \in Tier
                      /\ tier_index(m.tier) \in Nat
                      /\ Place(m) \in Nat
                      /\ CATALOG[Place(m)] = m
                      /\ m # NoModel
    OBVIOUS
  <1>1. Place(m) \in 1 .. Len(CATALOG) /\ CATALOG[Place(m)] = m
    BY DEF Models, Place
  <1>2. /\ m.input \in Nat /\ m.output \in Nat
        /\ m.tier \in Tier /\ m # NoModel
    BY <1>1, Entries
  <1>3. Len(CATALOG) \in Nat
    BY DEF CATALOG
  <1>4. blended_cost(m) \in Nat /\ (is_free(m) => blended_cost(m) = 0)
    BY <1>2 DEF blended_cost, is_free
  <1> QED
    BY <1>1, <1>2, <1>3, <1>4, TierKnown

(* Whatever models are compared by, some are least. *)
LEMMA LeastExists ==
  ASSUME NEW S, NEW key \in [S -> Nat], S # {}
  PROVE  \E s \in S : \A t \in S : key[s] <= key[t]
  <1> DEFINE V == {key[s] : s \in S}
             R == {p \in Nat \X Nat : p[1] < p[2]}
  <1>1. V \subseteq Nat /\ V # {}
    OBVIOUS
  <1>2. IsWellFoundedOn(R, Nat)
    BY NatLessThanWellFounded DEF OpToRel
  <1>3. PICK v \in V : \A w \in V : <<w, v>> \notin R
    BY <1>1, <1>2, WFMin
  <1>4. ASSUME NEW w \in V PROVE v <= w
    <2> HIDE DEF R, V
    <2>1. <<w, v>> \notin R
      BY <1>3
    <2>2. <<w, v>> \in Nat \X Nat /\ ~(<<w, v>>[1] < <<w, v>>[2])
      BY <1>1, <2>1 DEF R
    <2> QED
      BY <2>2
  <1>5. PICK s \in S : key[s] = v
    OBVIOUS
  <1> QED
    BY <1>4, <1>5

(* Hence the ranking has a first among any models: the least in price,     *)
(* among those the least in tier, among those the first of the catalog.    *)
LEMMA CheapestExists ==
  ASSUME NEW S \in SUBSET Models, S # {}
  PROVE  /\ Cheapest(S) \in S
         /\ \A n \in S : blended_cost(Cheapest(S)) <= blended_cost(n)
  <1>1. PICK m1 \in S : \A n \in S : blended_cost(m1) <= blended_cost(n)
    <2> DEFINE key == [m \in S |-> blended_cost(m)]
    <2>1. key \in [S -> Nat]
      BY ModelKnown
    <2>2. PICK s \in S : \A t \in S : key[s] <= key[t]
      <3> HIDE DEF key
      <3> QED
        BY <2>1, LeastExists
    <2> QED
      BY <2>2
  <1> DEFINE S2 == {n \in S : blended_cost(n) = blended_cost(m1)}
  <1>2. PICK m2 \in S2 : \A n \in S2 : tier_index(m2.tier) <= tier_index(n.tier)
    <2> DEFINE key == [m \in S2 |-> tier_index(m.tier)]
    <2>1. key \in [S2 -> Nat] /\ S2 # {}
      BY ModelKnown
    <2>2. PICK s \in S2 : \A t \in S2 : key[s] <= key[t]
      <3> HIDE DEF key, S2
      <3> QED
        BY <2>1, LeastExists
    <2> QED
      BY <2>2
  <1> DEFINE S3 == {n \in S2 : tier_index(n.tier) = tier_index(m2.tier)}
  <1>3. PICK m \in S3 : \A n \in S3 : Place(m) <= Place(n)
    <2> DEFINE key == [n \in S3 |-> Place(n)]
    <2>1. key \in [S3 -> Nat] /\ S3 # {}
      BY <1>2, ModelKnown
    <2>2. PICK s \in S3 : \A t \in S3 : key[s] <= key[t]
      <3> HIDE DEF key, S3
      <3> QED
        BY <2>1, LeastExists
    <2> QED
      BY <2>2
  <1>4. ASSUME NEW n \in S, n # m
        PROVE  RankedBefore(m, n)
    <2>1. n \in Models /\ m \in Models
      OBVIOUS
    <2>2. CASE n \notin S2
      BY <1>1, <2>1, <2>2, ModelKnown DEF RankedBefore
    <2>3. CASE n \in S2 /\ n \notin S3
      BY <1>2, <2>1, <2>3, ModelKnown DEF RankedBefore
    <2>4. CASE n \in S3
      <3>1. n.tier = m.tier
        BY <2>1, <2>4, ModelKnown, TierKnown
      <3>2. Place(m) # Place(n)
        BY <1>4, <2>1, ModelKnown
      <3> QED
        BY <1>3, <2>1, <2>4, <3>1, <3>2, ModelKnown DEF RankedBefore
    <2> QED
      BY <2>2, <2>3, <2>4
  <1>5. Cheapest(S) \in S /\ \A n \in S \ {Cheapest(S)} : RankedBefore(Cheapest(S), n)
    <2>1. \E c \in S : \A n \in S \ {c} : RankedBefore(c, n)
      BY <1>4
    <2> QED
      BY <2>1 DEF Cheapest
  <1> QED
    <2> SUFFICES ASSUME NEW n \in S
                 PROVE  blended_cost(Cheapest(S)) <= blended_cost(n)
      BY <1>5
    <2>1. Cheapest(S) \in Models /\ n \in Models
      BY <1>5
    <2> QED
      BY <1>5, <2>1, ModelKnown DEF RankedBefore

(* Preferring what is free changes which model is chosen, never its price. *)
LEMMA ChosenIsCheapest ==
  ASSUME NEW candidates \in SUBSET Models, NEW e
  PROVE  LET affordable == {m \in candidates : blended_cost(m) <= e.cap}
             chosen == ChooseModel(candidates, e)
         IN  IF affordable = {} THEN chosen = NoModel
             ELSE /\ chosen \in affordable
                  /\ \A m \in affordable : blended_cost(chosen) <= blended_cost(m)
  <1> DEFINE affordable == {m \in candidates : blended_cost(m) <= e.cap}
             free == {m \in affordable : is_free(m)}
             chosen == ChooseModel(candidates, e)
  <1>1. CASE affordable = {}
    BY <1>1 DEF ChooseModel
  <1>2. CASE affordable # {} /\ e.preferFree /\ free # {}
    <2>1. chosen = Cheapest(free)
      BY <1>2 DEF ChooseModel
    <2>2. chosen \in free
      BY <1>2, <2>1, CheapestExists
    <2>3. blended_cost(chosen) = 0
      BY <2>2, ModelKnown
    <2> QED
      BY <1>2, <2>2, <2>3, ModelKnown
  <1>3. CASE affordable # {} /\ ~(e.preferFree /\ free # {})
    <2>1. chosen = Cheapest(affordable)
      BY <1>3 DEF ChooseModel
    <2> QED
      BY <1>3, <2>1, CheapestExists
  <1> QED
    BY <1>1, <1>2, <1>3

(* A request that is neither switched off, misspelt nor pinned is decided  *)
(* by what is available.                                                   *)
Fitting(tier, e, available) ==
  {m \in Models : /\ m.provider \in available
                  /\ tier_index(m.tier) >= tier_index(Requested(tier, e))
                  /\ blended_cost(m) <= e.cap}

LEMMA Resolved ==
  ASSUME NEW tier, NEW e, NEW available, NEW now,
         ~e.disable, Requested(tier, e) \in Tier, e.pin = NoModel
  PROVE  LET chosen == Resolve(tier, e, available, now)
             fit == Fitting(tier, e, available)
         IN  IF fit = {} THEN chosen = NoModel
             ELSE /\ chosen \in fit
                  /\ \A m \in fit : blended_cost(chosen) <= blended_cost(m)
  <1> DEFINE candidates ==
        {m \in models_for_tier(Requested(tier, e)) : m.provider \in available}
  <1>1. candidates \in SUBSET Models
    BY DEF models_for_tier
  <1>2. Resolve(tier, e, available, now) = ChooseModel(candidates, e)
    BY DEF Resolve
  <1>3. {m \in candidates : blended_cost(m) <= e.cap} = Fitting(tier, e, available)
    BY DEF Fitting, models_for_tier
  <1> HIDE DEF candidates
  <1> QED
    BY <1>1, <1>2, <1>3, ChosenIsCheapest

(* Whatever the environment and whichever providers were available when    *)
(* the router looked, resolve comes to the cheapest model that may serve   *)
(* the request, or to none when there is none.                             *)
THEOREM CheapestRoute == Spec => []RouteIsCheapest
  <1>1. RouteIsCheapest
    BY Resolved DEF RouteIsCheapest, Probes, Fitting
  <1> QED
    BY <1>1, PTL

-----------------------------------------------------------------------------
(* Who is not pinned does not depend on what answers now. *)
LEMMA Unpinned ==
  ASSUME NEW tier, NEW e, NEW available, NEW now, NEW later, e.pin = NoModel
  PROVE  /\ Resolve(tier, e, available, now) = Resolve(tier, e, available, later)
         /\ Resolve(tier, e, available, now) # Raises =>
              e.disable \/ Requested(tier, e) \in Tier
         /\ e.disable => Resolve(tier, e, available, now) = NoModel
  <1>1. NoModel # Raises
    BY DEF NoModel, Raises, ModelSpec
  <1>2. CASE e.disable
    BY <1>2 DEF Resolve
  <1>3. CASE ~e.disable /\ Requested(tier, e) \notin Tier
    BY <1>3 DEF Resolve
  <1>4. CASE ~e.disable /\ Requested(tier, e) \in Tier
    BY <1>4 DEF Resolve
  <1> QED
    BY <1>2, <1>3, <1>4

(* What an agent remembers was found with the providers that the router    *)
(* still goes by: models are switched off, or it has probed and does not   *)
(* look again.                                                             *)
GateInv ==
  /\ resolution = [a \in Agent |-> resolution[a]]
  /\ \A a \in Agent :
       resolution[a] # Unresolved /\ env.pin = NoModel =>
         /\ env.disable \/ (probed /\ Requested(LLM_TIER(a), env) \in Tier)
         /\ resolution[a] = Resolve(LLM_TIER(a), env, availability, up)

LEMMA NextGate == GateInv /\ [Next]_vars => GateInv'
  <1> SUFFICES ASSUME GateInv, [Next]_vars PROVE GateInv'
    OBVIOUS
  <1>1. CASE ProviderChanges \/ Complete \/ Fail \/ UNCHANGED vars
    <2>1. UNCHANGED <<env, availability, probed, resolution>>
      BY <1>1 DEF ProviderChanges, Complete, Fail, vars
    <2>2. ASSUME NEW a \in Agent, env.pin = NoModel
          PROVE  Resolve(LLM_TIER(a), env, availability, up)
                   = Resolve(LLM_TIER(a), env, availability, up')
      BY <2>2, Unpinned
    <2>3. ASSUME NEW a \in Agent PROVE LLM_TIER(a)' = LLM_TIER(a)
      BY DEF LLM_TIER
    <2> QED
      BY <2>1, <2>2, <2>3 DEF GateInv
  <1>2. CASE NextTicket
    BY <1>2 DEF NextTicket, GateInv
  <1>3. ASSUME NEW agent \in Agent, Enrich(agent) \/ ReasonDirectly(agent)
        PROVE  GateInv'
    <2> DEFINE asked == Probes(LLM_TIER(agent))
               available == ProbedAvailability(asked)
               own == Own(agent, available)
    <2>1. /\ availability' = available
          /\ probed' = (probed \/ asked)
          /\ resolution' = [resolution EXCEPT ![agent] =
                              IF own = Raises THEN Unresolved ELSE own]
          /\ env' = env /\ up' = up
      BY <1>3 DEF Enrich, ReasonDirectly
    <2>2. resolution' = [a \in Agent |-> resolution'[a]]
      BY <2>1 DEF GateInv
    <2>3. env.disable \/ probed => available = availability
      BY DEF ProbedAvailability, Probes
    <2> HIDE DEF asked, available
    <2>4. ASSUME NEW a \in Agent, resolution'[a] # Unresolved, env.pin = NoModel
          PROVE  /\ env.disable \/ (probed' /\ Requested(LLM_TIER(a), env) \in Tier)
                 /\ resolution'[a] = Resolve(LLM_TIER(a), env, availability', up)
      <3>1. CASE resolution'[a] = resolution[a]
        BY <2>1, <2>3, <2>4, <3>1 DEF GateInv
      <3>2. CASE resolution'[a] # resolution[a]
        <4>1. a = agent /\ resolution'[a] = own /\ own # Raises
          BY <2>1, <2>4, <3>2 DEF GateInv
        <4>2. own = Resolve(LLM_TIER(a), env, available, up)
          BY <3>2, <4>1 DEF Own
        <4>3. env.disable \/ Requested(LLM_TIER(a), env) \in Tier
          BY <2>4, <4>1, <4>2, Unpinned
        <4>4. env.disable \/ probed'
          BY <2>1, <2>4, <4>1, <4>3 DEF Probes, asked
        <4>5. env.disable \/ (probed' /\ Requested(LLM_TIER(a), env) \in Tier)
          BY <4>3, <4>4
        <4>6. resolution'[a] = Resolve(LLM_TIER(a), env, availability', up)
          <5>1. availability' = available
            BY <2>1
          <5> HIDE DEF own
          <5> QED
            BY <4>1, <4>2, <5>1
        <4> QED
          BY <4>5, <4>6
      <3> QED
        BY <3>1, <3>2
    <2>5. ASSUME NEW a \in Agent PROVE LLM_TIER(a)' = LLM_TIER(a)
      BY DEF LLM_TIER
    <2> QED
      BY <2>1, <2>2, <2>4, <2>5 DEF GateInv
  <1> QED
    BY <1>1, <1>2, <1>3 DEF Next

(* What may serve a review may serve the agent's own, weaker tier. *)
LEMMA NoneForReview ==
  ASSUME NEW agent, env.pin = NoModel, ~env.disable,
         Requested(LLM_TIER(agent), env) \in Tier,
         Resolve(LLM_TIER(agent), env, availability, up) = NoModel
  PROVE  Resolve(LLM_DESIGN_TIER, env, availability, up) = NoModel
  <1> DEFINE own == LLM_TIER(agent)
  <1>1. own \in {"small", "standard", "deep"}
    BY DEF LLM_TIER
  <1> HIDE DEF own
  <1>2. Requested(LLM_DESIGN_TIER, env) \in Tier
    <2>1. "deep" \in Tier
      BY DEF Tier, TIERS
    <2> QED
      BY <2>1 DEF Requested, LLM_DESIGN_TIER, own
  <1>3. tier_index(Requested(own, env)) <= tier_index(Requested(LLM_DESIGN_TIER, env))
    <2>1. CASE env.override = NotSet
      BY <1>1, <2>1, TierKnown DEF Requested, LLM_DESIGN_TIER
    <2>2. CASE env.override # NotSet
      BY <1>2, <2>2, TierKnown DEF Requested
    <2> QED
      BY <2>1, <2>2
  <1>4. Fitting(own, env, availability) = {}
    <2>1. NoModel \notin Fitting(own, env, availability)
      BY ModelKnown DEF Fitting
    <2> QED
      BY <2>1, Resolved DEF own
  <1>5. Fitting(LLM_DESIGN_TIER, env, availability) = {}
    <2> SUFFICES ASSUME NEW m \in Fitting(LLM_DESIGN_TIER, env, availability)
                 PROVE  m \in Fitting(own, env, availability)
      BY <1>4
    <2>1. m \in Models /\ tier_index(m.tier) \in Nat
      BY ModelKnown DEF Fitting
    <2>2. /\ tier_index(Requested(own, env)) \in Nat
          /\ tier_index(Requested(LLM_DESIGN_TIER, env)) \in Nat
      BY <1>2, TierKnown DEF own
    <2> QED
      BY <1>3, <2>1, <2>2 DEF Fitting
  <1> QED
    BY <1>2, <1>5, Resolved

(* What an agent without a pin remembers is what the router would still    *)
(* find for it, and an agent that found no model has none for its review   *)
(* either, for any agents, environments and order of outages.              *)
THEOREM NothingLost == Spec => []GateLosesNothing
  <1>1. Init => GateInv
    BY DEF Init, GateInv
  <1>2. GateInv /\ [Next]_vars => GateInv'
    BY NextGate
  <1>3. GateInv => GateLosesNothing
    <2> SUFFICES ASSUME GateInv, NEW agent \in Agent,
                        resolution[agent] # Unresolved, env.pin = NoModel
                 PROVE  /\ resolution[agent] = Resolve(LLM_TIER(agent), env, availability, up)
                        /\ resolution[agent] = NoModel =>
                             Resolve(LLM_DESIGN_TIER, env, availability, up) = NoModel
      BY DEF GateLosesNothing
    <2>1. CASE env.disable
      BY <2>1, Unpinned DEF GateInv
    <2>2. CASE ~env.disable
      BY <2>2, NoneForReview DEF GateInv
    <2> QED
      BY <2>1, <2>2
  <1> QED
    BY <1>1, <1>2, <1>3, PTL DEF Spec
=============================================================================
