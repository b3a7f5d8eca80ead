---------------------------- MODULE ModelRouter -----------------------------
(***************************************************************************)
(* How an agent's request for a capability tier becomes a model:           *)
(* llm/registry.py (the catalog and its ranking) and the decision table of *)
(* ModelRouter.resolve in llm/router.py.                                   *)
(*                                                                         *)
(* Prices are in thousandths of a dollar per million tokens; the blended   *)
(* price, three parts input to one part output, is kept as four times its  *)
(* value.                                                                  *)
(***************************************************************************)
EXTENDS Integers, Sequences

TIERS == <<"nano", "small", "standard", "deep">>
Tier == {TIERS[i] : i \in 1 .. Len(TIERS)}

(* Only of a known tier; of any other the code raises a ValueError. *)
tier_index(tier) == CHOOSE i \in 1 .. Len(TIERS) : TIERS[i] = tier

ModelSpec(id, provider, tier, input, output) ==
  [id |-> id, provider |-> provider, tier |-> tier,
   input |-> input, output |-> output]

CATALOG ==
  << ModelSpec("qwen2.5:7b", "ollama", "nano", 0, 0),
     ModelSpec("qwen2.5:14b", "ollama", "small", 0, 0),
     ModelSpec("qwen2.5:32b", "ollama", "standard", 0, 0),
     ModelSpec("deepseek-r1:32b", "ollama", "deep", 0, 0),
     ModelSpec("llama-3.1-8b-instant", "groq", "nano", 50, 80),
     ModelSpec("openai/gpt-oss-20b", "groq", "small", 75, 300),
     ModelSpec("openai/gpt-oss-120b", "groq", "standard", 150, 600),
     ModelSpec("llama-3.3-70b-versatile", "groq", "deep", 590, 790),
     ModelSpec("gemini-2.5-flash-lite", "gemini", "small", 100, 400),
     ModelSpec("gemini-3-flash", "gemini", "standard", 250, 1500),
     ModelSpec("deepseek-flash", "deepseek", "standard", 150, 600),
     ModelSpec("deepseek-v4-pro", "deepseek", "deep", 660, 1980) >>

Models == {CATALOG[i] : i \in 1 .. Len(CATALOG)}

(* openrouter is a provider with no model in the catalog. *)
Providers == {"ollama", "groq", "deepseek", "openrouter", "gemini"}

Place(m) == CHOOSE i \in 1 .. Len(CATALOG) : CATALOG[i] = m

is_free(m) == m.input = 0 /\ m.output = 0

blended_cost(m) == 3 * m.input + m.output

NoModel == ModelSpec("none", "null", "none", 0, 0)

-----------------------------------------------------------------------------
(* Mutant: a model serves its own tier only. *)
models_of_tier(tier) == {m \in Models : m.tier = tier}

(* models_for_tier: a model may serve its own tier and any weaker one. *)
models_for_tier(tier) == {m \in Models : tier_index(m.tier) >= tier_index(tier)}

(* Its sort key, ties in the order of the catalog. *)
RankedBefore(m, n) ==
  \/ blended_cost(m) < blended_cost(n)
  \/ /\ blended_cost(m) = blended_cost(n)
     /\ \/ tier_index(m.tier) < tier_index(n.tier)
        \/ m.tier = n.tier /\ Place(m) < Place(n)

Cheapest(S) == CHOOSE m \in S : \A n \in S \ {m} : RankedBefore(m, n)

(* Mutant: a model at the ceiling is refused. *)
ChooseBelowCap(candidates, env) ==
  LET affordable == {m \in candidates : blended_cost(m) < env.cap}
  IN  IF affordable = {} THEN NoModel ELSE Cheapest(affordable)

(* The ceiling, the preference for models that are free, the ranking. *)
ChooseModel(candidates, env) ==
  LET affordable == {m \in candidates : blended_cost(m) <= env.cap}
      free == {m \in affordable : is_free(m)}
  IN  CASE affordable = {} -> NoModel
        [] env.preferFree /\ free # {} -> Cheapest(free)
        [] OTHER -> Cheapest(affordable)

(* The environment variables as every agent reads them (a variable may be  *)
(* set for some agents only; here the agents agree).  Pin and override are *)
(* a model or a tier, or none; a cap that is not set admits everything.    *)
NotSet == "not set"
Uncapped == 1000000

Requested(tier, env) == IF env.override = NotSet THEN tier ELSE env.override

(* What resolve comes to, given the providers that the router's cache says *)
(* are available and those that answer now.  Raises is its ValueError.     *)
Raises == ModelSpec("error", "null", "none", 0, 0)

Resolve(tier, env, available, now) ==
  LET wanted == Requested(tier, env)
  IN  CASE env.disable -> NoModel
        [] ~env.disable /\ wanted \notin Tier -> Raises
        [] ~env.disable /\ wanted \in Tier /\ env.pin # NoModel ->
             IF env.pin \in Models /\ env.pin.provider \in now
             THEN env.pin ELSE NoModel
        [] OTHER ->
             ChooseModel({m \in models_for_tier(wanted) : m.provider \in available}, env)
=============================================================================
