----------------------------- MODULE MCAgentLLM -----------------------------
(* TLC instances of AgentLLM. *)
EXTENDS AgentLLM

(* One agent of each tier. *)
MCAgent == {"mirrormaker", "kafka-clients", "group-coordinator"}
MCLocal == {"ollama"}
MCCost == {0, 2, 3}

Plain == [disable |-> FALSE, override |-> NotSet, pin |-> NoModel,
          cap |-> Uncapped, preferFree |-> TRUE]
DeepSeekPro == CATALOG[12]
Unlisted == ModelSpec("gpt-4o", "openai", "deep", 2500, 10000)

(* Ceilings between the prices of the catalog, and at one of them. *)
MCEnv ==
  {[Plain EXCEPT !.cap = cap, !.preferFree = free, !.override = override] :
     cap \in {Uncapped, 1050, 0}, free \in BOOLEAN, override \in {NotSet, "nano"}}
  \cup {[Plain EXCEPT !.disable = TRUE], [Plain EXCEPT !.pin = DeepSeekPro],
        [Plain EXCEPT !.pin = CATALOG[1]], [Plain EXCEPT !.pin = Unlisted],
        [Plain EXCEPT !.override = "smal"]}

(* Environments for the statements the code does not keep. *)
MCTypo == {Plain, [Plain EXCEPT !.override = "smal"]}
MCPinned == {[Plain EXCEPT !.pin = DeepSeekPro, !.cap = 1050]}
=============================================================================
