----------------------------- MODULE Discovery ------------------------------
(***************************************************************************)
(* Peer discovery: agents/discovery.py.                                    *)
(*                                                                         *)
(* The owner of a ticket declares what its change affects as concerns out  *)
(* of a closed vocabulary; the directory says which team answers for which *)
(* concern.  Discovery decides, for every team of the directory and in its *)
(* order, whether the team is consulted.                                   *)
(*                                                                         *)
(* Of a signal only its concern is kept: the codepath and the evidence are *)
(* text that goes into the question.                                       *)
(***************************************************************************)
EXTENDS Lists

CONCERNS ==
  {"cross_cluster_replication", "group_state_mutation", "offset_storage_format",
   "wire_protocol", "public_java_api", "request_routing", "broker_memory",
   "cluster_metadata", "authorization", "log_storage", "streams_runtime",
   "connect_runtime", "cli_tooling"}

AgentCard(id, answers, implemented) ==
  [agent_id |-> id, answers |-> answers, implemented |-> implemented]

DIRECTORY ==
  << AgentCard("mirrormaker", {"cross_cluster_replication"}, TRUE),
     AgentCard("group-coordinator",
               {"group_state_mutation", "offset_storage_format"}, TRUE),
     AgentCard("kafka-broker",
               {"request_routing", "broker_memory", "cluster_metadata"}, TRUE),
     AgentCard("kafka-clients", {"wire_protocol", "public_java_api"}, TRUE),
     AgentCard("kafka-security", {"authorization"}, TRUE),
     AgentCard("kafka-storage", {"log_storage"}, FALSE),
     AgentCard("kafka-streams", {"streams_runtime"}, FALSE),
     AgentCard("kafka-connect", {"connect_runtime"}, FALSE),
     AgentCard("kafka-tools", {"cli_tooling"}, FALSE) >>

-----------------------------------------------------------------------------
(* The decision about one team: the owner never consults itself, and a     *)
(* team is consulted on the concerns it answers for.                       *)
PeerDecision(card, self, concerns) ==
  [agent_id         |-> card.agent_id,
   matched_concerns |-> IF card.agent_id = self THEN {}
                        ELSE card.answers \cap concerns,
   consult          |-> card.agent_id # self /\ card.answers \cap concerns # {},
   reachable        |-> card.agent_id = self \/ card.implemented]

(* No decision at all without a signal: the base class then asks the       *)
(* legacy hook _select_peers, which no agent overrides.                    *)
discover_peers(concerns, self) ==
  IF concerns = {} THEN <<>> ELSE
  [i \in 1 .. Len(DIRECTORY) |-> PeerDecision(DIRECTORY[i], self, concerns)]

Consulted(decisions) ==
  {decisions[i].agent_id : i \in {j \in 1 .. Len(decisions) : decisions[j].consult}}

Ids(decisions) == [i \in 1 .. Len(decisions) |-> decisions[i].agent_id]

(* Mutant: only the first team matched.                                   *)
PeersFirst(concerns, self) ==
  LET decisions == discover_peers(concerns, self)
      consulted == Kept(Ids(decisions), Consulted(decisions))
  IN  IF consulted = <<>> THEN <<>> ELSE <<Head(consulted)>>

(* DiscoveryResult.peers, in the order of the directory. *)
Peers(concerns, self) ==
  LET decisions == discover_peers(concerns, self)
  IN  Kept(Ids(decisions), Consulted(decisions))

(* DiscoveryResult.unroutable_concerns: what no team claims. *)
Unroutable(concerns) ==
  concerns \ UNION {DIRECTORY[i].answers : i \in 1 .. Len(DIRECTORY)}

Directory == {DIRECTORY[i] : i \in 1 .. Len(DIRECTORY)}

(* The teams of the directory that have an agent. *)
Implemented == {card.agent_id : card \in {d \in Directory : d.implemented}}
=============================================================================
