-------------------------- MODULE MCKafkaNetwork ----------------------------
(* TLC instances of KafkaNetwork. *)
EXTENDS KafkaNetwork, FiniteSetsExt

(* The six concerns that MirrorMakerAgent signals today, in its order. *)
Today == <<"group_state_mutation", "wire_protocol", "public_java_api",
           "request_routing", "broker_memory", "authorization">>

InSomeOrder(S) == FoldSet(LAMBDA c, s : Append(s, c), <<>>, S)

(* All of them, or any part with or without a concern of its own team, of  *)
(* a team that has no agent, and one that is in nobody's card.             *)
MCDeclared ==
  {Today} \cup
  {InSomeOrder(S) :
     S \in SUBSET ((ToSet(Today) \ {"public_java_api"}) \cup
                   {"cross_cluster_replication", "log_storage", "wire_protocl"})}

MCToday == {Today}

(* Misspelt concerns, for UnroutableSurfaces. *)
MCTypo == {Kept(Today, ToSet(Today) \ {"wire_protocol"}), <<"wire_protocl">>}
=============================================================================
