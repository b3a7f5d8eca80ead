-------------------------- MODULE MCKnowledgeGraph --------------------------
(* TLC instances of KnowledgeGraph. *)
EXTENDS KnowledgeGraph

Kafka == "core/src/main/scala/kafka/server/"
Apis == "KafkaApis.scala"

MCName == {Kafka, Apis, "kafka-broker", "kafka-clients", "docs"}
MCPath == {"core/src/main/scala/kafka/server/KafkaApis.scala", "docs/upgrade.html"}

MCRule ==
  [q \in MCPath \X MCName |->
     CASE q = <<"core/src/main/scala/kafka/server/KafkaApis.scala", Kafka>> -> "prefix"
       [] q = <<"core/src/main/scala/kafka/server/KafkaApis.scala", Apis>> -> "inside"
       [] q = <<"docs/upgrade.html", "docs">> -> "prefix"
       [] OTHER -> "none"]

MCLength == [n \in MCName |-> CASE n = Kafka -> 33 [] n = Apis -> 15
                              [] n = "kafka-broker" -> 12 [] n = "kafka-clients" -> 13
                              [] n = "docs" -> 4]

L(pattern, owner) == [pattern |-> pattern, owner |-> owner]

(* A path that changes hands, a path claimed by two, a team that is called *)
(* like its directory, an empty file.                                      *)
MCText ==
  { <<>>,
    <<L(Kafka, "kafka-broker"), L(Apis, "kafka-clients")>>,
    <<L(Kafka, "kafka-clients")>>,
    <<L("docs", "kafka-clients"), L("docs", "docs")>>,
    <<L(Apis, "docs")>> }

(* A directory and a pattern that starts with a wildcard, for              *)
(* RulesInPriorityOrder.                                                   *)
GlobName == {"clients/", "*/ApiKeys.java", "kafka-broker", "kafka-clients"}
GlobPath == {"clients/ApiKeys.java"}
GlobRule == [q \in GlobPath \X GlobName |->
               CASE q[2] = "clients/" -> "prefix"
                 [] q[2] = "*/ApiKeys.java" -> "glob"
                 [] OTHER -> "none"]
GlobLength == [n \in GlobName |-> IF n = "clients/" THEN 8 ELSE 14]
GlobText == {<<L("clients/", "kafka-clients"), L("*/ApiKeys.java", "kafka-broker")>>}
=============================================================================
