------------------------------ MODULE MCGateway ------------------------------
(* TLC instances of Gateway. *)
EXTENDS Gateway

Asked(kind, team, id) ==
  [kind |-> kind, team |-> team, id |-> id, words |-> {}, custom |-> ""]
Issue(team, words, custom) ==
  [kind |-> "jira", team |-> team, id |-> NoId, words |-> words, custom |-> custom]

(* The demo; tickets with and without a team and an id; issues that name   *)
(* two teams, an unknown one, none.                                        *)
MCAsk ==
  { Asked("demo", "", NoId),
    Asked("ticket", "", NoId),
    Asked("ticket", "kafka-broker", StringId("KAFKA-1")),
    Asked("ticket", "kafka-storage", StringId("KAFKA-1")),
    Issue("", {"acl", "mm2"}, ""),
    Issue("", {}, "kafka-storage") }

(* A ticket whose id is a number, for AnsweredIdIsServed. *)
MCNumber == {Asked("ticket", "kafka-broker", NumberId("1")), Asked("demo", "", NoId)}
=============================================================================
