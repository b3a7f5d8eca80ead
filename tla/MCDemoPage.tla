----------------------------- MODULE MCDemoPage -----------------------------
(***************************************************************************)
(* Instances of DemoPage for TLC: a recorded trace with every kind the cut *)
(* drops, one alternative too many, a skipped peer with a lane and one     *)
(* without; and live traces with and without peers.                        *)
(***************************************************************************)
EXTENDS DemoPage

Ev(kind, phase) ==
  [kind |-> kind, phase |-> phase, agent |-> "mirrormaker", to |-> "", consult |-> FALSE]

Decide(peer, consult) == [Ev("peer_decision", "discovery") EXCEPT !.to = peer, !.consult = consult]
Request(peer) == [Ev("request", "deliberation") EXCEPT !.to = peer]
Reply(kind, peer) == [Ev(kind, "deliberation") EXCEPT !.agent = peer, !.to = "mirrormaker"]

Alone == <<Ev("ticket", "intake"), Ev("convergence", "decision"), Ev("artifact", "artifact")>>
Asking == <<Ev("ticket", "intake"), Decide("kafka-clients", TRUE),
            Decide("kafka-security", FALSE), Request("kafka-clients"),
            Reply("response", "kafka-clients"), Ev("artifact", "artifact")>>
MCLiveTraces == {Alone, Asking}

\* The recorded trace, with fewer events of each kind: three alternatives
\* before the deliberation, one more after it, and the kinds the cut drops.
MCRecorded ==
  <<Ev("ticket", "intake"), Ev("tool_call", "investigation"),
    Ev("finding", "investigation"), Ev("alternative", "alternatives"),
    Ev("alternative", "alternatives"), Ev("alternative", "alternatives"),
    Ev("signal", "discovery"), Decide("kafka-broker", TRUE),
    Decide("kafka-clients", FALSE), Decide("kafka-storage", FALSE),
    Request("kafka-broker"), Reply("response", "kafka-broker"),
    Reply("concern", "kafka-broker"), Ev("alternative", "synthesis"),
    Request("kafka-broker"), Reply("response", "kafka-broker"),
    Ev("convergence", "decision"), Ev("escalation", "decision"),
    Ev("artifact", "artifact")>>
=============================================================================
