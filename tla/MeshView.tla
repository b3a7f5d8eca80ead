------------------------------ MODULE MeshView ------------------------------
(***************************************************************************)
(* What the demo page shows of the agents, derived from the list of events *)
(* on the page (web/lib/sim.ts).  Five panels read the same list, each     *)
(* with a rule of its own: the lanes, the hop that is animated, the links  *)
(* of the mesh, the agent in the spotlight, and the 1-pager's counts.      *)
(*                                                                         *)
(* In an event, "" is the absent addressee.  The wording of a lane (its    *)
(* status is its mood, what it processes, its thought) is left out.        *)
(***************************************************************************)
EXTENDS Integers, Sequences, FiniteSets, SequencesExt

\* LIVE_AGENTS: the agents with a lane; a peer of a ticket need not have one
LiveAgents == {"mirrormaker", "group-coordinator", "kafka-broker",
               "kafka-clients", "kafka-security"}

\* TraceEvent, what the panels read of it
Event == [kind : STRING, phase : STRING, agent : STRING, to : STRING,
          consult : BOOLEAN]

NoHop == [from |-> "", to |-> "", kind |-> "none"]

-----------------------------------------------------------------------------
(* A list that is filtered is given by the positions of what is kept.      *)
SkippedFrom(events) ==
  {n \in DOMAIN events : events[n].kind = "peer_decision" /\ ~events[n].consult}

ConsultedFrom(events) ==
  {n \in DOMAIN events : events[n].kind = "peer_decision" /\ events[n].consult}

(* Mutant: a lane is wired in by any decision about its agent.             *)
WiredByAnyDecision(events) ==
  LET E == ToSet(events)
  IN  {"mirrormaker"}
      \cup {e.to : e \in {x \in E : x.kind \in {"peer_decision", "request"}}}
      \cup {e.agent : e \in {x \in E : x.kind = "response"}}

\* deriveLanes: the set consulted
Consulted(events) ==
  LET E == ToSet(events)
  IN  {"mirrormaker"}
      \cup {e.to : e \in {x \in E : x.kind = "peer_decision" /\ x.consult}}
      \cup {e.to : e \in {x \in E : x.kind = "request"}}
      \cup {e.agent : e \in {x \in E : x.kind = "response"}}

\* deriveLanes: the mood of one lane, from the latest event
Mood(events, done, id) ==
  LET latest == Last(events)
      Wakes == \/ latest.kind \in {"request", "response"}
               \/ latest.kind = "peer_decision" /\ latest.consult
  IN  IF done /\ id \in Consulted(events) THEN "done"
      ELSE IF events = <<>> THEN "idle"
      ELSE IF id = latest.agent
           THEN IF latest.kind = "request" THEN "asking"
                ELSE IF latest.kind = "response" THEN "replying" ELSE "thinking"
           ELSE IF id = latest.to /\ Wakes THEN "reading" ELSE "idle"

\* packetFromEvent; a hop is drawn only between two lanes
PacketFromEvent(e) ==
  IF e.agent \in LiveAgents /\ e.to \in LiveAgents
  THEN CASE e.kind \in {"request", "response"} -> [from |-> e.agent, to |-> e.to, kind |-> e.kind]
         [] e.kind = "peer_decision" ->
              [from |-> e.agent, to |-> e.to, kind |-> IF e.consult THEN "consult" ELSE "skip"]
         [] OTHER -> NoHop
  ELSE NoHop

CurrentHop(events) == IF events = <<>> THEN NoHop ELSE PacketFromEvent(Last(events))

\* the agent in the spotlight: the latest event's, or else the ticket's
ActingAgent(events) ==
  LET ticket == SelectInSeq(events, LAMBDA e : e.kind = "ticket")
  IN  IF events # <<>> /\ Last(events).agent \in LiveAgents THEN Last(events).agent
      ELSE IF ticket # 0 THEN events[ticket].agent ELSE "mirrormaker"

\* the undirected links of the mesh
MeshLinks(events) ==
  {{e.agent, e.to} : e \in {x \in ToSet(events) :
     /\ x.agent # "" /\ x.to # "" /\ x.agent # x.to
     /\ \/ x.kind \in {"request", "response"}
        \/ x.kind = "peer_decision" /\ x.consult}}
-----------------------------------------------------------------------------
(* What the panels take for granted of a trace: one owner, mirrormaker,    *)
(* recorded it.  Its peers are those it decided to consult; it alone files *)
(* tickets, decides and asks, only its peers are asked and answer, and it  *)
(* skips none of them.                                                     *)
OwnersTrace(events) ==
  LET E == ToSet(events)
      peers == {e.to : e \in {x \in E : x.kind = "peer_decision" /\ x.consult}}
      skipped == {e.to : e \in {x \in E : x.kind = "peer_decision" /\ ~x.consult}}
  IN  /\ "mirrormaker" \notin peers \cup skipped
      /\ peers \cap skipped = {}
      /\ \A e \in E :
           /\ e.agent \in {"mirrormaker"} \cup peers
           /\ e.kind \in {"ticket", "peer_decision", "request"} => e.agent = "mirrormaker"
           /\ e.kind = "request" => e.to \in peers
           /\ e.kind = "response" => e.agent \in peers /\ e.to = "mirrormaker"
=============================================================================
