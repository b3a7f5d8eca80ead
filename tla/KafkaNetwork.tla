---------------------------- MODULE KafkaNetwork ----------------------------
(***************************************************************************)
(* The Kafka agents at work on a ticket: agents/network.py wires five      *)
(* agents to each other, and the owner of the ticket deliberates with the  *)
(* peers that discovery finds.  This composes Discovery with the           *)
(* deliberation and its timeline, with what the five agents answer in each *)
(* round, in their _handle_consultation (the model of an agent may rewrite *)
(* the prose of an answer, never what is kept here), and with what the     *)
(* demo page derives from the timeline.                                    *)
(*                                                                         *)
(* The question is whether the protocol and these agents fit together:     *)
(* whether a ticket whose consequences are known gets the sign-offs it     *)
(* needs, within three rounds, and bothers a human only for a cause.       *)
(***************************************************************************)
EXTENDS Discovery, SequencesExt

CONSTANT Declared     \* the lists of concerns MirrorMakerAgent may signal

ASSUME DeclaredAssumption == Declared \subseteq Seq(STRING)

VARIABLES
  owner,              \* the agent whose ticket it is
  signals,            \* the concerns it signals, in their order
  events,             \* the timeline
  stage, peers, heard, seenConcerns, recommended, ruledOut, reviewedBy,
  converged, finding  \* the deliberation

deliberation == <<stage, peers, heard, seenConcerns, recommended, ruledOut,
                  reviewedBy, converged, finding>>

vars == <<owner, signals, events, deliberation>>

(* build_network *)
IMPLEMENTED_AGENTS ==
  {"mirrormaker", "group-coordinator", "kafka-broker", "kafka-clients",
   "kafka-security"}

MAX_DELIBERATION_ROUNDS == 3

-----------------------------------------------------------------------------
(* What an agent answers in a round.  A concern is named by the agent, the *)
(* round and its number, alternative A by 1.                               *)
Response(agent, round, verdict, concerns, authority) ==
  [verdict |-> verdict,
   concerns |-> [i \in 1 .. concerns |-> <<agent, round, i>>],
   mentions |-> {1}, signOff |-> authority, authority |-> authority,
   timedOut |-> FALSE]

(* Group coordinator, broker and security: four concerns, then a last one, *)
(* then agreement.                                                         *)
Reluctant(agent, round) ==
  CASE round = 1 -> Response(agent, 1, "needs_changes", 4, FALSE)
    [] round = 2 -> Response(agent, 2, "needs_changes", 1, FALSE)
    [] OTHER     -> Response(agent, round, "agreed", 0, FALSE)

(* Clients: two concerns, then agreement; a KIP vote in any case. *)
ClientsReview(round) ==
  IF round = 1 THEN Response("kafka-clients", 1, "needs_changes", 2, TRUE)
               ELSE Response("kafka-clients", round, "agreed", 0, TRUE)

(* Mutants: a coordinator with one more concern; security's own favourite. *)
HandleStubborn(agent, round) ==
  IF agent = "kafka-clients" THEN ClientsReview(round)
  ELSE IF round = 3 THEN Response(agent, 3, "agreed", 1, FALSE)
  ELSE Reluctant(agent, round)

HandleDivided(agent, round) ==
  IF agent = "kafka-clients" THEN ClientsReview(round)
  ELSE IF agent = "kafka-security" THEN
    [Reluctant(agent, round) EXCEPT !.mentions = {2}]
  ELSE Reluctant(agent, round)

HandleConsultation(agent, round) ==
  IF agent = "kafka-clients" THEN ClientsReview(round) ELSE Reluctant(agent, round)

Reviewer == IMPLEMENTED_AGENTS \ {"mirrormaker"}

AllAnswers ==
  {HandleConsultation(a, r) : a \in Reviewer, r \in 1 .. MAX_DELIBERATION_ROUNDS}

Team == {card.agent_id : card \in Directory}

(* What an owner's investigation emits: only MirrorMakerAgent has one of   *)
(* its own, with the results of two tools and a root cause.                *)
Investigation(agent) ==
  IF agent = "mirrormaker" THEN <<"tool_call", "tool_call", "finding">> ELSE <<>>

Protocol == INSTANCE TicketTrace WITH
  Deployed <- IMPLEMENTED_AGENTS,
  PeerLists <- Seq(Team),
  Concern <- UNION {ToSet(answer.concerns) : answer \in AllAnswers},
  Answers <- AllAnswers,
  MaxRounds <- MAX_DELIBERATION_ROUNDS,
  Owners <- IMPLEMENTED_AGENTS,
  Listed <- Ids(DIRECTORY),
  Investigations <- {Investigation(a) : a \in IMPLEMENTED_AGENTS},
  Consequence <- STRING,
  SignalLists <- Declared \cup {<<>>}

Page == INSTANCE MeshView

-----------------------------------------------------------------------------
Init ==
  /\ Protocol!TraceInit
  /\ signals = <<>>

(* _impact_signals: what the other agents own they investigate with the    *)
(* base class, which signals nothing.                                      *)
ImpactSignals(agent) == IF agent = "mirrormaker" THEN Declared ELSE {<<>>}

Discover ==
  /\ stage = "discover"
  /\ signals' \in ImpactSignals(owner)
  /\ peers' = Peers(ToSet(signals'), owner)
  /\ Protocol!Discovering(signals')

(* A peer that has an agent answers what that agent answers in this round. *)
Consult ==
  /\ Protocol!Consulting
  /\ LET round == Len(heard)
         said == heard'[round][Len(heard'[round])]
     IN  said.from \in Reviewer =>
           said.answer = HandleConsultation(said.from, round)
  /\ UNCHANGED signals

Deliberate ==
  /\ \/ Protocol!Investigating(Investigation(owner))
     \/ Protocol!Refining \/ Protocol!Converging \/ Protocol!GoingOn
     \/ Protocol!GivingUp \/ Protocol!Assembling \/ Protocol!Failing
  /\ UNCHANGED signals

Next == Discover \/ Consult \/ Deliberate

Spec == Init /\ [][Next]_vars
-----------------------------------------------------------------------------
Decided == stage = "decided"

(* The teams another than the owner that answer for a concern. *)
Authorities(concern) ==
  {card.agent_id : card \in {d \in Directory : concern \in d.answers}} \ {owner}

(* The agents that agreed, without a concern, in the last round. *)
Agreed ==
  {peers[i] : i \in {j \in 1 .. Len(peers) :
                       Protocol!Assents(heard[Len(heard)][j].answer)}}

(* The concerns that the timeline tells of as signalled. *)
ToldSignals ==
  {events[i].about : i \in {j \in 1 .. Len(events) : events[j].kind = "signal"}}

(* Who reviews is decided by the signals alone: the teams asked, in every  *)
(* round, are all those that answer for a concern that was signalled, and  *)
(* nobody else; and in the end each of them has agreed in the last round,  *)
(* or has no agent and is named to a human, never both.  The timeline      *)
(* tells all that was signalled, a concern that no team answers for too:   *)
(* nobody is asked about that one, and no point for a human names it (see  *)
(* UnroutableSurfaces).                                                    *)
ConsequencesReachTheirTeams ==
  Decided =>
    /\ Protocol!Members = UNION {Authorities(concern) : concern \in ToSet(signals)}
    /\ \A k \in 1 .. Len(heard) :
         {heard[k][i].from : i \in 1 .. Len(heard[k])} = Protocol!Members
    /\ Agreed = Protocol!Members \ finding.undeployed
    /\ ToldSignals = ToSet(signals)

(* The agents of this network always come to terms in the rounds they      *)
(* have: a human is asked when an authority outside is needed, or a team   *)
(* that must review has no agent, and for nothing else.                    *)
HumanForACause ==
  Decided =>
    (Protocol!RequiresHuman <=>
       \E concern \in ToSet(signals) : \E team \in Authorities(concern) :
         team = "kafka-clients" \/ team \notin IMPLEMENTED_AGENTS)

(* They come to the same terms: when anyone with an agent reviewed, A is   *)
(* recommended, and B and C were ruled out in the first round, by the      *)
(* first such reviewer in the order of the directory.  It takes three      *)
(* rounds when a team that answers for a consequence has a second          *)
(* objection or no agent, and two when only the clients team objects.      *)
ComesToOneRecommendation ==
  Decided =>
    LET heeded == {i \in 1 .. Len(peers) : peers[i] \in IMPLEMENTED_AGENTS}
        first == Protocol!First(heeded)
        asked == UNION {Authorities(concern) : concern \in ToSet(signals)}
    IN  /\ IF heeded = {} THEN recommended = {}
           ELSE /\ recommended = {1}
                /\ ruledOut = <<Protocol!Standing, <<1, first>>, <<1, first>>>>
        /\ Len(heard) = IF asked = {} THEN 1
                        ELSE IF asked = {"kafka-clients"} THEN 2
                        ELSE MAX_DELIBERATION_ROUNDS

(* The events as they are on the page. *)
PageEvents ==
  [i \in 1 .. Len(events) |->
     [kind |-> events[i].kind, phase |-> events[i].phase,
      agent |-> events[i].agent, to |-> events[i].to,
      consult |-> events[i].kind = "peer_decision" /\ events[i].about]]

(* The page knows only the timeline, and says "Signed off" of the agents   *)
(* that were wired in, whatever they answered.  For the tickets it runs,   *)
(* those of mirrormaker, it is right in the end: the lanes signed off are  *)
(* those of the peers that agreed in the last round.  Its mesh links the   *)
(* owner with all its peers, those without a lane too, and what it lists   *)
(* as skipped is every other team.                                         *)
SignedOffLanesAgreed ==
  Decided /\ owner = "mirrormaker" =>
    LET Skipped == {PageEvents[n].to : n \in Page!SkippedFrom(PageEvents)}
        Named   == {PageEvents[n].to : n \in Page!ConsultedFrom(PageEvents)}
    IN  /\ \A lane \in Page!LiveAgents \ {owner} :
             Page!Mood(PageEvents, TRUE, lane) = "done" <=> lane \in Agreed
        /\ Page!MeshLinks(PageEvents) = {{owner, peer} : peer \in Protocol!Members}
        /\ Named = Protocol!Members
        /\ signals # <<>> => Skipped = Team \ (Named \cup {owner})

(* The tickets the page runs leave traces that it can show: what its       *)
(* panels take for granted of a trace holds of the timeline at any moment. *)
PageMayRelyOnTrace == owner = "mirrormaker" => Page!OwnersTrace(PageEvents)

(* "a typo surfaces as an unroutable signal instead of silently dropping a *)
(* team from review": a ticket with a signal no team claims is not closed  *)
(* without a human.  Not kept: nothing reads the unroutable signals.       *)
UnroutableSurfaces == Decided /\ Unroutable(ToSet(signals)) # {} => Protocol!RequiresHuman

(* What an agent's recommendation names: the first of the three            *)
(* alternatives that it proposes itself.                                   *)
Meant(peer) == <<peer, 1>>

(* "if a peer explicitly backs one by name, mark it recommended": what is  *)
(* recommended is what a peer meant.  Not kept: "Alternative A" in its     *)
(* answer is its own, and the owner reads it as the label of one of its.   *)
BackedByName ==
  Decided =>
    \A a \in recommended :
      \E i \in 1 .. Len(peers) : Meant(peers[i]) = <<owner, a>>

(* "They converge on a recommendation themselves": what is closed without  *)
(* a human has a recommendation.                                           *)
QuietFindingRecommends ==
  Decided /\ ~Protocol!RequiresHuman => finding.recommends # Protocol!NoAlternative
=============================================================================
