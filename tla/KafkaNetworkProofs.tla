------------------------- MODULE KafkaNetworkProofs -------------------------
(***************************************************************************)
(* What holds of the Kafka agents for any concerns that they may signal.   *)
(***************************************************************************)
EXTENDS KafkaNetwork, TLAPS

Ticket == INSTANCE DeliberationProofs WITH
  Deployed <- IMPLEMENTED_AGENTS,
  PeerLists <- Seq(Team),
  Concern <- UNION {ToSet(answer.concerns) : answer \in AllAnswers},
  Answers <- AllAnswers,
  MaxRounds <- MAX_DELIBERATION_ROUNDS,
  Owners <- IMPLEMENTED_AGENTS,
  Listed <- Ids(DIRECTORY),
  Investigations <- {Investigation(a) : a \in IMPLEMENTED_AGENTS},
  Consequence <- STRING,
  SignalLists <- Declared \cup {<<>>}

LEMMA TeamsAreListed == Ids(DIRECTORY) \in Seq(Team)
  BY DEF Ids, DIRECTORY, AgentCard, Team, Directory

(* The agents keep to what the deliberation assumes of any agents.         *)
LEMMA AgentsAreAgents == Ticket!DeliberationAssumption /\ Ticket!TraceAssumption
<1>1. Ticket!DeliberationAssumption
  <2>1. MAX_DELIBERATION_ROUNDS \in Nat \ {0}
    BY DEF MAX_DELIBERATION_ROUNDS
  <2>2. ASSUME NEW a \in Reviewer, NEW r \in 1 .. MAX_DELIBERATION_ROUNDS
        PROVE  HandleConsultation(a, r) \in Ticket!Answer
    <3> DEFINE C == UNION {ToSet(answer.concerns) : answer \in AllAnswers}
               said == HandleConsultation(a, r)
    <3>1. ToSet(said.concerns) \subseteq C
      BY DEF AllAnswers
    <3>2. PICK n \in Nat, verdict \in {"agreed", "needs_changes"}, authority \in BOOLEAN :
            said = Response(a, r, verdict, n, authority)
      <4>1. /\ ClientsReview(r) \in {Response("kafka-clients", 1, "needs_changes", 2, TRUE),
                                    Response("kafka-clients", r, "agreed", 0, TRUE)}
            /\ r # 1 => ClientsReview(r) = Response("kafka-clients", r, "agreed", 0, TRUE)
        BY DEF ClientsReview
      <4>2. r \in {1, 2, 3}
        BY DEF MAX_DELIBERATION_ROUNDS
      <4>3. /\ Reluctant(a, 1) = Response(a, 1, "needs_changes", 4, FALSE)
            /\ Reluctant(a, 2) = Response(a, 2, "needs_changes", 1, FALSE)
            /\ Reluctant(a, 3) = Response(a, 3, "agreed", 0, FALSE)
        BY DEF Reluctant
      <4>4. CASE a = "kafka-clients"
        <5>1. said = ClientsReview(r)
          BY <4>4 DEF HandleConsultation
        <5>2. \/ said = Response(a, r, "needs_changes", 2, TRUE)
              \/ said = Response(a, r, "agreed", 0, TRUE)
          BY <4>1, <4>4, <5>1
        <5> QED
          BY <5>2
      <4>5. CASE a # "kafka-clients"
        <5>1. said = Reluctant(a, r)
          BY <4>5 DEF HandleConsultation
        <5>2. \/ said = Response(a, r, "needs_changes", 4, FALSE)
              \/ said = Response(a, r, "needs_changes", 1, FALSE)
              \/ said = Response(a, r, "agreed", 0, FALSE)
          BY <4>2, <4>3, <5>1
        <5> QED
          BY <5>2
      <4> QED
        BY <4>4, <4>5
    <3> HIDE DEF said
    <3>3. /\ said = [verdict |-> verdict, concerns |-> said.concerns, mentions |-> {1},
                     signOff |-> authority, authority |-> authority, timedOut |-> FALSE]
          /\ said.concerns = [i \in 1 .. n |-> <<a, r, i>>]
      BY <3>2 DEF Response
    <3> HIDE DEF C
    <3>4. said.concerns \in Seq(C)
      <4>1. \A i \in 1 .. n : said.concerns[i] \in C
        BY <3>1, <3>3 DEF ToSet
      <4>2. said.concerns \in [1 .. n -> C]
        BY <3>3, <4>1
      <4> QED
        BY <4>2
    <3>5. HandleConsultation(a, r) = said
      BY DEF said
    <3> HIDE DEF said
    <3>6. said \in [verdict : Ticket!Verdict, concerns : Seq(C),
                   mentions : SUBSET Ticket!Alternative, signOff : BOOLEAN,
                   authority : BOOLEAN, timedOut : BOOLEAN]
      <4> DEFINE raised == said.concerns
      <4>1. said = [verdict |-> verdict, concerns |-> raised, mentions |-> {1},
                    signOff |-> authority, authority |-> authority, timedOut |-> FALSE]
        BY <3>3
      <4>2. raised \in Seq(C)
        BY <3>4
      <4>3. verdict \in Ticket!Verdict /\ {1} \in SUBSET Ticket!Alternative
        BY DEF Ticket!Verdict, Ticket!Alternative
      <4> HIDE DEF raised
      <4> QED
        BY <4>1, <4>2, <4>3
    <3>7. said.authority => said.signOff
      BY <3>3
    <3> QED
      BY <3>5, <3>6, <3>7 DEF C, Ticket!Answer
  <2> QED
    BY <2>1, <2>2 DEF Ticket!DeliberationAssumption, AllAnswers
<1>2. Ticket!TraceAssumption
  <2>1. Ids(DIRECTORY) \in Seq(Team)
    BY TeamsAreListed
  <2>2. ASSUME NEW a \in IMPLEMENTED_AGENTS
        PROVE  Investigation(a) \in Seq({"tool_call", "finding"})
    BY DEF Investigation
  <2>3. Declared \cup {<<>>} \subseteq Seq(STRING)
    <3>1. <<>> \in Seq(STRING)
      OBVIOUS
    <3> QED
      BY <3>1, DeclaredAssumption
  <2>4. ASSUME NEW a \in Reviewer, NEW r \in 1 .. MAX_DELIBERATION_ROUNDS
        PROVE  ~HandleConsultation(a, r).timedOut
    BY DEF HandleConsultation, ClientsReview, Reluctant, Response
  <2> QED
    BY <2>1, <2>2, <2>3, <2>4 DEF Ticket!TraceAssumption, AllAnswers
<1> QED
  BY <1>1, <1>2

HasAnAgent == owner \in IMPLEMENTED_AGENTS

LEMMA OwnerHasAnAgent == Spec => []HasAnAgent
<1>1. Init => HasAnAgent
  BY DEF Init, Protocol!TraceInit, HasAnAgent
<1>2. HasAnAgent /\ [Next]_vars => HasAnAgent'
  BY DEF HasAnAgent, Next, vars, Discover, Consult, Deliberate, Protocol!Discovering,
         Protocol!Consulting, Protocol!Investigating, Protocol!Refining, Protocol!Converging,
         Protocol!GoingOn, Protocol!GivingUp, Protocol!Assembling, Protocol!Failing
<1> QED
  BY <1>1, <1>2, PTL DEF Spec

-----------------------------------------------------------------------------
(* Each step is one of the protocol, with the answers of these agents.     *)

LEMMA DiscoverIs ==
  ASSUME Discover
  PROVE  Ticket!Discovering(signals') /\ signals' \in Declared \cup {<<>>}
<1>1. signals' \in ImpactSignals(owner) /\ Protocol!Discovering(signals')
  BY DEF Discover
<1>2. signals' \in Declared \cup {<<>>}
  BY <1>1 DEF ImpactSignals
<1>3. Ticket!Discovering(signals')
  BY <1>1 DEF Protocol!Discovering, Ticket!Discovering, Protocol!Discover, Ticket!Discover,
     Protocol!Kept, Ticket!Kept, Protocol!Others, Ticket!Others, Protocol!ToSet, Ticket!ToSet,
     Protocol!Emit, Ticket!Emit, Protocol!DiscoveryEvents, Ticket!DiscoveryEvents,
     Protocol!Note, Ticket!Note, Protocol!Event, Ticket!Event, Protocol!NoOne, Ticket!NoOne
<1> QED
  BY <1>1, <1>2, <1>3

LEMMA ConsultIs ==
  ASSUME Consult
  PROVE  Ticket!Consulting
<1>1. Ticket!Consult
  <2>1. ASSUME NEW s PROVE Protocol!ToSet(s) = Ticket!ToSet(s)
    BY DEF Protocol!ToSet, Ticket!ToSet
  <2>2. ASSUME NEW s, NEW S PROVE Protocol!Kept(s, S) = Ticket!Kept(s, S)
    BY DEF Protocol!Kept, Ticket!Kept
  <2>3. ASSUME NEW concerns PROVE Protocol!NewIn(concerns) = Ticket!NewIn(concerns)
    BY <2>2 DEF Protocol!NewIn, Ticket!NewIn, Protocol!ToSet, ToSet
  <2> QED
    BY <2>1, <2>3 DEF Consult, Protocol!Consulting, Protocol!Consult, Ticket!Consult,
       Protocol!Said, Ticket!Said, Protocol!Round, Ticket!Round,
       Protocol!NoAnswer, Ticket!NoAnswer
<1>2. ASSUME NEW said
      PROVE  /\ Protocol!AnswerEvents(said) = Ticket!AnswerEvents(said)
             /\ Protocol!Asks(said) = Ticket!Asks(said)
             /\ Protocol!Last(said) = Ticket!Last(said)
  BY DEF Protocol!AnswerEvents, Ticket!AnswerEvents, Protocol!Event, Ticket!Event,
     Protocol!Shown, Ticket!Shown, Protocol!Round, Ticket!Round, Protocol!Asks, Ticket!Asks,
     Protocol!Last, Ticket!Last
<1>3. Protocol!Consulting
  BY DEF Consult
<1>4. Ticket!Consulting
  BY <1>1, <1>2, <1>3 DEF Protocol!Consulting, Ticket!Consulting, Protocol!Emit, Ticket!Emit,
     Protocol!Round, Ticket!Round
<1> QED
  BY <1>4

LEMMA DeliberateIs ==
  ASSUME Deliberate, HasAnAgent
  PROVE  \/ \E found \in {Investigation(a) : a \in IMPLEMENTED_AGENTS} : Ticket!Investigating(found)
         \/ Ticket!Refining \/ Ticket!Converging \/ Ticket!GoingOn \/ Ticket!GivingUp
         \/ Ticket!Assembling \/ Ticket!Failing
<1> USE DEF Protocol!Emit, Ticket!Emit, Protocol!Note, Ticket!Note, Protocol!Event, Ticket!Event,
            Protocol!NoOne, Ticket!NoOne, Protocol!Round, Ticket!Round, Protocol!Said, Ticket!Said
<1>1. CASE Protocol!Investigating(Investigation(owner))
  <2>1. Ticket!Investigating(Investigation(owner))
    BY <1>1 DEF Protocol!Investigating, Ticket!Investigating, Protocol!Investigate, Ticket!Investigate,
       Protocol!InvestigationEvents, Ticket!InvestigationEvents, Protocol!ProposalEvents, Ticket!ProposalEvents,
       Protocol!Outcome, Ticket!Outcome, Protocol!Standing, Ticket!Standing
  <2> QED
    BY <2>1 DEF HasAnAgent
<1>2. CASE Protocol!Refining
  <2>1. Ticket!Refine
    BY <1>2 DEF Protocol!Refining, Protocol!Refine, Ticket!Refine, Protocol!Backs, Ticket!Backs,
       Protocol!Against, Ticket!Against, Protocol!First, Ticket!First, Protocol!Standing, Ticket!Standing,
       Protocol!Alternative, Ticket!Alternative, Protocol!NoAlternative, Ticket!NoAlternative
  <2>2. ASSUME NEW a, NEW backed, NEW ruling
        PROVE  Protocol!Synthesis(a, backed, ruling) = Ticket!Synthesis(a, backed, ruling)
    BY DEF Protocol!Synthesis, Ticket!Synthesis, Protocol!Outcome, Ticket!Outcome
  <2>3. Ticket!Refining
    BY <1>2, <2>1, <2>2 DEF Protocol!Refining, Ticket!Refining, Protocol!SynthesisEvents, Ticket!SynthesisEvents
  <2> QED
    BY <2>3
<1>3. CASE Protocol!Converging \/ Protocol!GoingOn \/ Protocol!GivingUp
  <2>1. Ticket!Converging \/ Ticket!GoingOn \/ Ticket!GivingUp
    BY <1>3 DEF Protocol!Converging, Ticket!Converging, Protocol!Converge, Ticket!Converge,
       Protocol!GoingOn, Ticket!GoingOn, Protocol!NextRound, Ticket!NextRound,
       Protocol!GivingUp, Ticket!GivingUp, Protocol!GiveUp, Ticket!GiveUp,
       Protocol!HasConverged, Ticket!HasConverged, Protocol!Assents, Ticket!Assents
  <2> QED
    BY <2>1
<1>4. CASE Protocol!Assembling
  <2>1. Ticket!Assemble
    BY <1>4 DEF Protocol!Assembling, Protocol!Assemble, Ticket!Assemble, Protocol!Summary, Ticket!Summary,
       Protocol!Whose, Ticket!Whose, Protocol!Members, Ticket!Members, Protocol!First, Ticket!First,
       Protocol!NoAlternative, Ticket!NoAlternative
  <2>2. ASSUME NEW f PROVE Protocol!HumanDecisionPoints(f) = Ticket!HumanDecisionPoints(f)
    <3>1. ASSUME NEW S PROVE Protocol!Cardinality(S) = Ticket!Cardinality(S)
      BY DEF Protocol!Cardinality, Ticket!Cardinality
    <3>2. ASSUME NEW why, NEW teams, NEW seat
          PROVE  Protocol!PointsAbout(why, teams, seat) = Ticket!PointsAbout(why, teams, seat)
      BY <3>1 DEF Protocol!PointsAbout, Ticket!PointsAbout, Protocol!Point, Ticket!Point
    <3>3. ASSUME NEW p
          PROVE  Protocol!SeatOf(p) = Ticket!SeatOf(p) /\ Protocol!ClaimedAt(p) = Ticket!ClaimedAt(p)
      BY DEF Protocol!SeatOf, Ticket!SeatOf, Protocol!ClaimedAt, Ticket!ClaimedAt,
         Protocol!Record, Ticket!Record, Protocol!FlattenSeq, Ticket!FlattenSeq,
         Protocol!SelectInSeq, Ticket!SelectInSeq, Protocol!Min, Ticket!Min
    <3> QED
      BY <3>2, <3>3 DEF Protocol!HumanDecisionPoints, Ticket!HumanDecisionPoints,
         Protocol!Point, Ticket!Point
  <2>3. Ticket!Assembling
    BY <1>4, <2>1, <2>2 DEF Protocol!Assembling, Ticket!Assembling, Protocol!FindingEvents, Ticket!FindingEvents
  <2> QED
    BY <2>3
<1>5. CASE Protocol!Failing
  <2>1. Ticket!Failing
    BY <1>5 DEF Protocol!Failing, Ticket!Failing, Protocol!Raise, Ticket!Raise,
       Protocol!InvestigationEvents, Ticket!InvestigationEvents, Protocol!Asks, Ticket!Asks
  <2> QED
    BY <2>1
<1> QED
  BY <1>3, <1>1, <1>2, <1>3, <1>4, <1>5 DEF Deliberate

LEMMA KeepsTheProtocol == Spec => Ticket!TraceSpec
<1>1. Init => Ticket!TraceInit
  BY DEF Init, Protocol!TraceInit, Ticket!TraceInit, Protocol!Init, Ticket!Init,
         Protocol!Standing, Ticket!Standing, Protocol!Alternative, Ticket!Alternative,
         Protocol!NoFinding, Ticket!NoFinding, Protocol!NoAlternative, Ticket!NoAlternative,
         Protocol!Note, Ticket!Note, Protocol!Event, Ticket!Event, Protocol!NoOne, Ticket!NoOne
<1>2. ASSUME HasAnAgent, [Next]_vars
      PROVE  [Ticket!TraceNext]_(Ticket!traceVars)
  <2>1. CASE Discover
    BY <2>1, DiscoverIs DEF Ticket!TraceNext
  <2>2. CASE Consult
    BY <2>2, ConsultIs DEF Ticket!TraceNext
  <2>3. CASE Deliberate
    BY <1>2, <2>3, DeliberateIs DEF Ticket!TraceNext
  <2>4. CASE UNCHANGED vars
    BY <2>4 DEF vars, deliberation, Ticket!traceVars, Ticket!vars
  <2> QED
    BY <1>2, <2>1, <2>2, <2>3, <2>4 DEF Next
<1> QED
  BY <1>1, <1>2, OwnerHasAnAgent, PTL DEF Spec, Ticket!TraceSpec

-----------------------------------------------------------------------------
(* The inductive invariant: whom the owner asks, what it hears, and what   *)
(* it makes of that.                                                       *)

(* The peers are those that discovery finds for the signals; only          *)
(* MirrorMakerAgent has signals.                                           *)
PeersAreDiscovered ==
  /\ owner \in IMPLEMENTED_AGENTS
  /\ signals \in Declared \cup {<<>>}
  /\ signals # <<>> => owner = "mirrormaker"
  /\ peers = Peers(ToSet(signals), owner)

(* What a team says in a round, if there is an agent for it. *)
SaidBy(team, round) ==
  IF team \in Reviewer THEN HandleConsultation(team, round) ELSE Ticket!NoAnswer

AnswersAreHandled ==
  \A k \in 1 .. Len(heard) : \A i \in 1 .. Len(heard[k]) :
    heard[k][i].answer = SaidBy(peers[i], k)

(* The seats of the peers that have an agent: all of them back A. *)
Heeded == {i \in 1 .. Len(peers) : peers[i] \in Reviewer}

Unsettled == recommended = {} /\ ruledOut = [a \in 1 .. 3 |-> <<0, 0>>]

Settled ==
  /\ recommended = {1}
  /\ ruledOut = [a \in 1 .. 3 |-> IF a = 1 THEN <<0, 0>> ELSE <<1, Ticket!First(Heeded)>>]

(* The alternatives are settled when the first round has been folded in. *)
FirstRoundSettles ==
  IF Heeded = {} \/ stage \in {"intake", "discover"} \/ (stage = "consult" /\ Len(heard) = 1)
  THEN Unsettled
  ELSE stage = "raised" \/ Settled

(* The timeline tells the signals, which there are after discovery only. *)
SignalsAreTold ==
  /\ Ticket!SignalledIn(events) = ToSet(signals)
  /\ stage \in {"intake", "discover"} => signals = <<>>

(* Every team but the owner is told of, once there are consequences. *)
TeamsAreTold ==
  signals # <<>> =>
    \A team \in Team \ {owner} :
      \E i \in 1 .. Len(events) : events[i].kind = "peer_decision" /\ events[i].to = team

KafkaInv ==
  /\ PeersAreDiscovered /\ AnswersAreHandled /\ FirstRoundSettles
  /\ SignalsAreTold /\ TeamsAreTold

-----------------------------------------------------------------------------
(* Discovery. *)

LEMMA DirectoryFacts ==
  /\ Len(DIRECTORY) = 9
  /\ Implemented = IMPLEMENTED_AGENTS
<1>1. Len(DIRECTORY) = 9
  BY DEF DIRECTORY
<1>2. /\ DIRECTORY[1].agent_id = "mirrormaker" /\ DIRECTORY[1].implemented
      /\ DIRECTORY[2].agent_id = "group-coordinator" /\ DIRECTORY[2].implemented
      /\ DIRECTORY[3].agent_id = "kafka-broker" /\ DIRECTORY[3].implemented
      /\ DIRECTORY[4].agent_id = "kafka-clients" /\ DIRECTORY[4].implemented
      /\ DIRECTORY[5].agent_id = "kafka-security" /\ DIRECTORY[5].implemented
      /\ \A i \in 6 .. 9 : ~DIRECTORY[i].implemented
  BY DEF DIRECTORY, AgentCard
<1>3. ASSUME NEW t PROVE t \in Implemented <=> \E i \in 1 .. 9 : DIRECTORY[i].agent_id = t /\ DIRECTORY[i].implemented
  BY <1>1 DEF Implemented, Directory
<1>4. ASSUME NEW i \in 1 .. 9 PROVE i \in 1 .. 5 \/ i \in 6 .. 9
  OBVIOUS
<1>5. ASSUME NEW t PROVE t \in Implemented <=> t \in IMPLEMENTED_AGENTS
  BY <1>2, <1>3, <1>4 DEF IMPLEMENTED_AGENTS
<1> QED
  BY <1>1, <1>5

(* A team that discovery finds answers for one of the concerns. *)
AnswersFor(team, concerns) ==
  \E card \in Directory : card.agent_id = team /\ card.answers \cap concerns # {}

(* Whom discovery finds: the teams that answer for one of the concerns. *)
LEMMA PeersFound ==
  ASSUME NEW concerns, NEW self
  PROVE  /\ Peers(concerns, self) \in Seq(Team)
         /\ concerns = {} => Peers(concerns, self) = <<>>
         /\ \A team : Ticket!Among(team, Peers(concerns, self)) <=> team # self /\ AnswersFor(team, concerns)
<1> DEFINE decisions == discover_peers(concerns, self)
           found == Peers(concerns, self)
<1>1. found = Ticket!Kept(Ids(decisions), Consulted(decisions))
  BY DEF Peers, Kept, Ticket!Kept
<1>2. CASE concerns = {}
  <2>1. decisions = <<>>
    BY <1>2 DEF discover_peers
  <2>2. Ids(decisions) = <<>>
    BY <2>1 DEF Ids
  <2>3. found = <<>>
    BY <1>1, <2>2, Ticket!KeptOfEmpty, AgentsAreAgents
  <2>4. ASSUME NEW team PROVE ~AnswersFor(team, concerns)
    BY <1>2 DEF AnswersFor
  <2>5. <<>> \in Seq(Team) /\ \A team : ~Ticket!Among(team, <<>>)
    BY DEF Ticket!Among
  <2> QED
    BY <2>3, <2>4, <2>5
<1>3. CASE concerns # {}
  <2>1. decisions = [i \in 1 .. 9 |-> PeerDecision(DIRECTORY[i], self, concerns)]
    BY <1>3, DirectoryFacts DEF discover_peers
  <2>2. Len(decisions) = 9
    BY <2>1, Ticket!FunctionIsList, AgentsAreAgents
  <2> HIDE DEF decisions
  <2>3. Ids(decisions) = [i \in 1 .. 9 |-> DIRECTORY[i].agent_id]
    BY <2>1, <2>2 DEF Ids, PeerDecision
  <2>4. Ids(decisions) = Ids(DIRECTORY)
    BY <2>3, DirectoryFacts DEF Ids
  <2>5. Ids(DIRECTORY) \in Seq(Team) /\ Len(Ids(DIRECTORY)) = 9
    BY <2>3, <2>4, TeamsAreListed, Ticket!FunctionIsList, AgentsAreAgents
  <2>6. ASSUME NEW team PROVE Ticket!Among(team, Ids(decisions)) <=> team \in Team
    BY <2>3, <2>4, <2>5, DirectoryFacts DEF Ticket!Among, Team, Directory
  <2>7. ASSUME NEW team
        PROVE  team \in Consulted(decisions) <=> team # self /\ AnswersFor(team, concerns)
    BY <2>1, <2>2, DirectoryFacts DEF Consulted, PeerDecision, Directory, AnswersFor
  <2>8. Consulted(decisions) \subseteq Team
    BY <2>7 DEF Team, AnswersFor
  <2>9. found \in Seq(Team)
    BY <1>1, <2>4, <2>5, Ticket!KeptType, AgentsAreAgents
  <2>10. ASSUME NEW team
         PROVE  Ticket!Among(team, found) <=>
                  Ticket!Among(team, Ids(decisions)) /\ team \in Consulted(decisions)
    BY <1>1, <2>4, <2>5, Ticket!KeptElements, AgentsAreAgents
  <2> QED
    BY <1>3, <2>6, <2>7, <2>8, <2>9, <2>10
<1> QED
  BY <1>2, <1>3

-----------------------------------------------------------------------------
(* What the agents say: those with an agent back A in every round and      *)
(* agree in the third, the clients team in the second already; only that   *)
(* team claims authority.                                                  *)
Agrees(team, round) ==
  team \in Reviewer /\ (round = 3 \/ (round = 2 /\ team = "kafka-clients"))

LEMMA SaidFacts ==
  ASSUME NEW team, NEW round \in 1 .. 3
  PROVE  LET answer == SaidBy(team, round)
         IN  /\ Ticket!Assents(answer) <=> Agrees(team, round)
             /\ answer.timedOut <=> team \notin Reviewer
             /\ answer.authority <=> team = "kafka-clients"
             /\ Ticket!Backs(answer) = IF team \in Reviewer THEN 1 ELSE 0
<1>1. Ticket!First({1}) = 1
  BY DEF Ticket!First
<1>2. CASE team \notin Reviewer
  BY <1>2 DEF SaidBy, Ticket!NoAnswer, Ticket!Assents, Ticket!Backs, Ticket!NoAlternative, Agrees,
     Reviewer, IMPLEMENTED_AGENTS
<1>3. CASE team = "kafka-clients"
  BY <1>1, <1>3 DEF SaidBy, HandleConsultation, ClientsReview, Response, Ticket!Assents, Ticket!Backs,
     Agrees, Reviewer, IMPLEMENTED_AGENTS
<1>4. CASE team \in Reviewer /\ team # "kafka-clients"
  <2>1. /\ Reluctant(team, 1) = Response(team, 1, "needs_changes", 4, FALSE)
        /\ Reluctant(team, 2) = Response(team, 2, "needs_changes", 1, FALSE)
        /\ Reluctant(team, 3) = Response(team, 3, "agreed", 0, FALSE)
    BY DEF Reluctant
  <2>2. SaidBy(team, round) = Reluctant(team, round)
    BY <1>4 DEF SaidBy, HandleConsultation
  <2>3. ASSUME NEW verdict, NEW n
        PROVE  LET answer == Response(team, round, verdict, n, FALSE)
               IN  /\ ~answer.timedOut /\ ~answer.authority
                   /\ Ticket!Backs(answer) = 1
                   /\ verdict # "agreed" => ~Ticket!Assents(answer)
                   /\ verdict = "agreed" /\ n = 0 => Ticket!Assents(answer)
    BY <1>1 DEF Response, Ticket!Assents, Ticket!Backs
  <2>4. CASE round = 1
    BY <1>4, <2>1, <2>2, <2>3, <2>4 DEF Agrees
  <2>5. CASE round = 2
    BY <1>4, <2>1, <2>2, <2>3, <2>5 DEF Agrees
  <2>6. CASE round = 3
    BY <1>4, <2>1, <2>2, <2>3, <2>6 DEF Agrees
  <2> QED
    BY <2>4, <2>5, <2>6
<1> QED
  BY <1>2, <1>3, <1>4

-----------------------------------------------------------------------------
LEMMA PeerFacts ==
  ASSUME PeersAreDiscovered
  PROVE  /\ peers \in Seq(Team) /\ Len(peers) \in Nat
         /\ \A team : Ticket!Among(team, peers) <=>
                        \E concern \in ToSet(signals) : team \in Authorities(concern)
         /\ \A i \in 1 .. Len(peers) : peers[i] \in IMPLEMENTED_AGENTS => peers[i] \in Reviewer
<1>1. /\ peers \in Seq(Team)
      /\ \A team : Ticket!Among(team, peers) <=> team # owner /\ AnswersFor(team, ToSet(signals))
  BY PeersFound DEF PeersAreDiscovered
<1>2. ASSUME NEW team
      PROVE  team # owner /\ AnswersFor(team, ToSet(signals)) <=>
               \E concern \in ToSet(signals) : team \in Authorities(concern)
  BY DEF AnswersFor, Authorities
<1>3. ASSUME NEW i \in 1 .. Len(peers) PROVE peers[i] # "mirrormaker"
  <2>1. Ticket!Among(peers[i], peers)
    BY DEF Ticket!Among
  <2>2. PICK concern \in ToSet(signals) : peers[i] \in Authorities(concern)
    BY <1>1, <1>2, <2>1
  <2>3. signals # <<>>
    BY <2>2 DEF ToSet
  <2> QED
    BY <2>2, <2>3 DEF PeersAreDiscovered, Authorities
<1> QED
  BY <1>1, <1>2, <1>3 DEF Reviewer

(* What a step does to the signals, the peers and the answers. *)
LEMMA PeersStep ==
  ASSUME PeersAreDiscovered, [Next]_vars
  PROVE  PeersAreDiscovered'
<1>1. CASE Discover
  <2>1. UNCHANGED owner
    BY <1>1 DEF Discover, Protocol!Discovering
  <2> QED
    BY <1>1, <2>1 DEF Discover, ImpactSignals, PeersAreDiscovered
<1>2. CASE ~Discover
  <2>1. UNCHANGED <<owner, signals, peers>>
    BY <1>2 DEF Next, vars, deliberation, Consult, Deliberate, Protocol!Consulting, Protocol!Consult,
       Protocol!Investigating, Protocol!Investigate, Protocol!Refining, Protocol!Refine,
       Protocol!Converging, Protocol!Converge, Protocol!GoingOn, Protocol!NextRound,
       Protocol!GivingUp, Protocol!GiveUp, Protocol!Assembling, Protocol!Assemble,
       Protocol!Failing, Protocol!Raise
  <2> QED
    BY <2>1 DEF PeersAreDiscovered
<1> QED
  BY <1>1, <1>2

(* Every answer in the record is what the agent of that peer says in that  *)
(* round, or the time-out of a peer without an agent.                      *)
LEMMA AnswersStep ==
  ASSUME PeersAreDiscovered, AnswersAreHandled, Ticket!TypeOK, Ticket!Progress, [Next]_vars
  PROVE  AnswersAreHandled'
<1>1. CASE Discover
  <2>1. Ticket!Discover
    BY <1>1, DiscoverIs DEF Ticket!Discovering
  <2>2. Len(heard') = 1 /\ heard'[1] = <<>>
    BY <2>1, Ticket!DiscoverOpens, AgentsAreAgents
  <2> QED
    BY <2>2 DEF AnswersAreHandled
<1>2. CASE Consult
  <2>1. Ticket!Consult
    BY <1>2, ConsultIs DEF Ticket!Consulting
  <2>2. PICK e \in Ticket!Entry :
          /\ heard' \in Seq(Seq(Ticket!Entry))
          /\ Len(heard') = Len(heard)
          /\ Len(heard) \in Nat \ {0}
          /\ Len(Ticket!Said) + 1 \in 1 .. Len(peers)
          /\ Len(heard'[Len(heard)]) = Len(Ticket!Said) + 1
          /\ heard'[Len(heard)][Len(Ticket!Said) + 1] = e
          /\ \A i \in 1 .. Len(Ticket!Said) : heard'[Len(heard)][i] = Ticket!Said[i]
          /\ \A k \in 1 .. Len(heard) : k # Len(heard) => heard'[k] = heard[k]
          /\ e.from = peers[Len(Ticket!Said) + 1]
          /\ e.answer \in Ticket!AnswersOf(e.from)
    BY <2>1, Ticket!ConsultAppends, AgentsAreAgents DEF Ticket!Round
  <2>3. e.from \in Reviewer => e.answer = HandleConsultation(e.from, Len(heard))
    BY <1>2, <2>2 DEF Consult
  <2>4. e.answer = SaidBy(e.from, Len(heard))
    <3>1. e.from \notin Reviewer => e.from \notin IMPLEMENTED_AGENTS
      BY <2>2, PeerFacts
    <3> QED
      BY <2>2, <2>3, <3>1 DEF SaidBy, Ticket!AnswersOf
  <2>5. UNCHANGED peers /\ Len(Ticket!Said) \in Nat /\ Ticket!Said = heard[Len(heard)]
    <3>1. Ticket!Said \in Seq(Ticket!Entry)
      BY <2>1, Ticket!RoundFacts, AgentsAreAgents DEF Ticket!Progress, Ticket!Consult
    <3> QED
      BY <2>1, <3>1 DEF Ticket!Consult, Ticket!Said, Ticket!Round
  <2>6. ASSUME NEW k \in 1 .. Len(heard), NEW i \in 1 .. Len(heard'[k])
        PROVE  heard'[k][i].answer = SaidBy(peers[i], k)
    <3>1. CASE k # Len(heard)
      BY <2>2, <2>6, <3>1 DEF AnswersAreHandled
    <3>2. CASE k = Len(heard) /\ i <= Len(Ticket!Said)
      <4>1. i \in 1 .. Len(Ticket!Said) /\ heard'[k][i] = heard[k][i] /\ i \in 1 .. Len(heard[k])
        BY <2>2, <2>5, <3>2
      <4> QED
        BY <4>1 DEF AnswersAreHandled
    <3>3. CASE k = Len(heard) /\ i = Len(Ticket!Said) + 1
      BY <2>2, <2>4, <3>3
    <3> QED
      BY <2>2, <2>5, <3>1, <3>2, <3>3
  <2> QED
    BY <2>2, <2>5, <2>6 DEF AnswersAreHandled
<1>3. CASE Deliberate /\ Ticket!NextRound
  <2>1. /\ Len(heard') = Len(heard) + 1 /\ heard'[Len(heard) + 1] = <<>>
        /\ \A k \in 1 .. Len(heard) : heard'[k] = heard[k]
        /\ Len(heard) \in Nat
    BY <1>3, Ticket!NextRoundOpens, AgentsAreAgents DEF Ticket!Round
  <2>2. UNCHANGED peers
    BY <1>3 DEF Ticket!NextRound
  <2>3. ASSUME NEW k \in 1 .. Len(heard')
        PROVE  k \in 1 .. Len(heard) \/ k = Len(heard) + 1
    BY <2>1
  <2> QED
    BY <2>1, <2>2, <2>3 DEF AnswersAreHandled
<1>4. CASE (Deliberate /\ ~Ticket!NextRound) \/ UNCHANGED vars
  <2>1. UNCHANGED <<heard, peers>>
    BY <1>4, DeliberateIs DEF PeersAreDiscovered, HasAnAgent, vars, deliberation,
       Ticket!Investigating, Ticket!Investigate, Ticket!Refining, Ticket!Refine,
       Ticket!Converging, Ticket!Converge, Ticket!GoingOn, Ticket!GivingUp, Ticket!GiveUp,
       Ticket!Assembling, Ticket!Assemble, Ticket!Failing, Ticket!Raise
  <2> QED
    BY <2>1 DEF AnswersAreHandled
<1> QED
  BY <1>1, <1>2, <1>3, <1>4 DEF Next

LEMMA UpToThree == ASSUME NEW n, n \in Nat \ {0}, n <= 3 PROVE n \in 1 .. 3
  OBVIOUS

LEMMA LastOfRounds ==
  ASSUME NEW n \in 1 .. 3
  PROVE  n \in 1 .. n /\ \A k \in 1 .. n : k \in 1 .. 3
  OBVIOUS

LEMMA RoundsOfThree ==
  ASSUME Ticket!Inv
  PROVE  heard # <<>> => Len(heard) \in 1 .. 3
<1> SUFFICES ASSUME heard # <<>> PROVE Len(heard) \in 1 .. 3
  OBVIOUS
<1>1. Len(heard) \in Nat \ {0}
  BY Ticket!RoundFacts, AgentsAreAgents DEF Ticket!Inv, Ticket!Round
<1>2. Len(heard) <= 3
  BY DEF Ticket!Inv, Ticket!EveryPeerEveryRound, Ticket!Round, MAX_DELIBERATION_ROUNDS
<1> QED
  BY <1>1, <1>2, UpToThree

(* What a round of these answers makes of the alternatives. *)
LEMMA RoundBacksA ==
  ASSUME PeersAreDiscovered, AnswersAreHandled, Ticket!Inv,
         Len(heard) \in 1 .. 3, Len(Ticket!Said) = Len(peers)
  PROVE  /\ \A i \in 1 .. Len(peers) :
              Ticket!Said[i].answer = SaidBy(peers[i], Len(heard))
         /\ {a \in Ticket!Alternative :
               \E i \in 1 .. Len(Ticket!Said) : Ticket!Backs(Ticket!Said[i].answer) = a}
              = IF Heeded = {} THEN {} ELSE {1}
         /\ \A a \in Ticket!Alternative :
              Ticket!Against(Ticket!Said, a) = IF a = 1 THEN {} ELSE Heeded
<1>1. \A i \in 1 .. Len(peers) : Ticket!Said[i].answer = SaidBy(peers[i], Len(heard))
  BY DEF AnswersAreHandled, Ticket!Said, Ticket!Round
<1>2. ASSUME NEW i \in 1 .. Len(peers)
      PROVE  Ticket!Backs(Ticket!Said[i].answer) = IF i \in Heeded THEN 1 ELSE 0
  <2>1. Ticket!Backs(SaidBy(peers[i], Len(heard))) = IF peers[i] \in Reviewer THEN 1 ELSE 0
    BY SaidFacts
  <2> QED
    BY <1>1, <2>1 DEF Heeded
<1>3. Heeded \subseteq 1 .. Len(peers)
  BY DEF Heeded
<1> DEFINE backed(i) == Ticket!Backs(Ticket!Said[i].answer)
<1> HIDE DEF backed
<1>4. {a \in 1 .. 3 : \E i \in 1 .. Len(peers) : backed(i) = a} = IF Heeded = {} THEN {} ELSE {1}
  BY <1>2, <1>3 DEF backed
<1>5. ASSUME NEW a \in 1 .. 3
      PROVE  {i \in 1 .. Len(peers) : backed(i) \notin {0, a}} = IF a = 1 THEN {} ELSE Heeded
  <2>1. \A i \in 1 .. Len(peers) : backed(i) = IF i \in Heeded THEN 1 ELSE 0
    BY <1>2 DEF backed
  <2>2. CASE a = 1
    BY <2>1, <2>2
  <2>3. CASE a # 1
    <3>1. \A i \in 1 .. Len(peers) : backed(i) \notin {0, a} <=> i \in Heeded
      BY <2>1, <2>3
    <3> QED
      BY <1>3, <2>3, <3>1
  <2> QED
    BY <2>2, <2>3
<1> QED
  BY <1>1, <1>4, <1>5 DEF backed, Ticket!Alternative, Ticket!Against, Ticket!NoAlternative

LEMMA SettlesStep ==
  ASSUME PeersAreDiscovered, AnswersAreHandled, FirstRoundSettles, Ticket!Inv, [Next]_vars
  PROVE  FirstRoundSettles'
<1>1. [Ticket!Next]_(Ticket!vars)
  BY DiscoverIs, ConsultIs, DeliberateIs DEF Next, vars, deliberation, Ticket!vars, Ticket!Next,
     PeersAreDiscovered, HasAnAgent, Ticket!Discovering, Ticket!Consulting,
     Ticket!Investigating, Ticket!Refining, Ticket!Converging, Ticket!GoingOn, Ticket!GivingUp,
     Ticket!Assembling, Ticket!Failing
<1>2. heard # <<>> => Len(heard) \in 1 .. 3
  BY RoundsOfThree
<1>3. CASE Ticket!Refine
  <2>1. /\ stage = "consult" /\ stage' = "refined" /\ UNCHANGED <<peers, heard>>
        /\ Len(Ticket!Said) = Len(peers)
        /\ recommended' = recommended \cup
             {a \in Ticket!Alternative :
                \E i \in 1 .. Len(Ticket!Said) : Ticket!Backs(Ticket!Said[i].answer) = a}
        /\ ruledOut' = [a \in Ticket!Alternative |->
             IF ruledOut[a] # <<0, 0>> \/ Ticket!Against(Ticket!Said, a) = {}
             THEN ruledOut[a]
             ELSE <<Len(heard), Ticket!First(Ticket!Against(Ticket!Said, a))>>]
    BY <1>3 DEF Ticket!Refine, Ticket!Standing, Ticket!Round
  <2>2. Len(heard) \in 1 .. 3
    BY <1>2, <2>1 DEF Ticket!Inv, Ticket!Progress
  <2>3. Heeded' = Heeded
    BY <2>1 DEF Heeded
  <2>4. /\ recommended' = recommended \cup (IF Heeded = {} THEN {} ELSE {1})
        /\ ruledOut' = [a \in 1 .. 3 |->
             IF ruledOut[a] # <<0, 0>> \/ (IF a = 1 THEN {} ELSE Heeded) = {}
             THEN ruledOut[a]
             ELSE <<Len(heard), Ticket!First(Heeded)>>]
    BY <2>1, <2>2, RoundBacksA DEF Ticket!Alternative
  <2>5. CASE Heeded = {}
    BY <2>1, <2>3, <2>4, <2>5 DEF FirstRoundSettles, Unsettled
  <2>6. CASE Heeded # {} /\ Len(heard) = 1
    <3>1. Unsettled
      BY <2>1, <2>6 DEF FirstRoundSettles
    <3>2. recommended' = {1}
      BY <2>4, <2>6, <3>1 DEF Unsettled
    <3>3. ruledOut' = [a \in 1 .. 3 |-> IF a = 1 THEN <<0, 0>> ELSE <<1, Ticket!First(Heeded)>>]
      BY <2>4, <2>6, <3>1 DEF Unsettled
    <3> QED
      BY <2>1, <2>3, <2>6, <3>2, <3>3 DEF FirstRoundSettles, Settled
  <2>7. CASE Heeded # {} /\ Len(heard) # 1
    <3>1. Settled
      BY <2>1, <2>7 DEF FirstRoundSettles
    <3>2. recommended' = {1}
      BY <2>4, <2>7, <3>1 DEF Settled
    <3>3. ruledOut' = [a \in 1 .. 3 |-> IF a = 1 THEN <<0, 0>> ELSE <<1, Ticket!First(Heeded)>>]
      BY <2>4, <2>7, <3>1 DEF Settled
    <3> QED
      BY <2>1, <2>3, <2>7, <3>2, <3>3 DEF FirstRoundSettles, Settled
  <2> QED
    BY <2>5, <2>6, <2>7
<1>4. CASE Ticket!Discover
  BY <1>4 DEF Ticket!Discover, FirstRoundSettles, Unsettled
<1>5. CASE ~Ticket!Refine /\ ~Ticket!Discover
  <2>1. UNCHANGED <<peers, recommended, ruledOut>>
    BY <1>1, <1>5 DEF Ticket!Next, Ticket!vars, Ticket!Investigate, Ticket!Consult,
       Ticket!Converge, Ticket!NextRound, Ticket!GiveUp, Ticket!Assemble, Ticket!Raise
  <2>2. Heeded' = Heeded /\ Unsettled' = Unsettled /\ Settled' = Settled
    BY <2>1 DEF Heeded, Unsettled, Settled
  <2>3. CASE Ticket!Consult
    <3>1. Len(heard') = Len(heard) /\ stage' = stage
      BY <2>3, Ticket!ConsultAppends, AgentsAreAgents DEF Ticket!Inv, Ticket!Round, Ticket!Consult
    <3> QED
      BY <2>2, <3>1 DEF FirstRoundSettles
  <2>4. CASE Ticket!NextRound
    <3>1. Len(heard') = Len(heard) + 1 /\ stage = "refined" /\ stage' = "consult"
      BY <2>4, Ticket!NextRoundOpens, AgentsAreAgents DEF Ticket!Inv, Ticket!Round, Ticket!NextRound
    <3>2. Len(heard) \in 1 .. 3
      BY <1>2, <3>1 DEF Ticket!Inv, Ticket!Progress
    <3> QED
      BY <2>2, <3>1, <3>2 DEF FirstRoundSettles
  <2>5. CASE ~Ticket!Consult /\ ~Ticket!NextRound
    <3>1. /\ UNCHANGED heard
          /\ stage' \in {"intake", "discover", "consult"} =>
               stage \in {"intake", "discover"} \/ stage' = stage
          /\ stage \in {"intake", "discover"} => stage' \in {"intake", "discover", "raised"}
          /\ stage = "consult" => stage' \in {"consult", "raised"}
          /\ stage = "raised" => stage' = "raised"
      BY <1>1, <1>5, <2>5 DEF Ticket!Next, Ticket!vars, Ticket!Investigate,
         Ticket!Converge, Ticket!GiveUp, Ticket!Assemble, Ticket!Raise
    <3> QED
      BY <2>2, <3>1 DEF FirstRoundSettles
  <2> QED
    BY <2>3, <2>4, <2>5
<1> QED
  BY <1>3, <1>4, <1>5

LEMMA SignalsStep ==
  ASSUME PeersAreDiscovered, SignalsAreTold, Ticket!TraceInv, [Next]_vars
  PROVE  SignalsAreTold'
<1>1. CASE Discover
  <2>1. /\ Ticket!Discovering(signals') /\ signals' \in Declared \cup {<<>>}
        /\ stage = "discover" /\ stage' = "consult"
    BY <1>1, DiscoverIs DEF Discover, Protocol!Discovering, Protocol!Discover
  <2>2. Ticket!SignalledIn(events) = {}
    BY <2>1 DEF SignalsAreTold, ToSet
  <2> DEFINE new == Ticket!DiscoveryEvents(signals', Ticket!ToSet(peers'))
  <2>3. events' = events \o new
    BY <2>1 DEF Ticket!Discovering, Ticket!Emit
  <2>4. Ticket!IsList(new) /\ Ticket!SignalledIn(new) = Ticket!ToSet(signals')
    BY <2>1, Ticket!SignalsTold, AgentsAreAgents
  <2> HIDE DEF new
  <2>5. Ticket!SignalledIn(events \o new) = Ticket!SignalledIn(events) \cup Ticket!SignalledIn(new)
    BY <2>4, Ticket!SignalledJoined, AgentsAreAgents DEF Ticket!TraceInv, Ticket!Traced
  <2>6. Ticket!ToSet(signals') = ToSet(signals')
    BY DEF Ticket!ToSet, ToSet
  <2>7. Ticket!SignalledIn(events') = ToSet(signals')
    BY <2>2, <2>3, <2>4, <2>5, <2>6
  <2> QED
    BY <2>1, <2>7 DEF SignalsAreTold
<1>2. CASE ~Discover
  <2>1. UNCHANGED signals /\ [Ticket!TraceNext]_(Ticket!traceVars)
    BY <1>2, ConsultIs, DeliberateIs DEF Next, vars, deliberation, Consult, Deliberate,
       Ticket!traceVars, Ticket!vars, Ticket!TraceNext, PeersAreDiscovered, HasAnAgent
  <2>2. ~\E signalled \in Declared \cup {<<>>} : Ticket!Discovering(signalled)
    <3>1. \A signalled : Ticket!Discovering(signalled) => stage = "discover" /\ stage' = "consult"
      BY DEF Ticket!Discovering, Ticket!Discover
    <3>2. stage = "discover" => stage' # "consult"
      BY <1>2 DEF Next, vars, deliberation, Consult, Deliberate, Protocol!Consulting, Protocol!Consult,
         Protocol!Investigating, Protocol!Investigate, Protocol!Refining, Protocol!Refine,
         Protocol!Converging, Protocol!Converge, Protocol!GoingOn, Protocol!NextRound,
         Protocol!GivingUp, Protocol!GiveUp, Protocol!Assembling, Protocol!Assemble,
         Protocol!Failing, Protocol!Raise
    <3> QED
      BY <3>1, <3>2
  <2>3. Ticket!SignalledIn(events') = Ticket!SignalledIn(events)
    BY <2>1, <2>2, Ticket!SignalsStay, AgentsAreAgents
  <2>4. stage' \in {"intake", "discover"} => stage \in {"intake", "discover"}
    BY <1>2 DEF Next, vars, deliberation, Consult, Deliberate, Protocol!Consulting, Protocol!Consult,
       Protocol!Investigating, Protocol!Investigate, Protocol!Refining, Protocol!Refine,
       Protocol!Converging, Protocol!Converge, Protocol!GoingOn, Protocol!NextRound,
       Protocol!GivingUp, Protocol!GiveUp, Protocol!Assembling, Protocol!Assemble,
       Protocol!Failing, Protocol!Raise
  <2> QED
    BY <2>1, <2>3, <2>4 DEF SignalsAreTold
<1> QED
  BY <1>1, <1>2

LEMMA ToldStep ==
  ASSUME PeersAreDiscovered, TeamsAreTold, Ticket!TraceInv, [Next]_vars
  PROVE  TeamsAreTold'
<1> USE DEF PeersAreDiscovered, HasAnAgent
<1>1. [Ticket!TraceNext]_(Ticket!traceVars)
  BY DiscoverIs, ConsultIs, DeliberateIs DEF Next, vars, deliberation, Ticket!traceVars,
     Ticket!vars, Ticket!TraceNext
<1>2. UNCHANGED owner
  BY DEF Next, vars, Discover, Consult, Deliberate, Protocol!Discovering,
         Protocol!Consulting, Protocol!Investigating, Protocol!Refining, Protocol!Converging,
         Protocol!GoingOn, Protocol!GivingUp, Protocol!Assembling, Protocol!Failing
<1>3. CASE Discover
  <2> SUFFICES ASSUME signals' # <<>>, NEW team \in Team \ {owner}
               PROVE  \E i \in 1 .. Len(events') :
                        events'[i].kind = "peer_decision" /\ events'[i].to = team
    BY <1>2 DEF TeamsAreTold
  <2>1. Ticket!Discovering(signals') /\ signals' \in Declared \cup {<<>>}
    BY <1>3, DiscoverIs
  <2>2. Ticket!Among(team, Ids(DIRECTORY))
    BY DirectoryFacts, TeamsAreListed DEF Team, Directory, Ids, Ticket!Among
  <2>3. Ticket!Among(team, Ticket!Others)
    BY <2>2, TeamsAreListed, Ticket!KeptElements, AgentsAreAgents DEF Ticket!Others
  <2> QED
    BY <2>1, <2>3, Ticket!EveryTeamTold, AgentsAreAgents
       DEF Ticket!Discovering, Ticket!TraceInv, Ticket!Traced
<1>4. CASE ~Discover
  <2>1. UNCHANGED signals
    BY <1>4 DEF Next, vars, Consult, Deliberate
  <2>2. \A i \in 1 .. Len(events) : i \in 1 .. Len(events') /\ events'[i] = events[i]
    <3>1. /\ Ticket!IsList(events') /\ Len(events) <= Len(events')
          /\ \A i \in 1 .. Len(events) : events'[i] = events[i]
      BY <1>1, Ticket!StepAppends, AgentsAreAgents
    <3> QED
      BY <3>1 DEF Ticket!IsList, Ticket!TraceInv, Ticket!Traced
  <2> QED
    BY <1>2, <2>1, <2>2 DEF TeamsAreTold
<1> QED
  BY <1>3, <1>4

LEMMA KafkaInvHolds == Spec => [](KafkaInv /\ Ticket!TraceInv /\ Ticket!NamesPeers)
<1>1. Init => KafkaInv
  <2> SUFFICES ASSUME Init PROVE KafkaInv
    OBVIOUS
  <2>1. /\ owner \in IMPLEMENTED_AGENTS /\ signals = <<>> /\ peers = <<>> /\ heard = <<>>
        /\ recommended = {} /\ ruledOut = [a \in 1 .. 3 |-> <<0, 0>>]
    BY DEF Init, Protocol!TraceInit, Protocol!Init, Protocol!Alternative, Protocol!Standing
  <2>2. ToSet(signals) = {}
    BY <2>1 DEF ToSet
  <2>3. PeersAreDiscovered
    BY <2>1, <2>2, PeersFound DEF PeersAreDiscovered
  <2>4. Ticket!SignalledIn(events) = {}
    BY DEF Init, Protocol!TraceInit, Protocol!Note, Protocol!Event, Ticket!SignalledIn
  <2> QED
    BY <2>1, <2>2, <2>3, <2>4 DEF KafkaInv, AnswersAreHandled, FirstRoundSettles, Heeded, Unsettled,
       TeamsAreTold, SignalsAreTold
<1>2. KafkaInv /\ Ticket!TraceInv /\ [Next]_vars => KafkaInv'
  BY PeersStep, AnswersStep, SettlesStep, SignalsStep, ToldStep DEF KafkaInv, Ticket!TraceInv, Ticket!Inv
<1>3. Spec => [](Ticket!TraceInv /\ Ticket!NamesPeers)
  BY KeepsTheProtocol, Ticket!TraceInvHolds, Ticket!NamesPeersHolds, AgentsAreAgents, PTL
<1> QED
  BY <1>1, <1>2, <1>3, PTL DEF Spec

-----------------------------------------------------------------------------
(* What the record of a decided ticket is. *)
LEMMA DecidedFacts ==
  ASSUME KafkaInv, Ticket!TraceInv, Decided
  PROVE  /\ Len(heard) \in 1 .. 3
         /\ \A k \in 1 .. Len(heard) : \A i \in 1 .. Len(peers) :
              heard[k][i].answer = SaidBy(peers[i], k)
         /\ \A k \in 1 .. Len(heard) : k < Len(heard) =>
              \E i \in 1 .. Len(peers) : ~Agrees(peers[i], k)
         /\ converged <=> \A i \in 1 .. Len(peers) : Agrees(peers[i], Len(heard))
         /\ converged \/ Len(heard) = 3
         /\ finding = Ticket!Summary
<1> USE DEF Ticket!TraceInv, Decided
<1>1. Len(heard) \in 1 .. 3
  BY RoundsOfThree DEF Ticket!Inv, Ticket!Progress
<1>2. ASSUME NEW k \in 1 .. Len(heard)
      PROVE  Len(heard[k]) = Len(peers)
  BY <1>1 DEF Ticket!Inv, Ticket!EveryPeerEveryRound, Ticket!Round
<1>3. ASSUME NEW k \in 1 .. Len(heard), NEW i \in 1 .. Len(peers)
      PROVE  heard[k][i].answer = SaidBy(peers[i], k)
  BY <1>2 DEF KafkaInv, AnswersAreHandled
<1>4. ASSUME NEW k \in 1 .. Len(heard)
      PROVE  Ticket!HasConverged(heard[k]) <=> \A i \in 1 .. Len(peers) : Agrees(peers[i], k)
  <2>1. k \in 1 .. 3
    BY <1>1, LastOfRounds
  <2>2. ASSUME NEW i \in 1 .. Len(peers)
        PROVE  Ticket!Assents(heard[k][i].answer) <=> Agrees(peers[i], k)
    BY <1>3, <2>1, SaidFacts
  <2> QED
    BY <1>2, <2>2 DEF Ticket!HasConverged
<1>5. /\ \A k \in 1 .. Len(heard) : k < Len(heard) => ~Ticket!HasConverged(heard[k])
      /\ converged <=> Ticket!HasConverged(heard[Len(heard)])
      /\ converged \/ Len(heard) = 3
  BY DEF Ticket!Inv, Ticket!NoRoundAfterAgreement, Ticket!Round, Ticket!Said,
         MAX_DELIBERATION_ROUNDS
<1>6. Len(heard) \in 1 .. Len(heard)
  BY <1>1, LastOfRounds
<1>7. finding = Ticket!Summary
  BY DEF Ticket!Inv, Ticket!Summarised
<1> QED
  BY <1>1, <1>3, <1>4, <1>5, <1>6, <1>7

(* Each team that answers for a concern that was signalled is a peer, and  *)
(* the other way round.                                                    *)
LEMMA PeersAreAsked ==
  ASSUME PeersAreDiscovered
  PROVE  \A team : team \in Ticket!Members <=>
                     \E concern \in ToSet(signals) : team \in Authorities(concern)
<1>1. \A team : team \in Ticket!Members <=> Ticket!Among(team, peers)
  BY DEF Ticket!Members, Ticket!Among
<1> QED
  BY <1>1, PeerFacts

(* A peer that has an agent agreed in the last round.                      *)
LEMMA ReviewersAgree ==
  ASSUME KafkaInv, Ticket!TraceInv, Decided, NEW i \in 1 .. Len(peers),
         peers[i] \in Reviewer
  PROVE  Ticket!Assents(heard[Len(heard)][i].answer)
<1>1. Len(heard) \in 1 .. 3 /\ Agrees(peers[i], Len(heard))
  BY DecidedFacts DEF Agrees
<1>2. heard[Len(heard)][i].answer = SaidBy(peers[i], Len(heard))
  BY <1>1, LastOfRounds, DecidedFacts
<1> QED
  BY <1>1, <1>2, SaidFacts

(* Whatever may be signalled: the teams asked, in every round, are all     *)
(* those that answer for a concern that was signalled, and nobody else;    *)
(* each has agreed in the last round, or is named to a human as a team     *)
(* without an agent, never both; and the timeline tells all the signals.   *)
THEOREM ConsequencesReachTeams == Spec => []ConsequencesReachTheirTeams
<1>1. KafkaInv /\ Ticket!TraceInv => ConsequencesReachTheirTeams
  <2> SUFFICES ASSUME KafkaInv, Ticket!TraceInv, Decided
               PROVE  ConsequencesReachTheirTeams
    BY DEF ConsequencesReachTheirTeams
  <2>1. Ticket!Members = UNION {Authorities(concern) : concern \in ToSet(signals)}
    BY PeersAreAsked DEF KafkaInv
  <2>2. Protocol!Members = Ticket!Members
    BY DEF Protocol!Members, Ticket!Members
  <2>3. ASSUME NEW k \in 1 .. Len(heard)
        PROVE  {heard[k][i].from : i \in 1 .. Len(heard[k])} = Ticket!Members
    <3>1. /\ Len(heard[k]) = Len(peers)
          /\ \A i \in 1 .. Len(peers) : heard[k][i].from = peers[i]
      <4>1. Len(heard[k]) = Len(peers)
        BY DEF Decided, Ticket!TraceInv, Ticket!Inv, Ticket!EveryPeerEveryRound, Ticket!Round
      <4>2. \A i \in 1 .. Len(heard[k]) : heard[k][i].from = peers[i]
        BY DEF Decided, Ticket!TraceInv, Ticket!Inv, Ticket!EveryPeerEveryRound, Ticket!Round
      <4> QED
        BY <4>1, <4>2
    <3> QED
      BY <3>1 DEF Ticket!Members
  <2>4. Agreed = Ticket!Members \ finding.undeployed
    <3>1. \A team : team \in Ticket!Members <=> \E i \in 1 .. Len(peers) : peers[i] = team
      BY DEF Ticket!Members
    <3>2. \A team : team \in Agreed <=>
             \E i \in 1 .. Len(peers) :
               peers[i] = team /\ Ticket!Assents(heard[Len(heard)][i].answer)
      BY DEF Agreed, Protocol!Assents, Ticket!Assents
    <3>3. finding.undeployed = Ticket!Members \ IMPLEMENTED_AGENTS
      BY DecidedFacts, DirectoryFacts DEF Ticket!Summary
    <3>4. ASSUME NEW i \in 1 .. Len(peers)
          PROVE  Ticket!Assents(heard[Len(heard)][i].answer) <=> peers[i] \in IMPLEMENTED_AGENTS
      <4>1. peers[i] \in IMPLEMENTED_AGENTS <=> peers[i] \in Reviewer
        BY PeerFacts DEF KafkaInv, Reviewer
      <4>2. CASE peers[i] \in Reviewer
        BY <4>1, <4>2, ReviewersAgree
      <4>3. CASE peers[i] \notin Reviewer
        <5>1. Len(heard) \in 1 .. 3 /\ Len(heard) \in 1 .. Len(heard)
          BY DecidedFacts, LastOfRounds
        <5>2. heard[Len(heard)][i].answer = SaidBy(peers[i], Len(heard))
          BY <5>1, DecidedFacts
        <5>3. ~Agrees(peers[i], Len(heard))
          BY <4>3 DEF Agrees
        <5> QED
          BY <4>1, <4>3, <5>1, <5>2, <5>3, SaidFacts
      <4> QED
        BY <4>2, <4>3
    <3> QED
      BY <3>1, <3>2, <3>3, <3>4
  <2>5. ToldSignals = ToSet(signals)
    BY DEF ToldSignals, Ticket!SignalledIn, KafkaInv, SignalsAreTold
  <2> QED
    BY <2>1, <2>2, <2>3, <2>4, <2>5 DEF ConsequencesReachTheirTeams
<1> QED
  BY <1>1, KafkaInvHolds, PTL

(* A human is asked just when the clients team, which must take a vote, or *)
(* a team without an agent answers for a consequence: never because these  *)
(* agents would not come to terms.                                         *)
THEOREM HumansForCauses == Spec => []HumanForACause
<1>1. KafkaInv /\ Ticket!TraceInv => HumanForACause
  <2> DEFINE needs(team) == team = "kafka-clients" \/ team \notin IMPLEMENTED_AGENTS
  <2> SUFFICES ASSUME KafkaInv, Ticket!TraceInv, Decided
               PROVE  Ticket!RequiresHuman <=> \E i \in 1 .. Len(peers) : needs(peers[i])
    <3>1. Protocol!RequiresHuman = Ticket!RequiresHuman
      BY DEF Protocol!RequiresHuman, Ticket!RequiresHuman
    <3>2. ASSUME PeersAreDiscovered
          PROVE  (\E concern \in ToSet(signals) : \E team \in Authorities(concern) : needs(team))
                   <=> \E i \in 1 .. Len(peers) : needs(peers[i])
      <4>1. \A team : (\E concern \in ToSet(signals) : team \in Authorities(concern))
                        <=> \E i \in 1 .. Len(peers) : peers[i] = team
        BY <3>2, PeersAreAsked DEF Ticket!Members
      <4> HIDE DEF needs
      <4> QED
        BY <4>1
    <3> QED
      BY <3>1, <3>2 DEF HumanForACause, KafkaInv
  <2>1. finding = Ticket!Summary
    BY DecidedFacts
  <2>2. finding.undeployed # {} <=> \E i \in 1 .. Len(peers) : peers[i] \notin IMPLEMENTED_AGENTS
    BY <2>1, DirectoryFacts DEF Ticket!Summary, Ticket!Members
  <2>3. ASSUME NEW k \in 1 .. Len(heard), NEW i \in 1 .. Len(peers)
        PROVE  /\ heard[k][i].answer.authority <=> peers[i] = "kafka-clients"
               /\ heard[k][i].answer.timedOut <=> peers[i] \notin IMPLEMENTED_AGENTS
    <3>1. k \in 1 .. 3
      BY DecidedFacts
    <3>2. peers[i] \in Reviewer <=> peers[i] \in IMPLEMENTED_AGENTS
      BY PeerFacts DEF KafkaInv, Reviewer
    <3> QED
      BY <3>1, <3>2, DecidedFacts, SaidFacts
  <2>4. 1 \in 1 .. Len(heard)
    BY DecidedFacts
  <2>5. finding.authority # {} <=> \E i \in 1 .. Len(peers) : peers[i] = "kafka-clients"
    BY <2>1, <2>3, <2>4 DEF Ticket!Summary, Ticket!Whose, Ticket!Round
  <2>6. finding.unreachable # {} <=> \E i \in 1 .. Len(peers) : peers[i] \notin IMPLEMENTED_AGENTS
    BY <2>1, <2>3, <2>4 DEF Ticket!Summary, Ticket!Whose, Ticket!Round
  <2>7. finding.tie => \E i \in 1 .. Len(peers) : peers[i] \notin IMPLEMENTED_AGENTS
    <3> SUFFICES ASSUME ~converged
                 PROVE  \E i \in 1 .. Len(peers) : peers[i] \notin IMPLEMENTED_AGENTS
      BY <2>1 DEF Ticket!Summary
    <3>1. PICK i \in 1 .. Len(peers) : ~Agrees(peers[i], 3)
      BY DecidedFacts
    <3> QED
      BY <3>1, PeerFacts DEF Agrees, KafkaInv
  <2>8. finding.undecided => \E i \in 1 .. Len(peers) : peers[i] \notin IMPLEMENTED_AGENTS
    <3> SUFFICES ASSUME recommended = {}, peers # <<>>
                 PROVE  \E i \in 1 .. Len(peers) : peers[i] \notin IMPLEMENTED_AGENTS
      BY <2>1 DEF Ticket!Summary
    <3>1. Heeded = {}
      BY DEF KafkaInv, FirstRoundSettles, Settled, Decided
    <3>2. 1 \in 1 .. Len(peers)
      <4>1. peers \in Seq(Team)
        BY PeerFacts DEF KafkaInv
      <4> QED
        BY <4>1
    <3> QED
      BY <3>1, <3>2, PeerFacts DEF Heeded, KafkaInv
  <2> QED
    BY <2>2, <2>5, <2>6, <2>7, <2>8 DEF Ticket!RequiresHuman
<1> QED
  BY <1>1, KafkaInvHolds, PTL

(* The agents come to the same terms, whatever may be signalled: what they *)
(* recommend, what they rule out and when, and how many rounds it takes.   *)
THEOREM SameTerms == Spec => []ComesToOneRecommendation
<1>1. KafkaInv /\ Ticket!TraceInv => ComesToOneRecommendation
  <2> SUFFICES ASSUME KafkaInv, Ticket!TraceInv, Decided
               PROVE  ComesToOneRecommendation
    BY DEF ComesToOneRecommendation
  <2> DEFINE heeded == {i \in 1 .. Len(peers) : peers[i] \in IMPLEMENTED_AGENTS}
             first == Protocol!First(heeded)
             asked == UNION {Authorities(concern) : concern \in ToSet(signals)}
  <2>1. heeded = Heeded /\ first = Ticket!First(Heeded)
    <3>1. heeded = Heeded
      BY PeerFacts DEF KafkaInv, Heeded, Reviewer
    <3> QED
      BY <3>1 DEF Protocol!First, Ticket!First
  <2>2. asked = Ticket!Members
    BY PeersAreAsked DEF KafkaInv
  <2> HIDE DEF heeded, first, asked
  <2>3. ASSUME heeded = {} PROVE recommended = {}
    BY <2>1, <2>3 DEF KafkaInv, FirstRoundSettles, Unsettled
  <2>4. ASSUME heeded # {}
        PROVE  /\ recommended = {1}
               /\ ruledOut = <<Protocol!Standing, <<1, first>>, <<1, first>>>>
    <3>1. Settled
      BY <2>1, <2>4 DEF KafkaInv, FirstRoundSettles, Decided
    <3>2. [a \in 1 .. 3 |-> IF a = 1 THEN <<0, 0>> ELSE <<1, first>>]
            = <<<<0, 0>>, <<1, first>>, <<1, first>>>>
      OBVIOUS
    <3> QED
      BY <2>1, <3>1, <3>2 DEF Settled, Protocol!Standing
  <2>5. Len(heard) = IF asked = {} THEN 1 ELSE IF asked = {"kafka-clients"} THEN 2 ELSE 3
    <3>1. /\ Len(heard) = 1 \/ Len(heard) = 2 \/ Len(heard) = 3
          /\ Len(heard) # 3 => \A i \in 1 .. Len(peers) : Agrees(peers[i], Len(heard))
          /\ Len(heard) # 1 => \E i \in 1 .. Len(peers) : ~Agrees(peers[i], 1)
          /\ Len(heard) = 3 => \E i \in 1 .. Len(peers) : ~Agrees(peers[i], 2)
      <4>1. /\ Len(heard) \in 1 .. 3
            /\ \A k \in 1 .. Len(heard) : k < Len(heard) =>
                 \E i \in 1 .. Len(peers) : ~Agrees(peers[i], k)
            /\ converged <=> \A i \in 1 .. Len(peers) : Agrees(peers[i], Len(heard))
            /\ converged \/ Len(heard) = 3
        BY DecidedFacts
      <4> DEFINE n == Len(heard)
      <4> HIDE DEF n
      <4>2. n \in 1 .. 3 /\ \A k \in 1 .. n : k < n => \E i \in 1 .. Len(peers) : ~Agrees(peers[i], k)
        BY <4>1 DEF n
      <4>3. /\ n = 1 \/ n = 2 \/ n = 3
            /\ n # 1 => 1 \in 1 .. n /\ 1 < n
            /\ n = 3 => 2 \in 1 .. n /\ 2 < n
        BY <4>2
      <4> QED
        BY <4>1, <4>2, <4>3 DEF n
    <3>2. \A t : t \in asked <=> \E i \in 1 .. Len(peers) : peers[i] = t
      BY <2>2 DEF Ticket!Members
    <3>3. CASE asked = {}
      BY <3>1, <3>2, <3>3
    <3>4. CASE asked = {"kafka-clients"}
      <4>1. \E i \in 1 .. Len(peers) : ~Agrees(peers[i], 1)
        BY <3>2, <3>4 DEF Agrees
      <4>2. \A i \in 1 .. Len(peers) : Agrees(peers[i], 2)
        BY <3>2, <3>4 DEF Agrees, Reviewer, IMPLEMENTED_AGENTS
      <4> QED
        BY <3>1, <3>4, <4>1, <4>2
    <3>5. CASE asked # {} /\ asked # {"kafka-clients"}
      <4>1. PICK i \in 1 .. Len(peers) : peers[i] # "kafka-clients"
        BY <3>2, <3>5
      <4>2. ~Agrees(peers[i], 1) /\ ~Agrees(peers[i], 2)
        BY <4>1 DEF Agrees
      <4> QED
        BY <3>1, <3>5, <4>2
    <3> QED
      BY <3>3, <3>4, <3>5
  <2> QED
    BY <2>3, <2>4, <2>5 DEF ComesToOneRecommendation, heeded, first, asked,
       MAX_DELIBERATION_ROUNDS
<1> QED
  BY <1>1, KafkaInvHolds, PTL

-----------------------------------------------------------------------------
(* What the page makes of the timeline. *)

LEMMA TeamFacts ==
  /\ Team = {"mirrormaker", "group-coordinator", "kafka-broker", "kafka-clients",
             "kafka-security", "kafka-storage", "kafka-streams", "kafka-connect",
             "kafka-tools"}
  /\ "" \notin Team
<1> DEFINE id(i) == DIRECTORY[i].agent_id
<1>1. \A t : t \in Team <=> \E i \in 1 .. 9 : id(i) = t
  BY DirectoryFacts DEF Team, Directory
<1>2. /\ id(1) = "mirrormaker" /\ id(2) = "group-coordinator" /\ id(3) = "kafka-broker"
      /\ id(4) = "kafka-clients" /\ id(5) = "kafka-security" /\ id(6) = "kafka-storage"
      /\ id(7) = "kafka-streams" /\ id(8) = "kafka-connect" /\ id(9) = "kafka-tools"
  BY DEF DIRECTORY, AgentCard
<1> HIDE DEF id
<1>3. \A t : (\E i \in 1 .. 9 : id(i) = t) <=>
        \/ t = id(1) \/ t = id(2) \/ t = id(3) \/ t = id(4) \/ t = id(5)
        \/ t = id(6) \/ t = id(7) \/ t = id(8) \/ t = id(9)
  OBVIOUS
<1>4. ASSUME NEW t
      PROVE  t \in Team <=> t \in {"mirrormaker", "group-coordinator", "kafka-broker",
               "kafka-clients", "kafka-security", "kafka-storage", "kafka-streams",
               "kafka-connect", "kafka-tools"}
  <2>1. t \in Team <=> \/ t = id(1) \/ t = id(2) \/ t = id(3) \/ t = id(4) \/ t = id(5)
                      \/ t = id(6) \/ t = id(7) \/ t = id(8) \/ t = id(9)
    BY <1>1, <1>3
  <2> QED
    BY <1>2, <2>1
<1> DEFINE nine == {"mirrormaker", "group-coordinator", "kafka-broker", "kafka-clients",
                    "kafka-security", "kafka-storage", "kafka-streams", "kafka-connect",
                    "kafka-tools"}
<1>5. "" \notin nine
  OBVIOUS
<1>6. \A t : t \in Team <=> t \in nine
  BY <1>4
<1> HIDE DEF nine
<1>7. Team = nine
  BY <1>6
<1> QED
  BY <1>5, <1>7 DEF nine

(* An event that names two agents names the owner and a peer, or a team    *)
(* that is not consulted; and once there is a signal, each peer is named.  *)
LEMMA WhatEventsName ==
  ASSUME KafkaInv, Ticket!TraceInv, Ticket!NamesPeers
  PROVE  /\ \A i \in 1 .. Len(events) :
              /\ events[i].agent \in {owner} \cup Ticket!Members
              /\ events[i].kind \notin {"response", "concern"} => events[i].agent = owner
              /\ events[i].kind = "request" => events[i].agent = owner /\ events[i].to \in Ticket!Members
              /\ events[i].kind = "response" => events[i].agent \in Ticket!Members /\ events[i].to = owner
              /\ events[i].kind = "peer_decision" =>
                   /\ events[i].agent = owner /\ events[i].to \in Team \ {owner}
                   /\ events[i].about = (events[i].to \in Ticket!Members)
         /\ \A team \in Ticket!Members : \E i \in 1 .. Len(events) :
              events[i].kind = "peer_decision" /\ events[i].to = team
         /\ signals # <<>> => \A team \in Team \ {owner} : \E i \in 1 .. Len(events) :
              events[i].kind = "peer_decision" /\ events[i].to = team
         /\ Ticket!Members \subseteq Team \ {owner}
<1>1. \A t : Ticket!Among(t, Ticket!Others) => t \in Team \ {owner}
  BY TeamsAreListed, Ticket!KeptElements, AgentsAreAgents DEF Ticket!Others
<1>2. Ticket!Telling(events, Ticket!Members, Ticket!Discovered)
  BY DEF Ticket!NamesPeers
<1>3. ASSUME NEW t \in Ticket!Members
      PROVE  t \in Team \ {owner} /\ signals # <<>>
  <2>1. PICK concern \in ToSet(signals) : t \in Authorities(concern)
    BY <1>3, PeersAreAsked DEF KafkaInv
  <2> QED
    BY <2>1 DEF Authorities, Team, ToSet
<1>4. signals # <<>> => \A team \in Team \ {owner} : \E i \in 1 .. Len(events) :
        events[i].kind = "peer_decision" /\ events[i].to = team
  BY DEF KafkaInv, TeamsAreTold
<1> QED
  BY <1>1, <1>2, <1>3, <1>4 DEF Ticket!Telling, Ticket!Tells

(* The timeline of the page is that of the ticket. *)
LEMMA PageFacts ==
  ASSUME Ticket!TraceInv
  PROVE  /\ PageEvents \in Seq(Page!ToSet(PageEvents))
         /\ Len(PageEvents) = Len(events)
         /\ \A e : e \in Page!ToSet(PageEvents) <=> \E i \in 1 .. Len(events) : e = PageEvents[i]
         /\ \A i \in 1 .. Len(events) :
              /\ PageEvents[i].kind = events[i].kind
              /\ PageEvents[i].agent = events[i].agent
              /\ PageEvents[i].to = events[i].to
              /\ PageEvents[i].consult = (events[i].kind = "peer_decision" /\ events[i].about)
<1>1. Len(events) \in Nat
  BY DEF Ticket!TraceInv, Ticket!Traced, Ticket!IsList
<1>2. Ticket!IsList(PageEvents) /\ Len(PageEvents) = Len(events)
  BY <1>1, Ticket!FunctionIsList, AgentsAreAgents DEF PageEvents
<1>3. PageEvents \in Seq({PageEvents[i] : i \in 1 .. Len(PageEvents)})
  BY <1>2, Ticket!ListIsSeq, AgentsAreAgents
<1>4. \A i \in 1 .. Len(events) :
        /\ PageEvents[i].kind = events[i].kind
        /\ PageEvents[i].agent = events[i].agent
        /\ PageEvents[i].to = events[i].to
        /\ PageEvents[i].consult = (events[i].kind = "peer_decision" /\ events[i].about)
  BY DEF PageEvents
<1> HIDE DEF PageEvents
<1> QED
  BY <1>2, <1>3, <1>4 DEF Page!ToSet

(* For the tickets that the page runs, what it derives from the timeline   *)
(* alone is right in the end, whatever may be signalled: it signs off the  *)
(* lanes of the peers that agreed, links the owner with all its peers, and *)
(* lists every other team as skipped.                                      *)
THEOREM PageIsRight == Spec => []SignedOffLanesAgreed
<1>1. KafkaInv /\ Ticket!TraceInv /\ Ticket!NamesPeers => SignedOffLanesAgreed
  <2> SUFFICES ASSUME KafkaInv, Ticket!TraceInv, Ticket!NamesPeers, Decided,
                      owner = "mirrormaker"
               PROVE  SignedOffLanesAgreed
    BY DEF SignedOffLanesAgreed
  <2> DEFINE E == Page!ToSet(PageEvents)
             Skipped == {PageEvents[n].to : n \in Page!SkippedFrom(PageEvents)}
             Named   == {PageEvents[n].to : n \in Page!ConsultedFrom(PageEvents)}
  <2>1. Protocol!Members = Ticket!Members /\ Ticket!Members \subseteq Team \ {owner}
    BY WhatEventsName DEF Protocol!Members, Ticket!Members
  <2>2. ASSUME NEW e \in E
        PROVE  /\ e.kind = "request" => e.agent = owner /\ e.to \in Ticket!Members
               /\ e.kind = "response" => e.agent \in Ticket!Members /\ e.to = owner
               /\ e.kind = "peer_decision" =>
                    /\ e.agent = owner /\ e.to \in Team \ {owner}
                    /\ e.consult <=> e.to \in Ticket!Members
    <3>1. PICK i \in 1 .. Len(events) : e = PageEvents[i]
      BY <2>2, PageFacts
    <3>2. /\ e.kind = events[i].kind /\ e.agent = events[i].agent /\ e.to = events[i].to
          /\ e.consult = (events[i].kind = "peer_decision" /\ events[i].about)
      BY <3>1, PageFacts
    <3>3. /\ events[i].kind = "request" => events[i].agent = owner /\ events[i].to \in Ticket!Members
          /\ events[i].kind = "response" => events[i].agent \in Ticket!Members /\ events[i].to = owner
          /\ events[i].kind = "peer_decision" =>
               /\ events[i].agent = owner /\ events[i].to \in Team \ {owner}
               /\ events[i].about = (events[i].to \in Ticket!Members)
      BY WhatEventsName
    <3> QED
      BY <3>2, <3>3
  <2>3. ASSUME NEW team, team \in Ticket!Members \/ (signals # <<>> /\ team \in Team \ {owner})
        PROVE  \E e \in E : e.kind = "peer_decision" /\ e.to = team
    <3>1. PICK i \in 1 .. Len(events) : events[i].kind = "peer_decision" /\ events[i].to = team
      BY <2>3, WhatEventsName
    <3> QED
      BY <3>1, PageFacts
  <2>4. /\ DOMAIN PageEvents = 1 .. Len(events)
        /\ \A e : e \in E <=> \E n \in 1 .. Len(events) : e = PageEvents[n]
    BY PageFacts
  <2> HIDE DEF E
  <2>5. Named = Ticket!Members
    <3>1. Named = {e.to : e \in {x \in E : x.kind = "peer_decision" /\ x.consult}}
      BY <2>4 DEF Page!ConsultedFrom
    <3> HIDE DEF Named
    <3> QED
      BY <2>2, <2>3, <3>1
  <2>6. signals # <<>> => Skipped = Team \ (Ticket!Members \cup {owner})
    <3>1. Skipped = {e.to : e \in {x \in E : x.kind = "peer_decision" /\ ~x.consult}}
      BY <2>4 DEF Page!SkippedFrom
    <3> HIDE DEF Skipped
    <3> QED
      BY <2>2, <2>3, <3>1
  <2>7. Page!MeshLinks(PageEvents) = {{owner, peer} : peer \in Ticket!Members}
    <3>1. Page!MeshLinks(PageEvents) =
            {{e.agent, e.to} : e \in {x \in E :
               /\ x.agent # "" /\ x.to # "" /\ x.agent # x.to
               /\ \/ x.kind \in {"request", "response"}
                  \/ x.kind = "peer_decision" /\ x.consult}}
      BY DEF Page!MeshLinks, E
    <3>2. ASSUME NEW e \in E, e.kind \in {"request", "response"} \/ (e.kind = "peer_decision" /\ e.consult)
          PROVE  \E peer \in Ticket!Members : {e.agent, e.to} = {owner, peer}
      BY <2>2, <3>2
    <3>3. ASSUME NEW peer \in Ticket!Members
          PROVE  \E e \in E : /\ e.agent # "" /\ e.to # "" /\ e.agent # e.to
                              /\ e.kind = "peer_decision" /\ e.consult
                              /\ {e.agent, e.to} = {owner, peer}
      <4>1. PICK e \in E : e.kind = "peer_decision" /\ e.to = peer
        BY <2>3, <3>3
      <4>2. e.agent = owner /\ peer # owner /\ peer # "" /\ e.consult
        BY <2>1, <2>2, <4>1, TeamFacts
      <4> QED
        BY <4>1, <4>2
    <3>4. Page!MeshLinks(PageEvents) \subseteq {{owner, peer} : peer \in Ticket!Members}
      BY <3>1, <3>2
    <3>5. {{owner, peer} : peer \in Ticket!Members} \subseteq Page!MeshLinks(PageEvents)
      BY <3>1, <3>3
    <3> QED
      BY <3>4, <3>5
  <2>8. ASSUME NEW lane \in Page!LiveAgents \ {owner}
        PROVE  Page!Mood(PageEvents, TRUE, lane) = "done" <=> lane \in Agreed
    <3>1. Page!Mood(PageEvents, TRUE, lane) = "done" <=> lane \in Page!Consulted(PageEvents)
      BY DEF Page!Mood
    <3>2. lane \in Page!Consulted(PageEvents) <=> lane \in Ticket!Members
      <4>1. lane \in Page!Consulted(PageEvents) <=>
              \/ lane = "mirrormaker"
              \/ \E e \in E : e.kind = "peer_decision" /\ e.consult /\ e.to = lane
              \/ \E e \in E : e.kind = "request" /\ e.to = lane
              \/ \E e \in E : e.kind = "response" /\ e.agent = lane
        BY DEF Page!Consulted, E
      <4> QED
        BY <2>2, <2>3, <4>1
    <3>3. lane \in Reviewer
      BY DEF Page!LiveAgents, Reviewer, IMPLEMENTED_AGENTS
    <3>4. lane \in Agreed <=> lane \in Ticket!Members
      <4>1. ASSUME NEW i \in 1 .. Len(peers), peers[i] = lane
            PROVE  Protocol!Assents(heard[Len(heard)][i].answer)
        BY <3>3, <4>1, ReviewersAgree DEF Protocol!Assents, Ticket!Assents
      <4> QED
        BY <4>1 DEF Agreed, Ticket!Members
    <3> QED
      BY <3>1, <3>2, <3>4
  <2> QED
    BY <2>1, <2>5, <2>6, <2>7, <2>8 DEF SignedOffLanesAgreed
<1> QED
  BY <1>1, KafkaInvHolds, PTL

(* What the panels of the page take for granted of a trace holds of the    *)
(* timeline of every ticket of mirrormaker, at any moment: it names only   *)
(* the owner and the peers, and no team both as a peer and as skipped.     *)
THEOREM TracesAreTheOwners == Spec => []PageMayRelyOnTrace
<1>1. KafkaInv /\ Ticket!TraceInv /\ Ticket!NamesPeers => PageMayRelyOnTrace
  <2> SUFFICES ASSUME KafkaInv, Ticket!TraceInv, Ticket!NamesPeers,
                      owner = "mirrormaker"
               PROVE  Page!OwnersTrace(PageEvents)
    BY DEF PageMayRelyOnTrace
  <2> DEFINE E == Page!ToSet(PageEvents)
             named == {e.to : e \in {x \in E : x.kind = "peer_decision" /\ x.consult}}
             skipped == {e.to : e \in {x \in E : x.kind = "peer_decision" /\ ~x.consult}}
             M == Ticket!Members
  <2>1. ASSUME NEW e \in E
        PROVE  /\ e.agent \in {owner} \cup M
               /\ e.kind \notin {"response", "concern"} => e.agent = owner
               /\ e.kind = "request" => e.to \in M
               /\ e.kind = "response" => e.agent \in M /\ e.to = owner
               /\ e.kind = "peer_decision" =>
                    /\ e.to \in Team \ {owner}
                    /\ e.consult <=> e.to \in M
    <3>1. PICK i \in 1 .. Len(events) : e = PageEvents[i]
      BY <2>1, PageFacts
    <3>2. /\ e.kind = events[i].kind /\ e.agent = events[i].agent /\ e.to = events[i].to
          /\ e.consult = (events[i].kind = "peer_decision" /\ events[i].about)
      BY <3>1, PageFacts
    <3>3. /\ events[i].agent \in {owner} \cup M
          /\ events[i].kind \notin {"response", "concern"} => events[i].agent = owner
          /\ events[i].kind = "request" => events[i].to \in M
          /\ events[i].kind = "response" => events[i].agent \in M /\ events[i].to = owner
          /\ events[i].kind = "peer_decision" =>
               /\ events[i].to \in Team \ {owner}
               /\ events[i].about = (events[i].to \in M)
      BY WhatEventsName
    <3> QED
      BY <3>2, <3>3
  <2>2. ASSUME NEW team \in M PROVE \E e \in E : e.kind = "peer_decision" /\ e.to = team
    <3>1. PICK i \in 1 .. Len(events) : events[i].kind = "peer_decision" /\ events[i].to = team
      BY WhatEventsName
    <3> QED
      BY <3>1, PageFacts
  <2>3. M \subseteq Team \ {owner}
    BY WhatEventsName
  <2> HIDE DEF E, M
  <2>4. named = M
    BY <2>1, <2>2
  <2>5. skipped \subseteq Team \ {owner} /\ skipped \cap M = {}
    BY <2>1
  <2>6. Page!OwnersTrace(PageEvents) <=>
          /\ "mirrormaker" \notin named \cup skipped
          /\ named \cap skipped = {}
          /\ \A e \in E :
               /\ e.agent \in {"mirrormaker"} \cup named
               /\ e.kind \in {"ticket", "peer_decision", "request"} => e.agent = "mirrormaker"
               /\ e.kind = "request" => e.to \in named
               /\ e.kind = "response" => e.agent \in named /\ e.to = "mirrormaker"
    BY DEF Page!OwnersTrace, E
  <2> HIDE DEF named, skipped
  <2> QED
    BY <2>1, <2>3, <2>4, <2>5, <2>6
<1> QED
  BY <1>1, KafkaInvHolds, PTL
=============================================================================
