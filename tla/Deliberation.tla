---------------------------- MODULE Deliberation ----------------------------
(***************************************************************************)
(* The deliberation of one ticket: SMEAgentBase.own_ticket of              *)
(* agents/base_agent.py with _refine_alternatives, _has_converged and      *)
(* _assemble_finding.                                                      *)
(*                                                                         *)
(* The owner investigates, proposes three alternatives, lets discovery     *)
(* name the peers, and then asks every peer, in order and for at most      *)
(* MaxRounds rounds.  After each round it folds the answers into the       *)
(* alternatives and stops when the round passed without dissent.  Whether  *)
(* a human is needed is decided once, in the finding.                      *)
(*                                                                         *)
(* What a peer says is any of the constant Answers: agents are free (the   *)
(* agents of the Kafka network are in KafkaNetwork).                       *)
(***************************************************************************)
EXTENDS Naturals, Sequences, Lists, SequencesExt

CONSTANTS
  Team,           \* the teams discovery may name
  Deployed,       \* those the transport has an agent for
  Implemented,    \* those the directory says have one
  PeerLists,      \* the lists of peers discovery may return
  Concern,        \* what a peer may be concerned about
  Answers,        \* what a deployed peer may answer
  MaxRounds       \* MAX_DELIBERATION_ROUNDS

(* ALTERNATIVES_REQUIRED of them; 0 stands for none of them. *)
Alternative == 1 .. 3
NoAlternative == 0

Verdict == {"agreed", "needs_changes", "blocked", "unknown"}

(* Of an ImpactResponse: its verdict, the list of the concerns it raises,  *)
(* the alternatives whose name or label occurs in its recommendation,      *)
(* whether it states a need for organizational authority (signOff) and     *)
(* says why (authority), and whether it is a time-out.                     *)
Answer ==
  {a \in [verdict : Verdict, concerns : Seq(Concern),
          mentions : SUBSET Alternative, signOff : BOOLEAN,
          authority : BOOLEAN, timedOut : BOOLEAN] : a.authority => a.signOff}

(* Mutant: silence that is not flagged. *)
NoAnswerUnflagged == [verdict |-> "unknown", concerns |-> <<>>, mentions |-> {},
                      signOff |-> FALSE, authority |-> FALSE, timedOut |-> FALSE]

(* DirectTransport, for a team it has no agent for. *)
NoAnswer == [verdict |-> "unknown", concerns |-> <<>>, mentions |-> {},
             signOff |-> FALSE, authority |-> FALSE, timedOut |-> TRUE]

ASSUME DeliberationAssumption ==
  /\ MaxRounds \in Nat \ {0}
  /\ PeerLists \subseteq Seq(Team)
  /\ Answers \subseteq Answer

VARIABLES
  stage,          \* where own_ticket is
  peers,          \* the peers, in the order in which they are asked
  heard,          \* per round, the answers so far (all_responses, deliberation)
  seenConcerns,   \* seen_concerns
  recommended,    \* the alternatives marked recommended
  ruledOut,       \* per alternative, the answer that ruled it out, if any
  reviewedBy,     \* reviewed_by, the same for every alternative
  converged,      \* converged
  finding         \* of the Finding: what is recommended, what goes to a human

vars == <<stage, peers, heard, seenConcerns, recommended, ruledOut,
          reviewedBy, converged, finding>>

Standing == <<0, 0>>        \* not ruled out; else <<round, seat>> of the answer

NoFinding == [recommends |-> NoAlternative, undeployed |-> {}, authority |-> {},
              tie |-> FALSE, unreachable |-> {}, undecided |-> FALSE]

Init ==
  /\ stage = "intake"
  /\ peers = <<>>
  /\ heard = <<>>
  /\ seenConcerns = {}
  /\ recommended = {}
  /\ ruledOut = [a \in Alternative |-> Standing]
  /\ reviewedBy = {}
  /\ converged = FALSE
  /\ finding = NoFinding

-----------------------------------------------------------------------------
First(S) == CHOOSE i \in S : \A j \in S : i <= j

Round == Len(heard)
Said == heard[Round]                    \* round_responses

(* The alternative an answer backs: the first one it mentions. *)
Backs(answer) ==
  IF answer.timedOut \/ answer.mentions = {} THEN NoAlternative
                                             ELSE First(answer.mentions)

(* The seats whose answer in a round backs another alternative than a. *)
Against(round, a) ==
  {i \in 1 .. Len(round) : Backs(round[i].answer) \notin {NoAlternative, a}}

(* _has_converged, for one answer and for a round. *)
Assents(answer) ==
  /\ ~answer.timedOut
  /\ answer.verdict = "agreed"
  /\ answer.concerns = <<>>

HasConverged(round) == \A i \in 1 .. Len(round) : Assents(round[i].answer)

-----------------------------------------------------------------------------
(* Steps 1 and 2: the owner's tools, and its three alternatives. *)
Investigate ==
  /\ stage = "intake"
  /\ stage' = "discover"
  /\ UNCHANGED <<peers, heard, seenConcerns, recommended, ruledOut, reviewedBy,
                 converged, finding>>

(* Step 3: discovery names the peers, and the first round opens. *)
Discover ==
  /\ stage = "discover"
  /\ stage' = "consult"
  /\ peers' \in PeerLists
  /\ heard' = << <<>> >>
  /\ UNCHANGED <<seenConcerns, recommended, ruledOut, reviewedBy, converged, finding>>

(* new_here: the concerns of an answer that nobody raised before it, in    *)
(* their order; one that the answer itself repeats is in it twice.         *)
NewIn(concerns) == Kept(concerns, Concern \ seenConcerns)

(* Mutant: every concern of an answer counts as new. *)
ConsultAllNew ==
  /\ stage = "consult"
  /\ Len(Said) < Len(peers)
  /\ LET peer == peers[Len(Said) + 1] IN
     \E answer \in IF peer \in Deployed THEN Answers ELSE {NoAnswer} :
       /\ heard' = [heard EXCEPT ![Round] =
                      Append(@, [from |-> peer, answer |-> answer,
                                 newHere |-> answer.concerns])]
       /\ seenConcerns' = seenConcerns \cup ToSet(answer.concerns)
  /\ UNCHANGED <<stage, peers, recommended, ruledOut, reviewedBy, converged, finding>>

(* Step 4: the next peer of the round is asked, and answers. *)
Consult ==
  /\ stage = "consult"
  /\ Len(Said) < Len(peers)
  /\ LET peer == peers[Len(Said) + 1] IN
     \E answer \in IF peer \in Deployed THEN Answers ELSE {NoAnswer} :
       /\ heard' = [heard EXCEPT ![Round] =
                      Append(@, [from |-> peer, answer |-> answer,
                                 newHere |-> NewIn(answer.concerns)])]
       /\ seenConcerns' = seenConcerns \cup ToSet(answer.concerns)
  /\ UNCHANGED <<stage, peers, recommended, ruledOut, reviewedBy, converged, finding>>

(* Mutant: the first recommendation is final. *)
RefineOnce ==
  /\ stage = "consult"
  /\ Len(Said) = Len(peers)
  /\ stage' = "refined"
  /\ recommended' = IF recommended # {} THEN recommended ELSE
       {a \in Alternative : \E i \in 1 .. Len(Said) : Backs(Said[i].answer) = a}
  /\ ruledOut' = [a \in Alternative |->
                    IF ruledOut[a] # Standing \/ Against(Said, a) = {}
                    THEN ruledOut[a]
                    ELSE <<Round, First(Against(Said, a))>>]
  /\ UNCHANGED <<peers, heard, seenConcerns, reviewedBy, converged, finding>>

(* Mutant: only who backs an alternative has reviewed it.                  *)
RefineBackersReview ==
  /\ stage = "consult"
  /\ Len(Said) = Len(peers)
  /\ stage' = "refined"
  /\ reviewedBy' = reviewedBy \cup
       {Said[i].from : i \in {j \in 1 .. Len(Said) : Backs(Said[j].answer) # 0}}
  /\ recommended' = recommended \cup
       {a \in Alternative : \E i \in 1 .. Len(Said) : Backs(Said[i].answer) = a}
  /\ ruledOut' = [a \in Alternative |->
                    IF ruledOut[a] # Standing \/ Against(Said, a) = {}
                    THEN ruledOut[a]
                    ELSE <<Round, First(Against(Said, a))>>]
  /\ UNCHANGED <<peers, heard, seenConcerns, converged, finding>>

(* The round is over: the answers are folded into the alternatives, in     *)
(* order.  The first answer that backs another alternative rules one out;  *)
(* nothing is ever taken back.                                             *)
Refine ==
  /\ stage = "consult"
  /\ Len(Said) = Len(peers)
  /\ stage' = "refined"
  /\ reviewedBy' = reviewedBy \cup
       {Said[i].from : i \in {j \in 1 .. Len(Said) : ~Said[j].answer.timedOut}}
  /\ recommended' = recommended \cup
       {a \in Alternative : \E i \in 1 .. Len(Said) : Backs(Said[i].answer) = a}
  /\ ruledOut' = [a \in Alternative |->
                    IF ruledOut[a] # Standing \/ Against(Said, a) = {}
                    THEN ruledOut[a]
                    ELSE <<Round, First(Against(Said, a))>>]
  /\ UNCHANGED <<peers, heard, seenConcerns, converged, finding>>

(* Mutant: one round is enough. *)
ConvergeUnchecked ==
  /\ stage = "refined"
  /\ stage' = "assemble"
  /\ converged' = TRUE
  /\ UNCHANGED <<peers, heard, seenConcerns, recommended, ruledOut, reviewedBy, finding>>

Converge ==
  /\ stage = "refined"
  /\ HasConverged(Said)
  /\ stage' = "assemble"
  /\ converged' = TRUE
  /\ UNCHANGED <<peers, heard, seenConcerns, recommended, ruledOut, reviewedBy, finding>>

(* Mutant: the bound on the rounds is missed by one. *)
GiveUpLate ==
  /\ stage = "refined"
  /\ ~HasConverged(Said)
  /\ Round > MaxRounds
  /\ stage' = "assemble"
  /\ UNCHANGED <<peers, heard, seenConcerns, recommended, ruledOut, reviewedBy,
                 converged, finding>>

NextRound ==
  /\ stage = "refined"
  /\ ~HasConverged(Said)
  /\ Round < MaxRounds
  /\ stage' = "consult"
  /\ heard' = Append(heard, <<>>)
  /\ UNCHANGED <<peers, seenConcerns, recommended, ruledOut, reviewedBy, converged, finding>>

GiveUp ==
  /\ stage = "refined"
  /\ ~HasConverged(Said)
  /\ Round = MaxRounds
  /\ stage' = "assemble"
  /\ UNCHANGED <<peers, heard, seenConcerns, recommended, ruledOut, reviewedBy,
                 converged, finding>>

Members == {peers[i] : i \in 1 .. Len(peers)}

(* Mutant: only the last round is looked at. *)
WhoseLast(flag) ==
  {peers[i] : i \in {j \in 1 .. Len(peers) : Said[j].answer[flag]}}

(* The peers that raised a flag in any round. *)
Whose(flag) ==
  {peers[i] : i \in {j \in 1 .. Len(peers) :
                       \E k \in 1 .. Round : heard[k][j].answer[flag]}}

Summary ==
  [recommends  |-> IF recommended = {} THEN NoAlternative ELSE First(recommended),
   undeployed  |-> Members \ Implemented,
   authority   |-> Whose("authority"),
   tie         |-> ~converged /\ peers # <<>>,
   unreachable |-> Whose("timedOut"),
   undecided   |-> recommended = {} /\ peers # <<>>]

(* _build_teams_involved: a peer is in the table from its first answer on  *)
(* that is not a time-out, and that answer says whether it must sign off.  *)
TeamsInvolved ==
  {peers[i] : i \in {j \in 1 .. Len(peers) :
                       \E k \in 1 .. Round : ~heard[k][j].answer.timedOut}}

SignOffs ==
  {peers[i] : i \in {j \in 1 .. Len(peers) :
     \E k \in 1 .. Round :
       /\ ~heard[k][j].answer.timedOut /\ heard[k][j].answer.signOff
       /\ \A m \in 1 .. k - 1 : heard[m][j].answer.timedOut}}

(* Step 5: _assemble_finding. *)
Assemble ==
  /\ stage = "assemble"
  /\ stage' = "decided"
  /\ finding' = Summary
  /\ UNCHANGED <<peers, heard, seenConcerns, recommended, ruledOut, reviewedBy, converged>>

(* requires_human *)
RequiresHuman ==
  \/ finding.undeployed # {} \/ finding.authority # {} \/ finding.tie
  \/ finding.unreachable # {} \/ finding.undecided

(* The investigation, the alternatives, discovery, a peer or the assembly  *)
(* raises; the exception leaves own_ticket.                                *)
Raise ==
  /\ stage \in {"intake", "discover", "consult", "assemble"}
  /\ stage' = "raised"
  /\ UNCHANGED <<peers, heard, seenConcerns, recommended, ruledOut, reviewedBy,
                 converged, finding>>

Next ==
  \/ Investigate \/ Discover \/ Consult \/ Refine
  \/ Converge \/ NextRound \/ GiveUp \/ Assemble \/ Raise

Spec == Init /\ [][Next]_vars

FairSpec == Spec /\ WF_vars(Next)
-----------------------------------------------------------------------------
TypeOK ==
  /\ stage \in {"intake", "discover", "consult", "refined", "assemble",
                "decided", "raised"}
  /\ peers \in Seq(Team)
  /\ heard \in Seq(Seq([from : Team, answer : Answer, newHere : Seq(Concern)]))
  /\ seenConcerns \in SUBSET Concern
  /\ recommended \in SUBSET Alternative
  /\ ruledOut \in [Alternative -> Nat \X Nat]
  /\ reviewedBy \in SUBSET Team
  /\ converged \in BOOLEAN
  /\ finding \in [recommends : Alternative \cup {NoAlternative},
                  undeployed : SUBSET Team, authority : SUBSET Team,
                  tie : BOOLEAN, unreachable : SUBSET Team, undecided : BOOLEAN]

(* Every round asks every peer once, in the order discovery gave, and at   *)
(* any moment only the last round is incomplete.                           *)
EveryPeerEveryRound ==
  /\ Round <= MaxRounds
  /\ \A k \in 1 .. Round :
       /\ Len(heard[k]) <= Len(peers)
       /\ k < Round \/ stage \in {"refined", "assemble", "decided"}
            => Len(heard[k]) = Len(peers)
       /\ \A i \in 1 .. Len(heard[k]) : heard[k][i].from = peers[i]

(* The deliberation stops at the first round without dissent: an earlier   *)
(* round that it went on after had someone who did not assent.             *)
NoRoundAfterAgreement ==
  /\ \A k \in 1 .. Round : k < Round => ~HasConverged(heard[k])
  /\ stage \in {"assemble", "decided"} =>
       /\ Round >= 1
       /\ converged <=> HasConverged(Said)
       /\ converged \/ Round = MaxRounds

(* An alternative is ruled out only because an answer in the record backs  *)
(* another one, and that one is recommended: the reason that the one-pager *)
(* prints never refers to an answer that was not given.                    *)
RuledOutForARecommended ==
  \A a \in Alternative :
    ruledOut[a] # Standing =>
      \E k \in 1 .. Round : \E i \in 1 .. Len(heard[k]) :
        /\ ruledOut[a] = <<k, i>>
        /\ Backs(heard[k][i].answer) \in recommended \ {a}

(* A concern is new once: what the peers are told was raised before is     *)
(* recorded as newly raised in exactly one answer, however often and by    *)
(* whomever it is raised again.                                            *)
ConcernIsNewOnce ==
  /\ \A c \in seenConcerns :
       \E k \in 1 .. Round : \E i \in 1 .. Len(heard[k]) : c \in ToSet(heard[k][i].newHere)
  /\ \A k, m \in 1 .. Round :
       \A i \in 1 .. Len(heard[k]), j \in 1 .. Len(heard[m]) :
         ToSet(heard[k][i].newHere) \cap ToSet(heard[m][j].newHere) # {} => k = m /\ i = j

(* Without a human only when nothing is left to one: all peers agreed in   *)
(* the last round, without concerns; none was silent in any round, none    *)
(* gave a reason for needing authority in any round; and an alternative is *)
(* recommended, unless nobody had to be asked.                             *)
QuietFindingIsUnanimous ==
  stage = "decided" /\ ~RequiresHuman =>
    /\ \A i \in 1 .. Len(peers) : Assents(Said[i].answer)
    /\ \A k \in 1 .. Round : \A i \in 1 .. Len(heard[k]) :
         ~heard[k][i].answer.timedOut /\ ~heard[k][i].answer.authority
    /\ peers # <<>> => finding.recommends \in recommended
    /\ Members \subseteq Implemented

(* A peer without an agent is asked in every round, and its silence keeps  *)
(* the others from converging: all rounds are used and a human is asked.   *)
AbsentPeerCostsEveryRound ==
  stage = "decided" /\ ~(Members \subseteq Deployed) =>
    /\ Round = MaxRounds
    /\ ~converged
    /\ Members \ Deployed \subseteq finding.unreachable

(* The one-pager's table of teams and its points for a human are made from *)
(* the same answers by different rules, and agree: a peer that must sign   *)
(* off is among the points, unless it never said why, and a peer missing   *)
(* from the table is named as unreachable.                                 *)
Unexplained ==
  {peers[i] : i \in {j \in 1 .. Len(peers) :
                       \A k \in 1 .. Round : ~heard[k][j].answer.authority}}

SignOffsAreEscalated ==
  stage = "decided" =>
    /\ SignOffs \subseteq finding.authority \cup Unexplained
    /\ Members \ TeamsInvolved \subseteq finding.unreachable

(* Outcomes are not taken back: a recommendation stays, what ruled an      *)
(* alternative out stays, and a decided finding stays.                     *)
NothingIsTakenBack ==
  [][/\ recommended \subseteq recommended'
     /\ \A a \in Alternative : ruledOut[a] # Standing => UNCHANGED ruledOut[a]
     /\ stage = "decided" => UNCHANGED vars]_vars

(* The rounds that are finished, and the seats that dissented in each.     *)
Finished == IF stage = "consult" THEN Round - 1 ELSE Round

Dissent ==
  IF stage = "raised" THEN <<>> ELSE
  [k \in 1 .. Finished |->
     {i \in 1 .. Len(peers) : ~Assents(heard[k][i].answer)}]

Board == INSTANCE ReviewBoard WITH
           seats <- Len(peers),
           dissent <- Dissent,
           outcome <- IF stage = "raised" THEN "failed"
                      ELSE IF stage # "decided" THEN "open"
                      ELSE IF RequiresHuman THEN "escalated" ELSE "settled"

(* The deliberation keeps the promise of a review board. *)
BoardSpec == Board!Spec

(* Every ticket that is picked up is decided, or fails. *)
Decides == <>(stage \in {"decided", "raised"})

(* "if a peer explicitly backs one by name, mark it recommended and rule   *)
(* out the others": in the end one alternative is recommended, the others  *)
(* are ruled out, or nothing is.  Not kept: two peers that back different  *)
(* alternatives leave both recommended.                                    *)
OneRecommendation ==
  stage = "decided" =>
    \A a \in recommended : \A b \in Alternative :
      /\ ruledOut[a] = Standing
      /\ b # a => b \notin recommended /\ ruledOut[b] # Standing

(* "every peer says 'agreed' and no peer raised a new concern this round": *)
(* then the deliberation has converged.  Not kept: a peer that agrees and  *)
(* repeats a concern of an earlier round withholds its agreement for ever. *)
AgreementConverges ==
  stage = "decided" /\ peers # <<>> =>
    (converged <=> \A i \in 1 .. Len(Said) :
       /\ Said[i].answer.verdict = "agreed" /\ ~Said[i].answer.timedOut
       /\ Said[i].newHere = <<>>)
=============================================================================
