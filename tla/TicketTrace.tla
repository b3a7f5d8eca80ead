----------------------------- MODULE TicketTrace -----------------------------
(***************************************************************************)
(* The timeline of a ticket: agents/trace.py, and the events that          *)
(* own_ticket emits on it.  It is all that a client of the gateway sees of *)
(* the deliberation while it runs, and what the page replays.              *)
(*                                                                         *)
(* Every step of Deliberation appends the events of that step; nothing     *)
(* reads them, so the deliberation is the same with a NullTracer.  Only    *)
(* the owner emits: what a peer's agent does while it is consulted is not  *)
(* on the timeline.                                                        *)
(*                                                                         *)
(* An event on the list is not a copy: the events that tell of a refined   *)
(* alternative hold its list reviewed_by itself, and show what that list   *)
(* contains when they are read.                                            *)
(***************************************************************************)
EXTENDS DesignDoc

CONSTANTS
  Owners,          \* the agents a ticket may be handed to
  Listed,          \* the teams of the directory, in its order
  Investigations,  \* the events an owner's investigation may leave behind
  Consequence,     \* the concerns an owner may signal,
  SignalLists      \* and the lists of them that it may

ASSUME TraceAssumption ==
  /\ Listed \in Seq(Team)
  /\ Investigations \subseteq Seq({"tool_call", "finding"})
  /\ SignalLists \subseteq Seq(Consequence)
  /\ \A answer \in Answers : ~answer.timedOut

VARIABLES
  owner,           \* the agent whose ticket it is
  events           \* the events of the Tracer

traceVars == <<vars, owner, events>>

NoOne == ""

(* A TraceEvent; its seq is its place, about stands for title and data. *)
Event(phase, kind, agent, to, round, about) ==
  [phase |-> phase, kind |-> kind, agent |-> agent, to |-> to,
   round |-> round, about |-> about]

(* One that the owner emits to nobody. *)
Note(phase, kind, round, about) == Event(phase, kind, owner, NoOne, round, about)

Emit(new) == events' = events \o new

TraceInit ==
  /\ Init
  /\ owner \in Owners
  /\ events = <<Note("intake", "ticket", 0, "assigned")>>

-----------------------------------------------------------------------------
(* _trace_investigation: one event per result of a tool, and the cause. *)
InvestigationEvents(found) ==
  [i \in 1 .. Len(found) |-> Note("investigation", found[i], 0, "own tools")]

Outcome(a, word, reason) == [label |-> a, word |-> word, reason |-> reason]

ProposalEvents ==
  [a \in 1 .. 3 |->
     Note("alternatives", "alternative", 0, Outcome(a, "", Standing))]

Investigating(found) ==
  /\ Investigate
  /\ Emit(InvestigationEvents(found) \o ProposalEvents)
  /\ UNCHANGED owner

(* The teams of the directory but the owner, in its order. *)
Others == Kept(Listed, Team \ {owner})

(* _discover_peers: the signals, a decision about every team but the       *)
(* owner, and the summary; nothing if there is no signal.  A peer is       *)
(* always the result of such a decision, since no agent names any itself.  *)
DiscoveryEvents(signalled, consulted) ==
  IF signalled = <<>> THEN <<>> ELSE
  LET decide(t) == Event("discovery", "peer_decision", owner, t, 0, t \in consulted)
  IN  [i \in 1 .. Len(signalled) |-> Note("discovery", "signal", 0, signalled[i])]
      \o [i \in 1 .. Len(Others) |-> decide(Others[i])]
      \o <<Note("discovery", "finding", 0, "summary")>>

Discovering(signalled) ==
  /\ Discover
  /\ peers' = IF signalled = <<>> THEN <<>>
              ELSE Kept(Others, ToSet(peers'))
  /\ Emit(DiscoveryEvents(signalled, ToSet(peers')))
  /\ UNCHANGED owner

(* A question carries the concerns raised so far. *)
Asks(peer) == Event("deliberation", "request", owner, peer, Round, seenConcerns)

(* What the event of an answer shows of it: all but its concerns. *)
Shown(answer) ==
  [verdict |-> answer.verdict, mentions |-> answer.mentions,
   signOff |-> answer.signOff, authority |-> answer.authority,
   timedOut |-> answer.timedOut]

(* What the peer answered, and each of its concerns that is new. *)
AnswerEvents(said) ==
  LET tells(k, x) == Event("deliberation", k, said.from, owner, Round, x)
  IN  <<tells("response", Shown(said.answer))>>
      \o [i \in 1 .. Len(said.newHere) |-> tells("concern", said.newHere[i])]

Consulting ==
  /\ Consult
  /\ LET said == Last(heard'[Round]) IN
     Emit(<<Asks(said.from)>> \o AnswerEvents(said))
  /\ UNCHANGED owner

(* Mutant: before holds the alternatives themselves, which never differ.   *)
SynthesisAliased(a, backed, ruling) == <<>>

(* An event if the round changed an alternative. *)
Synthesis(a, backed, ruling) ==
  LET word == IF a \in backed THEN "recommended" ELSE "ruled out"
  IN  IF (a \in backed) = (a \in recommended) /\ ruling[a] = ruledOut[a] THEN <<>>
      ELSE <<Note("synthesis", "alternative", Round, Outcome(a, word, ruling[a]))>>

SynthesisEvents(backed, ruling) ==
  Synthesis(1, backed, ruling) \o Synthesis(2, backed, ruling)
  \o Synthesis(3, backed, ruling)

Refining ==
  /\ Refine
  /\ Emit(SynthesisEvents(recommended', ruledOut'))
  /\ UNCHANGED owner

Converging ==
  /\ Converge
  /\ Emit(<<Note("decision", "convergence", Round, TRUE)>>)
  /\ UNCHANGED owner

GoingOn == NextRound /\ UNCHANGED <<owner, events>>

GivingUp ==
  /\ GiveUp
  /\ Emit(IF peers = <<>> THEN <<>>
          ELSE <<Note("decision", "convergence", Round, FALSE)>>)
  /\ UNCHANGED owner

(* _trace_finding: an event per point for a human, then the finding. *)
FindingEvents(f) ==
  LET points == HumanDecisionPoints(f)
  IN  [i \in 1 .. Len(points) |-> Note("decision", "escalation", 0, points[i])]
      \o <<Note("artifact", "artifact", 0, f)>>

Assembling ==
  /\ Assemble
  /\ Emit(FindingEvents(finding'))
  /\ UNCHANGED owner

(* An exception leaves what was emitted before it: the investigation that  *)
(* the proposal fails on, the question that the peer fails on.             *)
Failing ==
  /\ Raise
  /\ UNCHANGED owner
  /\ \/ UNCHANGED events
     \/ /\ stage = "intake"
        /\ \E found \in Investigations : Emit(InvestigationEvents(found))
     \/ /\ stage = "consult" /\ Len(Said) < Len(peers)
        /\ Emit(<<Asks(peers[Len(Said) + 1])>>)

TraceNext ==
  \/ \E found \in Investigations : Investigating(found)
  \/ \E signalled \in SignalLists : Discovering(signalled)
  \/ Consulting \/ Refining \/ Converging \/ GoingOn \/ GivingUp
  \/ Assembling \/ Failing

TraceSpec == TraceInit /\ [][TraceNext]_traceVars

FairTraceSpec == TraceSpec /\ WF_traceVars(TraceNext)
-----------------------------------------------------------------------------
OfKind(kind) == Kept(events, {e \in ToSet(events) : e.kind = kind})

(* The last that the timeline says of an alternative. *)
LastOutcome(a) ==
  events[SelectLastInSeq(events, LAMBDA e : e.kind = "alternative" /\ e.about.label = a)].about

(* The concerns that the timeline tells as new before its event n. *)
ToldBefore(n) ==
  {events[i].about : i \in {j \in 1 .. n - 1 : events[j].kind = "concern"}}

(* The concerns that an answer was the first to raise, with who raised it. *)
Raised(said) ==
  [i \in 1 .. Len(said.newHere) |-> [by |-> said.from, concern |-> said.newHere[i]]]

(* Who has only the timeline knows what the owner knows, at any moment,    *)
(* but for the concerns that an answer repeats: every answer in its order  *)
(* and round, and at most one question without one, when the peer failed;  *)
(* the concerns that were new, in their order and from whom; with each     *)
(* question exactly the concerns told before it, and in the end all that   *)
(* are known; what became of each alternative, although only changes are   *)
(* told; whether and when the peers converged; and the finding at the end, *)
(* which a deliberation that failed does not have.                         *)
TimelineTellsTheRecord ==
  LET questions == OfKind("request")
      answers   == OfKind("response")
      concerns  == OfKind("concern")
  IN  /\ Len(answers) = Len(Record)
      /\ \A i \in 1 .. Len(answers) :
           /\ answers[i].agent = Record[i].from /\ answers[i].about = Shown(Record[i].answer)
           /\ answers[i].agent = questions[i].to /\ answers[i].round = questions[i].round
      /\ \A k \in 1 .. Round :
           Len(Kept(answers, {e \in ToSet(answers) : e.round = k})) = Len(heard[k])
      /\ Len(questions) - Len(answers) \in IF stage = "raised" THEN {0, 1} ELSE {0}
      /\ \A n \in 1 .. Len(events) :
           events[n].kind = "request" => events[n].about = ToldBefore(n)
      /\ seenConcerns = ToldBefore(Len(events) + 1)
      /\ [i \in 1 .. Len(concerns) |->
            [by |-> concerns[i].agent, concern |-> concerns[i].about]]
           = FlattenSeq([i \in 1 .. Len(Record) |-> Raised(Record[i])])
      /\ stage \notin {"intake", "raised"} =>
           \A a \in Alternative :
             LastOutcome(a) = Outcome(a, Marker(a), ruledOut[a])
      /\ stage \in {"assemble", "decided"} =>
           LET ends == OfKind("convergence")
           IN  Len(ends) = 1 /\ ends[1].about = converged /\ ends[1].round = Round
      /\ IF stage = "decided" THEN Last(events) = Note("artifact", "artifact", 0, finding)
                              ELSE OfKind("artifact") = <<>>

(* What a reader of the timeline sees: the events about a refined          *)
(* alternative show the reviewers that its list contains by now.           *)
Timeline ==
  [i \in 1 .. Len(events) |->
     [event       |-> events[i],
      reviewed_by |-> IF events[i].phase = "synthesis" THEN reviewedBy ELSE {}]]

(* "A shared, append-only timeline for one ticket": what a reader has seen *)
(* stays as it was.  The list of reviewers that the events share with the  *)
(* alternatives is still written to in later rounds; but the peers of a    *)
(* later round are those of the first, and nobody is added.                *)
TimelineIsAppendOnly == [][IsPrefix(Timeline, Timeline')]_traceVars

(* The one-pager, the timeline and the finding are written by different    *)
(* rules, and do not contradict each other.  An alternative bears the mark *)
(* that the timeline told of it last; the points for a human are the       *)
(* escalations of the timeline, in order, and there are some just when the *)
(* header says so; a deliberation marked incomplete needs a human; what is *)
(* recommended is marked so; a team that must sign off is among the points *)
(* unless it never said why, and a peer missing from the table of teams is *)
(* named as silent; every alternative was reviewed by the teams of that    *)
(* table; the appendix has the answers of the timeline.                    *)
DocumentAgrees ==
  stage = "decided" =>
    LET doc         == OnePager
        escalations == OfKind("escalation")
        answers     == OfKind("response")
        named       == UNION {p.who : p \in ToSet(doc.points)}
    IN  /\ \A a \in Alternative :
             /\ doc.alternatives[a].marker = LastOutcome(a).word
             /\ doc.alternatives[a].whyRuledOut = LastOutcome(a).reason
             /\ doc.recommendation = a => doc.alternatives[a].marker = "recommended"
             /\ doc.alternatives[a].reviewedBy = DOMAIN doc.teams
        /\ doc.points = [i \in 1 .. Len(escalations) |-> escalations[i].about]
        /\ doc.needsHuman <=> doc.points # <<>>
        /\ doc.status = "incomplete" => doc.needsHuman
        /\ \A team \in DOMAIN doc.teams :
             doc.teams[team] => team \in named \cup Unexplained
        /\ Members \ DOMAIN doc.teams \subseteq named
        /\ Len(doc.appendix) = Len(answers)
        /\ \A i \in 1 .. Len(answers) :
             /\ doc.appendix[i].to = answers[i].agent
             /\ doc.appendix[i].verdict = answers[i].about.verdict

(* "The UI uses these to drive its stage transitions, so the ordering in   *)
(* PHASES is meaningful": the phases of the timeline come in that order.   *)
(* Not kept: alternatives are proposed before discovery, and a later round *)
(* comes after the synthesis of the one before.                            *)
PhasesInOrder ==
  LET PHASES == <<"intake", "investigation", "discovery", "alternatives",
                  "deliberation", "synthesis", "decision", "artifact">>
      at(e)  == SelectInSeq(PHASES, LAMBDA p : p = e.phase)
  IN  \A i, j \in 1 .. Len(events) : i <= j => at(events[i]) <= at(events[j])
=============================================================================
