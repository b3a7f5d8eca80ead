---------------------------- MODULE Consultation ----------------------------
(***************************************************************************)
(* One consultation: SMEAgentBase.consult_about of agents/base_agent.py    *)
(* over the DirectTransport, which calls the peer's own consult_about.     *)
(*                                                                         *)
(* An agent that is consulted may consult further agents before it         *)
(* answers (the group coordinator asks the clients team), one level        *)
(* deeper; nothing but the depth limit keeps agents from consulting each   *)
(* other in a circle.  The state is the call stack of the owner's thread.  *)
(*                                                                         *)
(* Of an answer this keeps whether it is a time-out and which of the open  *)
(* questions it carries: that someone could not be reached, and that a     *)
(* citation is not the agent's own.                                        *)
(***************************************************************************)
EXTENDS Naturals, Sequences

CONSTANTS
  Agent,          \* who may be asked
  Deployed,       \* the agents the transport knows
  Asks,           \* per agent, whom it may consult before it answers
  MaxAsks,        \* bound: how many times it does
  Strays,         \* the agents that cite code they do not own
  MaxDepth        \* MAX_CONSULTATION_DEPTH

ASSUME ConsultationAssumption ==
  /\ Deployed \subseteq Agent
  /\ Asks \in [Deployed -> SUBSET Agent]
  /\ MaxAsks \in Nat
  /\ Strays \subseteq Deployed
  /\ MaxDepth \in Nat

VARIABLES
  status,         \* idle, asking, answered or raised
  stack,          \* the consult_about calls in progress, outermost first
  returned,       \* the answer that came back last, until it is looked at
  calls           \* history: whom the transport was asked for, and how deep

vars == <<status, stack, returned, calls>>

Question == {"unreachable", "needs_verification"}

Answer == [timedOut : BOOLEAN, open : SUBSET Question]
TimeOut == [timedOut |-> TRUE, open |-> {}]
Nothing == [timedOut |-> FALSE, open |-> {"nothing"}]

Init ==
  /\ status = "idle"
  /\ stack = <<>>
  /\ returned = Nothing
  /\ calls = <<>>

-----------------------------------------------------------------------------
Top == stack[Len(stack)]
TopBecomes(frame) == [stack EXCEPT ![Len(stack)] = frame]

(* The transport does not know the agent, or the agent is at the limit. *)
CutOff(agent, depth) == agent \notin Deployed \/ depth >= MaxDepth

(* The agent is called on top of the calls in progress: it is cut off with *)
(* a time-out, or it starts.                                               *)
Call(agent, depth, inProgress) ==
  /\ calls' = Append(calls, [to |-> agent, depth |-> depth])
  /\ IF CutOff(agent, depth)
     THEN stack' = inProgress /\ returned' = TimeOut
     ELSE /\ stack' = Append(inProgress, [agent |-> agent, depth |-> depth,
                                          asked |-> 0, open |-> {}])
          /\ returned' = Nothing

(* The owner of a ticket asks a peer. *)
Ask ==
  /\ status = "idle"
  /\ status' = "asking"
  /\ \E agent \in Agent : Call(agent, 0, <<>>)

Running == status = "asking" /\ stack # <<>> /\ returned = Nothing

(* _handle_consultation consults a further agent. *)
ConsultFurther ==
  /\ Running
  /\ Top.asked < MaxAsks
  /\ \E agent \in Asks[Top.agent] :
       Call(agent, Top.depth + 1, TopBecomes([Top EXCEPT !.asked = @ + 1]))
  /\ UNCHANGED status

(* Mutant: the open questions of the other agent are not passed on. *)
LearnsOwn(answer) == IF answer.timedOut THEN {"unreachable"} ELSE {}

(* What is left open by an answer that an agent asked for. *)
Learns(answer) == IF answer.timedOut THEN {"unreachable"} ELSE answer.open

(* Mutant: the agent waits for an answer that is not a time-out. *)
ResumeIfAnswered ==
  /\ status = "asking"
  /\ stack # <<>>
  /\ returned # Nothing
  /\ ~returned.timedOut
  /\ stack' = TopBecomes([Top EXCEPT !.open = @ \cup Learns(returned)])
  /\ returned' = Nothing
  /\ UNCHANGED <<status, calls>>

(* It reads the answer. *)
Resume ==
  /\ status = "asking"
  /\ stack # <<>>
  /\ returned # Nothing
  /\ stack' = TopBecomes([Top EXCEPT !.open = @ \cup Learns(returned)])
  /\ returned' = Nothing
  /\ UNCHANGED <<status, calls>>

(* validate_citations *)
Flags(frame) == IF frame.agent \in Strays THEN {"needs_verification"} ELSE {}

(* The answer is complete; its citations are validated before it is sent.  *)
Respond ==
  /\ Running
  /\ stack' = SubSeq(stack, 1, Len(stack) - 1)
  /\ returned' = [timedOut |-> FALSE, open |-> Top.open \cup Flags(Top)]
  /\ UNCHANGED <<status, calls>>

(* The owner has its answer. *)
Receive ==
  /\ status = "asking"
  /\ stack = <<>>
  /\ status' = "answered"
  /\ UNCHANGED <<stack, returned, calls>>

(* Nothing between the owner and the agent that raises catches it. *)
Raise ==
  /\ Running
  /\ status' = "raised"
  /\ stack' = <<>>
  /\ UNCHANGED <<returned, calls>>

Next == Ask \/ ConsultFurther \/ Resume \/ Respond \/ Receive \/ Raise

Spec == Init /\ [][Next]_vars

(* The thread of the owner keeps running. *)
FairSpec == Spec /\ WF_vars(Next)
-----------------------------------------------------------------------------
Frame == [agent : Deployed, depth : Nat, asked : 0 .. MaxAsks,
          open : SUBSET Question]

TypeOK ==
  /\ status \in {"idle", "asking", "answered", "raised"}
  /\ stack \in Seq(Frame)
  /\ returned \in Answer \cup {Nothing}
  /\ calls \in Seq([to : Agent, depth : Nat])

(* However the agents consult each other, in circles too, no more than     *)
(* MaxDepth of them are busy with one question, and the depth that a       *)
(* request carries is the true depth of the call.                          *)
NeverTooDeep ==
  /\ Len(stack) <= MaxDepth
  /\ \A i \in 1 .. Len(stack) : stack[i].depth = i - 1

(* The calls that were answered by nobody. *)
Unanswered == {i \in 1 .. Len(calls) : CutOff(calls[i].to, calls[i].depth)}

(* The owner is told what is missing from an answer: it carries the open   *)
(* question of an unreachable agent exactly when somebody that was asked,  *)
(* directly or by others, was cut off; and of an unverified citation       *)
(* exactly when an agent that contributed strayed.                         *)
AnswerTellsWhatIsMissing ==
  status = "answered" =>
    IF 1 \in Unanswered THEN returned = TimeOut
    ELSE /\ ~returned.timedOut
         /\ "unreachable" \in returned.open <=> Unanswered # {}
         /\ "needs_verification" \in returned.open <=>
              \E i \in (1 .. Len(calls)) \ Unanswered : calls[i].to \in Strays

(* Every question is answered, or fails, although agents consult each      *)
(* other in circles.                                                       *)
QuestionEnds == status = "asking" ~> status \in {"answered", "raised"}
=============================================================================
