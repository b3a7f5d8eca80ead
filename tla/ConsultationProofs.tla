------------------------ MODULE ConsultationProofs --------------------------
(***************************************************************************)
(* Proofs about Consultation, for any agents, any habit of consulting each *)
(* other and any depth limit.                                              *)
(***************************************************************************)
EXTENDS Consultation, SequenceTheorems, TLAPS

LEMMA NothingIsNoAnswer ==
  Nothing \notin Answer /\ TimeOut \in Answer
  BY DEF Nothing, Answer, TimeOut, Question

(* What a call does to the types, whichever way it goes. *)
LEMMA CallTypes ==
  ASSUME NEW agent \in Agent, NEW depth \in Nat, NEW inProgress \in Seq(Frame),
         calls \in Seq([to : Agent, depth : Nat]),
         Call(agent, depth, inProgress)
  PROVE  /\ stack' \in Seq(Frame)
         /\ returned' \in Answer \cup {Nothing}
         /\ calls' \in Seq([to : Agent, depth : Nat])
  <1>1. calls' \in Seq([to : Agent, depth : Nat])
    BY DEF Call
  <1>2. CASE CutOff(agent, depth)
    BY <1>1, <1>2, NothingIsNoAnswer DEF Call
  <1>3. CASE ~CutOff(agent, depth)
    <2> DEFINE frame == [agent |-> agent, depth |-> depth, asked |-> 0, open |-> {}]
    <2>1. agent \in Deployed /\ 0 \in 0 .. MaxAsks
      BY <1>3, ConsultationAssumption DEF CutOff
    <2>2. frame \in Frame
      BY <2>1 DEF Frame
    <2>3. Append(inProgress, frame) \in Seq(Frame)
      BY <2>2
    <2> QED
      BY <1>1, <1>3, <2>3 DEF Call
  <1> QED
    BY <1>2, <1>3

(* The stack without its topmost frame. *)
LEMMA Popped ==
  ASSUME NEW S, NEW s \in Seq(S), s # <<>>
  PROVE  /\ SubSeq(s, 1, Len(s) - 1) \in Seq(S)
         /\ Len(SubSeq(s, 1, Len(s) - 1)) = Len(s) - 1
         /\ \A i \in 1 .. Len(s) - 1 : SubSeq(s, 1, Len(s) - 1)[i] = s[i]
  <1>1. Len(s) \in Nat \ {0}
    OBVIOUS
  <1> DEFINE n == Len(s) - 1
  <1>2. n \in Nat /\ \A i \in 1 .. n : s[i] \in S
    BY <1>1
  <1> HIDE DEF n
  <1>3. /\ SubSeq(s, 1, n) \in Seq(S)
        /\ Len(SubSeq(s, 1, n)) = IF 1 <= n THEN n - 1 + 1 ELSE 0
        /\ \A i \in 1 .. n - 1 + 1 : SubSeq(s, 1, n)[i] = s[1 + i - 1]
    BY <1>2, SubSeqProperties
  <1>4. Len(SubSeq(s, 1, n)) = n /\ \A i \in 1 .. n : SubSeq(s, 1, n)[i] = s[i]
    BY <1>2, <1>3
  <1> QED
    BY <1>3, <1>4 DEF n

LEMMA TopIsFrame ==
  ASSUME stack \in Seq(Frame), stack # <<>>
  PROVE  Top \in Frame /\ Len(stack) \in Nat \ {0}
  BY DEF Top

(* The stack with its topmost frame replaced. *)
LEMMA TopBecomesTypes ==
  ASSUME stack \in Seq(Frame), stack # <<>>, NEW frame \in Frame
  PROVE  /\ TopBecomes(frame) \in Seq(Frame)
         /\ Len(TopBecomes(frame)) = Len(stack)
         /\ \A i \in 1 .. Len(stack) :
              TopBecomes(frame)[i] = IF i = Len(stack) THEN frame ELSE stack[i]
  BY TopIsFrame DEF TopBecomes

(* The frame of an agent that has just made another call. *)
LEMMA AskedOneMore ==
  ASSUME stack \in Seq(Frame), stack # <<>>, Top.asked < MaxAsks
  PROVE  [Top EXCEPT !.asked = @ + 1] \in Frame
  <1>1. Top \in Frame
    BY TopIsFrame
  <1>2. Top.asked + 1 \in 0 .. MaxAsks
    BY <1>1, ConsultationAssumption DEF Frame
  <1> QED
    BY <1>1, <1>2 DEF Frame

LEMMA LearnedMore ==
  ASSUME stack \in Seq(Frame), stack # <<>>, returned \in Answer
  PROVE  [Top EXCEPT !.open = @ \cup Learns(returned)] \in Frame
  <1>1. Top \in Frame
    BY TopIsFrame
  <1>2. Learns(returned) \subseteq Question
    BY DEF Learns, Answer, Question
  <1>3. Top.open \cup Learns(returned) \in SUBSET Question
    BY <1>1, <1>2 DEF Frame
  <1> QED
    BY <1>1, <1>3 DEF Frame

-----------------------------------------------------------------------------
(* Type correctness: an agent in progress is deployed and within the       *)
(* number of questions it may ask, and an answer has the known questions.  *)
LEMMA TypeInit == Init => TypeOK
  BY DEF Init, TypeOK

LEMMA TypeStep == TypeOK /\ [Next]_vars => TypeOK'
  <1> SUFFICES ASSUME TypeOK, [Next]_vars
               PROVE  TypeOK'
    OBVIOUS
  <1> USE DEF TypeOK
  <1>1. CASE Ask
    <2>1. PICK agent \in Agent : Call(agent, 0, <<>>)
      BY <1>1 DEF Ask
    <2>2. <<>> \in Seq(Frame)
      OBVIOUS
    <2> QED
      BY <1>1, <2>1, <2>2, CallTypes DEF Ask
  <1>2. CASE ConsultFurther
    <2>1. PICK agent \in Asks[Top.agent] :
            Call(agent, Top.depth + 1, TopBecomes([Top EXCEPT !.asked = @ + 1]))
      BY <1>2 DEF ConsultFurther
    <2>2. stack # <<>> /\ Top.asked < MaxAsks
      BY <1>2 DEF ConsultFurther, Running
    <2>3. Top \in Frame
      BY <2>2, TopIsFrame
    <2>4. agent \in Agent /\ Top.depth + 1 \in Nat
      BY <2>1, <2>3, ConsultationAssumption DEF Frame
    <2>5. TopBecomes([Top EXCEPT !.asked = @ + 1]) \in Seq(Frame)
      BY <2>2, AskedOneMore, TopBecomesTypes
    <2> QED
      BY <1>2, <2>1, <2>4, <2>5, CallTypes DEF ConsultFurther
  <1>3. CASE Resume
    <2>1. stack # <<>> /\ returned \in Answer
      BY <1>3 DEF Resume
    <2>2. stack' \in Seq(Frame)
      BY <1>3, <2>1, LearnedMore, TopBecomesTypes DEF Resume
    <2> QED
      BY <1>3, <2>2 DEF Resume
  <1>4. CASE Respond
    <2>1. stack # <<>>
      BY <1>4 DEF Respond, Running
    <2>2. Top \in Frame /\ Len(stack) \in Nat \ {0}
      BY <2>1, TopIsFrame
    <2>3. SubSeq(stack, 1, Len(stack) - 1) \in Seq(Frame)
      BY <2>1, Popped
    <2>4. Top.open \cup Flags(Top) \in SUBSET Question
      BY <2>2 DEF Frame, Flags, Question
    <2>5. returned' \in Answer
      BY <1>4, <2>4 DEF Respond, Answer
    <2> QED
      BY <1>4, <2>3, <2>5 DEF Respond
  <1>5. CASE Receive
    BY <1>5 DEF Receive
  <1>6. CASE Raise
    BY <1>6 DEF Raise
  <1>7. CASE UNCHANGED vars
    BY <1>7 DEF vars
  <1> QED
    BY <1>1, <1>2, <1>3, <1>4, <1>5, <1>6, <1>7 DEF Next

(* The state keeps its types, for any agents and any limit. *)
THEOREM TypeCorrect == Spec => []TypeOK
  BY TypeInit, TypeStep, PTL DEF Spec

-----------------------------------------------------------------------------
(* NeverTooDeep is inductive with the types: the depth that a request      *)
(* carries is the height of the stack below it.                            *)
LEMMA DepthStep ==
  ASSUME TypeOK, NeverTooDeep, [Next]_vars
  PROVE  NeverTooDeep'
  <1> USE DEF TypeOK
  <1>a. ASSUME NEW agent \in Agent, NEW depth \in Nat, NEW inProgress \in Seq(Frame),
               Call(agent, depth, inProgress), depth = Len(inProgress),
               Len(inProgress) <= MaxDepth,
               \A i \in 1 .. Len(inProgress) : inProgress[i].depth = i - 1
        PROVE  NeverTooDeep'
    <2>1. CASE CutOff(agent, depth)
      BY <1>a, <2>1 DEF Call, NeverTooDeep
    <2>2. CASE ~CutOff(agent, depth)
      <3> DEFINE frame == [agent |-> agent, depth |-> depth, asked |-> 0, open |-> {}]
      <3>1. stack' = Append(inProgress, frame) /\ frame.depth = depth
        BY <1>a, <2>2 DEF Call
      <3> HIDE DEF frame
      <3>2. Len(stack') = Len(inProgress) + 1
        BY <3>1
      <3>3. depth < MaxDepth
        BY <2>2, ConsultationAssumption DEF CutOff
      <3>4. ASSUME NEW i \in 1 .. Len(stack')
            PROVE  stack'[i].depth = i - 1
        <4>1. CASE i = Len(inProgress) + 1
          BY <1>a, <3>1, <4>1
        <4>2. CASE i # Len(inProgress) + 1
          <5>1. i \in 1 .. Len(inProgress) /\ stack'[i] = inProgress[i]
            BY <3>1, <3>2, <3>4, <4>2
          <5> QED
            BY <1>a, <5>1
        <4> QED
          BY <4>1, <4>2
      <3> QED
        BY <1>a, <3>2, <3>3, <3>4, ConsultationAssumption DEF NeverTooDeep
    <2> QED
      BY <2>1, <2>2
  <1>1. CASE Ask
    <2>1. PICK agent \in Agent : Call(agent, 0, <<>>)
      BY <1>1 DEF Ask
    <2>2. <<>> \in Seq(Frame) /\ Len(<<>>) = 0
      OBVIOUS
    <2>3. \A i \in 1 .. Len(<<>>) : <<>>[i].depth = i - 1
      BY <2>2
    <2>4. 0 \in Nat /\ 0 <= MaxDepth
      BY ConsultationAssumption
    <2> QED
      BY <1>a, <2>1, <2>2, <2>3, <2>4
  <1>2. CASE ConsultFurther
    <2> DEFINE frame == [Top EXCEPT !.asked = @ + 1]
               below == TopBecomes(frame)
    <2>1. PICK agent \in Asks[Top.agent] : Call(agent, Top.depth + 1, below)
      BY <1>2 DEF ConsultFurther
    <2>2. stack # <<>> /\ Top.asked < MaxAsks
      BY <1>2 DEF ConsultFurther, Running
    <2>3. Top \in Frame
      BY <2>2, TopIsFrame
    <2>4. agent \in Agent /\ Top.depth + 1 \in Nat
      BY <2>1, <2>3, ConsultationAssumption DEF Frame
    <2>5. frame \in Frame /\ frame.depth = Top.depth
      BY <2>2, <2>3, AskedOneMore DEF Frame
    <2>6. /\ below \in Seq(Frame)
          /\ Len(below) = Len(stack)
          /\ \A i \in 1 .. Len(stack) :
               below[i] = IF i = Len(stack) THEN frame ELSE stack[i]
      BY <2>2, <2>5, TopBecomesTypes
    <2>7. Top.depth + 1 = Len(below)
      BY <2>2, <2>6, TopIsFrame DEF NeverTooDeep, Top
    <2>8. \A i \in 1 .. Len(below) : below[i].depth = i - 1
      BY <2>5, <2>6 DEF NeverTooDeep, Top
    <2>9. Len(below) <= MaxDepth
      BY <2>6 DEF NeverTooDeep
    <2> HIDE DEF below
    <2> QED
      BY <1>a, <2>1, <2>4, <2>6, <2>7, <2>8, <2>9
  <1>3. CASE Resume
    <2> DEFINE frame == [Top EXCEPT !.open = @ \cup Learns(returned)]
    <2>1. stack # <<>> /\ returned \in Answer /\ stack' = TopBecomes(frame)
      BY <1>3 DEF Resume
    <2>2. frame \in Frame /\ frame.depth = Top.depth
      BY <2>1, LearnedMore, TopIsFrame DEF Frame
    <2>3. /\ Len(stack') = Len(stack)
          /\ \A i \in 1 .. Len(stack) :
               stack'[i] = IF i = Len(stack) THEN frame ELSE stack[i]
      BY <2>1, <2>2, TopBecomesTypes
    <2> QED
      BY <2>2, <2>3 DEF NeverTooDeep, Top
  <1>4. CASE Respond
    <2>1. stack # <<>> /\ stack' = SubSeq(stack, 1, Len(stack) - 1)
      BY <1>4 DEF Respond, Running
    <2>2. /\ Len(stack) \in Nat \ {0}
          /\ Len(stack') = Len(stack) - 1
          /\ \A i \in 1 .. Len(stack) - 1 : stack'[i] = stack[i]
      BY <2>1, Popped
    <2> QED
      BY <2>2, ConsultationAssumption DEF NeverTooDeep
  <1>5. CASE Receive
    BY <1>5 DEF Receive, NeverTooDeep
  <1>6. CASE Raise
    BY <1>6, ConsultationAssumption DEF Raise, NeverTooDeep
  <1>7. CASE UNCHANGED vars
    BY <1>7 DEF vars, NeverTooDeep
  <1> QED
    BY <1>1, <1>2, <1>3, <1>4, <1>5, <1>6, <1>7 DEF Next

(* No more than MaxDepth agents are ever busy with one question, and each  *)
(* request carries its true depth, however agents consult each other.      *)
THEOREM DepthBounded == Spec => []NeverTooDeep
  <1>1. Init => NeverTooDeep
    BY ConsultationAssumption DEF Init, NeverTooDeep
  <1>2. TypeOK /\ NeverTooDeep /\ [Next]_vars => NeverTooDeep'
    BY DepthStep
  <1> QED
    BY <1>1, <1>2, TypeCorrect, PTL DEF Spec

-----------------------------------------------------------------------------
(* The frames with an open question, the frames of agents that stray, and  *)
(* whether a stack has one of a kind.                                      *)
Carrying(q) == {frame \in Frame : q \in frame.open}
Straying == {frame \in Frame : frame.agent \in Strays}
Has(s, P) == \E i \in 1 .. Len(s) : s[i] \in P

LEMMA HasAppend ==
  ASSUME NEW s \in Seq(Frame), NEW frame \in Frame, NEW P
  PROVE  Has(Append(s, frame), P) <=> Has(s, P) \/ frame \in P
  <1> DEFINE t == Append(s, frame)
  <1>1. /\ Len(s) \in Nat /\ Len(t) = Len(s) + 1 /\ t[Len(s) + 1] = frame
        /\ \A i \in 1 .. Len(s) : t[i] = s[i]
    OBVIOUS
  <1> HIDE DEF t
  <1>2. Len(s) + 1 \in 1 .. Len(t) /\ \A i \in 1 .. Len(s) : i \in 1 .. Len(t)
    BY <1>1
  <1>3. \A i \in 1 .. Len(t) : i = Len(s) + 1 \/ i \in 1 .. Len(s)
    BY <1>1
  <1>4. Has(t, P) <=> Has(s, P) \/ frame \in P
    BY <1>1, <1>2, <1>3 DEF Has
  <1> QED
    BY <1>4 DEF t

LEMMA HasPopped ==
  ASSUME stack \in Seq(Frame), stack # <<>>, NEW P
  PROVE  Has(stack, P) <=> Has(SubSeq(stack, 1, Len(stack) - 1), P) \/ Top \in P
  <1> DEFINE front == SubSeq(stack, 1, Len(stack) - 1)
  <1>1. /\ Len(stack) \in Nat \ {0} /\ Len(front) = Len(stack) - 1
        /\ \A i \in 1 .. Len(stack) - 1 : front[i] = stack[i]
    BY Popped
  <1> HIDE DEF front
  <1>2. \A i \in 1 .. Len(stack) : i = Len(stack) \/ i \in 1 .. Len(front)
    BY <1>1
  <1>3. Len(stack) \in 1 .. Len(stack) /\ \A i \in 1 .. Len(front) : i \in 1 .. Len(stack)
    BY <1>1
  <1>4. Has(stack, P) <=> Has(front, P) \/ Top \in P
    BY <1>1, <1>2, <1>3 DEF Has, Top
  <1> QED
    BY <1>4 DEF front

LEMMA HasTopBecomes ==
  ASSUME stack \in Seq(Frame), stack # <<>>, NEW frame \in Frame, NEW P
  PROVE  Has(TopBecomes(frame), P) <=>
           Has(SubSeq(stack, 1, Len(stack) - 1), P) \/ frame \in P
  <1> DEFINE front == SubSeq(stack, 1, Len(stack) - 1)
             changed == TopBecomes(frame)
  <1>1. /\ Len(stack) \in Nat \ {0} /\ Len(front) = Len(stack) - 1
        /\ \A i \in 1 .. Len(stack) - 1 : front[i] = stack[i]
    BY Popped
  <1>2. /\ Len(changed) = Len(stack)
        /\ \A i \in 1 .. Len(stack) :
             changed[i] = IF i = Len(stack) THEN frame ELSE stack[i]
    BY TopBecomesTypes
  <1> HIDE DEF front, changed
  <1>3. \A i \in 1 .. Len(stack) : i = Len(stack) \/ i \in 1 .. Len(front)
    BY <1>1
  <1>4. /\ Len(stack) \in 1 .. Len(stack)
        /\ \A i \in 1 .. Len(front) : i \in 1 .. Len(stack) /\ i # Len(stack)
    BY <1>1
  <1>5. Has(changed, P) <=> Has(front, P) \/ frame \in P
    BY <1>1, <1>2, <1>3, <1>4 DEF Has
  <1> QED
    BY <1>5 DEF front, changed

LEMMA HasNone == \A P : ~Has(<<>>, P)
  BY DEF Has

-----------------------------------------------------------------------------
(* Some call so far was answered by an agent that strays. *)
StrayAnswered ==
  \E i \in (1 .. Len(calls)) \ Unanswered : calls[i].to \in Strays

(* What a further call adds to the record of unanswered calls. *)
LEMMA CallsGrow ==
  ASSUME calls \in Seq([to : Agent, depth : Nat]), NEW agent \in Agent,
         NEW depth \in Nat, calls' = Append(calls, [to |-> agent, depth |-> depth])
  PROVE  /\ Len(calls) \in Nat /\ Len(calls') = Len(calls) + 1
         /\ Unanswered' = Unanswered \cup
              (IF CutOff(agent, depth) THEN {Len(calls) + 1} ELSE {})
         /\ StrayAnswered' <=>
              StrayAnswered \/ (~CutOff(agent, depth) /\ agent \in Strays)
  <1> DEFINE n == Len(calls)
  <1>1. /\ n \in Nat /\ Len(calls') = n + 1
        /\ calls'[n + 1].to = agent /\ calls'[n + 1].depth = depth
        /\ \A i \in 1 .. n : calls'[i] = calls[i]
    OBVIOUS
  <1> HIDE DEF n
  <1>2. 1 .. Len(calls') = (1 .. n) \cup {n + 1} /\ n + 1 \notin 1 .. n
    BY <1>1
  <1>3. Unanswered' = Unanswered \cup (IF CutOff(agent, depth) THEN {n + 1} ELSE {})
    BY <1>1, <1>2 DEF Unanswered, n, CutOff
  <1>4. Unanswered \subseteq 1 .. n
    BY DEF Unanswered, n
  <1>5. StrayAnswered' <=>
          StrayAnswered \/ (~CutOff(agent, depth) /\ agent \in Strays)
    BY <1>1, <1>2, <1>3, <1>4 DEF StrayAnswered, n
  <1> QED
    BY <1>1, <1>3, <1>5 DEF n

-----------------------------------------------------------------------------
(* The inductive invariant of AnswerTellsWhatIsMissing.  An open question  *)
(* is never dropped: it is carried by the answer on its way up or by a     *)
(* frame of the stack, exactly when there is a cause for it in the record  *)
(* of calls; an agent that strays may be on the stack still.               *)
Bookkeeping ==
  /\ status # "asking" => stack = <<>>
  /\ status = "idle" => calls = <<>>
  /\ returned.timedOut => returned = TimeOut
  /\ status \in {"asking", "answered"} =>
       /\ calls # <<>>
       /\ 1 \in Unanswered => stack = <<>> /\ returned = TimeOut
       /\ 1 \notin Unanswered /\ stack = <<>> => returned \in Answer /\ ~returned.timedOut

Carried(q) == q \in returned.open \/ Has(stack, Carrying(q))

CausesCarried ==
  status \in {"asking", "answered"} =>
    /\ Unanswered # {} <=> returned.timedOut \/ Carried("unreachable")
    /\ StrayAnswered <=> Carried("needs_verification") \/ Has(stack, Straying)

AnswerInv == Bookkeeping /\ CausesCarried

LEMMA AnswerInit == Init => AnswerInv
  BY DEF Init, AnswerInv, Bookkeeping, CausesCarried, Nothing

LEMMA NothingCarries ==
  /\ ~Nothing.timedOut /\ Nothing # TimeOut /\ TimeOut.timedOut /\ TimeOut.open = {}
  /\ "unreachable" \notin Nothing.open /\ "needs_verification" \notin Nothing.open
  BY DEF Nothing, TimeOut

LEMMA AskKeeps ==
  ASSUME TypeOK, AnswerInv, Ask
  PROVE  AnswerInv'
  <1> USE DEF TypeOK
  <1>1. PICK agent \in Agent : Call(agent, 0, <<>>)
    BY DEF Ask
  <1>2. calls = <<>> /\ status' = "asking"
    BY DEF Ask, AnswerInv, Bookkeeping
  <1>3. Unanswered = {} /\ ~StrayAnswered /\ Len(calls) = 0
    BY <1>2 DEF Unanswered, StrayAnswered
  <1>4. calls' = Append(calls, [to |-> agent, depth |-> 0])
    BY <1>1 DEF Call
  <1>5. /\ Unanswered' = IF CutOff(agent, 0) THEN {1} ELSE {}
        /\ StrayAnswered' <=> ~CutOff(agent, 0) /\ agent \in Strays
        /\ calls' # <<>>
    BY <1>3, <1>4, CallsGrow
  <1>6. CASE CutOff(agent, 0)
    <2>1. stack' = <<>> /\ returned' = TimeOut
      BY <1>1, <1>6 DEF Call
    <2>2. ~Has(stack', Straying') /\ ~Has(stack', Carrying("needs_verification")')
      BY <2>1 DEF Has
    <2>3. Bookkeeping'
      BY <1>2, <1>5, <1>6, <2>1 DEF Bookkeeping
    <2>4. CausesCarried'
      BY <1>5, <1>6, <2>1, <2>2, NothingCarries DEF CausesCarried, Carried
    <2> QED
      BY <2>3, <2>4 DEF AnswerInv
  <1>7. CASE ~CutOff(agent, 0)
    <2> DEFINE frame == [agent |-> agent, depth |-> 0, asked |-> 0, open |-> {}]
    <2>1. agent \in Deployed /\ 0 \in 0 .. MaxAsks
      BY <1>7, ConsultationAssumption DEF CutOff
    <2>2. /\ frame \in Frame
          /\ \A q : frame \notin Carrying(q)
          /\ frame \in Straying <=> agent \in Strays
      BY <2>1 DEF Frame, Carrying, Straying
    <2>3. stack' = Append(<<>>, frame) /\ returned' = Nothing
      BY <1>1, <1>7 DEF Call
    <2> HIDE DEF frame
    <2>4. <<>> \in Seq(Frame) /\ stack' # <<>>
      BY <2>3
    <2>5. \A P : Has(stack', P) <=> frame \in P
      BY <2>2, <2>3, <2>4, HasAppend, HasNone
    <2>6. Bookkeeping'
      BY <1>2, <1>5, <1>7, <2>3, <2>4, NothingCarries DEF Bookkeeping
    <2>7. CausesCarried'
      BY <1>5, <1>7, <2>2, <2>3, <2>5, NothingCarries DEF CausesCarried, Carried
    <2> QED
      BY <2>6, <2>7 DEF AnswerInv
  <1> QED
    BY <1>6, <1>7

LEMMA ConsultFurtherKeeps ==
  ASSUME TypeOK, AnswerInv, ConsultFurther
  PROVE  AnswerInv'
  <1> USE DEF TypeOK
  <1> DEFINE asking == [Top EXCEPT !.asked = @ + 1]
             below == TopBecomes(asking)
             depth == Top.depth + 1
  <1>1. PICK agent \in Asks[Top.agent] : Call(agent, depth, below)
    BY DEF ConsultFurther
  <1>2. /\ stack # <<>> /\ returned = Nothing /\ Top.asked < MaxAsks
        /\ status = "asking" /\ status' = "asking"
    BY DEF ConsultFurther, Running
  <1>3. Top \in Frame
    BY <1>2, TopIsFrame
  <1>4. agent \in Agent /\ depth \in Nat
    BY <1>1, <1>3, ConsultationAssumption DEF Frame
  <1>5. asking \in Frame /\ asking.agent = Top.agent /\ asking.open = Top.open
    BY <1>2, <1>3, AskedOneMore DEF Frame
  <1>6. /\ below \in Seq(Frame) /\ below # <<>>
        /\ \A q : Has(below, Carrying(q)) <=> Has(stack, Carrying(q))
        /\ Has(below, Straying) <=> Has(stack, Straying)
    <2>1. below \in Seq(Frame) /\ Len(below) = Len(stack) /\ Len(stack) > 0
      BY <1>2, <1>5, TopBecomesTypes
    <2>2. \A P : (asking \in P <=> Top \in P) => (Has(below, P) <=> Has(stack, P))
      BY <1>2, <1>5, HasPopped, HasTopBecomes
    <2>3. /\ \A q : asking \in Carrying(q) <=> Top \in Carrying(q)
          /\ asking \in Straying <=> Top \in Straying
      BY <1>3, <1>5 DEF Carrying, Straying
    <2> HIDE DEF asking, below
    <2>4. below # <<>>
      BY <2>1
    <2>5. \A q : Has(below, Carrying(q)) <=> Has(stack, Carrying(q))
      BY <2>2, <2>3
    <2>6. Has(below, Straying) <=> Has(stack, Straying)
      BY <2>2, <2>3
    <2> QED
      BY <2>1, <2>4, <2>5, <2>6
  <1>7. calls' = Append(calls, [to |-> agent, depth |-> depth])
    BY <1>1 DEF Call
  <1> HIDE DEF asking, below, depth
  <1>8. /\ Len(calls) \in Nat /\ Len(calls') = Len(calls) + 1
        /\ Unanswered' = Unanswered \cup
             (IF CutOff(agent, depth) THEN {Len(calls) + 1} ELSE {})
        /\ StrayAnswered' <=>
             StrayAnswered \/ (~CutOff(agent, depth) /\ agent \in Strays)
    BY <1>4, <1>7, CallsGrow
  <1>9. calls # <<>> /\ 1 \notin Unanswered /\ Len(calls) > 0
    BY <1>2 DEF AnswerInv, Bookkeeping
  <1>10. 1 \notin Unanswered' /\ calls' # <<>>
    BY <1>8, <1>9
  <1>11. /\ Unanswered # {} <=> Has(below, Carrying("unreachable"))
         /\ StrayAnswered <=> Has(below, Carrying("needs_verification"))
                                \/ Has(below, Straying)
    BY <1>2, <1>6, NothingCarries DEF AnswerInv, CausesCarried, Carried
  <1>12. CASE CutOff(agent, depth)
    <2>1. stack' = below /\ returned' = TimeOut
      BY <1>1, <1>12 DEF Call
    <2>2. Bookkeeping'
      BY <1>2, <1>6, <1>10, <2>1 DEF Bookkeeping
    <2>3. CausesCarried'
      BY <1>8, <1>11, <1>12, <2>1, NothingCarries DEF CausesCarried, Carried
    <2> QED
      BY <2>2, <2>3 DEF AnswerInv
  <1>13. CASE ~CutOff(agent, depth)
    <2> DEFINE frame == [agent |-> agent, depth |-> depth, asked |-> 0, open |-> {}]
    <2>1. agent \in Deployed /\ 0 \in 0 .. MaxAsks
      BY <1>13, ConsultationAssumption DEF CutOff
    <2>2. /\ frame \in Frame
          /\ \A q : frame \notin Carrying(q)
          /\ frame \in Straying <=> agent \in Strays
      BY <1>4, <2>1 DEF Frame, Carrying, Straying
    <2>3. stack' = Append(below, frame) /\ returned' = Nothing
      BY <1>1, <1>13 DEF Call
    <2> HIDE DEF frame
    <2>4. stack' # <<>>
      BY <1>6, <2>3
    <2>5. \A P : Has(stack', P) <=> Has(below, P) \/ frame \in P
      BY <1>6, <2>2, <2>3, HasAppend
    <2>6. Bookkeeping'
      BY <1>2, <1>10, <2>3, <2>4, NothingCarries DEF Bookkeeping
    <2>7. CausesCarried'
      BY <1>8, <1>11, <1>13, <2>2, <2>3, <2>5, NothingCarries
      DEF CausesCarried, Carried
    <2> QED
      BY <2>6, <2>7 DEF AnswerInv
  <1> QED
    BY <1>12, <1>13

LEMMA ResumeKeeps ==
  ASSUME TypeOK, AnswerInv, Resume
  PROVE  AnswerInv'
  <1> USE DEF TypeOK
  <1> DEFINE frame == [Top EXCEPT !.open = @ \cup Learns(returned)]
             front == SubSeq(stack, 1, Len(stack) - 1)
  <1>1. /\ stack # <<>> /\ returned \in Answer /\ stack' = TopBecomes(frame)
        /\ status = "asking" /\ returned' = Nothing /\ UNCHANGED <<status, calls>>
    BY DEF Resume
  <1>2. Top \in Frame
    BY <1>1, TopIsFrame
  <1>3. /\ frame \in Frame /\ frame.agent = Top.agent
        /\ frame.open = Top.open \cup Learns(returned)
    BY <1>1, <1>2, LearnedMore DEF Frame
  <1>4. /\ frame \in Straying <=> Top \in Straying
        /\ \A q : frame \in Carrying(q) <=> Top \in Carrying(q) \/ q \in Learns(returned)
    BY <1>2, <1>3 DEF Carrying, Straying
  <1>5. \A P : /\ Has(stack, P) <=> Has(front, P) \/ Top \in P
               /\ Has(stack', P) <=> Has(front, P) \/ frame \in P
    BY <1>1, <1>3, HasPopped, HasTopBecomes
  <1>6. Unanswered' = Unanswered /\ (StrayAnswered' <=> StrayAnswered)
    BY <1>1 DEF Unanswered, StrayAnswered
  <1>7. stack' # <<>>
    BY <1>1, <1>3, TopBecomesTypes
  <1>8. /\ "unreachable" \in Learns(returned) <=>
             returned.timedOut \/ "unreachable" \in returned.open
        /\ "needs_verification" \in Learns(returned) <=>
             "needs_verification" \in returned.open
    BY NothingCarries DEF Learns, AnswerInv, Bookkeeping
  <1> HIDE DEF frame, front
  <1>9. Bookkeeping'
    BY <1>1, <1>6, <1>7, NothingCarries DEF AnswerInv, Bookkeeping
  <1>10. CausesCarried'
    BY <1>1, <1>4, <1>5, <1>6, <1>8, NothingCarries
    DEF AnswerInv, CausesCarried, Carried
  <1> QED
    BY <1>9, <1>10 DEF AnswerInv

LEMMA RespondKeeps ==
  ASSUME TypeOK, AnswerInv, Respond
  PROVE  AnswerInv'
  <1> USE DEF TypeOK
  <1> DEFINE front == SubSeq(stack, 1, Len(stack) - 1)
  <1>1. /\ stack # <<>> /\ stack' = front /\ returned = Nothing
        /\ returned' = [timedOut |-> FALSE, open |-> Top.open \cup Flags(Top)]
        /\ status = "asking" /\ UNCHANGED <<status, calls>>
    BY DEF Respond, Running
  <1>2. Top \in Frame
    BY <1>1, TopIsFrame
  <1>3. /\ ~returned'.timedOut /\ returned'.open = Top.open \cup Flags(Top)
        /\ returned' \in Answer
    BY <1>1, <1>2 DEF Frame, Flags, Answer, Question
  <1>4. \A P : Has(stack, P) <=> Has(stack', P) \/ Top \in P
    BY <1>1, HasPopped
  <1>5. /\ Top \in Carrying("unreachable") <=> "unreachable" \in returned'.open
        /\ Top \in Carrying("needs_verification") \/ Top \in Straying
             <=> "needs_verification" \in returned'.open
    BY <1>2, <1>3 DEF Carrying, Straying, Flags
  <1>6. Unanswered' = Unanswered /\ (StrayAnswered' <=> StrayAnswered)
    BY <1>1 DEF Unanswered, StrayAnswered
  <1> HIDE DEF front
  <1>7. Bookkeeping'
    BY <1>1, <1>3, <1>6 DEF AnswerInv, Bookkeeping
  <1>8. CausesCarried'
    BY <1>1, <1>3, <1>4, <1>5, <1>6, NothingCarries
    DEF AnswerInv, CausesCarried, Carried
  <1> QED
    BY <1>7, <1>8 DEF AnswerInv

LEMMA AnswerStep ==
  ASSUME TypeOK, AnswerInv, [Next]_vars
  PROVE  AnswerInv'
  <1>1. CASE Receive
    <2>1. stack' = stack /\ returned' = returned /\ calls' = calls
          /\ stack = <<>> /\ status = "asking" /\ status' = "answered"
      BY <1>1 DEF Receive
    <2> QED
      BY <2>1 DEF AnswerInv, Bookkeeping, CausesCarried, Carried, Unanswered,
                  StrayAnswered
  <1>2. CASE Raise
    BY <1>2, NothingCarries
    DEF Raise, Running, AnswerInv, Bookkeeping, CausesCarried
  <1>3. CASE UNCHANGED vars
    <2>1. stack' = stack /\ returned' = returned /\ calls' = calls /\ status' = status
      BY <1>3 DEF vars
    <2> QED
      BY <2>1 DEF AnswerInv, Bookkeeping, CausesCarried, Carried, Unanswered,
                  StrayAnswered
  <1> QED
    BY <1>1, <1>2, <1>3, AskKeeps, ConsultFurtherKeeps, ResumeKeeps, RespondKeeps
    DEF Next

LEMMA InvTells == AnswerInv => AnswerTellsWhatIsMissing
  <1> SUFFICES ASSUME AnswerInv, status = "answered"
               PROVE  IF 1 \in Unanswered THEN returned = TimeOut
                      ELSE /\ ~returned.timedOut
                           /\ "unreachable" \in returned.open <=> Unanswered # {}
                           /\ "needs_verification" \in returned.open <=> StrayAnswered
    BY DEF AnswerTellsWhatIsMissing, StrayAnswered
  <1>1. stack = <<>> /\ \A P : ~Has(stack, P)
    BY DEF AnswerInv, Bookkeeping, Has
  <1> QED
    BY <1>1 DEF AnswerInv, Bookkeeping, CausesCarried, Carried

(* The owner is told of everything that is missing from an answer, however *)
(* deep below it the cut-off or the stray citation was.                    *)
THEOREM AnswerTells == Spec => []AnswerTellsWhatIsMissing
  <1>1. TypeOK /\ AnswerInv /\ [Next]_vars => AnswerInv'
    BY AnswerStep
  <1> QED
    BY <1>1, AnswerInit, InvTells, TypeCorrect, PTL DEF Spec
=============================================================================
