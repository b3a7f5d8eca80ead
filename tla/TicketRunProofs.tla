-------------------------- MODULE TicketRunProofs ---------------------------
(***************************************************************************)
(* What holds of a run for every number of events, of subscribers and of   *)
(* pollers.                                                                *)
(***************************************************************************)
EXTENDS TicketRun, SequenceTheorems, TLAPS

LEMMA EventsType == Events \subseteq Nat \ {0} /\ None \notin Events /\ None \in Nat
  BY MaxEventsAssumption DEF Events, None

(* Appending to a sequence and taking its tail, as the proofs below use it. *)
LEMMA AppendFacts ==
  ASSUME NEW S, NEW q \in Seq(S), NEW e \in S
  PROVE  /\ Append(q, e) \in Seq(S)
         /\ Len(Append(q, e)) = Len(q) + 1
         /\ \A i \in 1 .. Len(q) : Append(q, e)[i] = q[i]
         /\ Append(q, e)[Len(q) + 1] = e
  BY AppendProperties

LEMMA TailFacts ==
  ASSUME NEW S, NEW q \in Seq(S), q # <<>>
  PROVE  /\ Head(q) \in S
         /\ Head(q) = q[1]
         /\ Tail(q) \in Seq(S)
         /\ Len(Tail(q)) = Len(q) - 1
         /\ Len(q) \in Nat \ {0}
         /\ \A i \in 1 .. Len(q) - 1 : Tail(q)[i] = q[i + 1]
  BY HeadTailProperties, EmptySeq

-----------------------------------------------------------------------------
(* Type correctness of the run: whatever the threads and clients do, the   *)
(* fields of _execute, gen and get_ticket keep their types.                *)
THEOREM TypeCorrect == Spec => []TypeOK
<1> USE EventsType
<1>1. Init => TypeOK
  BY EmptySeq DEF Init, TypeOK, RunTypeOK, StreamTypeOK, PollTypeOK, Blank, None, Complete, Fields
<1>2. TypeOK /\ [Next]_vars => TypeOK'
  <2> SUFFICES ASSUME TypeOK, [Next]_vars PROVE TypeOK'
    OBVIOUS
  <2> USE DEF TypeOK
  <2>1. CASE Worker
    <3>1. UNCHANGED <<subVars, pollVars>> /\ StreamTypeOK' /\ PollTypeOK'
      BY <2>1 DEF Worker, BuildNetwork, PushAppend, PushPut, WorkerWrites, WriteFinding,
                  WriteDoc, WriteTrace, WriteDone, Raise, WriteErrorStatus,
                  WriteErrorMessage, PutSentinel, subVars, pollVars, StreamTypeOK, PollTypeOK
    <3>2. RunTypeOK'
      <4>1. CASE PushAppend
        <5>1. Len(events) + 1 \in Events
          BY <4>1, MaxEventsAssumption DEF RunTypeOK, PushAppend, Events
        <5>2. events' \in Seq(Events) /\ events' # <<>>
          BY <4>1, <5>1, AppendFacts DEF RunTypeOK, PushAppend
        <5> QED
          BY <4>1, <5>2 DEF RunTypeOK, PushAppend, WorkerMoves
      <4>2. CASE PushPut
        <5>1. events[Len(events)] \in Events
          BY <4>2 DEF RunTypeOK, PushPut, WorkerMoves
        <5>2. queue' \in Seq(Events \cup {None})
          BY <4>2, <5>1, AppendFacts DEF RunTypeOK, PushPut
        <5> QED
          BY <4>2, <5>2 DEF RunTypeOK, PushPut, WorkerMoves
      <4>3. CASE PutSentinel
        BY <4>3, AppendFacts DEF RunTypeOK, PutSentinel, WorkerMoves
      <4>4. CASE BuildNetwork \/ Raise
        BY <4>4 DEF RunTypeOK, BuildNetwork, Raise, WorkerMoves
      <4>5. CASE \/ WriteFinding \/ WriteDoc \/ WriteTrace \/ WriteDone
                 \/ WriteErrorStatus \/ WriteErrorMessage
        BY <4>5 DEF RunTypeOK, WriteFinding, WriteDoc, WriteTrace, WriteDone,
                    WriteErrorStatus, WriteErrorMessage, WorkerWrites, WorkerMoves
      <4> QED
        BY <2>1, <4>1, <4>2, <4>3, <4>4, <4>5 DEF Worker
    <3> QED
      BY <3>1, <3>2
  <2>2. ASSUME NEW s \in Subscribers, Subscribe(s) \/ Stream(s) \/ Disconnect(s)
        PROVE  TypeOK'
    <3>1. UNCHANGED <<runVars, pollVars>> /\ PollTypeOK'
      BY <2>2 DEF Subscribe, Stream, Disconnect, Replay, CaughtUp, TakeEvent, TakeSentinel,
                  ItemIsNext, ItemIsAhead, ItemIsOld, runVars, pollVars, PollTypeOK
    <3>2. CASE Subscribe(s)
      BY <3>1, <3>2 DEF RunTypeOK, StreamTypeOK, runVars, Subscribe
    <3>3. CASE CaughtUp(s)
      BY <3>1, <3>3 DEF RunTypeOK, StreamTypeOK, runVars, CaughtUp
    <3>4. CASE ItemIsOld(s)
      BY <3>1, <3>4 DEF RunTypeOK, StreamTypeOK, runVars, ItemIsOld
    <3>5. CASE Disconnect(s)
      <4>1. RunTypeOK'
        BY <3>1, <3>5 DEF RunTypeOK, runVars, Disconnect
      <4>2. CASE at[s] = "yielded"
        BY <3>5, <4>1, <3>1, <4>2 DEF StreamTypeOK, Disconnect
      <4>3. CASE at[s] # "yielded"
        BY <3>5, <4>1, <3>1, <4>3 DEF StreamTypeOK, Disconnect
      <4> QED
        BY <4>2, <4>3
    <3>6. CASE TakeEvent(s) \/ TakeSentinel(s)
      <4>1. /\ Head(queue) \in Events \cup {None}
            /\ queue' \in Seq(Events \cup {None})
            /\ held' = [held EXCEPT ![s] = Head(queue)]
            /\ taken' = taken + 1
        <5>1. queue # <<>> /\ queue' = Tail(queue) /\ taken' = taken + 1
              /\ held' = [held EXCEPT ![s] = Head(queue)]
          BY <3>6 DEF TakeEvent, TakeSentinel, Take
        <5> QED
          BY <5>1, TailFacts DEF RunTypeOK
      <4>2. RunTypeOK'
        BY <3>1, <4>1 DEF RunTypeOK, runVars
      <4>3. CASE TakeEvent(s)
        BY <3>1, <4>1, <4>2, <4>3 DEF StreamTypeOK, TakeEvent
      <4>4. CASE TakeSentinel(s)
        BY <3>1, <4>1, <4>2, <4>4 DEF StreamTypeOK, TakeSentinel
      <4> QED
        BY <3>6, <4>3, <4>4
    <3>7. CASE Replay(s) \/ ItemIsNext(s) \/ ItemIsAhead(s)
      <4>1. PICK e \in Events : YieldEvent(s, e)
        <5>1. CASE Replay(s)
          <6>1. seen[s] + 1 \in 1 .. Len(events)
            BY <5>1 DEF Replay, RunTypeOK, StreamTypeOK
          <6>2. events[seen[s] + 1] \in Events
            BY <6>1, ElementOfSeq DEF RunTypeOK
          <6> QED
            BY <5>1, <6>2 DEF Replay
        <5>2. CASE ItemIsNext(s) \/ ItemIsAhead(s)
          BY <5>2 DEF ItemIsNext, ItemIsAhead, StreamTypeOK
        <5> QED
          BY <3>7, <5>1, <5>2
      <4>2. RunTypeOK'
        BY <3>1, <3>7 DEF RunTypeOK, runVars, Replay, ItemIsNext, ItemIsAhead
      <4>3. UNCHANGED <<connected, held>> /\ seen' \in [Subscribers -> Nat]
        BY <3>7 DEF Replay, ItemIsNext, ItemIsAhead, AdvanceCursor, StreamTypeOK
      <4>4. Append(delivered[s], e) \in Seq(Events)
        BY AppendFacts DEF StreamTypeOK
      <4>5. StreamTypeOK'
        <5>1. CASE connected[s]
          BY <4>1, <4>3, <4>4, <5>1 DEF StreamTypeOK, YieldEvent
        <5>2. CASE ~connected[s]
          BY <4>1, <4>3, <5>2 DEF StreamTypeOK, YieldEvent
        <5> QED
          BY <5>1, <5>2
      <4> QED
        BY <3>1, <4>2, <4>5
    <3> QED
      BY <2>2, <3>2, <3>3, <3>4, <3>5, <3>6, <3>7 DEF Stream
  <2>3. ASSUME NEW p \in Pollers, Poll(p)
        PROVE  TypeOK'
    <3>1. UNCHANGED <<runVars, queue, subVars, taken>> /\ RunTypeOK' /\ StreamTypeOK'
      BY <2>3 DEF Poll, ReadField, PollAgain, runVars, subVars, RunTypeOK, StreamTypeOK
    <3>2. CASE ReadField(p)
      <4> DEFINE field == Fields[pollAt[p]]
      <4>1. /\ snap' = [snap EXCEPT ![p] = [@ EXCEPT ![field] = CurrentValue(field)]]
            /\ pollAt' \in [Pollers -> 1 .. Complete]
        BY <3>2 DEF ReadField, PollTypeOK, Complete, Fields
      <4>2. field \in {"status", "trace", "finding", "doc", "error", "events"}
        BY <3>2 DEF ReadField, PollTypeOK, Complete, Fields
      <4>3. [snap[p] EXCEPT ![field] = CurrentValue(field)] \in
               [status : {"running", "done", "error"}, trace : BOOLEAN,
                finding : BOOLEAN, doc : BOOLEAN, error : BOOLEAN, events : Nat]
        <5>1. snap[p] \in [status : {"running", "done", "error"}, trace : BOOLEAN,
                            finding : BOOLEAN, doc : BOOLEAN, error : BOOLEAN, events : Nat]
          BY DEF PollTypeOK
        <5>2. CASE field = "events"
          BY <5>1, <5>2 DEF CurrentValue, RunTypeOK
        <5>3. CASE field = "status"
          BY <5>1, <5>3 DEF CurrentValue, RunTypeOK
        <5>4. CASE field \in {"trace", "finding", "doc", "error"}
          BY <5>1, <5>4 DEF CurrentValue, RunTypeOK
        <5> QED
          BY <4>2, <5>2, <5>3, <5>4
      <4> QED
        BY <3>1, <4>1, <4>3 DEF PollTypeOK
    <3>3. CASE PollAgain(p)
      BY <3>1, <3>3 DEF PollAgain, PollTypeOK, Complete, Fields
    <3> QED
      BY <2>3, <3>2, <3>3 DEF Poll
  <2>4. CASE UNCHANGED vars
    BY <2>4 DEF vars, RunTypeOK, StreamTypeOK, PollTypeOK
  <2> QED
    BY <2>1, <2>2, <2>3, <2>4 DEF Next
<1> QED
  BY <1>1, <1>2, PTL DEF Spec
-----------------------------------------------------------------------------
(* Which of the run's variables each group of actions leaves alone. *)
LEMMA PollChangesNothingElse ==
  ASSUME NEW p \in Pollers, Poll(p)
  PROVE  UNCHANGED <<worker, events, run, queue, taken, at, connected, seen, held, delivered>>
  BY DEF Poll, ReadField, PollAgain, runVars, subVars

LEMMA WorkerChangesNothingElse ==
  ASSUME Worker
  PROVE  UNCHANGED <<taken, at, connected, seen, held, delivered, pollAt, snap>>
  BY DEF Worker, BuildNetwork, PushAppend, PushPut, WorkerWrites, WriteFinding,
         WriteDoc, WriteTrace, WriteDone, Raise, WriteErrorStatus,
         WriteErrorMessage, PutSentinel, subVars, pollVars

LEMMA StreamChangesNothingElse ==
  ASSUME NEW s \in Subscribers, Subscribe(s) \/ Stream(s) \/ Disconnect(s)
  PROVE  UNCHANGED <<worker, events, run, pollAt, snap>>
  BY DEF Subscribe, Stream, Disconnect, Replay, CaughtUp, TakeEvent, TakeSentinel,
         ItemIsNext, ItemIsAhead, ItemIsOld, runVars, pollVars

(* The worker's steps that touch neither the list nor the queue. *)
QuietWorkerStep ==
  \/ BuildNetwork \/ WriteFinding \/ WriteDoc \/ WriteTrace \/ WriteDone
  \/ Raise \/ WriteErrorStatus \/ WriteErrorMessage

LEMMA QuietWorker ==
  ASSUME QuietWorkerStep
  PROVE  /\ UNCHANGED <<events, queue>>
         /\ worker \notin {"put", "exit"} /\ worker' \notin {"put", "exit"}
  BY DEF QuietWorkerStep, BuildNetwork, WorkerWrites, WriteFinding, WriteDoc, WriteTrace,
         WriteDone, Raise, WriteErrorStatus, WriteErrorMessage, WorkerMoves

LEMMA EventsPutType ==
  ASSUME TypeOK
  PROVE  EventsPut \in Nat /\ EventsPut <= Len(events) /\ EventsPut >= Len(events) - 1
  <1>1. Len(events) \in Nat /\ (events # <<>> => Len(events) > 0)
    BY EmptySeq DEF TypeOK, RunTypeOK
  <1> QED
    BY <1>1 DEF EventsPut, TypeOK, RunTypeOK

-----------------------------------------------------------------------------
(* Nothing is lost between the list and the queue, for any number of       *)
(* streams, abandoned ones included.                                       *)
LEMMA QueueStep ==
  ASSUME TypeOK, TypeOK', QueueHoldsUntaken, [Next]_vars
  PROVE  QueueHoldsUntaken'
<1> USE EventsType, EventsPutType
<1>0. Len(queue) \in Nat /\ taken \in Nat /\ Len(events) \in Nat
  BY DEF TypeOK, RunTypeOK
<1>1. CASE PushAppend
  <2>1. /\ queue' = queue /\ taken' = taken /\ worker = "own" /\ worker' = "put"
        /\ events' = Append(events, Len(events) + 1)
    BY <1>1, WorkerChangesNothingElse DEF PushAppend, WorkerMoves, Worker
  <2>2. Len(events') = Len(events) + 1 /\ \A i \in 1 .. Len(events) : events'[i] = events[i]
    BY <2>1 DEF TypeOK, RunTypeOK
  <2>3. EventsPut' = EventsPut /\ EventsPut = Len(events)
    BY <1>0, <2>1, <2>2 DEF EventsPut
  <2> QED
    BY <1>0, <2>1, <2>2, <2>3 DEF QueueHoldsUntaken
<1>2. CASE PushPut
  <2>1. /\ queue' = Append(queue, events[Len(events)]) /\ taken' = taken /\ events' = events
        /\ worker = "put" /\ worker' = "own"
    BY <1>2, WorkerChangesNothingElse DEF PushPut, WorkerMoves, Worker
  <2>2. /\ Len(queue') = Len(queue) + 1
        /\ \A i \in 1 .. Len(queue) : queue'[i] = queue[i]
        /\ queue'[Len(queue) + 1] = events[Len(events)]
    BY <2>1 DEF TypeOK, RunTypeOK
  <2>3. EventsPut' = Len(events) /\ EventsPut = Len(events) - 1
    BY <2>1 DEF EventsPut
  <2> QED
    BY <1>0, <2>1, <2>2, <2>3 DEF QueueHoldsUntaken
<1>3. CASE PutSentinel
  <2>1. /\ queue' = Append(queue, None) /\ taken' = taken /\ events' = events
        /\ worker = "last" /\ worker' = "exit"
    BY <1>3, WorkerChangesNothingElse DEF PutSentinel, WorkerMoves, Worker
  <2>2. /\ Len(queue') = Len(queue) + 1
        /\ \A i \in 1 .. Len(queue) : queue'[i] = queue[i]
        /\ queue'[Len(queue) + 1] = None
    BY <2>1 DEF TypeOK, RunTypeOK
  <2>3. EventsPut' = EventsPut
    BY <2>1 DEF EventsPut
  <2> QED
    BY <1>0, <2>1, <2>2, <2>3 DEF QueueHoldsUntaken
<1>4. CASE QuietWorkerStep
  <2>1. UNCHANGED <<events, queue, taken>> /\ EventsPut' = EventsPut
    BY <1>4, QuietWorker, WorkerChangesNothingElse DEF QuietWorkerStep, Worker, EventsPut
  <2> QED
    BY <1>4, <2>1, QuietWorker DEF QueueHoldsUntaken
<1>5. ASSUME NEW s \in Subscribers, Take(s), UNCHANGED <<worker, events>>
      PROVE  QueueHoldsUntaken'
  <2>1. queue # <<>> /\ queue' = Tail(queue) /\ taken' = taken + 1 /\ EventsPut' = EventsPut
    BY <1>5 DEF Take, EventsPut
  <2>2. Len(queue') = Len(queue) - 1 /\ \A i \in 1 .. Len(queue) - 1 : queue'[i] = queue[i + 1]
    BY <2>1, TailFacts DEF TypeOK, RunTypeOK
  <2> QED
    BY <1>0, <1>5, <2>1, <2>2 DEF QueueHoldsUntaken
<1>6. ASSUME UNCHANGED <<worker, events, queue, taken>>
      PROVE  QueueHoldsUntaken'
  BY <1>6 DEF QueueHoldsUntaken, EventsPut
<1>7. ASSUME NEW s \in Subscribers, Subscribe(s) \/ Stream(s) \/ Disconnect(s)
      PROVE  QueueHoldsUntaken'
  <2>1. Take(s) \/ UNCHANGED <<queue, taken>>
    BY <1>7 DEF Subscribe, Stream, Disconnect, Replay, CaughtUp, TakeEvent, TakeSentinel,
                ItemIsNext, ItemIsAhead, ItemIsOld
  <2> QED
    BY <2>1, <1>5, <1>6, <1>7, StreamChangesNothingElse
<1>8. ASSUME NEW p \in Pollers, Poll(p)
      PROVE  QueueHoldsUntaken'
  BY <1>6, <1>8, PollChangesNothingElse
<1>9. CASE UNCHANGED vars
  BY <1>6, <1>9 DEF vars
<1> QED
  BY <1>1, <1>2, <1>3, <1>4, <1>7, <1>8, <1>9 DEF Next, Worker, QuietWorkerStep

THEOREM QueueCorrect == Spec => []QueueHoldsUntaken
<1>1. Init => QueueHoldsUntaken
  BY EmptySeq DEF Init, QueueHoldsUntaken, EventsPut
<1> QED
  BY <1>1, TypeCorrect, QueueStep, PTL DEF Spec
-----------------------------------------------------------------------------
(* The sentinel is the last item of all: when it is at the head of the     *)
(* queue, nothing is behind it and every event was taken.                  *)
LEMMA SentinelIsLast ==
  ASSUME TypeOK, QueueHoldsUntaken, queue # <<>>, Head(queue) = None
  PROVE  worker = "exit" /\ Len(queue) = 1 /\ taken = Len(events)
<1> USE EventsType, EventsPutType
<1>0. Len(queue) \in Nat \ {0} /\ taken \in Nat /\ Len(events) \in Nat /\ Head(queue) = queue[1]
  BY TailFacts DEF TypeOK, RunTypeOK
<1>1. taken + 1 > EventsPut
  <2> SUFFICES ASSUME taken + 1 <= EventsPut PROVE FALSE
    BY <1>0
  <2>1. queue[1] = events[taken + 1]
    BY <1>0 DEF QueueHoldsUntaken
  <2>2. events[taken + 1] \in Events
    BY <1>0, ElementOfSeq DEF TypeOK, RunTypeOK
  <2> QED
    BY <1>0, <2>1, <2>2
<1>2. worker = "exit" /\ Len(queue) = 1 /\ taken = EventsPut
  <2>1. Len(queue) + taken = EventsPut + (IF worker = "exit" THEN 1 ELSE 0)
    BY DEF QueueHoldsUntaken
  <2>2. EventsPut \in Nat
    BY EventsPutType
  <2>3. CASE worker = "exit"
    <3> HIDE EventsType, EventsPutType
    <3>1. Len(queue) + taken = EventsPut + 1
      BY <2>1, <2>3
    <3>2. ASSUME NEW l \in Nat \ {0}, NEW t \in Nat, NEW e \in Nat, l + t = e + 1, t + 1 > e
          PROVE  l = 1 /\ t = e
      BY <3>2
    <3> QED
      BY <1>0, <1>1, <2>2, <2>3, <3>1, <3>2
  <2>4. CASE worker # "exit"
    BY <1>0, <1>1, <2>1, <2>2, <2>4
  <2> QED
    BY <2>3, <2>4
<1> QED
  BY <1>2 DEF EventsPut

(* What a generator takes and is not the sentinel is the next event of the *)
(* list, counted over all generators.                                      *)
LEMMA TakenIsNextEvent ==
  ASSUME TypeOK, QueueHoldsUntaken, queue # <<>>, Head(queue) # None
  PROVE  taken + 1 <= EventsPut /\ Head(queue) = events[taken + 1]
<1>0. Len(queue) \in Nat \ {0} /\ taken \in Nat /\ Head(queue) = queue[1]
  BY TailFacts DEF TypeOK, RunTypeOK
<1> QED
  BY <1>0, EventsPutType DEF QueueHoldsUntaken

(* At most one stream is told that it is over, for any number of streams.  *)
THEOREM OneSentinelHolds == Spec => []OneSentinel
<1>1. Init => OneSentinel
  BY DEF Init, OneSentinel
<1>2. ASSUME TypeOK, QueueHoldsUntaken, OneSentinel, [Next]_vars
      PROVE  OneSentinel'
  <2>1. CASE Worker
    <3>1. UNCHANGED at
      BY <2>1, WorkerChangesNothingElse
    <3>2. worker # "exit"
      BY <2>1 DEF Worker, BuildNetwork, PushAppend, PushPut, WorkerWrites, WriteFinding,
                  WriteDoc, WriteTrace, WriteDone, Raise, WriteErrorStatus,
                  WriteErrorMessage, PutSentinel, WorkerMoves
    <3> QED
      BY <1>2, <3>1, <3>2 DEF OneSentinel
  <2>2. ASSUME NEW s \in Subscribers, TakeSentinel(s)
        PROVE  OneSentinel'
    <3>1. queue # <<>> /\ Head(queue) = None /\ queue' = Tail(queue) /\ worker' = worker
      BY <2>2 DEF TakeSentinel, Take, runVars
    <3>2. worker = "exit" /\ Len(queue) = 1
      BY <1>2, <3>1, SentinelIsLast
    <3>3. queue' = <<>>
      BY <1>2, <3>1, <3>2, TailFacts, EmptySeq DEF TypeOK, RunTypeOK
    <3>4. \A t \in Subscribers : at[t] # "done"
      BY <1>2, <3>1 DEF OneSentinel
    <3>5. \A t \in Subscribers : at'[t] = "done" => t = s
      BY <1>2, <2>2, <3>4 DEF TakeSentinel, TypeOK, StreamTypeOK
    <3> QED
      BY <3>1, <3>2, <3>3, <3>5 DEF OneSentinel
  <2>3. ASSUME NEW s \in Subscribers, Subscribe(s) \/ Stream(s) \/ Disconnect(s),
               ~TakeSentinel(s)
        PROVE  OneSentinel'
    <3>1. UNCHANGED worker /\ (queue = <<>> => queue' = <<>>)
      <4>1. CASE TakeEvent(s)
        BY <4>1 DEF TakeEvent, Take, runVars
      <4>2. CASE ~TakeEvent(s)
        BY <2>3, <4>2 DEF Subscribe, Stream, Disconnect, Replay, CaughtUp,
                          ItemIsNext, ItemIsAhead, ItemIsOld, runVars
      <4> QED
        BY <4>1, <4>2
    <3>2. \A t \in Subscribers : at'[t] = "done" => at[t] = "done"
      <4>1. PICK v : v # "done" /\ (at' = [at EXCEPT ![s] = v] \/ at' = at)
        BY <2>3 DEF Subscribe, Stream, Disconnect, Replay, CaughtUp, TakeEvent,
                    ItemIsNext, ItemIsAhead, ItemIsOld, YieldEvent
      <4> QED
        BY <1>2, <4>1 DEF TypeOK, StreamTypeOK
    <3> QED
      BY <1>2, <3>1, <3>2 DEF OneSentinel
  <2>4. ASSUME NEW p \in Pollers, Poll(p)
        PROVE  OneSentinel'
    BY <1>2, <2>4, PollChangesNothingElse DEF OneSentinel
  <2>5. CASE UNCHANGED vars
    BY <1>2, <2>5 DEF vars, OneSentinel
  <2> QED
    BY <1>2, <2>1, <2>2, <2>3, <2>4, <2>5 DEF Next
<1> QED
  BY <1>1, <1>2, TypeCorrect, QueueCorrect, PTL DEF Spec
-----------------------------------------------------------------------------
(* Behind its cursor a client has no gap, for any number of streams.       *)
THEOREM NoGapHolds == Spec => []NoGapBehindCursor
<1>1. Init => NoGapBehindCursor
  <2> SUFFICES ASSUME Init, NEW s \in Subscribers
               PROVE  seen[s] <= Len(events) /\ 1 .. seen[s] = {}
    BY DEF NoGapBehindCursor
  <2>1. Len(events) = 0 /\ seen[s] = 0
    BY EmptySeq DEF Init
  <2> QED
    BY <2>1
<1>2. ASSUME TypeOK, TypeOK', NoGapBehindCursor, [Next]_vars
      PROVE  NoGapBehindCursor'
  <2>1. CASE UNCHANGED <<seen, delivered>> /\ events' = events
    BY <1>2, <2>1 DEF NoGapBehindCursor
  <2>2. CASE PushAppend
    <3>1. UNCHANGED <<seen, delivered>>
      BY <2>2, WorkerChangesNothingElse DEF Worker
    <3>2. /\ Len(events') = Len(events) + 1
          /\ \A i \in 1 .. Len(events) : events'[i] = events[i]
      BY <1>2, <2>2 DEF PushAppend, TypeOK, RunTypeOK
    <3> QED
      BY <1>2, <3>1, <3>2 DEF NoGapBehindCursor, TypeOK, RunTypeOK, StreamTypeOK
  <2>3. ASSUME NEW s \in Subscribers, Replay(s) \/ ItemIsNext(s) \/ ItemIsAhead(s)
        PROVE  NoGapBehindCursor'
    <3>1. events' = events
      BY <2>3, StreamChangesNothingElse DEF Stream
    <3>2. CASE ~connected[s]
      BY <1>2, <2>3, <3>1, <3>2 DEF Replay, ItemIsNext, ItemIsAhead, YieldEvent,
                               AdvanceCursor, NoGapBehindCursor
    <3>3. ASSUME connected[s], Replay(s) \/ ItemIsNext(s)
          PROVE  NoGapBehindCursor'
      <4>1. /\ seen[s] < Len(events)
            /\ delivered' = [delivered EXCEPT ![s] = Append(@, events[seen[s] + 1])]
            /\ seen' = [seen EXCEPT ![s] = @ + 1]
        BY <3>3 DEF Replay, ItemIsNext, IsNext, YieldEvent, AdvanceCursor
      <4> DEFINE old == delivered[s]
                 new == delivered'[s]
      <4>2. events[seen[s] + 1] \in Events
        BY <1>2, <4>1, ElementOfSeq DEF TypeOK, RunTypeOK, StreamTypeOK
      <4>3. /\ Len(new) = Len(old) + 1
            /\ \A j \in 1 .. Len(old) : new[j] = old[j]
            /\ new[Len(old) + 1] = events[seen[s] + 1]
            /\ Len(old) \in Nat
        BY <1>2, <4>1, <4>2, AppendFacts DEF TypeOK, StreamTypeOK
      <4>4. seen'[s] = seen[s] + 1 /\ seen[s] \in Nat /\ Len(events) \in Nat
        BY <1>2, <4>1 DEF TypeOK, StreamTypeOK, RunTypeOK
      <4> HIDE DEF old, new
      <4>5. ASSUME NEW i \in 1 .. seen'[s]
            PROVE  \E j \in 1 .. Len(new) : new[j] = events[i]
        <5>1. CASE i = seen[s] + 1
          BY <4>3, <5>1
        <5>2. CASE i # seen[s] + 1
          <6>1. i \in 1 .. seen[s]
            BY <4>4, <5>2
          <6>2. PICK j \in 1 .. Len(old) : old[j] = events[i]
            BY <1>2, <6>1 DEF NoGapBehindCursor, old
          <6> QED
            BY <4>3, <6>2
        <5> QED
          BY <5>1, <5>2
      <4>6. \A t \in Subscribers \ {s} : delivered'[t] = delivered[t] /\ seen'[t] = seen[t]
        BY <1>2, <4>1 DEF TypeOK, StreamTypeOK
      <4>7. seen'[s] <= Len(events)
        BY <4>1, <4>4
      <4> QED
        BY <1>2, <3>1, <4>5, <4>6, <4>7 DEF NoGapBehindCursor, new
    <3>4. ASSUME connected[s], ItemIsAhead(s)
          PROVE  NoGapBehindCursor'
      <4>1. /\ seen' = seen
            /\ delivered' = [delivered EXCEPT ![s] = Append(@, held[s])]
        BY <3>4 DEF ItemIsAhead, YieldEvent
      <4>2. held[s] \in Events
        BY <1>2, <3>4 DEF ItemIsAhead, TypeOK, StreamTypeOK
      <4>3. /\ Len(delivered'[s]) = Len(delivered[s]) + 1
            /\ \A j \in 1 .. Len(delivered[s]) : delivered'[s][j] = delivered[s][j]
            /\ Len(delivered[s]) \in Nat
        BY <1>2, <4>1, <4>2, AppendFacts DEF TypeOK, StreamTypeOK
      <4>4. \A t \in Subscribers \ {s} : delivered'[t] = delivered[t]
        BY <1>2, <4>1 DEF TypeOK, StreamTypeOK
      <4> QED
        BY <1>2, <3>1, <4>1, <4>3, <4>4 DEF NoGapBehindCursor
    <3> QED
      BY <2>3, <3>2, <3>3, <3>4
  <2>4. CASE Worker /\ ~PushAppend
    BY <1>2, <2>1, <2>4, WorkerChangesNothingElse, QuietWorker
       DEF Worker, QuietWorkerStep, PushPut, PutSentinel
  <2>5. ASSUME NEW s \in Subscribers, Subscribe(s) \/ Stream(s) \/ Disconnect(s),
               ~(Replay(s) \/ ItemIsNext(s) \/ ItemIsAhead(s))
        PROVE  NoGapBehindCursor'
    BY <2>1, <2>5 DEF Subscribe, Stream, Disconnect, CaughtUp, TakeEvent, TakeSentinel,
                      ItemIsOld, runVars
  <2>6. ASSUME NEW p \in Pollers, Poll(p)
        PROVE  NoGapBehindCursor'
    BY <2>1, <2>6, PollChangesNothingElse
  <2> QED
    BY <1>2, <2>1, <2>2, <2>3, <2>4, <2>5, <2>6 DEF Next, vars
<1> QED
  BY <1>1, <1>2, TypeCorrect, PTL DEF Spec
-----------------------------------------------------------------------------
(* An event is sent twice to one client at most, for any number of streams *)
(* on the queue.                                                           *)

CopiesIn(d, e) == {i \in 1 .. Len(d) : d[i] = e}

(* A client whose cursor is at n was sent an event once for its cursor and *)
(* possibly once more, out of turn: never a third time, ...                *)
Within(d, n, e) ==
  /\ \A i, j, k \in CopiesIn(d, e) : i = j \/ j = k \/ i = k
  /\ e > n => \A i, j \in CopiesIn(d, e) : i = j

(* ... and this is the one that is too many.                               *)
Extra(d, n, e) ==
  \/ e <= n /\ \E i, j \in CopiesIn(d, e) : i # j
  \/ e > n /\ CopiesIn(d, e) # {}

LEMMA CopiesSent ==
  ASSUME NEW d \in Seq(Events), NEW x \in Events, NEW e \in Events
  PROVE  /\ CopiesIn(Append(d, x), e) =
              IF e = x THEN CopiesIn(d, e) \cup {Len(d) + 1} ELSE CopiesIn(d, e)
         /\ Len(d) + 1 \notin CopiesIn(d, e)
<1>1. /\ Len(Append(d, x)) = Len(d) + 1 /\ Len(d) \in Nat
      /\ \A i \in 1 .. Len(d) : Append(d, x)[i] = d[i]
      /\ Append(d, x)[Len(d) + 1] = x
  BY AppendFacts
<1>2. 1 .. Len(d) + 1 = (1 .. Len(d)) \cup {Len(d) + 1}
  BY <1>1
<1> QED
  BY <1>1, <1>2 DEF CopiesIn

(* The event at the cursor is sent and the cursor moves on. *)
LEMMA SentInTurn ==
  ASSUME NEW d \in Seq(Events), NEW n \in Nat, n + 1 \in Events,
         NEW e \in Events, Within(d, n, e)
  PROVE  /\ Within(Append(d, n + 1), n + 1, e)
         /\ Extra(Append(d, n + 1), n + 1, e) <=> Extra(d, n, e)
<1> DEFINE C == CopiesIn(d, e)
           D == CopiesIn(Append(d, n + 1), e)
<1>1. e \in Nat
  BY EventsType
<1>2. CASE e = n + 1
  <2>1. PICK new : D = C \cup {new} /\ new \notin C
    BY <1>2, CopiesSent
  <2>2. \A i, j \in C : i = j
    BY <1>2 DEF Within
  <2> HIDE DEF C, D
  <2>3. /\ \A i, j, k \in D : i = j \/ j = k \/ i = k
        /\ (\E i, j \in D : i # j) <=> C # {}
    BY <2>1, <2>2
  <2> QED
    BY <1>2, <2>3 DEF Within, Extra, C, D
<1>3. CASE e # n + 1
  <2>1. D = C
    BY <1>3, CopiesSent
  <2> HIDE DEF C, D
  <2>2. (e <= n + 1 <=> e <= n) /\ (e > n + 1 <=> e > n)
    BY <1>1, <1>3
  <2> QED
    BY <2>1, <2>2 DEF Within, Extra, C, D
<1> QED
  BY <1>2, <1>3

(* An event ahead of the cursor is sent and the cursor stays. *)
LEMMA SentAhead ==
  ASSUME NEW d \in Seq(Events), NEW n \in Nat, NEW x \in Events, x > n,
         ~Extra(d, n, x), NEW e \in Events, Within(d, n, e)
  PROVE  /\ Within(Append(d, x), n, e)
         /\ e # x => (Extra(Append(d, x), n, e) <=> Extra(d, n, e))
<1> DEFINE C == CopiesIn(d, e)
           D == CopiesIn(Append(d, x), e)
<1>1. CASE e = x
  <2>1. PICK new : D = C \cup {new}
    BY <1>1, CopiesSent
  <2>2. C = {}
    BY <1>1 DEF Extra
  <2> HIDE DEF C, D
  <2>3. \A i, j \in D : i = j
    BY <2>1, <2>2
  <2> QED
    BY <1>1, <2>3 DEF Within, D
<1>2. CASE e # x
  <2>1. D = C
    BY <1>2, CopiesSent
  <2> HIDE DEF C, D
  <2> QED
    BY <2>1 DEF Within, Extra, C, D
<1> QED
  BY <1>1, <1>2

(* A copy too many was taken from the queue, which gives each event out    *)
(* once: no two clients have one of the same event, and nobody has one of  *)
(* an event that a generator still holds or that is still in the queue.    *)
DuplicateInv ==
  /\ \A i \in 1 .. Len(events) : events[i] = i
  /\ \A s \in Subscribers, e \in Events : Within(delivered[s], seen[s], e)
  /\ \A s, t \in Subscribers, e \in Events :
       Extra(delivered[s], seen[s], e) /\ Extra(delivered[t], seen[t], e) => s = t
  /\ \A s \in Subscribers : at[s] = "check" =>
       /\ held[s] <= taken
       /\ \A t \in Subscribers :
            /\ ~Extra(delivered[t], seen[t], held[s])
            /\ at[t] = "check" /\ held[t] = held[s] => s = t
  /\ \A s \in Subscribers, e \in Events :
       e > taken => ~Extra(delivered[s], seen[s], e)

LEMMA InitDuplicate == Init => DuplicateInv
<1> SUFFICES ASSUME Init PROVE DuplicateInv
  OBVIOUS
<1>1. Len(<<>>) = 0 /\ 1 .. 0 = {}
  OBVIOUS
<1>2. \A e : CopiesIn(<<>>, e) = {}
  BY <1>1 DEF CopiesIn
<1> QED
  BY <1>1, <1>2 DEF Init, DuplicateInv, Within, Extra

(* A step in which nothing is sent and nothing is taken. *)
LEMMA DuplicateQuiet ==
  ASSUME DuplicateInv, UNCHANGED <<seen, delivered, held, taken>>,
         \A i \in 1 .. Len(events') : events'[i] = i,
         \A t \in Subscribers : at'[t] = "check" => at[t] = "check"
  PROVE  DuplicateInv'
  BY DEF DuplicateInv

LEMMA DuplicateWorker ==
  ASSUME TypeOK, DuplicateInv, Worker
  PROVE  DuplicateInv'
<1>1. UNCHANGED <<seen, delivered, held, taken, at>>
  BY WorkerChangesNothingElse
<1>2. CASE PushAppend
  <2>1. events \in Seq(Events) /\ Len(events) \in Nat
        /\ events' = Append(events, Len(events) + 1)
    BY <1>2 DEF PushAppend, TypeOK, RunTypeOK
  <2>2. \A i \in 1 .. Len(events') : events'[i] = i
    BY <2>1 DEF DuplicateInv
  <2> QED
    BY <1>1, <2>2, DuplicateQuiet
<1>3. CASE ~PushAppend
  <2>1. events' = events
    BY <1>3, QuietWorker DEF Worker, QuietWorkerStep, PushPut, PutSentinel
  <2> QED
    BY <1>1, <2>1, DuplicateQuiet DEF DuplicateInv
<1> QED
  BY <1>2, <1>3

(* What a generator takes is new to everybody as far as the queue goes. *)
LEMMA DuplicateTake ==
  ASSUME TypeOK, QueueHoldsUntaken, DuplicateInv,
         NEW s \in Subscribers, TakeEvent(s) \/ TakeSentinel(s)
  PROVE  DuplicateInv'
<1> USE EventsType
<1>1. /\ queue # <<>> /\ taken' = taken + 1 /\ taken \in Nat
      /\ held' = [held EXCEPT ![s] = Head(queue)]
      /\ UNCHANGED <<seen, delivered, events>>
      /\ \A t \in Subscribers \ {s} : at'[t] = at[t] /\ held'[t] = held[t]
      /\ at[s] = "get" /\ held'[s] = Head(queue)
  BY DEF TakeEvent, TakeSentinel, Take, runVars, TypeOK, RunTypeOK, StreamTypeOK
<1>2. at'[s] = "check" => /\ held'[s] = taken + 1
                          /\ taken + 1 \in Events
  <2> SUFFICES ASSUME at'[s] = "check"
               PROVE  held'[s] = taken + 1 /\ taken + 1 \in Events
    OBVIOUS
  <2>1. TakeEvent(s)
    BY DEF TakeSentinel, TypeOK, StreamTypeOK
  <2>2. taken + 1 <= EventsPut /\ Head(queue) = events[taken + 1]
    BY <1>1, <2>1, TakenIsNextEvent DEF TakeEvent
  <2>3. taken + 1 \in 1 .. Len(events)
    BY <1>1, <2>2, EventsPutType DEF TypeOK, RunTypeOK
  <2>4. events[taken + 1] \in Events /\ events[taken + 1] = taken + 1
    BY <2>3 DEF DuplicateInv, TypeOK, RunTypeOK
  <2> QED
    BY <1>1, <2>2, <2>4
<1>3. ASSUME NEW t \in Subscribers \ {s}, at'[t] = "check"
      PROVE  at[t] = "check" /\ held'[t] = held[t] /\ held[t] \in Events /\ held[t] <= taken
  BY <1>1, <1>3 DEF DuplicateInv, TypeOK, StreamTypeOK
<1>4. ASSUME NEW t \in Subscribers, at'[t] = "check"
      PROVE  /\ held'[t] <= taken'
             /\ \A u \in Subscribers :
                  /\ ~Extra(delivered[u], seen[u], held'[t])
                  /\ at'[u] = "check" /\ held'[u] = held'[t] => t = u
  <2>1. CASE t = s
    <3>1. held'[t] = taken + 1 /\ taken + 1 \in Events /\ taken + 1 > taken
      BY <1>1, <1>2, <1>4, <2>1
    <3>2. \A u \in Subscribers : ~Extra(delivered[u], seen[u], taken + 1)
      BY <3>1 DEF DuplicateInv
    <3>3. \A u \in Subscribers \ {s} : at'[u] = "check" => held'[u] # taken + 1
      BY <1>1, <1>3
    <3>4. held'[t] <= taken'
      BY <1>1, <3>1
    <3>5. \A u \in Subscribers : ~Extra(delivered[u], seen[u], held'[t])
      BY <3>1, <3>2
    <3>6. \A u \in Subscribers : at'[u] = "check" /\ held'[u] = held'[t] => t = u
      BY <2>1, <3>1, <3>3
    <3> QED
      BY <3>4, <3>5, <3>6
  <2>2. CASE t # s
    <3>1. at[t] = "check" /\ held'[t] = held[t] /\ held[t] \in Events /\ held[t] <= taken
      BY <1>3, <1>4, <2>2
    <3>2. \A u \in Subscribers : ~Extra(delivered[u], seen[u], held[t])
      BY <3>1 DEF DuplicateInv
    <3>3. at'[s] = "check" => held'[s] # held[t]
      BY <1>1, <1>2, <3>1
    <3>4. \A u \in Subscribers \ {s} :
            at'[u] = "check" /\ held'[u] = held[t] => t = u
      BY <1>1, <3>1 DEF DuplicateInv
    <3>5. held'[t] <= taken'
      <4>1. held[t] \in Nat /\ taken \in Nat
        BY <1>1, <3>1, EventsType
      <4> HIDE EventsType
      <4> QED
        BY <1>1, <3>1, <4>1
    <3>6. \A u \in Subscribers : ~Extra(delivered[u], seen[u], held'[t])
      BY <3>1, <3>2
    <3>7. \A u \in Subscribers : at'[u] = "check" /\ held'[u] = held'[t] => t = u
      BY <3>1, <3>3, <3>4
    <3> QED
      BY <3>5, <3>6, <3>7
  <2> QED
    BY <2>1, <2>2
<1>5. \A t \in Subscribers, e \in Events :
        e > taken' => ~Extra(delivered[t], seen[t], e)
  BY <1>1 DEF DuplicateInv
<1> QED
  BY <1>1, <1>4, <1>5 DEF DuplicateInv

(* An event is sent in its turn, from the list or from the queue. *)
LEMMA DuplicateInTurn ==
  ASSUME TypeOK, DuplicateInv, NEW s \in Subscribers, connected[s],
         Replay(s) \/ ItemIsNext(s)
  PROVE  DuplicateInv'
<1> DEFINE n == seen[s]
           d == delivered[s]
<1>1. n < Len(events) /\ n \in Nat /\ Len(events) \in Nat /\ d \in Seq(Events)
  BY DEF Replay, ItemIsNext, IsNext, TypeOK, RunTypeOK, StreamTypeOK
<1>2. n + 1 \in Events /\ events[n + 1] = n + 1
  BY <1>1, ElementOfSeq DEF DuplicateInv, TypeOK, RunTypeOK
<1>3. /\ delivered' = [delivered EXCEPT ![s] = Append(d, n + 1)]
      /\ seen' = [seen EXCEPT ![s] = n + 1]
      /\ at' = [at EXCEPT ![s] = "yielded"]
      /\ UNCHANGED <<held, taken, events>>
  BY <1>2 DEF Replay, ItemIsNext, IsNext, YieldEvent, AdvanceCursor, runVars
<1>4. /\ delivered'[s] = Append(d, n + 1) /\ seen'[s] = n + 1 /\ at'[s] = "yielded"
      /\ \A t \in Subscribers \ {s} :
           delivered'[t] = delivered[t] /\ seen'[t] = seen[t] /\ at'[t] = at[t]
  BY <1>3 DEF TypeOK, StreamTypeOK
<1>5. \A t \in Subscribers, e \in Events :
        /\ Within(delivered'[t], seen'[t], e)
        /\ Extra(delivered'[t], seen'[t], e) <=> Extra(delivered[t], seen[t], e)
  <2> SUFFICES ASSUME NEW t \in Subscribers, NEW e \in Events
               PROVE  /\ Within(delivered'[t], seen'[t], e)
                      /\ Extra(delivered'[t], seen'[t], e) <=> Extra(delivered[t], seen[t], e)
    OBVIOUS
  <2>1. Within(delivered[t], seen[t], e)
    BY DEF DuplicateInv
  <2>2. CASE t = s
    <3>1. Within(d, n, e)
      BY <2>1, <2>2
    <3>2. /\ Within(Append(d, n + 1), n + 1, e)
          /\ Extra(Append(d, n + 1), n + 1, e) <=> Extra(d, n, e)
      BY <1>1, <1>2, <3>1, SentInTurn
    <3> QED
      BY <1>4, <2>2, <3>2
  <2>3. CASE t # s
    BY <1>4, <2>1, <2>3
  <2> QED
    BY <2>2, <2>3
<1>6. \A t \in Subscribers : at[t] = "check" => held[t] \in Events
  BY DEF TypeOK, StreamTypeOK
<1>7. \A t \in Subscribers : at'[t] = "check" => at[t] = "check"
  BY <1>4
<1> HIDE DEF n, d
<1> QED
  BY <1>3, <1>5, <1>6, <1>7 DEF DuplicateInv

(* An item from the queue is sent out of turn. *)
LEMMA DuplicateAhead ==
  ASSUME TypeOK, NoGapBehindCursor, DuplicateInv, NEW s \in Subscribers, connected[s],
         ItemIsAhead(s)
  PROVE  DuplicateInv'
<1> DEFINE n == seen[s]
           d == delivered[s]
           x == held[s]
<1>1. n <= Len(events) /\ n \in Nat /\ d \in Seq(Events) /\ x \in Events /\ x \in Nat \ {0}
  BY EventsType DEF ItemIsAhead, NoGapBehindCursor, TypeOK, StreamTypeOK
<1>2. x > n
  <2> SUFFICES ASSUME x <= n PROVE FALSE
    BY <1>1
  <2>1. x \in 1 .. n /\ x \in 1 .. Len(events)
    BY <1>1 DEF TypeOK, RunTypeOK
  <2>2. events[x] = x
    BY <2>1 DEF DuplicateInv
  <2> QED
    BY <2>1, <2>2 DEF ItemIsAhead, AlreadySent
<1>3. /\ x <= taken
      /\ \A t \in Subscribers : ~Extra(delivered[t], seen[t], x)
      /\ \A t \in Subscribers : at[t] = "check" /\ held[t] = x => t = s
  BY DEF ItemIsAhead, DuplicateInv
<1>4. /\ delivered' = [delivered EXCEPT ![s] = Append(d, x)]
      /\ at' = [at EXCEPT ![s] = "yielded"]
      /\ UNCHANGED <<seen, held, taken, events>>
  BY DEF ItemIsAhead, YieldEvent, runVars
<1>5. /\ delivered'[s] = Append(d, x) /\ at'[s] = "yielded"
      /\ \A t \in Subscribers \ {s} : delivered'[t] = delivered[t] /\ at'[t] = at[t]
  BY <1>4 DEF TypeOK, StreamTypeOK
<1>6. \A t \in Subscribers, e \in Events :
        /\ Within(delivered'[t], seen[t], e)
        /\ t # s \/ e # x =>
             (Extra(delivered'[t], seen[t], e) <=> Extra(delivered[t], seen[t], e))
  <2> SUFFICES ASSUME NEW t \in Subscribers, NEW e \in Events
               PROVE  /\ Within(delivered'[t], seen[t], e)
                      /\ t # s \/ e # x =>
                           (Extra(delivered'[t], seen[t], e)
                              <=> Extra(delivered[t], seen[t], e))
    OBVIOUS
  <2>1. Within(delivered[t], seen[t], e)
    BY DEF DuplicateInv
  <2>2. CASE t = s
    <3>1. Within(d, n, e) /\ ~Extra(d, n, x)
      BY <1>3, <2>1, <2>2
    <3>2. /\ Within(Append(d, x), n, e)
          /\ e # x => (Extra(Append(d, x), n, e) <=> Extra(d, n, e))
      BY <1>1, <1>2, <3>1, SentAhead
    <3> QED
      BY <1>5, <2>2, <3>2
  <2>3. CASE t # s
    BY <1>5, <2>1, <2>3
  <2> QED
    BY <2>2, <2>3
<1>7. \A t \in Subscribers : at'[t] = "check" =>
        /\ at[t] = "check" /\ t # s /\ held[t] # x /\ held[t] \in Events
  BY <1>3, <1>5 DEF TypeOK, StreamTypeOK
<1>8. \A e \in Events : e > taken => e # x
  BY <1>1, <1>3, EventsType DEF TypeOK, RunTypeOK
<1> HIDE DEF n, d, x
<1>9. \A t, u \in Subscribers, e \in Events :
        Extra(delivered'[t], seen[t], e) /\ Extra(delivered'[u], seen[u], e) => t = u
  BY <1>3, <1>6 DEF DuplicateInv
<1>10. \A t \in Subscribers : at'[t] = "check" =>
         /\ held[t] <= taken
         /\ \A u \in Subscribers :
              /\ ~Extra(delivered'[u], seen[u], held[t])
              /\ at'[u] = "check" /\ held[u] = held[t] => t = u
  BY <1>6, <1>7 DEF DuplicateInv
<1>11. \A t \in Subscribers, e \in Events : e > taken => ~Extra(delivered'[t], seen[t], e)
  BY <1>6, <1>8 DEF DuplicateInv
<1> QED
  BY <1>4, <1>6, <1>9, <1>10, <1>11 DEF DuplicateInv

LEMMA DuplicateStep ==
  ASSUME TypeOK, QueueHoldsUntaken, NoGapBehindCursor, DuplicateInv, [Next]_vars
  PROVE  DuplicateInv'
<1>1. CASE Worker
  BY <1>1, DuplicateWorker
<1>2. ASSUME NEW p \in Pollers, Poll(p) PROVE DuplicateInv'
  BY <1>2, PollChangesNothingElse, DuplicateQuiet DEF DuplicateInv
<1>3. CASE UNCHANGED vars
  BY <1>3, DuplicateQuiet DEF vars, subVars, runVars, DuplicateInv
<1>4. ASSUME NEW s \in Subscribers, Subscribe(s) \/ Stream(s) \/ Disconnect(s)
      PROVE  DuplicateInv'
  <2>1. CASE TakeEvent(s) \/ TakeSentinel(s)
    BY <2>1, DuplicateTake
  <2>2. CASE connected[s] /\ (Replay(s) \/ ItemIsNext(s))
    BY <2>2, DuplicateInTurn
  <2>3. CASE connected[s] /\ ItemIsAhead(s)
    BY <2>3, DuplicateAhead
  <2>4. CASE \/ ~connected[s] /\ (Replay(s) \/ ItemIsNext(s) \/ ItemIsAhead(s))
             \/ Subscribe(s) \/ CaughtUp(s) \/ ItemIsOld(s) \/ Disconnect(s)
    <3>1. UNCHANGED <<seen, delivered, held, taken, events>>
      BY <2>4 DEF Replay, ItemIsNext, ItemIsAhead, Subscribe, CaughtUp, ItemIsOld,
                  Disconnect, YieldEvent, AdvanceCursor, runVars
    <3>2. \/ at' = at
          \/ at' = [at EXCEPT ![s] = "gone"] \/ at' = [at EXCEPT ![s] = "loop"]
          \/ at' = [at EXCEPT ![s] = "get"]
      BY <2>4 DEF Replay, ItemIsNext, ItemIsAhead, Subscribe, CaughtUp, ItemIsOld,
                  Disconnect, YieldEvent
    <3>3. \A t \in Subscribers : at'[t] = "check" => at[t] = "check"
      BY <3>2 DEF TypeOK, StreamTypeOK
    <3> QED
      BY <3>1, <3>3, DuplicateQuiet DEF DuplicateInv
  <2> QED
    BY <1>4, <2>1, <2>2, <2>3, <2>4 DEF Stream
<1> QED
  BY <1>1, <1>2, <1>3, <1>4 DEF Next

(* Sharing one queue costs a client at most one event sent twice, however  *)
(* many streams of the run there are and whenever they come and go.        *)
THEOREM DuplicatesAreRare == Spec => []OneDuplicateAtMost
<1>1. TypeOK /\ DuplicateInv => OneDuplicateAtMost
  <2> SUFFICES ASSUME TypeOK, DuplicateInv, NEW e \in Events
               PROVE  /\ \A s \in Subscribers :
                           \A i, j, k \in Copies(s, e) : i = j \/ j = k \/ i = k
                      /\ \A s, t \in Subscribers :
                           s # t => \/ \A i, j \in Copies(s, e) : i = j
                                    \/ \A i, j \in Copies(t, e) : i = j
    BY DEF OneDuplicateAtMost
  <2>1. ASSUME NEW s \in Subscribers
        PROVE  /\ \A i, j, k \in Copies(s, e) : i = j \/ j = k \/ i = k
               /\ \/ \A i, j \in Copies(s, e) : i = j
                  \/ Extra(delivered[s], seen[s], e)
    <3>1. Copies(s, e) = CopiesIn(delivered[s], e)
      BY DEF Copies, CopiesIn
    <3>2. Within(delivered[s], seen[s], e)
      BY DEF DuplicateInv
    <3>3. e <= seen[s] \/ e > seen[s]
      BY EventsType DEF TypeOK, StreamTypeOK
    <3> QED
      BY <3>1, <3>2, <3>3 DEF Within, Extra
  <2>2. \A s, t \in Subscribers :
          Extra(delivered[s], seen[s], e) /\ Extra(delivered[t], seen[t], e) => s = t
    BY DEF DuplicateInv
  <2> QED
    BY <2>1, <2>2
<1> QED
  BY <1>1, InitDuplicate, DuplicateStep, TypeCorrect, QueueCorrect, NoGapHolds, PTL DEF Spec
-----------------------------------------------------------------------------
(* With one subscriber the cursor keeps up with the queue: an item taken   *)
(* from it is the event at the cursor or an older one, so nothing is sent  *)
(* out of turn.  This is the strengthening the single-stream theorems need *)
(* - and what a second stream breaks.                                      *)
SoleInv(s) ==
  /\ Len(delivered[s]) = seen[s]
  /\ seen[s] <= Len(events)
  /\ \A i \in 1 .. seen[s] : delivered[s][i] = events[i]
  /\ at[s] \in {"idle", "loop", "yielded", "get"} => taken <= seen[s]
  /\ at[s] = "check" => /\ taken \in 1 .. EventsPut
                        /\ taken <= seen[s] + 1
                        /\ held[s] = events[taken]
  /\ at[s] = "done" => worker = "exit" /\ seen[s] = Len(events)

LEMMA SoleWorkerStep ==
  ASSUME TypeOK, TypeOK', NEW s \in Subscribers, SoleInv(s), Worker
  PROVE  SoleInv(s)'
<1>0. /\ Len(events) \in Nat /\ seen[s] \in Nat /\ taken \in Nat
      /\ UNCHANGED <<at, seen, held, delivered, taken>>
  BY WorkerChangesNothingElse DEF TypeOK, RunTypeOK, StreamTypeOK
<1>1. /\ worker # "exit"
      /\ Len(events') >= Len(events) /\ \A i \in 1 .. Len(events) : events'[i] = events[i]
      /\ EventsPut' >= EventsPut
      /\ EventsPut \in Nat /\ EventsPut' \in Nat /\ EventsPut <= Len(events)
      /\ Len(events') \in Nat
  <2>0. /\ EventsPut \in Nat /\ EventsPut' \in Nat /\ EventsPut <= Len(events)
        /\ Len(events') \in Nat
    BY EventsPutType DEF TypeOK, RunTypeOK, EventsPut
  <2>1. CASE PushAppend
    BY <1>0, <2>0, <2>1 DEF PushAppend, WorkerMoves, EventsPut, TypeOK, RunTypeOK
  <2>2. CASE PushPut
    BY <1>0, <2>0, <2>2 DEF PushPut, WorkerMoves, EventsPut
  <2>3. CASE PutSentinel
    BY <1>0, <2>0, <2>3 DEF PutSentinel, WorkerMoves, EventsPut
  <2>4. CASE QuietWorkerStep
    BY <1>0, <2>0, <2>4, QuietWorker DEF EventsPut
  <2> QED
    BY <2>1, <2>2, <2>3, <2>4 DEF Worker, QuietWorkerStep
<1>2. /\ Len(delivered'[s]) = seen'[s] /\ seen'[s] <= Len(events')
      /\ \A i \in 1 .. seen'[s] : delivered'[s][i] = events'[i]
  BY <1>0, <1>1 DEF SoleInv
<1>3. at'[s] \in {"idle", "loop", "yielded", "get"} => taken' <= seen'[s]
  BY <1>0 DEF SoleInv
<1>4. at'[s] = "check" => /\ taken' \in 1 .. EventsPut'
                          /\ taken' <= seen'[s] + 1
                          /\ held'[s] = events'[taken']
  BY <1>0, <1>1 DEF SoleInv
<1>5. at'[s] # "done"
  BY <1>0, <1>1 DEF SoleInv
<1> QED
  BY <1>2, <1>3, <1>4, <1>5 DEF SoleInv

LEMMA SoleStreamStep ==
  ASSUME TypeOK, TypeOK', QueueHoldsUntaken, NEW s \in Subscribers, SoleInv(s),
         Subscribe(s) \/ Stream(s) \/ Disconnect(s)
  PROVE  SoleInv(s)'
<1> USE EventsType
<1>0. /\ Len(events) \in Nat /\ seen[s] \in Nat /\ taken \in Nat
      /\ EventsPut \in Nat /\ EventsPut <= Len(events)
      /\ UNCHANGED <<worker, events>> /\ EventsPut' = EventsPut
  BY EventsPutType, StreamChangesNothingElse DEF TypeOK, RunTypeOK, StreamTypeOK, EventsPut
<1>1. CASE Subscribe(s) \/ CaughtUp(s) \/ ItemIsOld(s) \/ Disconnect(s)
  <2>1. UNCHANGED <<seen, delivered, taken, held>>
    BY <1>1 DEF Subscribe, CaughtUp, ItemIsOld, Disconnect
  <2>2. CASE Subscribe(s) \/ CaughtUp(s)
    BY <1>0, <2>1, <2>2 DEF Subscribe, CaughtUp, SoleInv, AtLoopHead, TypeOK, StreamTypeOK
  <2>3. CASE ItemIsOld(s)
    <3>1. at[s] = "check" /\ ~IsNext(s) /\ at'[s] = "loop"
      BY <2>3 DEF ItemIsOld, TypeOK, StreamTypeOK
    <3>2. taken <= seen[s]
      BY <1>0, <3>1 DEF IsNext, SoleInv
    <3> QED
      BY <1>0, <2>1, <3>1, <3>2 DEF SoleInv
  <2>4. CASE Disconnect(s)
    <3>1. at'[s] \in {at[s], "gone"}
      BY <2>4 DEF Disconnect, TypeOK, StreamTypeOK
    <3> QED
      BY <1>0, <2>1, <3>1 DEF SoleInv
  <2> QED
    BY <1>1, <2>2, <2>3, <2>4
<1>2. CASE TakeEvent(s)
  <2>1. /\ queue # <<>> /\ Head(queue) # None /\ at[s] = "get" /\ at'[s] = "check"
        /\ held'[s] = Head(queue) /\ taken' = taken + 1
        /\ UNCHANGED <<seen, delivered>>
    BY <1>2 DEF TakeEvent, Take, TypeOK, StreamTypeOK
  <2>2. taken + 1 <= EventsPut /\ Head(queue) = events[taken + 1]
    BY <2>1, TakenIsNextEvent
  <2> QED
    BY <1>0, <2>1, <2>2 DEF SoleInv
<1>3. CASE TakeSentinel(s)
  <2>1. /\ queue # <<>> /\ Head(queue) = None /\ at[s] = "get"
        /\ at'[s] \in {"done", "gone"}
        /\ UNCHANGED <<seen, delivered>>
    BY <1>3 DEF TakeSentinel, Take, TypeOK, StreamTypeOK
  <2>2. worker = "exit" /\ taken = Len(events)
    BY <2>1, SentinelIsLast
  <2>3. seen[s] = Len(events)
    BY <1>0, <2>1, <2>2 DEF SoleInv
  <2> QED
    BY <1>0, <2>1, <2>2, <2>3 DEF SoleInv
<1>4. ~ItemIsAhead(s)
  <2> SUFFICES ASSUME ItemIsAhead(s) PROVE FALSE
    OBVIOUS
  <2>1. at[s] = "check" /\ ~IsNext(s) /\ ~AlreadySent(s)
    BY DEF ItemIsAhead
  <2>2. taken <= seen[s] /\ taken \in 1 .. Len(events) /\ held[s] = events[taken]
    BY <1>0, <2>1 DEF IsNext, SoleInv
  <2> QED
    BY <1>0, <2>1, <2>2 DEF AlreadySent
<1>5. CASE Replay(s) \/ ItemIsNext(s)
  <2>1. CASE ~connected[s]
    BY <1>0, <1>5, <2>1 DEF Replay, ItemIsNext, YieldEvent, AdvanceCursor, SoleInv,
                            TypeOK, StreamTypeOK
  <2>2. CASE connected[s]
    <3>1. /\ seen[s] < Len(events)
          /\ delivered'[s] = Append(delivered[s], events[seen[s] + 1])
          /\ seen'[s] = seen[s] + 1 /\ at'[s] = "yielded"
          /\ taken' = taken /\ taken <= seen[s] + 1
      BY <1>0, <1>5, <2>2 DEF Replay, ItemIsNext, IsNext, YieldEvent, AdvanceCursor,
                         SoleInv, AtLoopHead, TypeOK, StreamTypeOK
    <3>2. events[seen[s] + 1] \in Events
      BY <1>0, <3>1, ElementOfSeq DEF TypeOK, RunTypeOK
    <3>3. /\ Len(delivered'[s]) = Len(delivered[s]) + 1
          /\ \A j \in 1 .. Len(delivered[s]) : delivered'[s][j] = delivered[s][j]
          /\ delivered'[s][Len(delivered[s]) + 1] = events[seen[s] + 1]
      BY <3>1, <3>2, AppendFacts DEF TypeOK, StreamTypeOK
    <3> QED
      BY <1>0, <3>1, <3>3 DEF SoleInv
  <2> QED
    BY <2>1, <2>2
<1> QED
  BY <1>1, <1>2, <1>3, <1>4, <1>5 DEF Stream

LEMMA SoleStep ==
  ASSUME TypeOK, TypeOK', QueueHoldsUntaken, NEW s, Subscribers = {s}, SoleInv(s), [Next]_vars
  PROVE  SoleInv(s)'
<1>1. ASSUME NEW p \in Pollers, Poll(p)
      PROVE  SoleInv(s)'
  BY <1>1, PollChangesNothingElse DEF SoleInv, EventsPut
<1>2. CASE UNCHANGED vars
  BY <1>2 DEF vars, SoleInv, EventsPut
<1> QED
  BY <1>1, <1>2, SoleWorkerStep, SoleStreamStep DEF Next

LEMMA SoleInvHolds ==
  ASSUME NEW s, Subscribers = {s}
  PROVE  Spec => []SoleInv(s)
<1>1. Init => SoleInv(s)
  <2> SUFFICES ASSUME Init PROVE SoleInv(s)
    OBVIOUS
  <2>1. /\ Len(events) = 0 /\ seen[s] = 0 /\ Len(delivered[s]) = 0 /\ at[s] = "idle"
        /\ taken = 0
    BY EmptySeq DEF Init
  <2> QED
    BY <2>1 DEF SoleInv
<1>2. TypeOK /\ TypeOK' /\ QueueHoldsUntaken /\ SoleInv(s) /\ [Next]_vars => SoleInv(s)'
  BY SoleStep
<1> QED
  BY <1>1, <1>2, TypeCorrect, QueueCorrect, PTL DEF Spec

(* One stream of a run, however long the run and whenever it is opened or  *)
(* abandoned, delivers each event once and in order.                       *)
THEOREM SoleStreamInOrder ==
  ASSUME NEW s, Subscribers = {s}
  PROVE  Spec => []ExactlyOnceInOrder
<1>1. SoleInv(s) => ExactlyOnceInOrder
  BY DEF SoleInv, ExactlyOnceInOrder
<1> QED
  BY <1>1, SoleInvHolds, PTL

(* And the client is told that the stream is over only when it has all of  *)
(* the run's events and the worker is through.                             *)
THEOREM SoleStreamComplete ==
  ASSUME NEW s, Subscribers = {s}
  PROVE  Spec => []DoneMeansComplete
<1>1. TypeOK /\ SoleInv(s) => DoneMeansComplete
  <2> SUFFICES ASSUME TypeOK, SoleInv(s), at[s] = "done"
               PROVE  delivered[s] = events /\ worker = "exit"
    BY DEF DoneMeansComplete
  <2>1. delivered[s] \in Seq(Events) /\ events \in Seq(Events)
    BY DEF TypeOK, RunTypeOK, StreamTypeOK
  <2>2. /\ Len(delivered[s]) = Len(events) /\ worker = "exit"
        /\ \A i \in 1 .. Len(delivered[s]) : delivered[s][i] = events[i]
    BY DEF SoleInv
  <2> QED
    BY <2>1, <2>2, SeqEqual
<1> QED
  BY <1>1, TypeCorrect, SoleInvHolds, PTL
-----------------------------------------------------------------------------
(* The gateway's list, queue and threads implement the event feed for one  *)
(* subscriber: every step of the code is a step of the feed or invisible.  *)
LEMMA FeedStep ==
  ASSUME TypeOK, TypeOK', QueueHoldsUntaken, NEW s, Subscribers = {s},
         SoleInv(s), SoleInv(s)', [Next]_vars
  PROVE  [Feed!Next]_Feed!vars
<1> DEFINE over == {t \in Subscribers : at[t] = "done"}
<1> USE EventsType
<1>0. s \in Subscribers
  OBVIOUS
<1>1. ASSUME UNCHANGED <<events, delivered>>, (worker' = "exit") = (worker = "exit"),
             (at'[s] = "done") = (at[s] = "done")
      PROVE  UNCHANGED Feed!vars
  BY <1>1 DEF Feed!vars
<1>2. CASE Worker
  <2>1. UNCHANGED <<at, delivered>>
    BY <1>2, WorkerChangesNothingElse
  <2>2. CASE PushAppend
    <3>1. Len(events) + 1 \in Events
      BY <2>2, MaxEventsAssumption DEF PushAppend, Events, TypeOK, RunTypeOK
    <3>2. Feed!Publish
      BY <2>1, <2>2, <3>1 DEF Feed!Publish, PushAppend, WorkerMoves
    <3> QED
      BY <3>2 DEF Feed!Next
  <2>3. CASE PushPut
    BY <1>1, <2>1, <2>3 DEF PushPut, WorkerMoves
  <2>4. CASE PutSentinel
    <3>1. Feed!Close
      BY <2>1, <2>4 DEF Feed!Close, PutSentinel, WorkerMoves
    <3> QED
      BY <3>1 DEF Feed!Next
  <2>5. CASE QuietWorkerStep
    BY <1>1, <2>1, <2>5, QuietWorker
  <2> QED
    BY <1>2, <2>2, <2>3, <2>4, <2>5 DEF Worker, QuietWorkerStep
<1>3. CASE Subscribe(s) \/ CaughtUp(s) \/ TakeEvent(s) \/ ItemIsOld(s) \/ Disconnect(s)
  <2>1. UNCHANGED <<worker, events, delivered>>
    BY <1>3 DEF Subscribe, CaughtUp, TakeEvent, ItemIsOld, Disconnect, runVars
  <2>2. at[s] # "done" /\ at'[s] # "done"
    <3>1. CASE Subscribe(s) \/ CaughtUp(s) \/ ItemIsOld(s)
      BY <3>1 DEF Subscribe, CaughtUp, ItemIsOld, AtLoopHead, TypeOK, StreamTypeOK
    <3>2. CASE TakeEvent(s)
      BY <3>2 DEF TakeEvent, Take, TypeOK, StreamTypeOK
    <3>3. CASE Disconnect(s)
      BY <3>3 DEF Disconnect, TypeOK, StreamTypeOK
    <3> QED
      BY <1>3, <3>1, <3>2, <3>3
  <2> QED
    BY <1>1, <2>1, <2>2
<1>4. CASE TakeSentinel(s)
  <2>1. /\ UNCHANGED <<worker, events, delivered>> /\ at[s] = "get"
        /\ at' = [at EXCEPT ![s] = IF connected[s] THEN "done" ELSE "gone"]
    BY <1>4 DEF TakeSentinel, Take, runVars
  <2>2. CASE ~connected[s]
    BY <1>1, <2>1, <2>2 DEF TypeOK, StreamTypeOK
  <2>3. CASE connected[s]
    <3>1. at'[s] = "done"
      BY <2>1, <2>3 DEF TypeOK, StreamTypeOK
    <3>2. worker = "exit" /\ delivered[s] = events
      <4>1. delivered'[s] \in Seq(Events) /\ events' \in Seq(Events)
        BY DEF TypeOK, RunTypeOK, StreamTypeOK
      <4>2. /\ Len(delivered'[s]) = Len(events') /\ worker' = "exit"
            /\ \A i \in 1 .. Len(delivered'[s]) : delivered'[s][i] = events'[i]
        BY <3>1 DEF SoleInv
      <4>3. delivered'[s] = events'
        BY <4>1, <4>2, SeqEqual
      <4> QED
        BY <2>1, <4>2, <4>3
    <3>3. over = {} /\ over' = {s}
      BY <2>1, <3>1
    <3>4. Feed!End(s)
      BY <2>1, <3>2, <3>3 DEF Feed!End
    <3> QED
      BY <3>4 DEF Feed!Next
  <2> QED
    BY <2>2, <2>3
<1>5. CASE Replay(s) \/ ItemIsNext(s) \/ ItemIsAhead(s)
  <2>1. UNCHANGED <<worker, events>> /\ at[s] # "done" /\ at'[s] # "done"
    BY <1>5 DEF Replay, ItemIsNext, ItemIsAhead, YieldEvent, AtLoopHead, runVars,
                TypeOK, StreamTypeOK
  <2>2. CASE ~connected[s]
    BY <1>1, <1>5, <2>1, <2>2 DEF Replay, ItemIsNext, ItemIsAhead, YieldEvent
  <2>3. CASE connected[s]
    <3>1. PICK e : delivered' = [delivered EXCEPT ![s] = Append(@, e)]
                   /\ e \in Events
      <4>1. CASE Replay(s)
        <5>1. seen[s] + 1 \in 1 .. Len(events)
          BY <4>1 DEF Replay, TypeOK, RunTypeOK, StreamTypeOK
        <5>2. events[seen[s] + 1] \in Events
          BY <5>1, ElementOfSeq DEF TypeOK, RunTypeOK
        <5> QED
          BY <2>3, <4>1, <5>2 DEF Replay, YieldEvent
      <4>2. CASE ItemIsNext(s) \/ ItemIsAhead(s)
        BY <2>3, <4>2 DEF ItemIsNext, ItemIsAhead, YieldEvent, TypeOK, StreamTypeOK
      <4> QED
        BY <1>5, <4>1, <4>2
    <3> DEFINE n == Len(delivered[s])
    <3>2. /\ delivered'[s] = Append(delivered[s], e)
          /\ Len(delivered'[s]) = n + 1 /\ delivered'[s][n + 1] = e
          /\ n \in Nat
      BY <3>1, AppendFacts DEF TypeOK, StreamTypeOK
    <3>3. n + 1 <= Len(events) /\ events[n + 1] = e
      BY <2>1, <3>2 DEF SoleInv
    <3>4. n < Len(events)
      BY <3>2, <3>3 DEF TypeOK, RunTypeOK
    <3>5. over = {} /\ over' = over
      BY <2>1
    <3>6. Feed!Receive(s)
      BY <2>1, <3>1, <3>3, <3>4, <3>5 DEF Feed!Receive
    <3> QED
      BY <3>6 DEF Feed!Next
  <2> QED
    BY <2>2, <2>3
<1>6. ASSUME NEW p \in Pollers, Poll(p)
      PROVE  UNCHANGED Feed!vars
  BY <1>1, <1>6, PollChangesNothingElse
<1>7. CASE UNCHANGED vars
  BY <1>1, <1>7 DEF vars
<1> QED
  BY <1>2, <1>3, <1>4, <1>5, <1>6, <1>7 DEF Next, Stream

THEOREM SoleStreamIsFeed ==
  ASSUME NEW s, Subscribers = {s}
  PROVE  Spec => FeedSpec
<1>1. Init => Feed!Init
  BY DEF Init, Feed!Init
<1>2. /\ TypeOK /\ TypeOK' /\ QueueHoldsUntaken /\ SoleInv(s) /\ SoleInv(s)'
      /\ [Next]_vars
      => [Feed!Next]_Feed!vars
  BY FeedStep
<1> QED
  BY <1>1, <1>2, TypeCorrect, QueueCorrect, SoleInvHolds, PTL DEF Spec, FeedSpec, Feed!Spec

-----------------------------------------------------------------------------
(* The worker writes the fields of the run in an order that a reader       *)
(* without the lock can rely on.                                           *)
WriteOrder ==
  /\ worker \in {"build", "own", "put", "raised"} =>
       run.status = "running" /\ ~run.trace /\ ~run.error
  /\ worker = "doc" => run.status = "running" /\ run.finding /\ ~run.trace /\ ~run.error
  /\ worker = "trace" =>
       run.status = "running" /\ run.finding /\ run.doc /\ ~run.trace /\ ~run.error
  /\ worker = "done" =>
       run.status = "running" /\ run.finding /\ run.doc /\ run.trace /\ ~run.error
  /\ worker = "message" => run.status = "error" /\ ~run.error
  /\ run.status = "done" => /\ worker \in {"last", "exit"}
                            /\ run.finding /\ run.doc /\ run.trace /\ ~run.error
  /\ worker \in {"last", "exit"} => run.status # "running"

(* What a poller has read since it read "done" is what the run holds. *)
DoneReadsAreCurrent ==
  \A p \in Pollers :
    pollAt[p] > 1 /\ snap[p].status = "done" =>
      /\ run.status = "done"
      /\ pollAt[p] > 2 => snap[p].trace = run.trace
      /\ pollAt[p] > 3 => snap[p].finding = run.finding
      /\ pollAt[p] > 4 => snap[p].doc = run.doc
      /\ pollAt[p] > 5 => snap[p].error = run.error
      /\ pollAt[p] > 6 => snap[p].events = Len(events)

LEMMA WriteOrderStep ==
  ASSUME TypeOK, WriteOrder, [Next]_vars
  PROVE  WriteOrder' /\ (run.status = "done" => UNCHANGED <<run, events>>)
<1>1. CASE UNCHANGED <<worker, run, events>>
  BY <1>1 DEF WriteOrder
<1>2. CASE BuildNetwork \/ PushAppend \/ PushPut \/ PutSentinel \/ Raise
  BY <1>2 DEF BuildNetwork, PushAppend, PushPut, PutSentinel, Raise, WorkerMoves,
              WriteOrder, TypeOK, RunTypeOK
<1>3. CASE \/ WriteFinding \/ WriteDoc \/ WriteTrace \/ WriteDone
           \/ WriteErrorStatus \/ WriteErrorMessage
  BY <1>3 DEF WriteFinding, WriteDoc, WriteTrace, WriteDone, WriteErrorStatus,
              WriteErrorMessage, WorkerWrites, WorkerMoves, WriteOrder, TypeOK, RunTypeOK
<1> QED
  BY <1>1, <1>2, <1>3, StreamChangesNothingElse, PollChangesNothingElse DEF Next, Worker, vars

(* A run that ended in "done" never changes again. *)
THEOREM DoneIsFrozen == Spec => EndedRunIsFrozen
<1>1. Init => WriteOrder
  BY DEF Init, Blank, WriteOrder
<1>2. TypeOK /\ WriteOrder /\ [Next]_vars =>
        WriteOrder' /\ [run.status = "done" => UNCHANGED <<run, events>>]_vars
  BY WriteOrderStep
<1> QED
  BY <1>1, <1>2, TypeCorrect, PTL DEF Spec, EndedRunIsFrozen

(* However the reads of a poller and the writes of the worker interleave,  *)
(* a snapshot that says done is whole, for any number of pollers.          *)
THEOREM DoneSnapshots == Spec => []DoneSnapshotIsWhole
<1>1. Init => WriteOrder /\ DoneReadsAreCurrent
  BY DEF Init, Blank, WriteOrder, DoneReadsAreCurrent
<1>2. ASSUME TypeOK, WriteOrder, DoneReadsAreCurrent, [Next]_vars
      PROVE  WriteOrder' /\ DoneReadsAreCurrent'
  <2>1. WriteOrder' /\ (run.status = "done" => UNCHANGED <<run, events>>)
    BY <1>2, WriteOrderStep
  <2>2. CASE UNCHANGED <<pollAt, snap>>
    BY <1>2, <2>1, <2>2 DEF DoneReadsAreCurrent
  <2>3. ASSUME NEW p \in Pollers, ReadField(p)
        PROVE  DoneReadsAreCurrent'
    <3> DEFINE field == Fields[pollAt[p]]
    <3>1. /\ UNCHANGED <<run, events>>
          /\ pollAt[p] \in 1 .. 6 /\ pollAt'[p] = pollAt[p] + 1
          /\ snap'[p] = [snap[p] EXCEPT ![field] = CurrentValue(field)]
          /\ \A q \in Pollers \ {p} : snap'[q] = snap[q] /\ pollAt'[q] = pollAt[q]
      BY <1>2, <2>3 DEF ReadField, runVars, TypeOK, PollTypeOK, Complete, Fields
    <3>2. snap[p] \in [status : {"running", "done", "error"}, trace : BOOLEAN,
                       finding : BOOLEAN, doc : BOOLEAN, error : BOOLEAN, events : Nat]
      BY <1>2 DEF TypeOK, PollTypeOK
    <3>3. pollAt'[p] > 1 /\ snap'[p].status = "done" =>
            /\ run.status = "done"
            /\ pollAt'[p] > 2 => snap'[p].trace = run.trace
            /\ pollAt'[p] > 3 => snap'[p].finding = run.finding
            /\ pollAt'[p] > 4 => snap'[p].doc = run.doc
            /\ pollAt'[p] > 5 => snap'[p].error = run.error
            /\ pollAt'[p] > 6 => snap'[p].events = Len(events)
      <4>1. CASE pollAt[p] = 1
        BY <3>1, <3>2, <4>1 DEF CurrentValue, Fields
      <4>2. CASE pollAt[p] = 2
        BY <1>2, <3>1, <3>2, <4>2 DEF CurrentValue, Fields, DoneReadsAreCurrent
      <4>3. CASE pollAt[p] = 3
        BY <1>2, <3>1, <3>2, <4>3 DEF CurrentValue, Fields, DoneReadsAreCurrent
      <4>4. CASE pollAt[p] = 4
        BY <1>2, <3>1, <3>2, <4>4 DEF CurrentValue, Fields, DoneReadsAreCurrent
      <4>5. CASE pollAt[p] = 5
        BY <1>2, <3>1, <3>2, <4>5 DEF CurrentValue, Fields, DoneReadsAreCurrent
      <4>6. CASE pollAt[p] = 6
        BY <1>2, <3>1, <3>2, <4>6 DEF CurrentValue, Fields, DoneReadsAreCurrent
      <4> QED
        BY <3>1, <4>1, <4>2, <4>3, <4>4, <4>5, <4>6
    <3> QED
      BY <1>2, <3>1, <3>3 DEF DoneReadsAreCurrent
  <2>4. ASSUME NEW p \in Pollers, PollAgain(p)
        PROVE  DoneReadsAreCurrent'
    BY <1>2, <2>4 DEF PollAgain, runVars, DoneReadsAreCurrent, TypeOK, PollTypeOK
  <2> QED
    BY <1>2, <2>1, <2>2, <2>3, <2>4, StreamChangesNothingElse, WorkerChangesNothingElse
       DEF Next, vars, Poll
<1>3. TypeOK /\ WriteOrder /\ DoneReadsAreCurrent => DoneSnapshotIsWhole
  BY DEF WriteOrder, DoneReadsAreCurrent, DoneSnapshotIsWhole, Answered, Complete, Fields
<1> QED
  BY <1>1, <1>2, <1>3, TypeCorrect, PTL DEF Spec
=============================================================================
