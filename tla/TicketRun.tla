----------------------------- MODULE TicketRun ------------------------------
(***************************************************************************)
(* One run of a ticket in the API gateway (api/main.py).                   *)
(*                                                                         *)
(* A daemon thread executes `_execute`: the deliberation's tracer calls    *)
(* `_push` for each trace event, which appends the event to run["events"]  *)
(* and then puts it on run["_queue"]; after the deliberation the thread    *)
(* fills in the result fields one by one and puts a single None on the     *)
(* queue.  Meanwhile request threads read the same dict without a lock:    *)
(*   - a subscriber of GET /api/tickets/{id}/stream runs the generator     *)
(*     `gen`, which replays the list and then follows the queue;           *)
(*   - a poller of GET /api/tickets/{id} copies the fields one by one.     *)
(*                                                                         *)
(* An event is its sequence number: Tracer.emit numbers events from 0 by   *)
(* their position, so no two events of a run are equal (here from 1).      *)
(***************************************************************************)
EXTENDS Naturals, Sequences

CONSTANTS
  Subscribers,    \* requests of the stream endpoint for this run
  Pollers,        \* browsers that poll the snapshot endpoint
  MaxEvents       \* bound: events the deliberation emits

ASSUME MaxEventsAssumption == MaxEvents \in Nat

VARIABLES
  worker,         \* where _execute is
  events,         \* run["events"]
  queue,          \* run["_queue"]
  run,            \* the other fields of the run: status, trace, finding, doc, error
  at,             \* where each subscriber's generator is
  connected,      \* the client of the generator is still there
  seen,           \* the generator's local `seen`
  held,           \* the generator's local `item`
  delivered,      \* history: the events each client was sent
  taken,          \* history: how many items were ever taken from the queue
  pollAt,         \* the field a poller reads next
  snap            \* the snapshot a poller is assembling

runVars == <<worker, events, run>>
subVars == <<at, connected, seen, held, delivered>>
pollVars == <<pollAt, snap>>
vars == <<worker, events, queue, run, at, connected, seen, held, delivered,
          taken, pollAt, snap>>

None == 0               \* the sentinel; events are numbered from 1
Events == 1 .. MaxEvents

(* The order in which get_ticket evaluates the fields of its answer; the   *)
(* list of events is handed over by reference and copied last, when the    *)
(* answer is serialised.                                                   *)
Fields == <<"status", "trace", "finding", "doc", "error", "events">>
Complete == Len(Fields) + 1

Blank == [status |-> "running", trace |-> FALSE, finding |-> FALSE,
          doc |-> FALSE, error |-> FALSE]

Init ==
  /\ worker = "build"
  /\ events = <<>>
  /\ queue = <<>>
  /\ run = Blank
  /\ at = [s \in Subscribers |-> "idle"]
  /\ connected = [s \in Subscribers |-> FALSE]
  /\ seen = [s \in Subscribers |-> 0]
  /\ held = [s \in Subscribers |-> None]
  /\ delivered = [s \in Subscribers |-> <<>>]
  /\ taken = 0
  /\ pollAt = [p \in Pollers |-> 1]
  /\ snap = [p \in Pollers |->
             [status |-> "running", trace |-> FALSE, finding |-> FALSE,
              doc |-> FALSE, error |-> FALSE, events |-> 0]]

-----------------------------------------------------------------------------
(* The worker thread.                                                      *)

WorkerMoves(from, to) == worker = from /\ worker' = to

(* build_network, and the owner of the ticket's team is found. *)
BuildNetwork ==
  /\ WorkerMoves("build", "own")
  /\ UNCHANGED <<events, queue, run, subVars, taken, pollVars>>

(* The tracer records an event: _push appends it to the list ... *)
PushAppend ==
  /\ WorkerMoves("own", "put")
  /\ Len(events) < MaxEvents
  /\ events' = Append(events, Len(events) + 1)
  /\ UNCHANGED <<queue, run, subVars, taken, pollVars>>

(* ... and then puts it on the queue. *)
PushPut ==
  /\ WorkerMoves("put", "own")
  /\ queue' = Append(queue, events[Len(events)])
  /\ UNCHANGED <<events, run, subVars, taken, pollVars>>

WorkerWrites(from, to, field, value) ==
  /\ WorkerMoves(from, to)
  /\ run' = [run EXCEPT ![field] = value]
  /\ UNCHANGED <<events, queue, subVars, taken, pollVars>>

(* Mutant: the status is set before the trace. *)
WriteTraceDoneEarly == WorkerWrites("trace", "done", "status", "done")

(* own_ticket returned; the fields are assigned in this order. *)
WriteFinding == WorkerWrites("own", "doc", "finding", TRUE)
WriteDoc == WorkerWrites("doc", "trace", "doc", TRUE)
WriteTrace == WorkerWrites("trace", "done", "trace", TRUE)
WriteDone == WorkerWrites("done", "last", "status", "done")

(* Any statement of the try block may raise: building the network, an      *)
(* unknown team, the deliberation, rendering the one-pager.                *)
Raise ==
  /\ worker \in {"build", "own", "doc", "trace"}
  /\ worker' = "raised"
  /\ UNCHANGED <<events, queue, run, subVars, taken, pollVars>>

(* Mutant: the handler records the message only. *)
WriteErrorNoStatus == WorkerWrites("raised", "message", "error", TRUE)

(* except Exception: the status first, the message after it. *)
WriteErrorStatus == WorkerWrites("raised", "message", "status", "error")
WriteErrorMessage == WorkerWrites("message", "last", "error", TRUE)

(* Mutant: the sentinel is put after the last assignment, not in finally. *)
PutSentinelOnSuccess ==
  /\ WorkerMoves("last", "exit")
  /\ queue' = IF run.status = "done" THEN Append(queue, None) ELSE queue
  /\ UNCHANGED <<events, run, subVars, taken, pollVars>>

(* finally: one sentinel, whoever and however many are listening. *)
PutSentinel ==
  /\ WorkerMoves("last", "exit")
  /\ queue' = Append(queue, None)
  /\ UNCHANGED <<events, run, subVars, taken, pollVars>>

Worker ==
  \/ BuildNetwork \/ PushAppend \/ PushPut
  \/ WriteFinding \/ WriteDoc \/ WriteTrace \/ WriteDone
  \/ Raise \/ WriteErrorStatus \/ WriteErrorMessage
  \/ PutSentinel

-----------------------------------------------------------------------------
(* A subscriber's generator.  "loop" is the head of the outer loop,        *)
(* "yielded" the same place when the generator is suspended at a yield,    *)
(* "get" a thread blocked in queue.get, "check" a thread that holds an     *)
(* item it has not looked at yet.                                          *)

(* Mutant: a generator that was suspended at a yield is not resumed. *)
AtLoopHeadOnce(s) == at[s] = "loop"

AtLoopHead(s) == at[s] \in {"loop", "yielded"}

(* The generator yields an event: a client that is gone never resumes it. *)
YieldEvent(s, e) ==
  IF connected[s]
  THEN /\ delivered' = [delivered EXCEPT ![s] = Append(@, e)]
       /\ at' = [at EXCEPT ![s] = "yielded"]
  ELSE /\ at' = [at EXCEPT ![s] = "gone"]
       /\ UNCHANGED delivered

(* Mutant: the event is sent and the cursor stays. *)
AdvanceCursorNever(s) == UNCHANGED seen

AdvanceCursor(s) ==
  seen' = IF connected[s] THEN [seen EXCEPT ![s] = @ + 1] ELSE seen

Subscribe(s) ==
  /\ at[s] = "idle"
  /\ at' = [at EXCEPT ![s] = "loop"]
  /\ connected' = [connected EXCEPT ![s] = TRUE]
  /\ UNCHANGED <<runVars, queue, seen, held, delivered, taken, pollVars>>

(* while seen < len(run["events"]): yield, seen += 1 *)
Replay(s) ==
  /\ AtLoopHead(s)
  /\ seen[s] < Len(events)
  /\ YieldEvent(s, events[seen[s] + 1])
  /\ AdvanceCursor(s)
  /\ UNCHANGED <<runVars, queue, connected, held, taken, pollVars>>

CaughtUp(s) ==
  /\ AtLoopHead(s)
  /\ seen[s] >= Len(events)
  /\ at' = [at EXCEPT ![s] = "get"]
  /\ UNCHANGED <<runVars, queue, connected, seen, held, delivered, taken, pollVars>>

(* Mutant: the newest item first. *)
TakeLast(s) ==
  /\ at[s] = "get"
  /\ queue # <<>>
  /\ queue' = SubSeq(queue, 1, Len(queue) - 1)
  /\ taken' = taken + 1
  /\ held' = [held EXCEPT ![s] = queue[Len(queue)]]

(* item = run["_queue"].get(): the one queue of the run, for every stream. *)
Take(s) ==
  /\ at[s] = "get"
  /\ queue # <<>>
  /\ queue' = Tail(queue)
  /\ taken' = taken + 1
  /\ held' = [held EXCEPT ![s] = Head(queue)]

TakeEvent(s) ==
  /\ Take(s)
  /\ Head(queue) # None
  /\ at' = [at EXCEPT ![s] = "check"]
  /\ UNCHANGED <<runVars, connected, seen, delivered, pollVars>>

(* item is None: "event: done", and the generator returns. *)
TakeSentinel(s) ==
  /\ Take(s)
  /\ Head(queue) = None
  /\ at' = [at EXCEPT ![s] = IF connected[s] THEN "done" ELSE "gone"]
  /\ UNCHANGED <<runVars, connected, seen, delivered, pollVars>>

IsNext(s) == seen[s] < Len(events) /\ events[seen[s] + 1] = held[s]
AlreadySent(s) == held[s] \in {events[i] : i \in 1 .. seen[s]}

ItemIsNext(s) ==
  /\ at[s] = "check"
  /\ IsNext(s)
  /\ YieldEvent(s, held[s])
  /\ AdvanceCursor(s)
  /\ UNCHANGED <<runVars, queue, connected, held, taken, pollVars>>

(* Mutant: the cursor moves for an event that was not the next one. *)
ItemIsAheadMoves(s) ==
  /\ at[s] = "check"
  /\ ~IsNext(s)
  /\ ~AlreadySent(s)
  /\ YieldEvent(s, held[s])
  /\ AdvanceCursor(s)
  /\ UNCHANGED <<runVars, queue, connected, held, taken, pollVars>>

(* elif item not in run["events"][:seen]: sent, but the cursor stays. *)
ItemIsAhead(s) ==
  /\ at[s] = "check"
  /\ ~IsNext(s)
  /\ ~AlreadySent(s)
  /\ YieldEvent(s, held[s])
  /\ UNCHANGED <<runVars, queue, connected, seen, held, taken, pollVars>>

ItemIsOld(s) ==
  /\ at[s] = "check"
  /\ ~IsNext(s)
  /\ AlreadySent(s)
  /\ at' = [at EXCEPT ![s] = "loop"]
  /\ UNCHANGED <<runVars, queue, connected, seen, held, delivered, taken, pollVars>>

Stream(s) ==
  \/ Replay(s) \/ CaughtUp(s)
  \/ TakeEvent(s) \/ TakeSentinel(s)
  \/ ItemIsNext(s) \/ ItemIsAhead(s) \/ ItemIsOld(s)

(* The client goes away.  A generator suspended at a yield is dropped; one *)
(* whose thread is running cannot be interrupted, and runs to its next     *)
(* yield, taking from the queue on its way.                                *)
Disconnect(s) ==
  /\ connected[s]
  /\ at[s] \in {"loop", "yielded", "get", "check"}
  /\ connected' = [connected EXCEPT ![s] = FALSE]
  /\ at' = IF at[s] = "yielded" THEN [at EXCEPT ![s] = "gone"] ELSE at
  /\ UNCHANGED <<runVars, queue, seen, held, delivered, taken, pollVars>>

-----------------------------------------------------------------------------
(* A browser polling the snapshot endpoint until the run is not running.   *)

CurrentValue(field) == IF field = "events" THEN Len(events) ELSE run[field]

ReadField(p) ==
  /\ pollAt[p] < Complete
  /\ LET field == Fields[pollAt[p]] IN
       snap' = [snap EXCEPT ![p][field] = CurrentValue(field)]
  /\ pollAt' = [pollAt EXCEPT ![p] = @ + 1]
  /\ UNCHANGED <<runVars, queue, subVars, taken>>

(* waitForRun: the answer says running, ask again. *)
PollAgain(p) ==
  /\ pollAt[p] = Complete
  /\ snap[p].status = "running"
  /\ pollAt' = [pollAt EXCEPT ![p] = 1]
  /\ UNCHANGED <<runVars, queue, subVars, taken, snap>>

Poll(p) == ReadField(p) \/ PollAgain(p)

-----------------------------------------------------------------------------
Next ==
  \/ Worker
  \/ \E s \in Subscribers : Subscribe(s) \/ Stream(s) \/ Disconnect(s)
  \/ \E p \in Pollers : Poll(p)

(* Threads of the process keep running; clients may do what they like.     *)
Fairness ==
  /\ WF_vars(Worker)
  /\ \A s \in Subscribers : WF_vars(Stream(s))
  /\ \A p \in Pollers : WF_vars(Poll(p))

Spec == Init /\ [][Next]_vars

FairSpec == Spec /\ Fairness
-----------------------------------------------------------------------------
(* Type correctness of the run's record, of the generators and of the      *)
(* snapshots.  Two of its conjuncts are not mere types: the worker puts an *)
(* event only after it appended one, and what a generator examines is      *)
(* never the sentinel.                                                     *)
RunTypeOK ==
  /\ worker \in {"build", "own", "put", "doc", "trace", "done", "raised",
                 "message", "last", "exit"}
  /\ events \in Seq(Events)
  /\ worker = "put" => events # <<>>
  /\ queue \in Seq(Events \cup {None})
  /\ run \in [status : {"running", "done", "error"}, trace : BOOLEAN,
              finding : BOOLEAN, doc : BOOLEAN, error : BOOLEAN]
  /\ taken \in Nat

StreamTypeOK ==
  /\ at \in [Subscribers -> {"idle", "loop", "yielded", "get", "check",
                             "done", "gone"}]
  /\ connected \in [Subscribers -> BOOLEAN]
  /\ seen \in [Subscribers -> Nat]
  /\ held \in [Subscribers -> Events \cup {None}]
  /\ \A s \in Subscribers : at[s] = "check" => held[s] # None
  /\ delivered \in [Subscribers -> Seq(Events)]

PollTypeOK ==
  /\ pollAt \in [Pollers -> 1 .. Complete]
  /\ snap \in [Pollers -> [status : {"running", "done", "error"}, trace : BOOLEAN,
                           finding : BOOLEAN, doc : BOOLEAN, error : BOOLEAN,
                           events : Nat]]

TypeOK == RunTypeOK /\ StreamTypeOK /\ PollTypeOK

(* How many events the worker has put: one less than it has appended while *)
(* it stands between the two statements of _push.                          *)
EventsPut == IF worker = "put" THEN Len(events) - 1 ELSE Len(events)

(* The queue holds exactly what was put and not yet taken, in order: the   *)
(* events still to come, each the one the list has at that place, and the  *)
(* sentinel last.  Nothing is lost between the list and the queue however  *)
(* many generators and abandoned threads take from it.                     *)
QueueHoldsUntaken ==
  /\ Len(queue) + taken = EventsPut + (IF worker = "exit" THEN 1 ELSE 0)
  /\ \A i \in 1 .. Len(queue) :
       queue[i] = IF taken + i <= EventsPut THEN events[taken + i] ELSE None

(* One stream at most is told that it is over, whatever the subscribers    *)
(* and their disconnections do, and then the run has ended.                *)
OneSentinel ==
  /\ \A s, t \in Subscribers : at[s] = "done" /\ at[t] = "done" => s = t
  /\ \A s \in Subscribers : at[s] = "done" => worker = "exit" /\ queue = <<>>

(* A client never has a gap behind its cursor: whatever other streams took *)
(* from the queue, every event up to `seen` was sent to it.                *)
NoGapBehindCursor ==
  \A s \in Subscribers :
    /\ seen[s] <= Len(events)
    /\ \A i \in 1 .. seen[s] :
         \E j \in 1 .. Len(delivered[s]) : delivered[s][j] = events[i]

(* How often client s was sent event e. *)
Copies(s, e) == {i \in 1 .. Len(delivered[s]) : delivered[s][i] = e}

(* An event is duplicated at most once, and to one client only: the queue  *)
(* can hand it to one generator ahead of its cursor, which then sends it   *)
(* again from the list.                                                    *)
OneDuplicateAtMost ==
  \A e \in Events :
    /\ \A s \in Subscribers : \A i, j, k \in Copies(s, e) : i = j \/ j = k \/ i = k
    /\ \A s, t \in Subscribers :
         s # t => \/ \A i, j \in Copies(s, e) : i = j
                  \/ \A i, j \in Copies(t, e) : i = j

(* With one subscriber, however late: what it was sent is a prefix of the  *)
(* run's events, so each event once and in order ...                       *)
ExactlyOnceInOrder ==
  \A s \in Subscribers :
    /\ Len(delivered[s]) <= Len(events)
    /\ \A i \in 1 .. Len(delivered[s]) : delivered[s][i] = events[i]

(* ... and it is told that the stream is over only when it has them all    *)
(* and there will be no more.                                              *)
DoneMeansComplete ==
  \A s \in Subscribers :
    at[s] = "done" => delivered[s] = events /\ worker = "exit"

(* Together, and step by step: one subscriber sees an event feed.          *)
Feed == INSTANCE EventFeed WITH
          Event <- Events, Client <- Subscribers,
          log <- events, closed <- worker = "exit",
          received <- delivered, ended <- {s \in Subscribers : at[s] = "done"}
FeedSpec == Feed!Spec

(* A stream that was opened ends, or its client leaves. *)
StreamEnds ==
  \A s \in Subscribers : at[s] = "loop" ~> at[s] \in {"done", "gone"}

(* As long as one generator runs, even one whose client has left, the      *)
(* queue does not silt up: what the worker put is eventually taken.        *)
QueueDrains ==
  \A s \in Subscribers :
    <>[](at[s] \notin {"idle", "done", "gone"}) => []<>(queue = <<>>)

Answered(p) == pollAt[p] = Complete

(* Although the fields are read one by one while the worker writes them, a *)
(* snapshot that says done is whole: finding, one-pager and trace are      *)
(* there, every event is, and there is no error.                           *)
DoneSnapshotIsWhole ==
  \A p \in Pollers :
    Answered(p) /\ snap[p].status = "done" =>
      /\ snap[p].finding /\ snap[p].doc /\ snap[p].trace /\ ~snap[p].error
      /\ snap[p].events = Len(events)

(* A run that a poller saw end does not change under it: the page stops    *)
(* polling at the first status that is not running.                        *)
EndedRunIsFrozen ==
  [][run.status = "done" => UNCHANGED <<run, events>>]_vars

(* Every poller gets to a snapshot of an ended run. *)
PollerSeesTheEnd ==
  \A p \in Pollers : <>(Answered(p) /\ snap[p].status # "running")

-----------------------------------------------------------------------------
(* What the repository says and the code does not keep, beside              *)
(* DoneMeansComplete above: none of these is checked by a passing run.      *)

(* An event reaches every client that is listening when it happens: not     *)
(* when another stream of the same run takes it off their one queue.        *)
EventsReachSubscriber ==
  \A s \in Subscribers, e \in Events :
    (at[s] = "get" /\ connected[s] /\ e \in {events[i] : i \in 1 .. Len(events)})
      ~> (~connected[s] \/ Copies(s, e) # {})

(* The same event is not sent twice to a client: it is, by a stream that    *)
(* has it both from the list and from the queue; OneDuplicateAtMost bounds  *)
(* how often.                                                               *)
NoDuplicates ==
  \A s \in Subscribers, e \in Events : \A i, j \in Copies(s, e) : i = j

(* A snapshot that says error says which: not between the two assignments   *)
(* of _execute's handler.                                                   *)
ErrorSnapshotHasMessage ==
  \A p \in Pollers :
    Answered(p) /\ snap[p].status = "error" => snap[p].error
=============================================================================
