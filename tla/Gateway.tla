------------------------------- MODULE Gateway -------------------------------
(***************************************************************************)
(* The table of runs of the API gateway (api/main.py), and the requests    *)
(* that make runs: POST /api/tickets, /api/demo and /api/webhooks/jira.    *)
(*                                                                         *)
(* Every request is handled by a thread of its own; it enters its run in   *)
(* the table under a lock, starts a worker thread for it and answers.  A   *)
(* run is named after the request that made it; TicketRun models what goes *)
(* on inside one.  The table is in memory: a restart of the process loses  *)
(* it, with the workers, which are daemon threads.                         *)
(***************************************************************************)
EXTENDS Naturals, Sequences, FiniteSets

CONSTANTS
  Request,        \* the requests that clients make
  Ask,            \* what a request may ask for
  MaxThreads      \* how many workers the process can have at once

IMPLEMENTED == {"mirrormaker", "group-coordinator", "kafka-broker",
                "kafka-clients", "kafka-security"}

(* An id is the string of a URL or, in the body of a request, any JSON     *)
(* value, of which numbers stand for those that are no string.             *)
StringId(name) == [form |-> "string", name |-> name]
NumberId(name) == [form |-> "number", name |-> name]
NoId == [form |-> "missing", name |-> "missing"]

(* kind: the endpoint; team: "" when none is given; words: the labels and  *)
(* components of a Jira issue; custom: its field sme_team.                 *)
ASSUME GatewayAssumption ==
  /\ MaxThreads \in Nat
  /\ \A ask \in Ask : ask.kind \in {"ticket", "demo", "jira"}

Nobody == "nobody"
ASSUME NobodyAssumption == Nobody \notin Request

VARIABLES
  ask,            \* what each request asks for
  at,             \* where its handler is
  ticket,         \* the id of its ticket
  status,         \* the status of its run
  failed,         \* why its run failed
  worker,         \* whether its worker is alive
  lock,           \* _lock: who holds it
  table,          \* _runs: the run that an id leads to
  listing         \* list_tickets: the ids it has still to visit

vars == <<ask, at, ticket, status, failed, worker, lock, table, listing>>

Lister == "lister"
ASSUME ListerAssumption == Lister \notin Request

(* str(uuid.uuid4()) is new. *)
uuid4(r) == StringId(r)

Init ==
  /\ ask \in [Request -> Ask]
  /\ at = [r \in Request |-> "new"]
  /\ ticket = [r \in Request |-> NoId]
  /\ status = [r \in Request |-> "none"]
  /\ failed = [r \in Request |-> "no"]
  /\ worker = [r \in Request |-> FALSE]
  /\ lock = Nobody
  /\ table = <<>>
  /\ listing = {}

-----------------------------------------------------------------------------
(* _team_from_jira_fields: the first team of the mapping of which a        *)
(* keyword occurs; then the custom field, if it names an implemented team. *)
Mapping ==
  << <<"mirrormaker", {"mirrormaker", "mm2", "mirror"}>>,
     <<"group-coordinator", {"group-coordinator", "consumer-groups", "coordinator"}>>,
     <<"kafka-broker", {"broker", "kafka-broker"}>>,
     <<"kafka-clients", {"clients", "kafka-clients", "kip"}>>,
     <<"kafka-security", {"security", "acl", "auth"}>> >>

Hits(words) == {i \in 1 .. Len(Mapping) : Mapping[i][2] \cap words # {}}

(* Mutant: the custom field is taken as it is. *)
TeamOfCustomField(words, custom) ==
  IF Hits(words) # {}
  THEN Mapping[CHOOSE i \in Hits(words) : \A j \in Hits(words) : i <= j][1]
  ELSE custom

team_from_jira_fields(words, custom) ==
  IF Hits(words) # {}
  THEN Mapping[CHOOSE i \in Hits(words) : \A j \in Hits(words) : i <= j][1]
  ELSE IF custom \in IMPLEMENTED THEN custom ELSE "mirrormaker"

TeamOf(r) ==
  CASE ask[r].kind = "demo" -> "mirrormaker"
    [] ask[r].kind = "ticket" -> ask[r].team
    [] ask[r].kind = "jira" ->
         IF ask[r].team # "" THEN ask[r].team
         ELSE team_from_jira_fields(ask[r].words, ask[r].custom)

(* Mutant: the key of the issue is the id. *)
IdFromIssueKey(r) ==
  IF ask[r].kind = "jira" THEN StringId("KAFKA-1")
  ELSE IF ask[r].id # NoId THEN ask[r].id ELSE uuid4(r)

(* start_ticket gives an id when the payload has none; the demo and the    *)
(* webhook always make a new one.                                          *)
IdOf(r) == IF ask[r].kind = "ticket" /\ ask[r].id # NoId THEN ask[r].id ELSE uuid4(r)

(* A ticket without a team is refused with 400. *)
Refuse(r) ==
  /\ at[r] = "new"
  /\ TeamOf(r) = ""
  /\ at' = [at EXCEPT ![r] = "refused"]
  /\ UNCHANGED <<ask, ticket, status, failed, worker, lock, table, listing>>

(* _new_run builds the run ... *)
NewRun(r) ==
  /\ at[r] = "new"
  /\ TeamOf(r) # ""
  /\ at' = [at EXCEPT ![r] = "built"]
  /\ ticket' = [ticket EXCEPT ![r] = IdOf(r)]
  /\ status' = [status EXCEPT ![r] = "running"]
  /\ UNCHANGED <<ask, failed, worker, lock, table, listing>>

Entered(r) ==
  [id \in DOMAIN table \cup {ticket[r]} |-> IF id = ticket[r] THEN r ELSE table[id]]

(* Mutant: the run is entered without the lock. *)
RegisterUnlocked(r) ==
  /\ at[r] = "built"
  /\ table' = Entered(r)
  /\ at' = [at EXCEPT ![r] = "registered"]
  /\ UNCHANGED <<ask, ticket, status, failed, worker, lock, listing>>

(* ... and enters it, over a run of the same id if there is one.  The      *)
(* statement under the lock is one step.                                   *)
Register(r) ==
  /\ at[r] = "built"
  /\ lock = Nobody
  /\ table' = Entered(r)
  /\ at' = [at EXCEPT ![r] = "registered"]
  /\ UNCHANGED <<ask, ticket, status, failed, worker, lock, listing>>

Workers == {r \in Request : worker[r]}

(* Mutant: an error of Thread.start is swallowed. *)
StartOrGoOn(r) ==
  /\ at[r] = "registered"
  /\ worker' = [worker EXCEPT ![r] = Cardinality(Workers) < MaxThreads]
  /\ at' = [at EXCEPT ![r] = "started"]
  /\ UNCHANGED <<ask, ticket, status, failed, lock, table, listing>>

(* threading.Thread(...).start(): it raises when there can be no more      *)
(* threads, and the client is answered 500.                                *)
Start(r) ==
  /\ at[r] = "registered"
  /\ IF Cardinality(Workers) < MaxThreads
     THEN /\ worker' = [worker EXCEPT ![r] = TRUE]
          /\ at' = [at EXCEPT ![r] = "started"]
     ELSE /\ at' = [at EXCEPT ![r] = "crashed"]
          /\ UNCHANGED worker
  /\ UNCHANGED <<ask, ticket, status, failed, lock, table, listing>>

Answer(r) ==
  /\ at[r] = "started"
  /\ at' = [at EXCEPT ![r] = "answered"]
  /\ UNCHANGED <<ask, ticket, status, failed, worker, lock, table, listing>>

(* Mutant: what the agent raises ends the thread. *)
ExecuteUnguarded(r) ==
  /\ worker[r]
  /\ worker' = [worker EXCEPT ![r] = FALSE]
  /\ \/ /\ TeamOf(r) \in IMPLEMENTED
        /\ status' = [status EXCEPT ![r] = "done"]
        /\ UNCHANGED failed
     \/ /\ failed' = [failed EXCEPT ![r] = "run"]
        /\ UNCHANGED status
  /\ UNCHANGED <<ask, at, ticket, lock, table, listing>>

(* _execute, down to how it ends; the agent of the team is looked up       *)
(* first, and anything after that may raise.                               *)
Execute(r) ==
  /\ worker[r]
  /\ worker' = [worker EXCEPT ![r] = FALSE]
  /\ \/ /\ TeamOf(r) \in IMPLEMENTED
        /\ status' = [status EXCEPT ![r] = "done"]
        /\ UNCHANGED failed
     \/ /\ status' = [status EXCEPT ![r] = "error"]
        /\ failed' = [failed EXCEPT ![r] =
                        IF TeamOf(r) \in IMPLEMENTED THEN "run" ELSE "team"]
  /\ UNCHANGED <<ask, at, ticket, lock, table, listing>>

(* list_tickets visits the table under the lock, one run at a time. *)
ListBegin ==
  /\ lock = Nobody
  /\ lock' = Lister
  /\ listing' = DOMAIN table
  /\ UNCHANGED <<ask, at, ticket, status, failed, worker, table>>

ListNext ==
  /\ lock = Lister
  /\ \E id \in listing : listing' = listing \ {id}
  /\ UNCHANGED <<ask, at, ticket, status, failed, worker, lock, table>>

ListEnd ==
  /\ lock = Lister
  /\ listing = {}
  /\ lock' = Nobody
  /\ UNCHANGED <<ask, at, ticket, status, failed, worker, table, listing>>

(* The process ends and is started again: memory and threads are gone. *)
Restart ==
  /\ at' = [r \in Request |-> IF at[r] \in {"new", "refused"} THEN at[r] ELSE "lost"]
  /\ status' = [r \in Request |-> "none"]
  /\ failed' = [r \in Request |-> "no"]
  /\ worker' = [r \in Request |-> FALSE]
  /\ lock' = Nobody
  /\ table' = <<>>
  /\ listing' = {}
  /\ UNCHANGED <<ask, ticket>>

Handle(r) ==
  Refuse(r) \/ NewRun(r) \/ Register(r) \/ Start(r) \/ Answer(r)

List == ListBegin \/ ListNext \/ ListEnd

Next ==
  \/ List \/ Restart
  \/ \E r \in Request : Handle(r) \/ Execute(r)

(* Threads are scheduled, and deliberations end (Deliberation).  The lock  *)
(* is not fair, but free between two listings as often as one likes.       *)
Fairness ==
  /\ WF_vars(ListNext \/ ListEnd)
  /\ \A r \in Request : SF_vars(Handle(r)) /\ WF_vars(Execute(r))

Spec == Init /\ [][Next]_vars /\ Fairness
-----------------------------------------------------------------------------
(* get_ticket: the run that a URL leads to; its id is always a string. *)
Serves(id) == id.form = "string" /\ id \in DOMAIN table

(* A run that its worker will end, or has ended. *)
WorkedOn(r) == worker[r] = (status[r] = "running") /\ status[r] # "none"

(* What the id of an answer leads to.  The request's own run is worked on, *)
(* also when it was replaced in the table.  The id always leads to a run,  *)
(* and to one that is worked on, unless another request has entered its    *)
(* run over it under the same id and has not started it yet, or could not  *)
(* (_new_run enters the run before Thread.start may raise).                *)
AnsweredRunIsWorkedOn ==
  \A r \in Request : at[r] = "answered" =>
    /\ WorkedOn(r)
    /\ ticket[r] \in DOMAIN table
    /\ LET run == table[ticket[r]]
       IN  WorkedOn(run) \/ (run # r /\ at[run] \in {"registered", "crashed"})

(* Not kept: a second request with the same ticket_id enters its run, and  *)
(* there is no thread for it.  The first client polls a run that has       *)
(* status running for ever.                                                *)
AnsweredIdIsWorkedOn ==
  \A r \in Request :
    at[r] = "answered" => at[table[ticket[r]]] = "registered" \/ WorkedOn(table[ticket[r]])

(* The table does not change while list_tickets walks over it (the         *)
(* interpreter raises a RuntimeError when it does).                        *)
ListingIsSafe == [][lock = Lister /\ lock' = Lister => table' = table]_vars

(* An issue of Jira that names no team gets one with an agent, whatever    *)
(* its labels and fields say.                                              *)
JiraFindsAnAgent ==
  \A r \in Request : failed[r] = "team" => ask[r].kind # "demo" /\ ask[r].team # ""

(* Of the runs of one id, the table leads to one that was entered last:    *)
(* an id that a client was told leads to its own run, or to a run that     *)
(* another client made under the same id.  That holds after a restart too: *)
(* the id of a run that was lost is free, and only the client who chose it *)
(* can see a stranger's run behind it.                                     *)
OthersOnlyByTheirOwnId ==
  \A r, other \in Request :
    (at[r] \in {"answered", "lost"} /\ ticket[r] \in DOMAIN table /\ table[ticket[r]] = other)
      => other = r \/ (ask[other].kind = "ticket" /\ ask[other].id = ticket[r])
                   \/ (ask[r].kind = "ticket" /\ ask[r].id = uuid4(other))

(* A request is answered and its run ends, unless the process does. *)
RunsEnd ==
  \A r \in Request :
    at[r] = "built" ~> \/ at[r] \in {"crashed", "lost"}
                       \/ at[r] = "answered" /\ status[r] \in {"done", "error"}

(* "start a ticket (returns id immediately)", "snapshot: events so far":   *)
(* the id of an answer leads to a run.  Not kept: a number is entered as a *)
(* number and looked up as a string.                                       *)
AnsweredIdIsServed == \A r \in Request : at[r] = "answered" => Serves(ticket[r])
=============================================================================
