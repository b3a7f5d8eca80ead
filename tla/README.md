# A TLA+ verification project for the SME agent network

The repository (`log-analytics-copilot/`) is a network of domain agents: a ticket
is handed to the agent of the team that owns it, the agent finds out which other
teams its change affects, consults their agents in rounds, and writes a one-page
decision document that says whether a human has to decide. An API gateway runs
tickets in threads and streams what happens; a web page replays it; a router
chooses a language model for each agent under a budget; a knowledge graph says
which team owns which code.

This directory holds TLA+ modules translated from that code, configurations with
which TLC checks them on small instances, and theorems about them whose proofs
TLAPS checks for every value of the constants. `PROJECT.json` says which lines of
the source every definition stands for (`map`), which hazards the properties are
for (`hazards`), and for every property a plausible bug that it catches (`mutants`).

    tlc -workers 2 -config <run>.cfg MC<module>.tla     # a run
    tlapm <module>Proofs.tla                            # its proofs

Paths below are relative to `log-analytics-copilot/`.

## 1. The system

| Component | State | Operations | Talks to |
|---|---|---|---|
| API gateway, `api/main.py` | `_runs` under `_lock`; per run the fields, the list of events and one queue | POST tickets / demo / Jira webhook, list, snapshot, stream; a daemon thread per run | starts the deliberation, is its tracer's listener |
| Deliberation, `agents/base_agent.py` | local to one call of `own_ticket`: peers, answers per round, alternatives, converged, finding | investigate, discover, ask every peer, refine, converge or give up, assemble | peers by `consult_about` over a direct transport |
| Consultation, `agents/base_agent.py` | the call stack of the owner's thread | ask, consult further, validate citations, answer | other agents, ownership validator |
| Discovery, `agents/discovery.py` | none (a directory of cards) | signals to peers | deliberation |
| Kafka agents, `agents/*_agent.py`, `agents/network.py` | none between calls | investigate, handle a consultation by round | each other |
| Trace, `agents/trace.py` | the list of events | emit, called by every step of `own_ticket` | the gateway's listener |
| Design document, `agents/design_doc.py` | none | render the finding and the record as a one-pager | called by the gateway's worker |
| Model router, `llm/registry.py`, `llm/router.py` | cached availability of providers | resolve a tier to a model | environment, providers |
| Budget and client, `llm/budget.py`, `llm/client.py` | the ledger of a ticket; an agent's cached resolution | reason, charge | router, providers |
| Knowledge graph, `knowledge_graph/` | tables `entities`, `edges` | ingest CODEOWNERS and runbooks, `owning_team`, `depends_on`, `must_approve` | SQLite |
| Ticket router, `router/main.py` | none | accept or refuse a payload | nobody |
| Demo page, `web/app/page.tsx` | React state, three timers, a track, the pending promises | run live, replay, overlays | gateway (`/api/demo`, snapshots) |
| Views, `web/lib/sim.ts`, `web/components/` | none | derive panels from the events | page |
| Messages, LLM command line | none | data classes, printing | all |

What is hard in them, and what makes each correct:

* **Gateway.** Request threads, a worker per run and the generators of open streams
  touch the same dictionaries and one queue per run, mostly without a lock. A client
  must receive every event once and in order and be told the end last; a snapshot
  that says *done* must be whole; nobody may be told of a run that nobody works on;
  requests must not disturb each other's runs.
* **Deliberation.** It must end, ask everybody whose sign-off is needed in every
  round, never take an outcome back, and be silent towards humans only when the
  agents really agreed. Difficult cases: peers without an agent, answers that
  disagree over several rounds, an owner that asks nobody.
* **Trace and document.** Three texts tell of one deliberation: the timeline, event by
  event and only what changed, the one-pager, and the finding. Each has rules of its
  own; they must not contradict each other, and what a client was sent must stay true
  although events share data with the alternatives they tell of.
* **Consultation.** Agents call each other recursively; only a depth limit ends a
  circle, and what is cut off must be visible in the owner's finding.
* **Models and budget.** Availability goes stale, calls fail halfway, and a call is
  charged after it was made. The model chosen must be the cheapest that the
  environment allows among those known to be available, the cached resolution of an agent
  must not contradict the router's, and the ceiling must hold up to the call in flight.
* **Knowledge graph.** Files are ingested repeatedly and can be cut off; who owns a
  path depends on the order of rows. The graph must hold whole files, and the owner
  must have one of the longest claims.
* **Demo page.** Clicks, promises and timers come in any order; everything on the
  page belongs to one click at a time, and what covers it must go away again.

## 2. The modules

| Module | Models | Uses |
|---|---|---|
| `TicketRun` | one run: `_execute`, `_push`, `get_ticket`, `gen` of `stream_ticket` | `EventFeed` (abstract), by a refinement mapping |
| `EventFeed` | what a stream promises its clients | |
| `Gateway` | the table of runs, requests, worker threads, restart | |
| `Deliberation` | `own_ticket` and what it calls, for arbitrary answers | `ReviewBoard` (abstract) |
| `ReviewBoard` | what a deliberation promises | |
| `DesignDoc` | what the one-pager asserts: status, marks, sign-offs, points for a human, appendix | extends `Deliberation` |
| `TicketTrace` | the timeline: the events each step of `own_ticket` emits | extends `DesignDoc` |
| `Discovery` | directory, vocabulary, `discover_peers` | |
| `KafkaNetwork` | the five agents' own answers | `Discovery`, composed with instances of `TicketTrace` and, for what the page shows of it, `MeshView` |
| `Consultation` | `consult_about` as a call stack | |
| `ModelRouter` | catalog, ranking, decision table of `resolve` | |
| `AgentLLM` | handles, budget, availability, calls that fail | `ModelRouter` |
| `KnowledgeGraph` | ingestion transactions and `owning_team` | |
| `MeshView` | what the page's panels derive from the events (`web/lib/sim.ts`) | |
| `DemoPage` | the page's callbacks | `MeshView` |
| `Lists` | the elements of a list that satisfy a condition, in order (`Kept`): Python's `[x for x in xs if ...]` | |

`MC...` modules give the constants their values; `...Proofs` modules hold the
theorems. In every module a variable has the name of the code's field or local, and
an action the name of the function or of the step of it. The places at which a
thread can be interrupted are the actions' boundaries:

* `TicketRun`: a worker's append and its put are two actions; each result field is
  written by one; a generator's test of the list, its blocking `get` and the sending
  of an item are separate; a poller reads one field per action. The one atomic
  operation assumed is a single dict, list or queue operation of CPython.
* `Gateway`: entering the table is under `_lock`; `Thread.start` may fail when
  `MaxThreads` are alive, and leaves the run entered; the listing visits one id per step; a restart may come at
  any time and loses table and workers.
* `Deliberation`: one action per phase and one per consultation (`Consult`), which
  is a synchronous call; any exception is `Raise`.
* `TicketTrace`: the same actions, each with the events it emits; nobody else emits
  meanwhile: the gateway's network attaches the tracer to every agent
  (`agents/network.py:62-63`), but only `own_ticket` and its helpers use it, and a peer that
  is consulted runs neither. The event of an answer shows all of it but its concerns
  (`Shown`); the new ones have events of their own, one that is only repeated has none. `Failing` may leave the events that
  were emitted before the exception. The timeline begins with the `ticket` event, the
  first that `own_ticket` emits. A `synthesis` event holds the alternative's list of
  reviewers itself and not a copy, which is why `Timeline` reads that list anew.
* `KafkaNetwork` conjoins the agents' own answers and signals with the actions of
  `TicketTrace`: each of its behaviours is one of that module by construction, so that
  the theorems about deliberations hold of the real agents. What the
  code keeps as an ordered list, such as the signals of an investigation, is a sequence here
  too.
* `Consultation`: pushing a call (`Ask`, `ConsultFurther`), returning (`Respond`),
  looking at the answer (`Resume`, `Receive`).
* `AgentLLM`: a call to a provider is two steps (`Enrich`, then `Complete` or
  `Fail`), between which providers come and go. A review first looks at the resolution
  that the agent's handle keeps; the model it asks then is that one again if the agent's
  own tier is the review's (`kafka-clients`), and resolved anew otherwise (`ForReview`).
* `KnowledgeGraph`: one action per line written; `Commit` and `Crash` end the
  transaction; files are edited at any time, also while they are ingested.
* `DemoPage`: one action per callback. JavaScript runs each to its end, so the first
  tick of a replay is part of the promise's callback that starts it. Timers have no
  durations: a pending one may fire at any time, which allows more than the browser.
  Whether the spotlight is visible is derived, as on the page (`SpotlightShown`): it
  outlasts its hold as long as the replay's last event is one of the discovery.

Data is abstracted to what the properties tell apart: an event is its number
(`TicketRun`) or its kind, phase, agent and addressee (`DemoPage`); an answer is its verdict, its
concerns, the alternatives it mentions and its claim of authority; a signal is its
concern; the relation of a pattern to a path and the length of a pattern are tables;
money is small integers, prices thousandths of a dollar.

## 3. What TLC checks

Passing runs.

| Run | Instance | Shows |
|---|---|---|
| `TicketRun_one` | one stream, opened at any moment and possibly abandoned, one polling browser, 3 events | the stream implements `EventFeed`: every event once, in order, the end told last, and it ends; a snapshot that says *done* is whole although its fields are read one by one; a poller sees the end |
| `TicketRun_shared` | two streams that may disconnect, 2 events | what is left with several streams on one queue: the queue holds what was put and not taken, no gap behind a cursor, an event duplicated at most once and for one client, and the queue drains |
| `Deliberation_rounds` | no peer, two peers, or one and a team without agent; 7 answers; 3 rounds (`MCTicketTrace`) | the record of a deliberation and what goes to a human; that the timeline alone tells the whole record at every moment, never changes, and agrees with the one-pager and the finding; that it implements `ReviewBoard`, and that it ends |
| `KafkaNetwork_signals` | all five owners, 257 lists of signals for the one that investigates | the real agents: those and only those whom a signal concerns are asked, in every round, and agree or have no agent; a human is asked only for a cause, they come to one recommendation and in how many rounds, and the page says *signed off* of exactly those who agreed |
| `Consultation_circles` | 3 agents, one not deployed; the coordinator asks the two others, the clients' agent the coordinator; depth 3, the code's limit | a question ends although agents ask each other in circles, and the owner is told what is missing |
| `AgentLLM_ticket` | 3 agents, one of each tier, the whole catalog, every set of usable providers, 17 environments | the cheapest allowed model of those known to be available; an agent's cached resolution says what the router would, and one that has no model would get none for its review either; the ceiling stops the next call |
| `KnowledgeGraph_ingest` | 2 files, 5 texts, 5 names, 2 paths | whole files although ingestion is cut off and repeated; the owner has one of the longest claims; once owned, always owned |
| `Gateway_requests` | 2 requests of every kind, possibly with one id; a listing; 1 worker thread; restarts | an answered run is worked on, and its id leads to a run that is, but for one entered over it and not started; a Jira issue reaches an agent that exists; only one's own id leads to another's run, after a restart too; the table is not changed while it is listed; a request's run ends unless the process restarts or has no thread |
| `DemoPage_clicks` | 3 clicks, 3 polls, a recorded trace of 19 events with everything the cut drops, two live traces | one flow; the page shows the latest click's run and nothing else; nothing is left over the page; banners in order; the panels agree with each other and with the whole trace; a click ends, but for a recorded trace that cannot be fetched |

Violations: runs whose property is a statement of the repository (quoted in
`PROJECT.json` under `findings`) that the code does not keep.

| Run | The code does | Stated in |
|---|---|---|
| `TicketRun_lost` | two streams of one run share its queue: one is told *done* with events unsent | `api/main.py`, `README.md` |
| `KafkaNetwork_quiet` | an owner without signals asks nobody and closes its ticket without a recommendation and without a human | `agents/base_agent.py` |
| `DemoPage_music` | the last frame of a fade-out stops the next replay's track | `web/app/page.tsx` |

More statements of the repository are written down beside the properties of their
modules and are not kept either. None has a run of its own. To see the trace, put the
invariant in the configuration, with the constant named:

| Statement | Where it fails | In |
|---|---|---|
| `NoDuplicates` | a stream sends an event from the queue ahead of its cursor and again from the list | `TicketRun_shared.cfg` |
| `EventsReachSubscriber` | another stream of the run takes the event (a temporal property) | `TicketRun_shared.cfg` |
| `ErrorSnapshotHasMessage` | the status is set before the message | `TicketRun_one.cfg` |
| `OneRecommendation` | two peers back different alternatives; the repository's own agents do not (`ComesToOneRecommendation`) | `Deliberation_rounds.cfg` |
| `AgreementConverges` | "every peer says 'agreed' and no peer raised a new concern" (`agents/base_agent.py:872-873`): a peer that agrees and repeats a known concern withholds its agreement | `Deliberation_rounds.cfg` |
| `PhasesInOrder` | `PHASES` is said to drive the page's stages (`agents/trace.py:22-24`); alternatives are proposed before discovery, and later rounds follow a synthesis | `Deliberation_rounds.cfg` |
| `BackedByName` | every peer recommends "Alternative A", its own, and the owner reads it as the label of one of its three (`agents/base_agent.py:843-844`) | `KafkaNetwork_signals.cfg` |
| `UnroutableSurfaces` | a misspelt concern is dropped without a human | `KafkaNetwork_signals.cfg`, `Declared <- MCTypo` |
| `ReasonNeverRaises` | a misspelt tier override raises | `AgentLLM_ticket.cfg`, `Env <- MCTypo` |
| `CeilingOnPriceIsHard` | a pinned model passes it | `AgentLLM_ticket.cfg`, `Env <- MCPinned` |
| `CeilingStopsNextCall`, without a budget | the gateway attaches none to its agents | `AgentLLM_ticket.cfg`, `Budgeted = FALSE` |
| `TeamsOwnCodepaths` | a team named like a path is that path's entity | `KnowledgeGraph_ingest.cfg` |
| `RulesInPriorityOrder` | a longer glob beats a directory | `KnowledgeGraph_ingest.cfg` with the `Glob...` constants |
| `AnsweredIdIsServed` | an id that is a number is looked up as a string | `Gateway_requests.cfg`, `Ask <- MCNumber` |
| `AnsweredIdIsWorkedOn` | a second ticket with the same id enters its run, and its thread cannot be started: the first client polls a run that is *running* for ever | `Gateway_requests.cfg` |

**Why the bounds are enough.** The faults of a shared queue need two streams; two
events give one behind and one ahead of a cursor, and a third in the run of a sole
stream lets the worker be two ahead of it. That the queue's own invariants hold for any
number of streams and events is proved. In a deliberation the peers' answers are folded
peer by peer, so two peers make every pair of disagreement, and three is the code's
number of rounds. The circles of consultations go to the code's own depth. `AgentLLM`
uses the real catalog; only costs and the ceiling are small. Two files and a path
claimed by two teams give every change of hands. Two requests with one worker thread
have every meeting of ids, and the failing `Thread.start`. Two clicks are one flow and
its successor; a third comes after both. `MaxPolls` is 3 where the code has 200: the
loop only counts. `MaxClicks`, `MaxPolls`, `MaxDepth`, `MaxAsks`, `MaxThreads`,
`MaxEvents` and `MaxRounds` are all the bounds there are.

**Fairness.** Threads that can run eventually do (`TicketRun`: worker, generators,
pollers; `Gateway`: workers and the listing weakly, request handlers strongly since
they compete for a lock that is always given back). A synchronous call makes progress
(`TicketTrace`: `WF(TraceNext)`; `Consultation`: `WF(Next)`). Promises settle and timers fire
(`DemoPage`, per flow). Nothing is assumed of clients, users, editors of files,
providers or crashes. Deadlock is checked except where the modelled activity may be over
(`CHECK_DEADLOCK FALSE`): a run, a deliberation, a consultation, a visit of a page with
a bounded number of clicks.

## 4. What is proved

For every value of the constants, under the named assumptions of the modules (bounds
are naturals, peers are sequences of teams, answers have the fields of an answer,
`Budgeted` for the budget, the concerns of an answer are finite and no answer is a
timeout, a sentinel such as `Nobody` is not a member of the set beside it). Two are about
the page's traces. `TracesAssumption`: one owner, mirrormaker, recorded each, as
`OwnersTrace` says it; `TracesAreTheOwners` proves that of the timelines the network
leaves. `RecordedAssumption`: the recorded trace goes through the steps in turn, and one
that decides anything ends with the 1-pager; `web/public/demo-trace.json` satisfies both.

* `TicketRunProofs`. Types; the content of the queue and the single sentinel for any
  number of streams; no gap behind a cursor; for a sole stream, order and completeness
  and the refinement of `EventFeed`; frozen and whole *done* runs. The inductive
  invariant relates list, queue and history: what was ever put on the queue is what
  was taken followed by what is in it, and a cursor is never past the list. Order
  for one stream needs that it alone took everything. That an event is sent twice to one
  client at most, for any number of streams, rests on `DuplicateInv`: a copy too many
  was taken from the queue, which gives each event out once, so that nobody has one of an
  event that a generator still holds or that is still in the queue.
* `DeliberationProofs`. Types, the shape of the record (`Progress`: every finished
  round asked every peer once and in order, the current one a prefix of them), the
  stop at agreement, the backing of rulings, quiet findings, absent peers, new
  concerns, the agreement of sign-offs and escalations, and the refinement of
  `ReviewBoard`. `Inv` adds to the checked invariants that converged and finding
  summarise the record (`Summarised`), without which nothing links the finding to the
  rounds it was made from.
* The timeline, in `DeliberationProofs` too. A traced deliberation is one (a lemma, since
  each step of `TicketTrace` conjoins one of `Deliberation`), so that all of the above is
  true of it. The timeline is append-only: every step
  only appends (`StepEmits`), but the synthesis events show a list of reviewers that
  later rounds write to: `ReviewersAreSettled` says that once such an event is on the
  timeline the list holds every peer that has an agent, and `Answered`, proved of the
  deliberation, that a later round adds nobody.
* What the timeline and the one-pager say, for a deliberation of any length.
  `TimelineTellsTheRecord` is proved from one invariant per kind of event: the answers told are those of the record without
  their concerns, in its order (`AnswersTold`); the concerns told are those that an answer of
  the record was the first to raise (`ConcernsTold`);
  the last outcome told of an alternative is its outcome (`OutcomesTold`); a convergence
  and an artifact are told once, and last (`EndTold`). Each is a statement about the
  timeline's events of certain kinds (`OfKinds`), and `StepTellsKinds` says once for all
  which kinds a step appends. `DocumentAgrees` rests on these and on three more: every answer heard is in
  the record (`Recorded`), a round that is over was reviewed by every peer that has an agent
  (`ReviewDone`), and the escalations told are those of the finding, told with it
  (`EscalationsTold`). The rest is that points and sign-offs are numbered in one order, so
  that none is lost or listed twice.
* `KafkaNetworkProofs`. A lemma says that each behaviour of the network is one of
  `TicketTrace` with the agents' own answers, so that every theorem of
  `DeliberationProofs` is one about the real agents. On it rest four that are
  only true of them, whatever the directory declares and the owner's signals are. The teams
  asked in every round are those that answer for a signalled concern and nobody else, and
  each agrees in the end or has no agent and is named (`ConsequencesReachTeams`); a concern
  that no team answers for is told on the timeline (`SignalsTold`), and that is all that is done about it. A
  human is asked exactly when the clients' team or a team without an agent answers for
  one; the agents come to the same recommendation, in so many rounds; the page says *signed off* of exactly the peers that
  agreed. The code ensures none of these in one place. They hold because of what an agent may say in
  which round, which is the inductive invariant `KafkaInv`: the peers are those that
  `discover_peers` names for the signals, each only once (`PeersAreDiscovered`); every
  answer in the record is the one its agent's handler gives for its round and for the
  alternatives in front of it (`AnswersAreHandled`); and what the first round leaves
  standing is what all later answers back (`FirstRoundSettles`). Without the last one a
  second round could be thought to begin with alternatives that no handler backs. For
  the page, `TeamsAreTold` and `NamesPeers` say which lanes an event may move, and
  `TracesAreTheOwners` that the timeline is, at any moment, one the panels can show.
* `ConsultationProofs`. Types, the depth bound, and that every cut-off or stray
  citation is carried up the stack to the owner (`AnswerInv`: per frame, the open
  questions gathered so far cover the calls already returned).
* `AgentLLMProofs`. The ceiling stops the next call: `CeilingInv` keeps the
  arithmetic of spent, last and the estimate of the call in flight. A request without a
  pin comes to the cheapest model that may serve it, whatever the environment and the
  availability: the ranking by price, tier and place has a first (`CheapestExists`), and
  preferring free models never changes the price. What the handle of an agent
  without a pin keeps is what the router would say now, and if that is no model, the router has
  none for the tier of a review either, which is all that `NothingLost` says: a model that came up
  after the first probe is lost to both. `GateInv` remembers with which availability the
  handle resolved, and the router does not look twice.
* `KnowledgeGraphProofs`. Types; ingestion is all or nothing for every file; rows keep
  one order. `WholeInv` says what the transaction in progress holds: the committed
  edges and those of the lines already written. The owner of a path has one of the longest
  claims on it, and an owned path stays owned: `RankInv` numbers the rows (`Ranked`), so
  that among the longest claims one is the newest and `Best` is never empty-handed.
* `GatewayProofs`. An answered run is worked on, and its id leads to one that is or to
  one that another request has entered and not started (`PhaseInv` ties each request's place
  to its run's status and worker; `Named`, that an id once entered stays in the table and
  leads to an entered run of its own), listing is safe (from the lock's holder), Jira
  issues reach an agent, and a request leads to another's run only by an id it asked for
  (`Named` tells the ids made by the gateway from those it was given).
* `DemoPageProofs`. At most one flow. `FlowInv` is needed because the finale's Replay
  button is disabled by nothing: the finale is up only when the run is done, because
  the 1-pager is on the page only then. On it rest two more: what the page shows
  is the latest click's (`PageInv`: a flow that waits has shown nothing, and one that
  holds a banner has an event left), and nothing stays up over it alone (`CardsClose`
  for the two timers, `BannerIsHeld`; for the spotlight that outlasts its hold, `UnderWay`: a
  page that says running has a flow that goes on, or shows nothing).
* The banners and the panels, in `DemoPageProofs` too. `BannersComeInOrder` has two halves. The cut
  keeps order: an event is placed by how many kept ones precede it (`CutKeepsOrder`), and what comes
  early or is the 1-pager is kept (`EarlyStepsAreKept`, `CutHasTheBanners`), so that
  the cut goes through the steps as the whole trace does. And a replay has
  shown the banners of exactly the events before its cursor and of the one whose banner is
  up (`BannerInv`).
  `LanesShowTheTrace` takes from `OwnersTrace` who may be an end of a hop; `ReplayInv`
  says that what a flow replays is the cut or a trace of the API, and the cut of an owner's
  trace is one too (`CutIsOwners`), with the same peers.

**Only model-checked.** All liveness (`StreamEnds`, `QueueDrains`, `PollerSeesTheEnd`,
`RunsEnd`, `Decides`, `QuestionEnds`, `ClicksEnd`), which rests on fairness and
ENABLED. Every safety property that a passing run checks is a theorem.

**Lists.** The provers know nothing of `SelectSeq`. `Kept(s, K)` says what it yields by a
recursive function, and `DeliberationProofs` proves once what is needed of it: what an
element appended adds, what two lists joined give, that nothing but the members of `s` in
`K` is kept, and when two filters keep the same. Where only the membership of a filtered list
matters, as in the page's panels, the model names the positions kept
(`SkippedFrom`, `ConsultedFrom`) and no list is built.

**Proved, and in no run's list.** The `TypeOK` of each module, `OneSentinel`,
`EndedRunIsFrozen`, `ExactlyOnceInOrder`, `EveryPeerEveryRound`, `NoRoundAfterAgreement`,
`SignOffsAreEscalated`, `NothingIsTakenBack`, `PageMayRelyOnTrace`, `NeverTooDeep`, `RowsAreOrdered`: TLC agreed
with each on the instances above before it was proved, and the theorem says more than a
run would. `DoneMeansComplete` is proved for a sole stream, which is why `TicketRun_lost`
needs two.

## 5. What is not modelled

* The prose and layout of `design_doc.py`; `llm/cli.py`, which prints the router's tables;
  markup and styles.
* `router/main.py`: no state and no calls. It says that it forwards tickets; it
  answers 202 and does not. There is no behaviour over time to check.
* HTTP of the providers, parsing of CODEOWNERS, front matter and `Ticket` payloads,
  and the texts of questions, answers and findings.
* The server's thread pool and the browser's durations, which are outside the repository.
* `depends_on` and `must_approve` of the knowledge graph: nothing in the repository calls
  them, and no ingester writes the `depends_on` edges the first would walk.
* The fallback that lets an agent name its peers (`_select_peers`, which none overrides), the
  readers `phases_reached` and `to_dict` of a trace, and the aggregated testing strategy
  of a finding. The code drops a point for a human whose text is there already; the texts
  name the team and its reason, so the model has one point per team.

## 6. Plan

Done, in this order: the run of a ticket and its feed; the deliberation and its board;
discovery and the network; consultation; models and budget; the knowledge graph; the
gateway; the page and its panels; the one-pager and the timeline, with the network and the
page's panels composed with it.

Next, model:

1. The composition of `Gateway` with `TicketRun`: a stream or a poll of an id whose run
   is replaced by a second one with the same id.
2. `TicketRun` with the timeline of `TicketTrace` as its events, so that what a poller
   reads half-way is a prefix of the deliberation's record.

Then prove: for the first, that a stream is never given another run's events; for the
second, that the composition implements both `TicketRun` and `TicketTrace`, so that the
theorems of each hold of it.
