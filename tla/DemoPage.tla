------------------------------ MODULE DemoPage ------------------------------
(***************************************************************************)
(* The demo page of the web app (web/app/page.tsx): one React component    *)
(* whose callbacks -- clicks, promises, timers, animation frames -- run    *)
(* one at a time, in an order nothing fixes.  A click starts a FLOW: it    *)
(* asks the API for a run or fetches the recorded trace, waits, and then   *)
(* replays the trace's events one after another, with step banners in the  *)
(* recorded case.  What the page shows (events, 1-pager, overlays, music)  *)
(* is shared by all flows; reset() is all that separates them.             *)
(*                                                                         *)
(* Timers have no durations here: a pending timer may fire at any time.    *)
(* The events of a trace are records; what the panels derive from those on *)
(* the page is in MeshView.                                                *)
(***************************************************************************)
EXTENDS MeshView

CONSTANTS
  MaxClicks,      \* bound: flows started in one visit
  MaxPolls,       \* polls of a run before waitForRun gives up; 200 in the code
  LiveTraces,     \* the traces a run of the API may end with
  RecordedTrace   \* the trace of public/demo-trace.json

ASSUME ClicksAssumption == MaxClicks \in Nat /\ MaxPolls \in Nat \ {0}

ASSUME TracesAssumption ==
  \A events \in LiveTraces \cup {RecordedTrace} :
    events \in Seq(Event) /\ OwnersTrace(events)

Clicks == 1 .. MaxClicks

Waiting == {"post", "poll", "fetch"}     \* a promise of the flow is pending
Replaying == {"tick", "beat"}            \* a timer of the flow's replay is
Live == Waiting \cup Replaying
Over == {"ended", "failed", "stopped"}

VARIABLES
  status,      \* "idle", "running", "done" or "error"
  click,       \* the latest click; 0 before the first
  at,          \* at[c]: where the flow of click c is
  recorded,    \* recorded[c]: the flow replays the recorded trace, cut for film
  polls,       \* polls[c]: unfinished answers waitForRun has seen
  trace,       \* trace[c]: the events the flow replays
  i,           \* i[c]: how many of them it has shown
  seen,        \* seen[c]: the banners it has shown
  stop,        \* stopRef: the flow whose timer stopRef clears; 0 when null
  shown,       \* the events on the page
  doc,         \* the flow whose 1-pager the page holds; 0 when null
  tab,         \* the tab of the traffic dock
  jira, jiraTimer,    \* the Jira overlay, and its timer
  spot, spotTimer,    \* the spotlight's hold, and its timer
  finale,      \* the 1-pager overlay
  beat,        \* the banner on screen; "none" when null
  music,       \* the flow whose track musicRef holds; 0 when null
  playing,     \* that track is playing
  fades        \* the flows whose fade-out loop is running

flowVars == <<at, recorded, polls, trace, i, seen, stop>>
overlays == <<jira, jiraTimer, spot, spotTimer>>
musicVars == <<music, playing, fades>>
vars == <<status, click, flowVars, shown, doc, tab, overlays, finale, beat,
          musicVars>>

-----------------------------------------------------------------------------
(* The cut for film and the step banners, components/BeatCaption.tsx *)

\* demoEvents: no concerns, signals or escalations, and three alternatives
DemoKept(events) ==
  {n \in DOMAIN events :
     /\ events[n].kind \notin {"concern", "signal", "escalation"}
     /\ events[n].kind = "alternative" =>
          Cardinality({m \in 1 .. n : events[m].kind = "alternative"}) <= 3}

DemoEvents(events) ==
  LET kept == DemoKept(events)
  IN  [k \in 1 .. Cardinality(kept) |->
         events[CHOOSE n \in kept : Cardinality({m \in kept : m <= n}) = k]]

RecordedCut == DemoEvents(RecordedTrace)

\* BEATS, by their numbers
Steps == <<"intake", "investigate", "discover", "deliberate", "decide">>

\* beatForEvent, before the check of what was seen; "none" for null
BeatOf(e) ==
  CASE e.kind = "ticket" -> "intake"
    [] e.phase = "investigation" /\ e.kind \in {"tool_call", "finding"} -> "investigate"
    [] e.kind = "peer_decision" -> "discover"
    [] e.kind = "request" -> "deliberate"
    [] e.kind = "artifact" \/ e.phase \in {"artifact", "decision", "synthesis"} -> "decide"
    [] OTHER -> "none"

\* The recorded trace goes through every phase in turn: none of its events is
\* of a step whose predecessor has not begun.  A trace that decides anything
\* ends with the 1-pager.
ASSUME RecordedAssumption ==
  LET step(n) == BeatOf(RecordedTrace[n])
  IN  \A n \in DOMAIN RecordedTrace :
        /\ \A k \in 2 .. 5 :
             step(n) = Steps[k] => \E m \in 1 .. n - 1 : step(m) = Steps[k - 1]
        /\ step(n) = "decide" =>
             \E m \in DOMAIN RecordedTrace : RecordedTrace[m].kind = "artifact"

-----------------------------------------------------------------------------
Init ==
  /\ status = "idle" /\ click = 0
  /\ at = [c \in Clicks |-> "unused"]
  /\ recorded = [c \in Clicks |-> FALSE]
  /\ polls = [c \in Clicks |-> 0]
  /\ trace = [c \in Clicks |-> <<>>]
  /\ i = [c \in Clicks |-> 0]
  /\ seen = [c \in Clicks |-> {}]
  /\ stop = 0
  /\ shown = <<>> /\ doc = 0 /\ tab = "event"
  /\ jira = FALSE /\ jiraTimer = FALSE /\ spot = FALSE /\ spotTimer = FALSE
  /\ finale = FALSE /\ beat = "none"
  /\ music = 0 /\ playing = FALSE /\ fades = {}

(* Mutant: a header button that is never disabled. *)
EveryButtonOn == TRUE

\* Where the Run live and Replay buttons can be clicked: on the splash, which
\* is there while idle, and in the header, where they are disabled while a
\* run is shown.  The finale's own Replay button is not disabled.
ButtonsOn == status # "running"
FinaleReplayOn == finale

(* Mutant: the timers are cleared, what they would have hidden is not. *)
ResetLeavesCards ==
  /\ jiraTimer' = FALSE /\ spotTimer' = FALSE
  /\ shown' = <<>> /\ doc' = 0 /\ tab' = "event"
  /\ finale' = FALSE /\ beat' = "none"
  /\ UNCHANGED <<jira, spot>>

(* Mutant: the events of the last replay stay. *)
ResetKeepsEvents ==
  /\ jiraTimer' = FALSE /\ spotTimer' = FALSE
  /\ UNCHANGED shown /\ doc' = 0 /\ tab' = "event"
  /\ jira' = FALSE /\ finale' = FALSE /\ spot' = FALSE /\ beat' = "none"

\* reset(): what it does to everything but the music
ResetPage ==
  /\ jiraTimer' = FALSE /\ spotTimer' = FALSE
  /\ shown' = <<>> /\ doc' = 0 /\ tab' = "event"
  /\ jira' = FALSE /\ finale' = FALSE /\ spot' = FALSE /\ beat' = "none"

\* stopRef.current?.(): the timer of the flow it belongs to is cleared
Stopped(where) ==
  IF stop # 0 /\ where[stop] \in Replaying THEN [where EXCEPT ![stop] = "stopped"]
                                           ELSE where

\* A click's flow: reset, running, and the first request is sent.
Start(isRecorded, first) ==
  /\ click < MaxClicks
  /\ click' = click + 1
  /\ status' = "running"
  /\ at' = [Stopped(at) EXCEPT ![click + 1] = first]
  /\ recorded' = [recorded EXCEPT ![click + 1] = isRecorded]
  /\ ResetPage
  /\ UNCHANGED <<polls, trace, i, seen, stop, fades>>

\* runLive
RunLive ==
  /\ ButtonsOn
  /\ Start(FALSE, "post")
  /\ playing' = FALSE            \* stopMusic in reset
  /\ UNCHANGED music

\* runRecorded(true), by a button or, on ?demo=1, by the page itself; the
\* browser may refuse to play the track
RunRecorded ==
  /\ ButtonsOn \/ FinaleReplayOn
  /\ Start(TRUE, "fetch")
  /\ music' = click + 1
  /\ playing' \in BOOLEAN

-----------------------------------------------------------------------------
(* Replaying a trace *)

\* pushEvent
PushEvent(e) ==
  /\ shown' = Append(shown, e)
  /\ IF e.kind = "ticket" THEN jira' = TRUE /\ jiraTimer' = TRUE
                          ELSE UNCHANGED <<jira, jiraTimer>>
  /\ IF e.kind = "peer_decision" THEN spot' = TRUE /\ spotTimer' = TRUE
                                 ELSE UNCHANGED <<spot, spotTimer>>

\* advance: the event is shown and the next tick is scheduled
Advance(c, events, n) ==
  /\ beat' = "none"
  /\ PushEvent(events[n + 1])
  /\ i' = [i EXCEPT ![c] = n + 1]
  /\ at' = [at EXCEPT ![c] = "tick"]
  /\ UNCHANGED <<status, doc, finale, fades>>

\* onDone: the 1-pager and its overlay, and the track begins to fade
Done(c) ==
  /\ beat' = "none"
  /\ doc' = c
  /\ status' = "done"
  /\ finale' = TRUE
  /\ at' = [at EXCEPT ![c] = "ended"]
  /\ fades' = IF recorded[c] /\ music # 0 THEN fades \cup {c} ELSE fades
  /\ UNCHANGED <<i, shown, overlays>>

(* Mutant: the set of banners seen is one for all replays. *)
TickSharingSeen(c, events, n) ==
  IF n >= Len(events)
  THEN Done(c) /\ UNCHANGED seen
  ELSE LET b == BeatOf(events[n + 1])
           banner == recorded[c] /\ b # "none" /\ \A d \in Clicks : b \notin seen[d]
       IN  IF banner
           THEN /\ beat' = b
                /\ seen' = [seen EXCEPT ![c] = @ \cup {b}]
                /\ at' = [at EXCEPT ![c] = "beat"]
                /\ UNCHANGED <<i, shown, overlays, status, doc, finale, fades>>
           ELSE Advance(c, events, n) /\ UNCHANGED seen

\* tick, with n events already shown: the end, a banner, or the next event
TickFrom(c, events, n) ==
  IF n >= Len(events)
  THEN Done(c) /\ UNCHANGED seen
  ELSE LET b == BeatOf(events[n + 1])
           banner == recorded[c] /\ b # "none" /\ b \notin seen[c]
       IN  IF banner
           THEN /\ beat' = b
                /\ seen' = [seen EXCEPT ![c] = @ \cup {b}]
                /\ at' = [at EXCEPT ![c] = "beat"]
                /\ UNCHANGED <<i, shown, overlays, status, doc, finale, fades>>
           ELSE Advance(c, events, n) /\ UNCHANGED seen

\* replay(): keep what is shown, remember how to stop it, and the first tick
BeginReplay(c, events) ==
  /\ trace' = [trace EXCEPT ![c] = events]
  /\ stop' = c
  /\ TickFrom(c, events, 0)

Tick(c) ==
  /\ at[c] = "tick"
  /\ TickFrom(c, trace[c], i[c])
  /\ UNCHANGED <<click, recorded, polls, trace, stop, tab, music, playing>>

BannerOver(c) ==
  /\ at[c] = "beat"
  /\ Advance(c, trace[c], i[c])
  /\ UNCHANGED <<click, recorded, polls, trace, seen, stop, tab, music, playing>>

-----------------------------------------------------------------------------
(* Getting the trace *)

\* what a flow leaves alone when it fails or goes on waiting
pageVars == <<click, recorded, trace, i, seen, stop, shown, doc, tab, overlays,
              finale, beat, musicVars>>

\* startDemo answers: the run's id
Posted(c) ==
  /\ at[c] = "post"
  /\ at' = [at EXCEPT ![c] = "poll"]
  /\ UNCHANGED <<status, polls, pageVars>>

(* Mutant: what waitForRun throws when it gives up is not caught. *)
StillRunningUncaught(c) ==
  /\ at[c] = "poll"
  /\ polls' = [polls EXCEPT ![c] = @ + 1]
  /\ IF polls[c] + 1 < MaxPolls
     THEN UNCHANGED at
     ELSE at' = [at EXCEPT ![c] = "ended"]
  /\ UNCHANGED <<status, pageVars>>

\* one turn of waitForRun finds the run unfinished; the last one gives up
StillRunning(c) ==
  /\ at[c] = "poll"
  /\ polls' = [polls EXCEPT ![c] = @ + 1]
  /\ IF polls[c] + 1 < MaxPolls
     THEN UNCHANGED <<at, status>>
     ELSE at' = [at EXCEPT ![c] = "ended"] /\ status' = "error"
  /\ UNCHANGED pageVars

\* the run is done: its trace is replayed
RunIsDone(c) ==
  /\ at[c] = "poll"
  /\ \E events \in LiveTraces : BeginReplay(c, events)
  /\ UNCHANGED <<click, recorded, polls, tab, music, playing>>

\* the run ended in error, or the API answered an error or not at all
LiveFails(c) ==
  /\ at[c] \in {"post", "poll"}
  /\ at' = [at EXCEPT ![c] = "ended"]
  /\ status' = "error"
  /\ UNCHANGED <<polls, pageVars>>

\* the recorded trace arrives, and its cut is replayed
Fetched(c) ==
  /\ at[c] = "fetch"
  /\ BeginReplay(c, RecordedCut)
  /\ UNCHANGED <<click, recorded, polls, tab, music, playing>>

\* the recorded trace cannot be fetched or parsed: runRecorded rejects, and
\* nothing catches it
FetchFails(c) ==
  /\ at[c] = "fetch"
  /\ at' = [at EXCEPT ![c] = "failed"]
  /\ UNCHANGED <<status, polls, pageVars>>

-----------------------------------------------------------------------------
(* Timers, the fade-out, and the other controls *)

JiraTimerFires ==
  /\ jiraTimer
  /\ jiraTimer' = FALSE /\ jira' = FALSE
  /\ UNCHANGED <<status, click, flowVars, shown, doc, tab, spot, spotTimer,
                 finale, beat, musicVars>>

SpotTimerFires ==
  /\ spotTimer
  /\ spotTimer' = FALSE /\ spot' = FALSE
  /\ UNCHANGED <<status, click, flowVars, shown, doc, tab, jira, jiraTimer,
                 finale, beat, musicVars>>

\* The last frame of a fade-out: stopMusic, which stops whatever track
\* musicRef holds by now.
FadeEnds(c) ==
  /\ c \in fades
  /\ fades' = fades \ {c}
  /\ playing' = FALSE
  /\ UNCHANGED <<status, click, flowVars, shown, doc, tab, overlays, finale,
                 beat, music>>

CloseFinale ==
  /\ finale
  /\ finale' = FALSE
  /\ UNCHANGED <<status, click, flowVars, shown, doc, tab, overlays, beat, musicVars>>

\* the 1-pager button at the bottom, there once the run is done
OpenFinale ==
  /\ status = "done"
  /\ finale' = TRUE
  /\ UNCHANGED <<status, click, flowVars, shown, doc, tab, overlays, beat, musicVars>>

\* the tabs of the traffic dock; the 1-pager tab is disabled without one
LogTab ==
  /\ status # "idle"
  /\ tab' = "event"
  /\ UNCHANGED <<status, click, flowVars, shown, doc, overlays, finale, beat, musicVars>>

DocTab ==
  /\ status # "idle" /\ doc # 0
  /\ tab' = "doc"
  /\ finale' = TRUE
  /\ UNCHANGED <<status, click, flowVars, shown, doc, overlays, beat, musicVars>>

-----------------------------------------------------------------------------
(* What of the overlays is visible *)

\* discoveryItems.length > 0: a decision about a peer that has a name
DiscoveryBegun ==
  \E n \in DOMAIN shown : shown[n].kind = "peer_decision" /\ shown[n].to # ""

\* showSpotlight, and what hides it: the hold, or a run whose latest event is
\* one of the discovery; the hold is shorter than the delay after an event of
\* a live run, so the spotlight often outlasts it.
SpotlightShown ==
  /\ ~jira /\ ~finale
  /\ \/ spot
     \/ /\ status = "running" /\ DiscoveryBegun
        /\ Last(shown).phase = "discovery"

-----------------------------------------------------------------------------
FlowStep(c) ==
  \/ Posted(c) \/ StillRunning(c) \/ RunIsDone(c) \/ LiveFails(c)
  \/ Fetched(c) \/ FetchFails(c)
  \/ Tick(c) \/ BannerOver(c)

UserStep == RunLive \/ RunRecorded \/ CloseFinale \/ OpenFinale \/ LogTab \/ DocTab

Next ==
  \/ UserStep
  \/ JiraTimerFires \/ SpotTimerFires
  \/ \E c \in Clicks : FlowStep(c) \/ FadeEnds(c)

Spec == Init /\ [][Next]_vars

\* Promises settle and a replay's timers fire; nobody has to click.
Fairness == \A c \in Clicks : WF_vars(FlowStep(c))

FairSpec == Spec /\ Fairness

-----------------------------------------------------------------------------
(* At most one flow is under way, it is the latest click's, and the page     *)
(* shows "running" all the while: reset() clears only a replay's timer, so   *)
(* a second flow started while the first still waits for its run would have  *)
(* both write to the same page.  Only the buttons being disabled prevents it.*)
OneFlow ==
  \A c \in Clicks : at[c] \in Live => c = click /\ status = "running"

(* What is on the page is of the latest click and of nothing before it: its  *)
(* events are those the click's replay has shown so far, in order and once   *)
(* each; a 1-pager, in the overlay or in the dock, is that click's own; and  *)
(* "done" is shown only with the whole trace and the 1-pager on the page.    *)
PageIsTheClicks ==
  /\ click # 0 => shown = SubSeq(trace[click], 1, i[click])
  /\ doc \in {0, click}
  /\ finale \/ tab = "doc" => doc # 0
  /\ status = "done" <=> doc # 0
  /\ status = "done" => i[click] = Len(trace[click])

(* Nothing that covers the page is left there for good.  The Jira card and   *)
(* the spotlight's hold are up exactly as long as the timer that takes them  *)
(* down is pending (reset clears the timers, so it must hide both itself).   *)
(* The spotlight, which outlasts its hold while the discovery is replayed,   *)
(* is up without a timer of its own only if the latest click's replay goes   *)
(* on and will move past the discovery; and a banner is up exactly while     *)
(* the replay that raised it is holding it.                                  *)
OverlaysClose ==
  /\ jira <=> jiraTimer
  /\ spot <=> spotTimer
  /\ SpotlightShown /\ ~spotTimer => click # 0 /\ at[click] \in Replaying
  /\ beat # "none" <=> \E c \in Clicks : at[c] = "beat"

(* The step banners of a recorded replay come in the order of their numbers, *)
(* without a gap and each once; when the replay is done, each step of the    *)
(* recorded trace has had its banner although the cut drops events.  A live  *)
(* run shows none.                                                           *)
BannersAreSeen ==
  \A c \in Clicks :
    /\ \E n \in 0 .. Len(Steps) : seen[c] = {Steps[k] : k \in 1 .. n}
    /\ at[c] = "ended" /\ recorded[c] =>
         seen[c] = {BeatOf(RecordedTrace[n]) : n \in DOMAIN RecordedTrace} \ {"none"}
    /\ ~recorded[c] => seen[c] = {}

(* The panels agree with each other and with the whole trace.  When the    *)
(* page says done, the lanes signed off are the owner's and those of the    *)
(* agents the trace decided to consult -- the trace as recorded, whatever   *)
(* the cut has dropped -- and every other lane is at rest.  Until then the  *)
(* lanes at work are the two ends of the hop that is drawn, or the one      *)
(* agent in the spotlight.  No link leads to an agent that was skipped.     *)
HopMoods(hop) ==
  CASE hop.kind = "request"  -> <<"asking", "reading">>
    [] hop.kind = "response" -> <<"replying", "reading">>
    [] hop.kind = "consult"  -> <<"thinking", "reading">>
    [] hop.kind = "skip"     -> <<"thinking", "idle">>

LanesAreTrue ==
  LET mood(id) == Mood(shown, status = "done", id)
      hop == CurrentHop(shown)
      whole == IF recorded[click] THEN RecordedTrace ELSE trace[click]
      Peers(events, kept) == {events[n].to : n \in kept}
  IN  /\ status = "done" =>
           \A id \in LiveAgents :
             mood(id) = IF id \in {"mirrormaker"} \cup Peers(whole, ConsultedFrom(whole))
                        THEN "done" ELSE "idle"
      /\ status # "done" /\ hop # NoHop =>
           /\ <<mood(hop.from), mood(hop.to)>> = HopMoods(hop)
           /\ \A id \in LiveAgents \ {hop.from, hop.to} : mood(id) = "idle"
      /\ status # "done" /\ hop = NoHop =>
           \A id \in LiveAgents \ {ActingAgent(shown)} : mood(id) = "idle"
      /\ Peers(shown, SkippedFrom(shown)) \cap UNION MeshLinks(shown) = {}

(* A click always ends: the page leaves "running", in done or in error --    *)
(* unless the recorded trace could not be fetched, whose rejection nothing   *)
(* handles (page.tsx 308).                                                   *)
ClicksEnd ==
  (status = "running") ~> (status # "running" \/ \E c \in Clicks : at[c] = "failed")

(* The track plays until the 1-pager lands: a replay's own track is not      *)
(* stopped while that replay is still showing its trace ("Soft fade-out over *)
(* a few seconds once the 1-pager lands", page.tsx 336).                     *)
MusicLastsTheReplay ==
  [][\A c \in Clicks :
       (music = c /\ playing /\ at[c] \in Live /\ at'[c] \in Live) => playing']_vars
=============================================================================
