--------------------------- MODULE DemoPageProofs ---------------------------
(***************************************************************************)
(* At most one flow of the demo page is under way, what the page shows is  *)
(* that flow's, its overlays come down, its banners come in order and its  *)
(* panels agree with the trace, for any number of clicks, any traces of    *)
(* one owner and any bound on the polls.                                   *)
(*                                                                         *)
(* OneFlow is not inductive: the finale's Replay button starts a flow too, *)
(* and is disabled by nothing.  What saves it is that the finale is up     *)
(* only when the run is done, and that in turn rests on the 1-pager (whose *)
(* tab reopens the finale) being on the page only then.                    *)
(***************************************************************************)
EXTENDS DemoPage, FiniteSetTheorems, TLAPS

Stages == {"unused"} \cup Live \cup Over

FlowInv ==
  /\ at \in [Clicks -> Stages]
  /\ click \in 0 .. MaxClicks
  /\ OneFlow
  /\ doc # 0 => status = "done"
  /\ finale => status = "done"

LEMMA InitFlow == Init => FlowInv
BY ClicksAssumption
   DEF Init, FlowInv, OneFlow, Stages, Live, Waiting, Replaying, Over

\* A click that is let through finds no flow under way, so reset stops none.
LEMMA StartFlow ==
  ASSUME FlowInv, status # "running", NEW r, NEW first \in Live, Start(r, first)
  PROVE  FlowInv'
<1>1. \A c \in Clicks : at[c] \notin Live
  BY DEF FlowInv, OneFlow
<1>2. click + 1 \in Clicks /\ click' \in 0 .. MaxClicks /\ click' = click + 1
  BY ClicksAssumption DEF FlowInv, Start, Clicks
<1>3. Stopped(at) \in [Clicks -> Stages]
      /\ \A c \in Clicks : Stopped(at)[c] \notin Live
  BY <1>1 DEF Stopped, FlowInv, Stages, Over, Live, Waiting, Replaying
<1>4. /\ at' \in [Clicks -> Stages]
      /\ at'[click + 1] = first
      /\ \A c \in Clicks : c # click + 1 => at'[c] \notin Live
  BY <1>2, <1>3 DEF Start, Stages
<1>5. status' = "running" /\ doc' = 0 /\ finale' = FALSE
  BY DEF Start, ResetPage
<1> QED
  BY <1>2, <1>4, <1>5 DEF FlowInv, OneFlow

\* One tick of the flow under way: it stays under way, or it ends the run.
LEMMA TickFlow ==
  ASSUME FlowInv, NEW c \in Clicks, at[c] \in Live, click' = click,
         NEW events, NEW n, TickFrom(c, events, n)
  PROVE  FlowInv'
<1>1. /\ c = click /\ status = "running" /\ ~finale /\ doc = 0
      /\ \A d \in Clicks : d # c => at[d] \notin Live
  BY DEF FlowInv, OneFlow
<1>2. \/ /\ at' = [at EXCEPT ![c] = "tick"] \/ at' = [at EXCEPT ![c] = "beat"]
         /\ UNCHANGED <<status, doc, finale>>
      \/ at' = [at EXCEPT ![c] = "ended"] /\ status' = "done"
  BY DEF TickFrom, Advance, Done
<1>3. CASE /\ at' = [at EXCEPT ![c] = "tick"] \/ at' = [at EXCEPT ![c] = "beat"]
           /\ UNCHANGED <<status, doc, finale>>
  BY <1>1, <1>3 DEF FlowInv, OneFlow, Stages, Live, Replaying
<1>4. CASE at' = [at EXCEPT ![c] = "ended"] /\ status' = "done"
  <2>1. at' \in [Clicks -> Stages] /\ \A d \in Clicks : at'[d] \notin Live
    BY <1>1, <1>4 DEF FlowInv, Stages, Over, Live, Waiting, Replaying
  <2> QED
    BY <2>1, <1>4 DEF FlowInv, OneFlow
<1> QED
  BY <1>2, <1>3, <1>4

\* A flow under way that goes on waiting, or that fails.
LEMMA WaitFlow ==
  ASSUME FlowInv, NEW c \in Clicks, at[c] \in Live,
         UNCHANGED <<click, doc, finale>>,
         \/ at' = [at EXCEPT ![c] = "poll"] /\ UNCHANGED status
         \/ UNCHANGED <<at, status>>
         \/ at' = [at EXCEPT ![c] = "ended"] /\ status' = "error"
         \/ at' = [at EXCEPT ![c] = "failed"] /\ UNCHANGED status
  PROVE  FlowInv'
<1>1. /\ c = click /\ status = "running" /\ ~finale /\ doc = 0
      /\ \A d \in Clicks : d # c => at[d] \notin Live
  BY DEF FlowInv, OneFlow
<1>2. at' \in [Clicks -> Stages]
  BY DEF FlowInv, Stages, Over, Live, Waiting
<1> QED
  BY <1>1, <1>2 DEF FlowInv, OneFlow, Stages, Over, Live, Waiting, Replaying

LEMMA NextFlow == FlowInv /\ [Next]_vars => FlowInv'
<1> SUFFICES ASSUME FlowInv, [Next]_vars PROVE FlowInv'
  OBVIOUS
<1>1. CASE RunLive
  BY <1>1, StartFlow DEF RunLive, ButtonsOn, Live, Waiting
<1>2. CASE RunRecorded
  <2>1. status # "running"
    BY <1>2 DEF RunRecorded, ButtonsOn, FinaleReplayOn, FlowInv
  <2> QED
    BY <2>1, <1>2, StartFlow DEF RunRecorded, Live, Waiting
<1>3. CASE CloseFinale \/ OpenFinale \/ LogTab \/ DocTab
  BY <1>3 DEF CloseFinale, OpenFinale, LogTab, DocTab, flowVars, FlowInv, OneFlow
<1>4. CASE JiraTimerFires \/ SpotTimerFires \/ \E c \in Clicks : FadeEnds(c)
  BY <1>4 DEF JiraTimerFires, SpotTimerFires, FadeEnds, flowVars, FlowInv, OneFlow
<1>5. ASSUME NEW c \in Clicks, FlowStep(c) PROVE FlowInv'
  <2>1. CASE Posted(c) \/ StillRunning(c) \/ LiveFails(c) \/ FetchFails(c)
    BY <2>1, WaitFlow
       DEF Posted, StillRunning, LiveFails, FetchFails, pageVars, Live, Waiting
  <2>2. CASE RunIsDone(c)
    BY <2>2, TickFlow DEF RunIsDone, BeginReplay, Live, Waiting
  <2>3. CASE Fetched(c)
    BY <2>3, TickFlow DEF Fetched, BeginReplay, Live, Waiting
  <2>4. CASE Tick(c)
    BY <2>4, TickFlow DEF Tick, Live, Replaying
  <2>5. CASE BannerOver(c)
    <3>1. /\ c = click /\ status = "running" /\ ~finale /\ doc = 0
          /\ \A d \in Clicks : d # c => at[d] \notin Live
      BY <2>5 DEF BannerOver, Live, Replaying, FlowInv, OneFlow
    <3>2. at' = [at EXCEPT ![c] = "tick"] /\ UNCHANGED <<click, status, doc, finale>>
      BY <2>5 DEF BannerOver, Advance
    <3> QED
      BY <3>1, <3>2 DEF FlowInv, OneFlow, Stages, Live, Replaying
  <2> QED
    BY <1>5, <2>1, <2>2, <2>3, <2>4, <2>5 DEF FlowStep
<1>6. CASE UNCHANGED vars
  BY <1>6 DEF vars, flowVars, FlowInv, OneFlow
<1> QED
  BY <1>1, <1>2, <1>3, <1>4, <1>5, <1>6 DEF Next, UserStep

(* However many times the buttons are clicked, no two flows write to the     *)
(* page at once, whatever the traces are and however long a run takes.       *)
THEOREM AtMostOneFlow == Spec => []OneFlow
<1>1. FlowInv => OneFlow
  BY DEF FlowInv
<1> QED
  BY <1>1, InitFlow, NextFlow, PTL DEF Spec

LEMMA FlowHolds == Spec => []FlowInv
<1> QED
  BY InitFlow, NextFlow, PTL DEF Spec

-----------------------------------------------------------------------------
(* What is on the page is the latest click's. *)

\* The cut for film is a trace again, whatever it cuts.
LEMMA CutIsTrace ==
  ASSUME NEW events \in Seq(Event)
  PROVE  \E S : DemoEvents(events) \in Seq(S)
<1> DEFINE kept == DemoKept(events)
           n == Cardinality(kept)
           f == [k \in 1 .. n |->
                   events[CHOOSE m \in kept : Cardinality({l \in kept : l <= m}) = k]]
           S == {f[k] : k \in 1 .. n}
<1>1. DOMAIN events = 1 .. Len(events) /\ Len(events) \in Nat
  OBVIOUS
<1>2. kept \subseteq 1 .. Len(events)
  BY <1>1 DEF DemoKept
<1>3. DemoEvents(events) = f
  BY DEF DemoEvents
<1>4. f \in [1 .. n -> S]
  OBVIOUS
<1> HIDE DEF f, S, kept
<1>5. IsFiniteSet(kept)
  <2>1. IsFiniteSet(1 .. Len(events))
    BY <1>1, FS_Interval
  <2> QED
    BY <1>2, <2>1, FS_Subset
<1>6. n \in Nat
  BY <1>5, FS_CardinalityType
<1> HIDE DEF n
<1>7. f \in Seq(S)
  BY <1>4, <1>6
<1> QED
  BY <1>3, <1>7

\* What a flow may replay.
IsTrace(events) == \E S : events \in Seq(S)

LEMMA TracesAreTraces ==
  /\ IsTrace(<<>>) /\ IsTrace(RecordedCut)
  /\ \A events \in LiveTraces : IsTrace(events)
BY TracesAssumption, CutIsTrace DEF IsTrace, RecordedCut

LEMMA TraceFacts ==
  ASSUME NEW events, IsTrace(events)
  PROVE  /\ Len(events) \in Nat
         /\ SubSeq(events, 1, 0) = <<>>
         /\ \A n \in Nat : n < Len(events) =>
              Append(SubSeq(events, 1, n), events[n + 1]) = SubSeq(events, 1, n + 1)
<1>1. PICK S : events \in Seq(S)
  BY DEF IsTrace
<1>2. Len(events) \in Nat /\ SubSeq(events, 1, 0) = <<>>
  BY <1>1
<1>3. ASSUME NEW n \in Nat, n < Len(events)
      PROVE  Append(SubSeq(events, 1, n), events[n + 1]) = SubSeq(events, 1, n + 1)
  BY <1>1, <1>3
<1> QED
  BY <1>2, <1>3

\* Besides PageIsTheClicks: a flow that waits has shown nothing yet, one that
\* holds a banner has an event to show, and no later click has left a mark.
PageInv ==
  /\ i \in [Clicks -> Nat]
  /\ trace = [c \in Clicks |-> trace[c]]
  /\ \A c \in Clicks : IsTrace(trace[c]) /\ i[c] <= Len(trace[c])
  /\ \A c \in Clicks :
       at[c] \in Waiting \/ c > click => i[c] = 0 /\ trace[c] = <<>>
  /\ \A c \in Clicks : at[c] = "beat" => i[c] < Len(trace[c])
  /\ PageIsTheClicks

LEMMA InitPage == Init => PageInv
<1> SUFFICES ASSUME Init PROVE PageInv
  OBVIOUS
<1>1. Len(<<>>) = 0
  OBVIOUS
<1> QED
  BY <1>1, TracesAreTraces, ClicksAssumption
     DEF Init, PageInv, PageIsTheClicks, Clicks, Waiting

\* A click begins with an empty page.
LEMMA StartPage ==
  ASSUME FlowInv, PageInv, status # "running",
         NEW r, NEW first \in Waiting, Start(r, first)
  PROVE  PageInv'
<1>1. \A c \in Clicks : at[c] \notin Live
  BY DEF FlowInv, OneFlow
<1>2. click + 1 \in Clicks /\ click' = click + 1 /\ click \in Nat
  BY ClicksAssumption DEF FlowInv, Start, Clicks
<1>3. \A c \in Clicks : Stopped(at)[c] = at[c]
  BY <1>1 DEF Stopped, FlowInv, Live
<1>4. /\ shown' = <<>> /\ doc' = 0 /\ tab' = "event" /\ finale' = FALSE
      /\ status' = "running" /\ i' = i /\ trace' = trace
      /\ at' = [Stopped(at) EXCEPT ![click + 1] = first]
  BY DEF Start, ResetPage
<1>5. Stopped(at) \in [Clicks -> Stages]
  BY DEF Stopped, FlowInv, Stages, Over
<1>6. \A c \in Clicks : c # click + 1 => at'[c] = at[c]
  BY <1>2, <1>3, <1>4, <1>5
<1>7. at'[click + 1] = first /\ first # "beat"
  BY <1>2, <1>4, <1>5 DEF Waiting
<1>8. i[click + 1] = 0 /\ trace[click + 1] = <<>>
  BY <1>2 DEF PageInv
<1>9. PageIsTheClicks'
  BY <1>2, <1>4, <1>8, TraceFacts, TracesAreTraces DEF PageIsTheClicks
<1>10. \A c \in Clicks :
         at'[c] \in Waiting \/ c > click' => i[c] = 0 /\ trace[c] = <<>>
  BY <1>2, <1>6, <1>8 DEF PageInv, Clicks
<1> QED
  BY <1>4, <1>6, <1>7, <1>9, <1>10 DEF PageInv

\* The next event of the click's trace joins those on the page.
LEMMA AdvancePage ==
  ASSUME FlowInv, PageInv, NEW c \in Clicks, at[c] \in Live,
         NEW events, IsTrace(events), NEW n \in Nat, n < Len(events),
         i[c] = n, shown = SubSeq(events, 1, n),
         trace' = [trace EXCEPT ![c] = events],
         Advance(c, events, n), click' = click, tab' = tab
  PROVE  PageInv'
<1>1. /\ c = click /\ status = "running" /\ doc = 0 /\ ~finale /\ tab # "doc"
      /\ click # 0
  BY ClicksAssumption DEF FlowInv, OneFlow, PageInv, PageIsTheClicks, Clicks
<1>2. /\ trace' = [d \in Clicks |-> trace'[d]] /\ trace'[c] = events
      /\ \A d \in Clicks : d # c => trace'[d] = trace[d]
  BY DEF PageInv
<1>3. Len(events) \in Nat
  BY TraceFacts
<1>4. /\ shown' = Append(shown, events[n + 1])
      /\ i' = [i EXCEPT ![c] = n + 1]
      /\ at' = [at EXCEPT ![c] = "tick"]
      /\ UNCHANGED <<status, doc, finale>>
  BY DEF Advance, PushEvent
<1>5. /\ at'[c] = "tick" /\ i'[c] = n + 1 /\ i' \in [Clicks -> Nat]
      /\ \A d \in Clicks : d # c => at'[d] = at[d] /\ i'[d] = i[d]
  BY <1>4 DEF FlowInv, PageInv
<1>6. shown' = SubSeq(events, 1, n + 1)
  BY <1>4, TraceFacts
<1>7. PageIsTheClicks'
  BY <1>1, <1>2, <1>4, <1>5, <1>6 DEF PageIsTheClicks
<1> QED
  BY <1>1, <1>2, <1>3, <1>5, <1>7 DEF PageInv, Waiting, Clicks

\* A tick shows the next event, holds a banner before it, or ends the replay.
LEMMA TickPage ==
  ASSUME FlowInv, PageInv, NEW c \in Clicks, at[c] \in Live,
         NEW events, IsTrace(events), NEW n \in Nat, n <= Len(events),
         i[c] = n, shown = SubSeq(events, 1, n),
         trace' = [trace EXCEPT ![c] = events],
         TickFrom(c, events, n), click' = click, tab' = tab
  PROVE  PageInv'
<1>1. /\ c = click /\ status = "running" /\ doc = 0 /\ ~finale /\ tab # "doc"
      /\ click # 0
  BY ClicksAssumption DEF FlowInv, OneFlow, PageInv, PageIsTheClicks, Clicks
<1>2. /\ trace' = [d \in Clicks |-> trace'[d]] /\ trace'[c] = events
      /\ \A d \in Clicks : d # c => trace'[d] = trace[d]
  BY DEF PageInv
<1>3. Len(events) \in Nat
  BY TraceFacts
<1>4. CASE n >= Len(events)
  <2>1. Done(c)
    BY <1>4 DEF TickFrom
  <2>2. /\ n = Len(events)
        /\ doc' = c /\ status' = "done" /\ i' = i /\ shown' = shown
        /\ at' = [at EXCEPT ![c] = "ended"]
    BY <1>3, <1>4, <2>1 DEF Done
  <2>3. PageIsTheClicks'
    BY <1>1, <1>2, <2>2 DEF PageIsTheClicks
  <2>4. /\ at'[c] = "ended"
        /\ \A d \in Clicks : d # c => at'[d] = at[d]
    BY <2>2 DEF FlowInv
  <2> QED
    BY <1>1, <1>2, <1>3, <2>2, <2>3, <2>4 DEF PageInv, Waiting, Clicks
<1>5. CASE n < Len(events)
  <2>1. \/ /\ at' = [at EXCEPT ![c] = "beat"]
           /\ UNCHANGED <<i, shown, status, doc, finale>>
        \/ Advance(c, events, n)
    BY <1>3, <1>5 DEF TickFrom, overlays
  <2>2. CASE /\ at' = [at EXCEPT ![c] = "beat"]
             /\ UNCHANGED <<i, shown, status, doc, finale>>
    <3>1. PageIsTheClicks'
      BY <1>1, <1>2, <2>2 DEF PageIsTheClicks
    <3>2. /\ at'[c] = "beat"
          /\ \A d \in Clicks : d # c => at'[d] = at[d]
      BY <2>2 DEF FlowInv
    <3> QED
      BY <1>1, <1>2, <1>3, <1>5, <2>2, <3>1, <3>2 DEF PageInv, Waiting, Clicks
  <2>3. CASE Advance(c, events, n)
    BY <1>5, <2>3, AdvancePage
  <2> QED
    BY <2>1, <2>2, <2>3
<1> QED
  BY <1>3, <1>4, <1>5

LEMMA NextPage == FlowInv /\ PageInv /\ [Next]_vars => PageInv'
<1> SUFFICES ASSUME FlowInv, PageInv, [Next]_vars PROVE PageInv'
  OBVIOUS
<1>1. CASE RunLive
  BY <1>1, StartPage DEF RunLive, ButtonsOn, Waiting
<1>2. CASE RunRecorded
  <2>1. status # "running"
    BY <1>2 DEF RunRecorded, ButtonsOn, FinaleReplayOn, FlowInv
  <2> QED
    BY <2>1, <1>2, StartPage DEF RunRecorded, Waiting
<1>3. CASE CloseFinale \/ OpenFinale \/ LogTab \/ DocTab
  <2>1. UNCHANGED <<status, click, at, trace, i, shown, doc>>
    BY <1>3 DEF CloseFinale, OpenFinale, LogTab, DocTab, flowVars
  <2>2. finale' \/ tab' = "doc" => doc # 0
    BY <1>3 DEF CloseFinale, OpenFinale, LogTab, DocTab, PageInv, PageIsTheClicks
  <2>3. PageIsTheClicks'
    BY <2>1, <2>2 DEF PageInv, PageIsTheClicks
  <2> QED
    BY <2>1, <2>3 DEF PageInv
<1>4. CASE JiraTimerFires \/ SpotTimerFires \/ \E c \in Clicks : FadeEnds(c)
  <2>1. UNCHANGED <<status, click, at, trace, i, shown, doc, tab, finale>>
    BY <1>4 DEF JiraTimerFires, SpotTimerFires, FadeEnds, flowVars
  <2> QED
    BY <2>1 DEF PageInv, PageIsTheClicks
<1>5. ASSUME NEW c \in Clicks, FlowStep(c) PROVE PageInv'
  <2>1. at[c] \in Live
    BY <1>5 DEF FlowStep, Posted, StillRunning, RunIsDone, LiveFails, Fetched,
                FetchFails, Tick, BannerOver, Live, Waiting, Replaying
  <2>2. c = click /\ status = "running" /\ doc = 0 /\ click # 0
    BY <2>1 DEF FlowInv, OneFlow, PageInv, PageIsTheClicks, Clicks
  <2>3. CASE at[c] \in Waiting /\ ~(RunIsDone(c) \/ Fetched(c))
    <3>1. /\ UNCHANGED <<click, i, trace, shown, doc, tab, finale>>
          /\ status' # "done" /\ at'[c] # "beat"
          /\ \A d \in Clicks : d # c => at'[d] = at[d]
      BY <1>5, <2>2, <2>3
         DEF FlowStep, Posted, StillRunning, LiveFails, FetchFails, Tick,
             BannerOver, pageVars, FlowInv, Waiting
    <3>2. PageIsTheClicks'
      BY <2>2, <3>1 DEF PageInv, PageIsTheClicks
    <3> QED
      BY <2>2, <2>3, <3>1, <3>2 DEF PageInv, Clicks
  <2>4. CASE RunIsDone(c) \/ Fetched(c)
    <3>1. PICK events : /\ BeginReplay(c, events) /\ IsTrace(events)
                        /\ UNCHANGED <<click, tab>> /\ at[c] \in Waiting
      BY <2>4, TracesAreTraces DEF RunIsDone, Fetched, Waiting
    <3>2. i[c] = 0 /\ trace[c] = <<>>
      BY <3>1 DEF PageInv
    <3>3. shown = SubSeq(events, 1, i[c]) /\ i[c] \in Nat /\ i[c] <= Len(events)
      BY <2>2, <3>1, <3>2, TraceFacts, TracesAreTraces DEF PageInv, PageIsTheClicks
    <3>4. trace' = [trace EXCEPT ![c] = events] /\ TickFrom(c, events, i[c])
      BY <3>1, <3>2 DEF BeginReplay
    <3> QED
      BY <2>1, <3>1, <3>3, <3>4, TickPage
  <2>5. CASE Tick(c) \/ BannerOver(c)
    <3>1. trace' = [trace EXCEPT ![c] = trace[c]] /\ UNCHANGED <<click, tab>>
      BY <2>5 DEF Tick, BannerOver, PageInv
    <3>2. shown = SubSeq(trace[c], 1, i[c]) /\ i[c] \in Nat /\ i[c] <= Len(trace[c])
          /\ IsTrace(trace[c])
      BY <2>2 DEF PageInv, PageIsTheClicks
    <3>3. CASE Tick(c)
      BY <2>1, <3>1, <3>2, <3>3, TickPage DEF Tick
    <3>4. CASE BannerOver(c)
      BY <2>1, <2>2, <3>1, <3>2, <3>4, AdvancePage DEF BannerOver, PageInv
    <3> QED
      BY <2>5, <3>3, <3>4
  <2> QED
    BY <1>5, <2>1, <2>3, <2>4, <2>5
       DEF FlowStep, Posted, StillRunning, LiveFails, FetchFails, Waiting
<1>6. CASE UNCHANGED vars
  BY <1>6 DEF vars, flowVars, PageInv, PageIsTheClicks
<1> QED
  BY <1>1, <1>2, <1>3, <1>4, <1>5, <1>6 DEF Next, UserStep

\* Nothing of an earlier run is ever left on the page, and a run that is said
\* to be done is there whole, whatever the traces and however often and
\* whenever the buttons are clicked.
THEOREM PageShowsTheClick == Spec => []PageIsTheClicks
<1>1. FlowInv /\ PageInv /\ [Next]_vars => PageInv'
  BY NextPage
<1>2. PageInv => PageIsTheClicks
  BY DEF PageInv
<1> QED
  BY <1>1, <1>2, InitPage, FlowHolds, PTL DEF Spec

-----------------------------------------------------------------------------
(* What covers the page comes down. *)

CardsClose == /\ jira \in BOOLEAN /\ jiraTimer = jira
              /\ spot \in BOOLEAN /\ spotTimer = spot

BannerIsHeld == beat # "none" <=> \E c \in Clicks : at[c] = "beat"

LEMMA InitOverlays == Init => CardsClose /\ BannerIsHeld
BY DEF Init, CardsClose, BannerIsHeld

\* Every action that puts a card up starts its timer, and every action that
\* clears a timer takes its card down.
LEMMA NextCards == CardsClose /\ [Next]_vars => CardsClose'
<1> SUFFICES ASSUME CardsClose, [Next]_vars PROVE CardsClose'
  OBVIOUS
<1>1. ASSUME NEW e, PushEvent(e) PROVE CardsClose'
  BY <1>1 DEF PushEvent, CardsClose
<1>2. ASSUME NEW c, NEW events, NEW n, TickFrom(c, events, n) PROVE CardsClose'
  <2>1. UNCHANGED overlays \/ PushEvent(events[n + 1])
    BY <1>2 DEF TickFrom, Done, Advance, overlays
  <2> QED
    BY <1>1, <2>1 DEF overlays, CardsClose
<1>3. ASSUME NEW r, NEW first, Start(r, first) PROVE CardsClose'
  BY <1>3 DEF Start, ResetPage, CardsClose
<1>4. CASE RunLive \/ RunRecorded
  BY <1>3, <1>4 DEF RunLive, RunRecorded
<1>5. ASSUME NEW c, FlowStep(c) PROVE CardsClose'
  <2>1. CASE Posted(c) \/ StillRunning(c) \/ LiveFails(c) \/ FetchFails(c)
    BY <2>1 DEF Posted, StillRunning, LiveFails, FetchFails, pageVars, overlays,
                CardsClose
  <2>2. CASE RunIsDone(c) \/ Fetched(c) \/ Tick(c)
    BY <1>2, <2>2 DEF RunIsDone, Fetched, BeginReplay, Tick
  <2>3. CASE BannerOver(c)
    BY <1>1, <2>3 DEF BannerOver, Advance
  <2> QED
    BY <1>5, <2>1, <2>2, <2>3 DEF FlowStep
<1>6. CASE JiraTimerFires \/ SpotTimerFires
  BY <1>6 DEF JiraTimerFires, SpotTimerFires, CardsClose
<1>7. CASE \/ CloseFinale \/ OpenFinale \/ LogTab \/ DocTab
           \/ \E c \in Clicks : FadeEnds(c)
           \/ UNCHANGED vars
  <2>1. UNCHANGED overlays
    BY <1>7 DEF CloseFinale, OpenFinale, LogTab, DocTab, FadeEnds, vars
  <2> QED
    BY <2>1 DEF overlays, CardsClose
<1> QED
  BY <1>4, <1>5, <1>6, <1>7 DEF Next, UserStep

\* A flow's step puts a banner up and takes it down with the flow's own state.
LEMMA StepBanner ==
  ASSUME FlowInv, BannerIsHeld, NEW c \in Clicks, FlowStep(c)
  PROVE  BannerIsHeld'
<1>1. at[c] \in Live
  BY DEF FlowStep, Posted, StillRunning, RunIsDone, LiveFails, Fetched,
         FetchFails, Tick, BannerOver, Live, Waiting, Replaying
<1>2. \A d \in Clicks : d # c => at[d] # "beat"
  BY <1>1 DEF FlowInv, OneFlow, Live, Replaying
<1>3. ASSUME NEW events, NEW n, TickFrom(c, events, n) PROVE BannerIsHeld'
  <2>1. \/ beat' = "none" /\ (at' = [at EXCEPT ![c] = "tick"]
                              \/ at' = [at EXCEPT ![c] = "ended"])
        \/ beat' # "none" /\ at' = [at EXCEPT ![c] = "beat"]
    BY <1>3 DEF TickFrom, Advance, Done
  <2> QED
    BY <1>2, <2>1 DEF BannerIsHeld, FlowInv
<1>4. CASE RunIsDone(c) \/ Fetched(c) \/ Tick(c)
  BY <1>3, <1>4 DEF RunIsDone, Fetched, BeginReplay, Tick
<1>5. CASE BannerOver(c)
  BY <1>2, <1>5 DEF BannerOver, Advance, BannerIsHeld, FlowInv
<1>6. CASE Posted(c) \/ StillRunning(c) \/ LiveFails(c) \/ FetchFails(c)
  <2>1. beat' = beat /\ at[c] # "beat"
    BY <1>6 DEF Posted, StillRunning, LiveFails, FetchFails, pageVars
  <2>2. \/ at' = at
        \/ at' = [at EXCEPT ![c] = "poll"] \/ at' = [at EXCEPT ![c] = "ended"]
        \/ at' = [at EXCEPT ![c] = "failed"]
    BY <1>6 DEF Posted, StillRunning, LiveFails, FetchFails
  <2> QED
    BY <2>1, <2>2 DEF BannerIsHeld, FlowInv
<1> QED
  BY <1>4, <1>5, <1>6 DEF FlowStep

LEMMA NextBanner == FlowInv /\ BannerIsHeld /\ [Next]_vars => BannerIsHeld'
<1> SUFFICES ASSUME FlowInv, BannerIsHeld, [Next]_vars PROVE BannerIsHeld'
  OBVIOUS
<1>1. CASE RunLive \/ RunRecorded
  <2>1. status # "running"
    BY <1>1 DEF RunLive, RunRecorded, ButtonsOn, FinaleReplayOn, FlowInv
  <2>2. PICK first \in Waiting : \E r : Start(r, first)
    BY <1>1 DEF RunLive, RunRecorded, Waiting
  <2>3. beat' = "none" /\ at' = [Stopped(at) EXCEPT ![click + 1] = first]
    BY <2>2 DEF Start, ResetPage
  <2>4. \A c \in Clicks : at[c] # "beat"
    BY <2>1 DEF FlowInv, OneFlow, Live, Replaying
  <2>5. Stopped(at) = at \/ Stopped(at) = [at EXCEPT ![stop] = "stopped"]
    BY DEF Stopped
  <2>6. \A c \in Clicks : at'[c] # "beat"
    BY <2>3, <2>4, <2>5 DEF FlowInv, Waiting
  <2> QED
    BY <2>3, <2>6 DEF BannerIsHeld
<1>2. ASSUME NEW c \in Clicks, FlowStep(c) PROVE BannerIsHeld'
  BY <1>2, StepBanner
<1>3. CASE \/ CloseFinale \/ OpenFinale \/ LogTab \/ DocTab
           \/ JiraTimerFires \/ SpotTimerFires
           \/ \E c \in Clicks : FadeEnds(c)
           \/ UNCHANGED vars
  <2>1. beat' = beat /\ at' = at
    BY <1>3 DEF CloseFinale, OpenFinale, LogTab, DocTab, JiraTimerFires,
                SpotTimerFires, FadeEnds, vars, flowVars
  <2> QED
    BY <2>1 DEF BannerIsHeld
<1> QED
  BY <1>1, <1>2, <1>3 DEF Next, UserStep

\* A page that says running has a flow under way, or shows nothing because
\* the recorded trace could not be fetched.
UnderWay ==
  status = "running" =>
    /\ click # 0
    /\ at[click] \in Live \/ (at[click] = "failed" /\ i[click] = 0)

LEMMA InitUnderWay == Init => UnderWay
BY DEF Init, UnderWay

LEMMA NextUnderWay == FlowInv /\ PageInv /\ UnderWay /\ [Next]_vars => UnderWay'
<1> SUFFICES ASSUME FlowInv, PageInv, UnderWay, [Next]_vars PROVE UnderWay'
  OBVIOUS
<1>1. CASE RunLive \/ RunRecorded
  <2>1. PICK first \in Waiting : \E r : Start(r, first)
    BY <1>1 DEF RunLive, RunRecorded, Waiting
  <2>2. /\ click' = click + 1 /\ click < MaxClicks
        /\ at' = [Stopped(at) EXCEPT ![click + 1] = first]
    BY <2>1 DEF Start
  <2>3. click + 1 \in Clicks /\ click + 1 # 0
    BY <2>2, ClicksAssumption DEF FlowInv, Clicks
  <2>4. Stopped(at) \in [Clicks -> Stages]
    BY DEF Stopped, FlowInv, Stages, Over
  <2>5. at'[click + 1] = first
    BY <2>2, <2>3, <2>4
  <2> QED
    BY <2>2, <2>3, <2>5 DEF UnderWay, Live
<1>2. ASSUME NEW c \in Clicks, FlowStep(c) PROVE UnderWay'
  <2>1. at[c] \in Live
    BY <1>2 DEF FlowStep, Posted, StillRunning, RunIsDone, LiveFails, Fetched,
                FetchFails, Tick, BannerOver, Live, Waiting, Replaying
  <2>2. c = click /\ c # 0
    BY <2>1 DEF FlowInv, OneFlow, Clicks
  <2>3. ASSUME NEW events, NEW n, TickFrom(c, events, n) PROVE status' = "done" \/ at'[c] \in Live
    BY <2>3 DEF TickFrom, Done, Advance, FlowInv, Live, Replaying
  <2>4. CASE RunIsDone(c) \/ Fetched(c) \/ Tick(c)
    <3>1. click' = click
      BY <2>4 DEF RunIsDone, Fetched, Tick
    <3>2. status' = "done" \/ at'[c] \in Live
      BY <2>3, <2>4 DEF RunIsDone, Fetched, Tick, BeginReplay
    <3> QED
      BY <2>2, <3>1, <3>2 DEF UnderWay
  <2>5. CASE BannerOver(c)
    <3>1. click' = click /\ at'[c] = "tick"
      BY <2>5 DEF BannerOver, Advance, FlowInv
    <3> QED
      BY <2>2, <3>1 DEF UnderWay, Live, Replaying
  <2>6. CASE Posted(c) \/ StillRunning(c) \/ LiveFails(c) \/ FetchFails(c)
    <3>1. click' = click /\ i' = i
      BY <2>6 DEF Posted, StillRunning, LiveFails, FetchFails, pageVars
    <3>2. \/ at'[c] = at[c] \/ at'[c] = "poll" \/ status' = "error"
          \/ at'[c] = "failed" /\ at[c] = "fetch"
      BY <2>6 DEF Posted, StillRunning, LiveFails, FetchFails, FlowInv
    <3>3. at[c] = "fetch" => i[c] = 0
      BY DEF PageInv, Waiting
    <3> QED
      BY <2>1, <2>2, <3>1, <3>2, <3>3 DEF UnderWay, Live, Waiting
  <2> QED
    BY <1>2, <2>4, <2>5, <2>6 DEF FlowStep
<1>3. CASE \/ CloseFinale \/ OpenFinale \/ LogTab \/ DocTab
           \/ JiraTimerFires \/ SpotTimerFires
           \/ \E c \in Clicks : FadeEnds(c)
           \/ UNCHANGED vars
  <2>1. UNCHANGED <<status, click, at, i>>
    BY <1>3 DEF CloseFinale, OpenFinale, LogTab, DocTab, JiraTimerFires,
                SpotTimerFires, FadeEnds, vars, flowVars
  <2> QED
    BY <2>1 DEF UnderWay
<1> QED
  BY <1>1, <1>2, <1>3 DEF Next, UserStep

\* The spotlight that outlasts its hold: something is shown, so the flow of
\* the latest click is neither waiting nor failed.
LEMMA SpotlightIsMoved ==
  ASSUME FlowInv, PageInv, UnderWay, CardsClose, SpotlightShown, ~spotTimer
  PROVE  click # 0 /\ at[click] \in Replaying
<1>1. status = "running" /\ DiscoveryBegun
  BY DEF SpotlightShown, CardsClose
<1>2. click # 0 /\ click \in Clicks
  BY <1>1 DEF UnderWay, FlowInv, Clicks
<1>3. shown = SubSeq(trace[click], 1, i[click]) /\ i[click] \in Nat
  BY <1>2 DEF PageInv, PageIsTheClicks
<1>4. i[click] # 0
  <2>1. DOMAIN shown # {}
    BY <1>1 DEF DiscoveryBegun
  <2>2. i[click] = 0 => shown = <<>>
    BY <1>3
  <2> QED
    BY <2>1, <2>2
<1>5. at[click] \notin Waiting
  BY <1>2, <1>4 DEF PageInv
<1> QED
  BY <1>1, <1>2, <1>4, <1>5 DEF UnderWay, Live

\* Nothing is left over the page: each card that is up has a timer that takes
\* it down, the spotlight that has none a replay that moves on, and each
\* banner a replay that is holding it.
THEOREM OverlaysComeDown == Spec => []OverlaysClose
<1>1. CardsClose /\ [Next]_vars => CardsClose'
  BY NextCards
<1>2. FlowInv /\ BannerIsHeld /\ [Next]_vars => BannerIsHeld'
  BY NextBanner
<1>3. FlowInv /\ PageInv /\ [Next]_vars => PageInv'
  BY NextPage
<1>4. FlowInv /\ PageInv /\ UnderWay /\ [Next]_vars => UnderWay'
  BY NextUnderWay
<1>5. FlowInv /\ PageInv /\ UnderWay /\ CardsClose /\ BannerIsHeld => OverlaysClose
  <2>1. CardsClose => (jira <=> jiraTimer) /\ (spot <=> spotTimer)
    BY DEF CardsClose
  <2> QED
    BY <2>1, SpotlightIsMoved DEF BannerIsHeld, OverlaysClose
<1>6. Init => CardsClose /\ BannerIsHeld
  BY InitOverlays
<1> QED
  BY <1>1, <1>2, <1>3, <1>4, <1>5, <1>6, InitPage, InitUnderWay, FlowHolds, PTL DEF Spec

-----------------------------------------------------------------------------
(* The cut keeps the order of the events it keeps. *)

\* Each member of K with its place from below.
Ranks(K) == [n \in K |-> Cardinality({m \in K : m <= n})]

\* Counting the members of a finite set of numbers from below numbers them
\* from 1 on.
LEMMA CountsFromBelow ==
  ASSUME NEW K, K \subseteq Nat, IsFiniteSet(K)
  PROVE  /\ Cardinality(K) \in Nat
         /\ Ranks(K) \in [K -> 1 .. Cardinality(K)]
         /\ \A l, n \in K : l < n => Ranks(K)[l] < Ranks(K)[n]
         /\ \A k \in 1 .. Cardinality(K) : \E n \in K : Ranks(K)[n] = k
<1> DEFINE rank == Ranks(K)
           below(n) == {m \in K : m <= n}
<1>1. Cardinality(K) \in Nat
  BY FS_CardinalityType
<1>2. ASSUME NEW n
      PROVE  IsFiniteSet(below(n)) /\ Cardinality(below(n)) \in Nat
             /\ Cardinality(below(n)) <= Cardinality(K)
  <2>1. below(n) \in SUBSET K
    OBVIOUS
  <2>2. IsFiniteSet(below(n)) /\ Cardinality(below(n)) <= Cardinality(K)
    BY <2>1, FS_Subset
  <2> QED
    BY <2>2, FS_CardinalityType
<1>3. ASSUME NEW n \in K PROVE rank[n] = Cardinality(below(n)) /\ n \in below(n)
  BY DEF Ranks
<1>9. rank = [n \in K |-> rank[n]]
  BY DEF Ranks
<1> HIDE DEF rank
<1>4. ASSUME NEW l \in K, NEW n \in K, l < n PROVE rank[l] < rank[n]
  <2>1. below(l) \in SUBSET below(n) /\ n \notin below(l) /\ n \in below(n)
    <3>1. l \in Nat /\ n \in Nat /\ \A m \in K : m \in Nat
      OBVIOUS
    <3>2. \A m \in K : m <= l => m <= n
      BY <1>4, <3>1
    <3>3. n \notin below(l) /\ n \in below(n)
      BY <1>4, <3>1
    <3>4. below(l) \subseteq below(n)
      BY <3>2
    <3> HIDE DEF below
    <3> QED
      BY <3>3, <3>4
  <2> HIDE DEF below
  <2>2. /\ Cardinality(below(l)) <= Cardinality(below(n))
        /\ Cardinality(below(n)) = Cardinality(below(l)) => below(n) = below(l)
    BY <1>2, <2>1, FS_Subset
  <2>3. Cardinality(below(l)) # Cardinality(below(n))
    BY <2>1, <2>2
  <2> QED
    BY <1>2, <1>3, <2>2, <2>3
<1>5. ASSUME NEW n \in K PROVE rank[n] \in 1 .. Cardinality(K)
  <2> HIDE DEF below
  <2>1. Cardinality(below(n)) # 0
    BY <1>2, <1>3, FS_EmptySet
  <2> QED
    BY <1>1, <1>2, <1>3, <2>1
<1>6. rank \in [K -> 1 .. Cardinality(K)]
  BY <1>5, <1>9
<1>7. rank \in Surjection(K, 1 .. Cardinality(K))
  <2>1. \A l, n \in K : rank[l] = rank[n] => l = n
    BY <1>1, <1>4, <1>6
  <2>2. rank \in Injection(K, 1 .. Cardinality(K))
    BY <1>6, <2>1 DEF Injection, IsInjective
  <2>3. IsFiniteSet(1 .. Cardinality(K)) /\ Cardinality(1 .. Cardinality(K)) = Cardinality(K)
    BY <1>1, FS_Interval
  <2> QED
    BY <2>2, <2>3, FS_Injection
<1>8. \A k \in 1 .. Cardinality(K) : \E n \in K : rank[n] = k
  BY <1>7 DEF Surjection
<1> QED
  BY <1>1, <1>4, <1>6, <1>8 DEF rank

\* Each event of the cut is one that was kept, those kept before it come
\* before it, and nothing that is kept is missing.
LEMMA CutKeepsOrder ==
  ASSUME NEW events \in Seq(Event), NEW cut, cut = DemoEvents(events)
  PROVE  /\ Len(cut) \in Nat
         /\ \A k \in 1 .. Len(cut) : \E n \in DemoKept(events) :
              /\ cut[k] = events[n]
              /\ \A m \in DemoKept(events) :
                   m < n => \E j \in 1 .. k - 1 : cut[j] = events[m]
         /\ \A n \in DemoKept(events) : \E k \in 1 .. Len(cut) : cut[k] = events[n]
<1> DEFINE K == DemoKept(events)
           N == Cardinality(K)
           r == Ranks(K)
           index(k) == CHOOSE n \in K : Cardinality({m \in K : m <= n}) = k
<1>1. K \subseteq 1 .. Len(events) /\ Len(events) \in Nat
  BY DEF DemoKept
<1>2. IsFiniteSet(K) /\ K \subseteq Nat
  <2>1. IsFiniteSet(1 .. Len(events))
    BY <1>1, FS_Interval
  <2> QED
    BY <1>1, <2>1, FS_Subset
<1>3. cut = [k \in 1 .. N |-> events[index(k)]]
  BY DEF DemoEvents
<1> HIDE DEF K
<1>4. \A n \in K : r[n] = Cardinality({m \in K : m <= n})
  BY DEF Ranks
<1> HIDE DEF r
<1>5. \A k : index(k) = CHOOSE n \in K : r[n] = k
  BY <1>4
<1>6. /\ N \in Nat
      /\ r \in [K -> 1 .. N]
      /\ \A l, n \in K : l < n => r[l] < r[n]
      /\ \A k \in 1 .. N : \E n \in K : r[n] = k
  BY <1>2, CountsFromBelow DEF r
<1> HIDE DEF index, N
<1>7. \A k \in 1 .. N : index(k) \in K /\ r[index(k)] = k
  BY <1>5, <1>6
<1>8. \A n \in K : r[n] \in 1 .. N /\ index(r[n]) = n
  <2> SUFFICES ASSUME NEW n \in K PROVE r[n] \in 1 .. N /\ index(r[n]) = n
    OBVIOUS
  <2>1. r[n] \in 1 .. N
    BY <1>6
  <2>2. index(r[n]) \in K /\ r[index(r[n])] = r[n]
    BY <1>7, <2>1
  <2>3. ~(index(r[n]) < n) /\ ~(n < index(r[n]))
    BY <1>6, <2>1, <2>2
  <2>4. n \in Nat /\ index(r[n]) \in Nat
    BY <1>2, <2>2
  <2> QED
    BY <2>1, <2>3, <2>4
<1>9. Len(cut) = N /\ \A k \in 1 .. N : cut[k] = events[index(k)]
  BY <1>3, <1>6
<1>10. ASSUME NEW k \in 1 .. N, NEW m \in K, m < index(k)
       PROVE  \E j \in 1 .. k - 1 : cut[j] = events[m]
  <2>1. r[m] \in 1 .. N /\ index(r[m]) = m
    BY <1>8
  <2>2. r[m] < k
    BY <1>6, <1>7, <1>10
  <2>3. N \in Nat /\ k \in Nat /\ r[m] \in 1 .. k - 1
    BY <1>6, <2>1, <2>2
  <2> QED
    BY <1>9, <2>1, <2>3
<1> QED
  BY <1>6, <1>7, <1>8, <1>9, <1>10 DEF K

-----------------------------------------------------------------------------
(* The banners of a recorded replay. *)

\* The banners raised by the first n of the events.
BannersOf(events, n) == {BeatOf(events[m]) : m \in 1 .. n} \ {"none"}

\* The banners of the recorded trace, whole.
AllBanners == {BeatOf(RecordedTrace[n]) : n \in DOMAIN RecordedTrace} \ {"none"}

\* What the cut drops raises no banner but the last.
LEMMA EarlyStepsAreKept ==
  ASSUME NEW events, NEW n \in DOMAIN events
  PROVE  /\ BeatOf(events[n]) \in {"intake", "investigate", "discover", "deliberate"} =>
              n \in DemoKept(events)
         /\ events[n].kind = "artifact" =>
              n \in DemoKept(events) /\ BeatOf(events[n]) = "decide"
<1> DEFINE e == events[n]
<1>1. e.kind \notin {"concern", "signal", "escalation", "alternative"} => n \in DemoKept(events)
  BY DEF DemoKept
<1> HIDE DEF e
<1>2. BeatOf(e) \in {"intake", "investigate", "discover", "deliberate"} =>
        e.kind \in {"ticket", "tool_call", "finding", "peer_decision", "request"}
  BY DEF BeatOf
<1>3. e.kind = "artifact" => BeatOf(e) = "decide"
  BY DEF BeatOf
<1> QED
  BY <1>1, <1>2, <1>3 DEF e

LEMMA BeatsAreSteps ==
  ASSUME NEW e
  PROVE  BeatOf(e) = "none" \/ \E k \in 1 .. 5 : BeatOf(e) = Steps[k]
BY DEF BeatOf, Steps

\* A set of steps that has with each step the one before it is an initial
\* segment of them.
LEMMA StepsInOrder ==
  ASSUME NEW B, \A b \in B : \E k \in 1 .. 5 : b = Steps[k],
         \A k \in 2 .. 5 : Steps[k] \in B => Steps[k - 1] \in B
  PROVE  \E n \in 0 .. Len(Steps) : B = {Steps[k] : k \in 1 .. n}
<1>1. Len(Steps) = 5
  BY DEF Steps
<1>2. /\ Steps[1] = "intake" /\ Steps[2] = "investigate" /\ Steps[3] = "discover"
      /\ Steps[4] = "deliberate" /\ Steps[5] = "decide"
  BY DEF Steps
<1>3. \A k \in 1 .. 5 : k \in {1, 2, 3, 4, 5}
  OBVIOUS
<1>4. /\ Steps[2] \in B => Steps[1] \in B
      /\ Steps[3] \in B => Steps[2] \in B
      /\ Steps[4] \in B => Steps[3] \in B
      /\ Steps[5] \in B => Steps[4] \in B
  OBVIOUS
<1>5. \A b \in B : b \in {Steps[1], Steps[2], Steps[3], Steps[4], Steps[5]}
  BY <1>3
<1>6. CASE Steps[1] \notin B
  <2>1. B = {} /\ {Steps[k] : k \in 1 .. 0} = {}
    BY <1>4, <1>5, <1>6
  <2> QED
    BY <1>1, <2>1
<1>7. CASE Steps[1] \in B /\ Steps[2] \notin B
  <2>1. B = {Steps[1]} /\ {Steps[k] : k \in 1 .. 1} = {Steps[1]}
    BY <1>4, <1>5, <1>7
  <2> QED
    BY <1>1, <2>1
<1>8. CASE Steps[2] \in B /\ Steps[3] \notin B
  <2>1. B = {Steps[1], Steps[2]}
    BY <1>4, <1>5, <1>8
  <2>2. \A k : k \in 1 .. 2 <=> k \in {1, 2}
    OBVIOUS
  <2> QED
    BY <1>1, <2>1, <2>2
<1>9. CASE Steps[3] \in B /\ Steps[4] \notin B
  <2>1. B = {Steps[1], Steps[2], Steps[3]}
    BY <1>4, <1>5, <1>9
  <2>2. \A k : k \in 1 .. 3 <=> k \in {1, 2, 3}
    OBVIOUS
  <2> QED
    BY <1>1, <2>1, <2>2
<1>10. CASE Steps[4] \in B /\ Steps[5] \notin B
  <2>1. B = {Steps[1], Steps[2], Steps[3], Steps[4]}
    BY <1>4, <1>5, <1>10
  <2>2. \A k : k \in 1 .. 4 <=> k \in {1, 2, 3, 4}
    OBVIOUS
  <2> QED
    BY <1>1, <2>1, <2>2
<1>11. CASE Steps[5] \in B
  <2>1. B = {Steps[1], Steps[2], Steps[3], Steps[4], Steps[5]}
    BY <1>4, <1>5, <1>11
  <2>2. \A k : k \in 1 .. 5 <=> k \in {1, 2, 3, 4, 5}
    OBVIOUS
  <2> QED
    BY <1>1, <2>1, <2>2
<1> QED
  BY <1>4, <1>6, <1>7, <1>8, <1>9, <1>10, <1>11

\* However far the cut has been shown, its banners came in order and without
\* a gap; when it has been shown whole, all of the recorded trace's came.
LEMMA CutHasTheBanners ==
  /\ Len(RecordedCut) \in Nat
  /\ \A n \in 0 .. Len(RecordedCut) :
       \E m \in 0 .. Len(Steps) :
         BannersOf(RecordedCut, n) = {Steps[k] : k \in 1 .. m}
  /\ BannersOf(RecordedCut, Len(RecordedCut)) = AllBanners
<1> DEFINE cut == RecordedCut
           K == DemoKept(RecordedTrace)
<1>1. RecordedTrace \in Seq(Event)
  BY TracesAssumption
<1>2. K \subseteq DOMAIN RecordedTrace
  BY DEF DemoKept
<1>3. /\ Len(cut) \in Nat
      /\ \A k \in 1 .. Len(cut) : \E n \in K :
           /\ cut[k] = RecordedTrace[n]
           /\ \A m \in K : m < n => \E j \in 1 .. k - 1 : cut[j] = RecordedTrace[m]
      /\ \A n \in K : \E k \in 1 .. Len(cut) : cut[k] = RecordedTrace[n]
  BY <1>1, CutKeepsOrder DEF RecordedCut
<1> HIDE DEF cut, K
<1>4. DOMAIN RecordedTrace = 1 .. Len(RecordedTrace) /\ Len(RecordedTrace) \in Nat
  BY <1>1
<1>5. \A k \in 1 .. 4 : Steps[k] \in {"intake", "investigate", "discover", "deliberate"}
  BY DEF Steps
<1>6. Steps[5] = "decide" /\ \A k \in 1 .. 5 : Steps[k] # "none"
  BY DEF Steps
<1>7. ASSUME NEW n \in DOMAIN RecordedTrace, NEW k \in 2 .. 5,
             BeatOf(RecordedTrace[n]) = Steps[k]
      PROVE  \E m \in K : m < n /\ BeatOf(RecordedTrace[m]) = Steps[k - 1]
  <2>1. PICK m \in 1 .. n - 1 : BeatOf(RecordedTrace[m]) = Steps[k - 1]
    BY <1>7, RecordedAssumption
  <2>2. m \in DOMAIN RecordedTrace /\ m < n
    BY <1>4
  <2>3. k - 1 \in 1 .. 4
    OBVIOUS
  <2>4. m \in K
    BY <1>5, <2>1, <2>2, <2>3, EarlyStepsAreKept DEF K
  <2> QED
    BY <2>1, <2>2, <2>4
<1>8. ASSUME NEW n \in 0 .. Len(cut)
      PROVE  \E m \in 0 .. Len(Steps) : BannersOf(cut, n) = {Steps[k] : k \in 1 .. m}
  <2> DEFINE B == BannersOf(cut, n)
  <2>1. \A b \in B : \E k \in 1 .. 5 : b = Steps[k]
    BY BeatsAreSteps DEF BannersOf
  <2>2. ASSUME NEW k \in 2 .. 5, Steps[k] \in B PROVE Steps[k - 1] \in B
    <3>1. PICK l \in 1 .. n : BeatOf(cut[l]) = Steps[k]
      BY <2>2 DEF BannersOf
    <3>2. l \in 1 .. Len(cut) /\ n \in Nat
      BY <1>3
    <3>3. PICK r \in K : /\ cut[l] = RecordedTrace[r]
                         /\ \A m \in K : m < r => \E j \in 1 .. l - 1 : cut[j] = RecordedTrace[m]
      BY <1>3, <3>2
    <3>4. PICK m \in K : m < r /\ BeatOf(RecordedTrace[m]) = Steps[k - 1]
      BY <1>2, <1>7, <3>1, <3>3
    <3>5. PICK j \in 1 .. l - 1 : cut[j] = RecordedTrace[m]
      BY <3>3, <3>4
    <3>6. j \in 1 .. n
      BY <3>2
    <3>7. k - 1 \in 1 .. 5
      OBVIOUS
    <3> QED
      BY <1>6, <3>4, <3>5, <3>6, <3>7 DEF BannersOf
  <2> HIDE DEF B
  <2>3. \E m \in 0 .. Len(Steps) : B = {Steps[k] : k \in 1 .. m}
    BY <2>1, <2>2, StepsInOrder
  <2> QED
    BY <2>3 DEF B
<1>9. BannersOf(cut, Len(cut)) \subseteq AllBanners
  <2> SUFFICES ASSUME NEW b \in BannersOf(cut, Len(cut)) PROVE b \in AllBanners
    OBVIOUS
  <2>1. PICK l \in 1 .. Len(cut) : b = BeatOf(cut[l]) /\ b # "none"
    BY DEF BannersOf
  <2>2. PICK n \in K : cut[l] = RecordedTrace[n]
    BY <1>3
  <2> QED
    BY <1>2, <2>1, <2>2 DEF AllBanners
<1>10. AllBanners \subseteq BannersOf(cut, Len(cut))
  <2> SUFFICES ASSUME NEW b \in AllBanners PROVE b \in BannersOf(cut, Len(cut))
    OBVIOUS
  <2>1. PICK n \in DOMAIN RecordedTrace : b = BeatOf(RecordedTrace[n]) /\ b # "none"
    BY DEF AllBanners
  <2>2. \E m \in K : b = BeatOf(RecordedTrace[m])
    <3>1. PICK k \in 1 .. 5 : b = Steps[k]
      BY <2>1, BeatsAreSteps
    <3>2. CASE k \in 1 .. 4
      BY <1>5, <2>1, <3>1, <3>2, EarlyStepsAreKept DEF K
    <3>3. CASE k = 5
      <4>1. b = "decide"
        BY <1>6, <3>1, <3>3
      <4>2. PICK m \in DOMAIN RecordedTrace : RecordedTrace[m].kind = "artifact"
        BY <2>1, <4>1, RecordedAssumption
      <4> QED
        BY <4>1, <4>2, EarlyStepsAreKept DEF K
    <3> QED
      BY <3>2, <3>3
  <2>3. PICK m \in K : b = BeatOf(RecordedTrace[m])
    BY <2>2
  <2>4. PICK k \in 1 .. Len(cut) : cut[k] = RecordedTrace[m]
    BY <1>3
  <2> QED
    BY <2>1, <2>3, <2>4 DEF BannersOf
<1> QED
  BY <1>3, <1>8, <1>9, <1>10 DEF cut

-----------------------------------------------------------------------------
\* A flow that is at `where', having shown n of its events: a recorded one
\* replays the cut once it has it, and has seen the banners of what it has
\* shown and the one it holds; a live one sees none.
SawWhatItShowed(where, isRecorded, events, n, saw) ==
  /\ where \in {"post", "poll"} => ~isRecorded
  /\ where = "fetch" => isRecorded
  /\ isRecorded /\ where \notin {"fetch", "failed"} => events = RecordedCut
  /\ isRecorded => saw = BannersOf(events, IF where = "beat" THEN n + 1 ELSE n)
  /\ isRecorded /\ where = "ended" => n = Len(RecordedCut)
  /\ isRecorded /\ where = "failed" => n = 0
  /\ ~isRecorded => saw = {}

BannerInv ==
  /\ recorded \in [Clicks -> BOOLEAN]
  /\ seen = [c \in Clicks |-> seen[c]]
  /\ \A c \in Clicks : SawWhatItShowed(at[c], recorded[c], trace[c], i[c], seen[c])
  /\ \A c \in Clicks : c > click => ~recorded[c]

LEMMA InitBanners == Init => BannerInv
BY DEF Init, BannerInv, SawWhatItShowed

LEMMA NoBannersYet == \A events : BannersOf(events, 0) = {}
BY DEF BannersOf

\* One more event adds its banner, if it has one.
LEMMA NextBannerOf ==
  ASSUME NEW events, NEW n \in Nat
  PROVE  BannersOf(events, n + 1) =
           BannersOf(events, n) \cup ({BeatOf(events[n + 1])} \ {"none"})
<1>1. 1 .. n + 1 = (1 .. n) \cup {n + 1}
  OBVIOUS
<1> QED
  BY <1>1 DEF BannersOf

\* A click leaves what the flows before it have seen.
LEMMA StartBanners ==
  ASSUME FlowInv, PageInv, BannerInv, status # "running",
         NEW r \in BOOLEAN, NEW first \in Waiting, r <=> first = "fetch", Start(r, first)
  PROVE  BannerInv'
<1>1. \A c \in Clicks : at[c] \notin Live
  BY DEF FlowInv, OneFlow
<1>2. click + 1 \in Clicks /\ click' = click + 1 /\ click \in Nat
  BY ClicksAssumption DEF FlowInv, Start, Clicks
<1>3. Stopped(at) = at \/ Stopped(at) = [at EXCEPT ![stop] = "stopped"]
  BY DEF Stopped
<1>4. \A c \in Clicks : Stopped(at)[c] = at[c]
  BY <1>1 DEF Stopped, FlowInv, Live
<1>5. /\ i' = i /\ trace' = trace /\ seen' = seen
      /\ recorded' = [recorded EXCEPT ![click + 1] = r]
      /\ at' = [Stopped(at) EXCEPT ![click + 1] = first]
  BY DEF Start
<1>6. /\ at'[click + 1] = first
      /\ \A c \in Clicks : c # click + 1 => at'[c] = at[c]
  BY <1>2, <1>3, <1>4, <1>5 DEF FlowInv
<1>7. /\ recorded'[click + 1] = r
      /\ \A c \in Clicks : c # click + 1 => recorded'[c] = recorded[c]
  BY <1>2, <1>5 DEF BannerInv
<1>8. i[click + 1] = 0 /\ trace[click + 1] = <<>> /\ seen[click + 1] = {}
  BY <1>2 DEF PageInv, BannerInv, SawWhatItShowed
<1>9. ASSUME NEW c \in Clicks, c # click + 1
      PROVE  c > click' => c > click
  BY <1>2, <1>9 DEF Clicks
<1>10. SawWhatItShowed(first, r, <<>>, 0, {})
  BY NoBannersYet DEF SawWhatItShowed, Waiting
<1>11. \A c \in Clicks : SawWhatItShowed(at'[c], recorded'[c], trace'[c], i'[c], seen'[c])
  BY <1>5, <1>6, <1>7, <1>8, <1>10 DEF BannerInv
<1>12. \A c \in Clicks : c > click' => ~recorded'[c]
  BY <1>2, <1>7, <1>9 DEF BannerInv
<1> QED
  BY <1>5, <1>11, <1>12 DEF BannerInv

\* A tick raises a banner only in a recorded replay, and before its event.
LEMMA TickBanners ==
  ASSUME FlowInv, PageInv, BannerInv, NEW c \in Clicks, at[c] \in {"fetch", "poll", "tick"},
         NEW events, IsTrace(events), NEW n \in Nat, n <= Len(events),
         i[c] = n, trace' = [trace EXCEPT ![c] = events],
         recorded[c] => events = RecordedCut /\ seen[c] = BannersOf(events, n),
         TickFrom(c, events, n), UNCHANGED <<click, recorded>>
  PROVE  BannerInv'
<1>1. Len(events) \in Nat
  BY TraceFacts
<1>2. trace'[c] = events /\ \A d \in Clicks : d # c => trace'[d] = trace[d]
  BY DEF PageInv
<1>3. CASE n >= Len(events)
  <2>1. /\ n = Len(events) /\ i' = i /\ seen' = seen
        /\ at' = [at EXCEPT ![c] = "ended"]
    BY <1>1, <1>3 DEF TickFrom, Done
  <2>2. at'[c] = "ended" /\ \A d \in Clicks : d # c => at'[d] = at[d]
    BY <2>1 DEF FlowInv
  <2>3. SawWhatItShowed("ended", recorded[c], events, n, seen[c])
    BY <2>1 DEF BannerInv, SawWhatItShowed
  <2> QED
    BY <1>2, <2>1, <2>2, <2>3 DEF BannerInv
<1>4. CASE n < Len(events) /\ at' = [at EXCEPT ![c] = "beat"]
  <2> DEFINE b == BeatOf(events[n + 1])
  <2>1. /\ recorded[c] /\ b # "none"
        /\ seen' = [seen EXCEPT ![c] = @ \cup {b}] /\ i' = i
    <3>1. at'[c] = "beat"
      BY <1>4 DEF FlowInv
    <3>2. ~Advance(c, events, n)
      BY <3>1 DEF Advance, FlowInv
    <3> QED
      BY <1>1, <1>4, <3>2 DEF TickFrom
  <2> HIDE DEF b
  <2>2. at'[c] = "beat" /\ \A d \in Clicks : d # c => at'[d] = at[d]
    BY <1>4 DEF FlowInv
  <2>3. seen'[c] = seen[c] \cup {b} /\ \A d \in Clicks : d # c => seen'[d] = seen[d]
    BY <2>1 DEF BannerInv
  <2>4. seen'[c] = BannersOf(events, n + 1)
    <3>1. BannersOf(events, n + 1) = BannersOf(events, n) \cup ({b} \ {"none"})
      BY NextBannerOf DEF b
    <3> QED
      BY <2>1, <2>3, <3>1
  <2>5. seen' = [d \in Clicks |-> seen'[d]]
    BY <2>1 DEF BannerInv
  <2>6. SawWhatItShowed("beat", recorded[c], events, n, seen'[c])
    BY <2>1, <2>4 DEF SawWhatItShowed
  <2>7. \A d \in Clicks : SawWhatItShowed(at'[d], recorded'[d], trace'[d], i'[d], seen'[d])
    BY <1>2, <2>1, <2>2, <2>3, <2>6 DEF BannerInv
  <2> QED
    BY <2>5, <2>7 DEF BannerInv
<1>5. CASE n < Len(events) /\ at' # [at EXCEPT ![c] = "beat"]
  <2> DEFINE b == BeatOf(events[n + 1])
  <2>1. /\ Advance(c, events, n) /\ seen' = seen
        /\ ~(recorded[c] /\ b # "none" /\ b \notin seen[c])
    BY <1>1, <1>5 DEF TickFrom
  <2> HIDE DEF b
  <2>2. at' = [at EXCEPT ![c] = "tick"] /\ i' = [i EXCEPT ![c] = n + 1]
    BY <2>1 DEF Advance
  <2>3. /\ at'[c] = "tick" /\ i'[c] = n + 1
        /\ \A d \in Clicks : d # c => at'[d] = at[d] /\ i'[d] = i[d]
    BY <2>2 DEF FlowInv, PageInv
  <2>4. recorded[c] => seen[c] = BannersOf(events, n + 1)
    <3>1. BannersOf(events, n + 1) = BannersOf(events, n) \cup ({b} \ {"none"})
      BY NextBannerOf DEF b
    <3> QED
      BY <2>1, <3>1
  <2>5. SawWhatItShowed("tick", recorded[c], events, n + 1, seen[c])
    BY <2>4 DEF BannerInv, SawWhatItShowed
  <2>6. \A d \in Clicks : SawWhatItShowed(at'[d], recorded'[d], trace'[d], i'[d], seen'[d])
    BY <1>2, <2>1, <2>3, <2>5 DEF BannerInv
  <2> QED
    BY <2>1, <2>6 DEF BannerInv
<1> QED
  BY <1>1, <1>3, <1>4, <1>5

LEMMA NextBanners == FlowInv /\ PageInv /\ BannerInv /\ [Next]_vars => BannerInv'
<1> SUFFICES ASSUME FlowInv, PageInv, BannerInv, [Next]_vars PROVE BannerInv'
  OBVIOUS
<1>1. CASE RunLive
  BY <1>1, StartBanners DEF RunLive, ButtonsOn, Waiting
<1>2. CASE RunRecorded
  <2>1. status # "running"
    BY <1>2 DEF RunRecorded, ButtonsOn, FinaleReplayOn, FlowInv
  <2> QED
    BY <2>1, <1>2, StartBanners DEF RunRecorded, Waiting
<1>3. CASE \/ CloseFinale \/ OpenFinale \/ LogTab \/ DocTab
           \/ JiraTimerFires \/ SpotTimerFires
           \/ \E c \in Clicks : FadeEnds(c)
           \/ UNCHANGED vars
  <2>1. UNCHANGED <<click, flowVars>>
    BY <1>3 DEF CloseFinale, OpenFinale, LogTab, DocTab, JiraTimerFires,
                SpotTimerFires, FadeEnds, vars
  <2> QED
    BY <2>1 DEF flowVars, BannerInv
<1>4. ASSUME NEW c \in Clicks, FlowStep(c) PROVE BannerInv'
  <2>1. CASE Posted(c) \/ StillRunning(c) \/ LiveFails(c) \/ FetchFails(c)
    <3>1. /\ UNCHANGED <<click, recorded, trace, i, seen>>
          /\ \/ at[c] \in {"post", "poll"} /\ at'[c] \in {"poll", "ended"}
             \/ at[c] = "fetch" /\ at'[c] = "failed"
          /\ \A d \in Clicks : d # c => at'[d] = at[d]
      BY <2>1 DEF Posted, StillRunning, LiveFails, FetchFails, pageVars, FlowInv
    <3>2. at[c] = "fetch" => i[c] = 0
      BY DEF PageInv, Waiting
    <3> QED
      BY <3>1, <3>2 DEF BannerInv, SawWhatItShowed
  <2>2. CASE RunIsDone(c) \/ Fetched(c)
    <3>1. PICK events : /\ BeginReplay(c, events) /\ IsTrace(events)
                        /\ recorded[c] => events = RecordedCut
                        /\ UNCHANGED <<click, recorded>> /\ at[c] \in {"poll", "fetch"}
      BY <2>2, TracesAreTraces DEF RunIsDone, Fetched, BannerInv, SawWhatItShowed
    <3>2. i[c] = 0
      BY <3>1 DEF PageInv, Waiting
    <3>3. recorded[c] => seen[c] = BannersOf(events, 0)
      BY <3>1, <3>2, NoBannersYet DEF BannerInv, SawWhatItShowed
    <3>4. 0 <= Len(events)
      BY <3>1, TraceFacts
    <3> QED
      <4>1. trace' = [trace EXCEPT ![c] = events] /\ TickFrom(c, events, i[c])
        BY <3>1, <3>2 DEF BeginReplay
      <4>2. recorded[c] => events = RecordedCut /\ seen[c] = BannersOf(events, i[c])
        BY <3>1, <3>2, <3>3
      <4>3. at[c] \in {"fetch", "poll", "tick"} /\ UNCHANGED <<click, recorded>>
        BY <3>1
      <4>4. i[c] \in Nat /\ i[c] <= Len(events) /\ IsTrace(events)
        BY <3>1, <3>2, <3>4
      <4> QED
        BY <4>1, <4>2, <4>3, <4>4, TickBanners
  <2>3. CASE Tick(c)
    <3>1. trace' = [trace EXCEPT ![c] = trace[c]] /\ UNCHANGED <<click, recorded>>
      BY <2>3 DEF Tick, PageInv
    <3>2. i[c] \in Nat /\ i[c] <= Len(trace[c]) /\ IsTrace(trace[c])
      BY DEF PageInv
    <3>3. at[c] = "tick" /\ TickFrom(c, trace[c], i[c])
      BY <2>3 DEF Tick
    <3>4. recorded[c] => trace[c] = RecordedCut /\ seen[c] = BannersOf(trace[c], i[c])
      BY <3>3 DEF BannerInv, SawWhatItShowed
    <3> QED
      BY <3>1, <3>2, <3>3, <3>4, TickBanners
  <2>4. CASE BannerOver(c)
    <3>1. /\ at[c] = "beat" /\ at' = [at EXCEPT ![c] = "tick"]
          /\ i' = [i EXCEPT ![c] = i[c] + 1]
          /\ UNCHANGED <<click, recorded, trace, seen>>
      BY <2>4 DEF BannerOver, Advance
    <3>2. /\ at'[c] = "tick" /\ i'[c] = i[c] + 1
          /\ \A d \in Clicks : d # c => at'[d] = at[d] /\ i'[d] = i[d]
      BY <3>1 DEF FlowInv, PageInv
    <3> QED
      BY <3>1, <3>2 DEF BannerInv, SawWhatItShowed
  <2> QED
    BY <1>4, <2>1, <2>2, <2>3, <2>4 DEF FlowStep
<1> QED
  BY <1>1, <1>2, <1>3, <1>4 DEF Next, UserStep

(* In a recorded replay the step banners come in the order of their numbers, *)
(* without a gap, and all that the whole trace calls for have come when it   *)
(* is done, although the cut drops events; a live run shows none.  For any   *)
(* recorded trace that goes through the phases in turn.                      *)
THEOREM BannersComeInOrder == Spec => []BannersAreSeen
<1>1. FlowInv /\ PageInv /\ [Next]_vars => PageInv'
  BY NextPage
<1>2. FlowInv /\ PageInv /\ BannerInv /\ [Next]_vars => BannerInv'
  BY NextBanners
<1>3. FlowInv /\ PageInv /\ BannerInv => BannersAreSeen
  <2> SUFFICES ASSUME FlowInv, PageInv, BannerInv, NEW c \in Clicks
               PROVE  /\ \E n \in 0 .. Len(Steps) : seen[c] = {Steps[k] : k \in 1 .. n}
                      /\ at[c] = "ended" /\ recorded[c] => seen[c] = AllBanners
                      /\ ~recorded[c] => seen[c] = {}
    BY DEF BannersAreSeen, AllBanners
  <2>1. ~recorded[c] => seen[c] = {}
    BY DEF BannerInv, SawWhatItShowed
  <2>2. seen[c] = {} => \E n \in 0 .. Len(Steps) : seen[c] = {Steps[k] : k \in 1 .. n}
    <3>1. Len(Steps) = 5 /\ {Steps[k] : k \in 1 .. 0} = {}
      BY DEF Steps
    <3> QED
      BY <3>1
  <2>3. CASE recorded[c] /\ at[c] \in {"fetch", "failed"}
    <3>1. seen[c] = {}
      BY <2>3, NoBannersYet DEF BannerInv, SawWhatItShowed, PageInv, Waiting
    <3> QED
      BY <2>2, <2>3, <3>1
  <2>4. CASE recorded[c] /\ at[c] \notin {"fetch", "failed"}
    <3> DEFINE n == IF at[c] = "beat" THEN i[c] + 1 ELSE i[c]
    <3>1. trace[c] = RecordedCut /\ seen[c] = BannersOf(RecordedCut, n)
      BY <2>4 DEF BannerInv, SawWhatItShowed
    <3>2. n \in 0 .. Len(RecordedCut)
      BY <3>1, CutHasTheBanners DEF PageInv
    <3>3. at[c] = "ended" => n = Len(RecordedCut)
      BY <2>4 DEF BannerInv, SawWhatItShowed
    <3> HIDE DEF n
    <3> QED
      BY <2>4, <3>1, <3>2, <3>3, CutHasTheBanners
  <2> QED
    BY <2>1, <2>2, <2>3, <2>4
<1> QED
  BY <1>1, <1>2, <1>3, InitPage, InitBanners, FlowHolds, PTL DEF Spec

-----------------------------------------------------------------------------
(* What the panels derive. *)

LEMMA MinIsMember ==
  ASSUME NEW K, K \subseteq Nat, IsFiniteSet(K), K # {}
  PROVE  Min(K) \in K
<1>1. Cardinality(K) \in Nat /\ Cardinality(K) # 0
  BY FS_CardinalityType, FS_EmptySet
<1> DEFINE N == Cardinality(K)
           r == Ranks(K)
<1>2. /\ r \in [K -> 1 .. N]
      /\ \A l, n \in K : l < n => r[l] < r[n]
      /\ \A k \in 1 .. N : \E n \in K : r[n] = k
  BY CountsFromBelow
<1> HIDE DEF r, N
<1>3. 1 \in 1 .. N
  BY <1>1 DEF N
<1>4. PICK n \in K : r[n] = 1
  BY <1>2, <1>3
<1>5. ASSUME NEW m \in K PROVE n <= m
  <2>1. ~(m < n)
    BY <1>1, <1>2, <1>4 DEF N
  <2>2. m \in Nat /\ n \in Nat
    OBVIOUS
  <2> QED
    BY <2>1, <2>2
<1> QED
  BY <1>4, <1>5 DEF Min

\* The peers of a trace, and the teams it skips.
PeersOf(events) ==
  {e.to : e \in {x \in ToSet(events) : x.kind = "peer_decision" /\ x.consult}}

SkippedOf(events) ==
  {e.to : e \in {x \in ToSet(events) : x.kind = "peer_decision" /\ ~x.consult}}

\* An event of a trace, as far as the panels rely on it.
OwnersEvent(e, peers, skipped) ==
  /\ e.agent \in {"mirrormaker"} \cup peers
  /\ e.kind \in {"ticket", "peer_decision", "request"} => e.agent = "mirrormaker"
  /\ e.kind = "request" => e.to \in peers
  /\ e.kind = "response" => e.agent \in peers /\ e.to = "mirrormaker"
  /\ e.kind = "peer_decision" /\ e.consult => e.to \in peers
  /\ e.kind = "peer_decision" /\ ~e.consult => e.to \in skipped

Apart(peers, skipped) ==
  "mirrormaker" \notin peers \cup skipped /\ peers \cap skipped = {}

LEMMA OwnersEvents ==
  ASSUME NEW events
  PROVE  OwnersTrace(events) <=>
           /\ Apart(PeersOf(events), SkippedOf(events))
           /\ \A e \in ToSet(events) : OwnersEvent(e, PeersOf(events), SkippedOf(events))
<1>1. OwnersTrace(events) <=>
        /\ "mirrormaker" \notin PeersOf(events) \cup SkippedOf(events)
        /\ PeersOf(events) \cap SkippedOf(events) = {}
        /\ \A e \in ToSet(events) :
             /\ e.agent \in {"mirrormaker"} \cup PeersOf(events)
             /\ e.kind \in {"ticket", "peer_decision", "request"} => e.agent = "mirrormaker"
             /\ e.kind = "request" => e.to \in PeersOf(events)
             /\ e.kind = "response" => e.agent \in PeersOf(events) /\ e.to = "mirrormaker"
  BY DEF OwnersTrace, PeersOf, SkippedOf
<1>2. \A e \in ToSet(events) : e.kind = "peer_decision" =>
        IF e.consult THEN e.to \in PeersOf(events) ELSE e.to \in SkippedOf(events)
  BY DEF PeersOf, SkippedOf
<1> HIDE DEF PeersOf, SkippedOf
<1> QED
  BY <1>1, <1>2 DEF Apart, OwnersEvent

\* The events of a list are those at its positions.
LEMMA InList ==
  ASSUME NEW events \in Seq(Event)
  PROVE  /\ Len(events) \in Nat /\ DOMAIN events = 1 .. Len(events)
         /\ \A e : e \in ToSet(events) <=> \E n \in 1 .. Len(events) : e = events[n]
         /\ ToSet(events) \subseteq Event
         /\ events # <<>> => Last(events) \in ToSet(events)
<1>1. Len(events) \in Nat /\ DOMAIN events = 1 .. Len(events)
      /\ \A n \in 1 .. Len(events) : events[n] \in Event
  OBVIOUS
<1>2. events # <<>> => Len(events) \in 1 .. Len(events)
  OBVIOUS
<1> QED
  BY <1>1, <1>2 DEF ToSet, Last

\* Dropping concerns, signals, escalations and alternatives drops no peer.
LEMMA CutIsOwners ==
  /\ RecordedCut \in Seq(Event)
  /\ PeersOf(RecordedCut) = PeersOf(RecordedTrace)
  /\ OwnersTrace(RecordedCut)
<1> DEFINE cut == RecordedCut
           K == DemoKept(RecordedTrace)
<1>1. RecordedTrace \in Seq(Event) /\ OwnersTrace(RecordedTrace)
  BY TracesAssumption
<1>2. /\ Len(cut) \in Nat
      /\ \A k \in 1 .. Len(cut) : \E n \in K : cut[k] = RecordedTrace[n]
      /\ \A n \in K : \E k \in 1 .. Len(cut) : cut[k] = RecordedTrace[n]
  BY <1>1, CutKeepsOrder DEF RecordedCut
<1>3. K \subseteq DOMAIN RecordedTrace
      /\ \A n \in DOMAIN RecordedTrace :
           RecordedTrace[n].kind = "peer_decision" => n \in K
  BY DEF DemoKept
<1>4. cut \in Seq(Event)
  <2>1. PICK S : cut \in Seq(S)
    BY <1>1, CutIsTrace DEF RecordedCut
  <2>2. \A k \in 1 .. Len(cut) : cut[k] \in Event
    BY <1>1, <1>2, <1>3
  <2> HIDE DEF cut
  <2>3. cut = [k \in 1 .. Len(cut) |-> cut[k]]
    BY <2>1
  <2> QED
    BY <1>2, <2>2, <2>3
<1> HIDE DEF cut, K
<1>9. DOMAIN RecordedTrace = 1 .. Len(RecordedTrace)
      /\ \A e : e \in ToSet(RecordedTrace) <=>
               \E n \in 1 .. Len(RecordedTrace) : e = RecordedTrace[n]
  BY <1>1, InList
<1>10. \A e : e \in ToSet(cut) <=> \E n \in 1 .. Len(cut) : e = cut[n]
  BY <1>4, InList
<1>5. ToSet(cut) \subseteq ToSet(RecordedTrace)
  <2> SUFFICES ASSUME NEW e \in ToSet(cut) PROVE e \in ToSet(RecordedTrace)
    OBVIOUS
  <2>1. PICK k \in 1 .. Len(cut) : e = cut[k]
    BY <1>10
  <2>2. PICK n \in K : cut[k] = RecordedTrace[n]
    BY <1>2
  <2> QED
    BY <1>3, <1>9, <2>1, <2>2
<1>6. \A e \in ToSet(RecordedTrace) : e.kind = "peer_decision" => e \in ToSet(cut)
  BY <1>2, <1>3, <1>9, <1>10
<1>7. PeersOf(cut) = PeersOf(RecordedTrace) /\ SkippedOf(cut) = SkippedOf(RecordedTrace)
  BY <1>5, <1>6 DEF PeersOf, SkippedOf
<1>8. OwnersTrace(cut)
  BY <1>1, <1>5, <1>7, OwnersEvents
<1> QED
  BY <1>4, <1>7, <1>8 DEF cut

\* Once the run is done, the lanes signed off are the owner's and its peers',
\* and every other lane is at rest.
LEMMA DoneLanes ==
  ASSUME NEW events \in Seq(Event), OwnersTrace(events), NEW id
  PROVE  Mood(events, TRUE, id) =
           IF id \in {"mirrormaker"} \cup PeersOf(events) THEN "done" ELSE "idle"
<1> DEFINE E == ToSet(events)
           peers == PeersOf(events)
           skipped == SkippedOf(events)
<1>1. Apart(peers, skipped) /\ \A e \in E : OwnersEvent(e, peers, skipped)
  BY OwnersEvents
<1>2. Consulted(events) = {"mirrormaker"} \cup peers
  <2>1. Consulted(events) =
          {"mirrormaker"} \cup peers
          \cup {e.to : e \in {x \in E : x.kind = "request"}}
          \cup {e.agent : e \in {x \in E : x.kind = "response"}}
    BY DEF Consulted, PeersOf
  <2> QED
    BY <1>1, <2>1 DEF OwnersEvent
<1>3. events # <<>> => Last(events) \in E
  BY InList
<1> DEFINE latest == Last(events)
<1>4. CASE id \in {"mirrormaker"} \cup peers
  BY <1>2, <1>4 DEF Mood
<1>5. CASE id \notin {"mirrormaker"} \cup peers
  <2>1. CASE events = <<>>
    BY <1>2, <1>5, <2>1 DEF Mood
  <2>2. CASE events # <<>>
    <3>1. OwnersEvent(latest, peers, skipped)
      BY <1>1, <1>3, <2>2
    <3>3. Mood(events, TRUE, id) =
            IF id \in Consulted(events) THEN "done"
            ELSE IF id = latest.agent
            THEN IF latest.kind = "request" THEN "asking"
                 ELSE IF latest.kind = "response" THEN "replying" ELSE "thinking"
            ELSE IF id = latest.to /\ (latest.kind \in {"request", "response"}
                                  \/ (latest.kind = "peer_decision" /\ latest.consult))
                 THEN "reading" ELSE "idle"
      BY <2>2 DEF Mood
    <3> HIDE DEF latest, peers, skipped
    <3>2. /\ id # latest.agent
          /\ id = latest.to => /\ latest.kind \notin {"request", "response"}
                               /\ ~(latest.kind = "peer_decision" /\ latest.consult)
      BY <1>5, <3>1 DEF OwnersEvent
    <3> QED
      BY <1>2, <1>5, <3>2, <3>3 DEF peers
  <2> QED
    BY <2>1, <2>2
<1> QED
  BY <1>4, <1>5

\* A hop that is drawn has its two ends at work, and no one else.
LEMMA HopLanes ==
  ASSUME NEW events \in Seq(Event), NEW peers, NEW skipped, Apart(peers, skipped),
         \A e \in ToSet(events) : OwnersEvent(e, peers, skipped),
         CurrentHop(events) # NoHop
  PROVE  LET hop == CurrentHop(events)
             mood(id) == Mood(events, FALSE, id)
         IN  /\ <<mood(hop.from), mood(hop.to)>> = HopMoods(hop)
             /\ \A id \in LiveAgents \ {hop.from, hop.to} : mood(id) = "idle"
<1> DEFINE e == Last(events)
<1>1. events # <<>> /\ CurrentHop(events) = PacketFromEvent(e)
  BY DEF CurrentHop
<1>2. OwnersEvent(e, peers, skipped)
  BY <1>1, InList
<1>3. \A id : Mood(events, FALSE, id) =
        IF id = e.agent
        THEN IF e.kind = "request" THEN "asking"
             ELSE IF e.kind = "response" THEN "replying" ELSE "thinking"
        ELSE IF id = e.to /\ (e.kind \in {"request", "response"}
                              \/ (e.kind = "peer_decision" /\ e.consult))
             THEN "reading" ELSE "idle"
  BY <1>1 DEF Mood
<1>6. e \in Event
  BY <1>1, InList
<1> HIDE DEF e
<1>4. /\ e.kind \in {"request", "response", "peer_decision"}
      /\ CurrentHop(events) =
           [from |-> e.agent, to |-> e.to,
            kind |-> IF e.kind = "peer_decision"
                     THEN IF e.consult THEN "consult" ELSE "skip" ELSE e.kind]
  BY <1>1 DEF PacketFromEvent
<1>5. e.agent # e.to
  BY <1>2, <1>4, <1>6 DEF OwnersEvent, Apart, Event
<1> DEFINE hop == CurrentHop(events)
<1>7. hop.from = e.agent /\ hop.to = e.to
      /\ hop.kind = IF e.kind = "peer_decision"
                    THEN IF e.consult THEN "consult" ELSE "skip" ELSE e.kind
  BY <1>4
<1>8. <<Mood(events, FALSE, e.agent), Mood(events, FALSE, e.to)>> = HopMoods(hop)
  BY <1>3, <1>4, <1>5, <1>7 DEF HopMoods
<1>9. \A id : id \notin {e.agent, e.to} => Mood(events, FALSE, id) = "idle"
  BY <1>3
<1> QED
  BY <1>7, <1>8, <1>9

\* While no hop is drawn, only the agent in the spotlight is at work.
LEMMA QuietLanes ==
  ASSUME NEW events \in Seq(Event), NEW peers, NEW skipped, Apart(peers, skipped),
         \A e \in ToSet(events) : OwnersEvent(e, peers, skipped),
         CurrentHop(events) = NoHop,
         NEW id \in LiveAgents, id # ActingAgent(events)
  PROVE  Mood(events, FALSE, id) = "idle"
<1>1. CASE events = <<>>
  BY <1>1 DEF Mood
<1>2. CASE events # <<>>
  <2> DEFINE e == Last(events)
  <2>1. OwnersEvent(e, peers, skipped) /\ e \in Event /\ CurrentHop(events) = PacketFromEvent(e)
    BY <1>2, InList DEF CurrentHop
  <2>2. Mood(events, FALSE, id) =
          IF id = e.agent
          THEN IF e.kind = "request" THEN "asking"
               ELSE IF e.kind = "response" THEN "replying" ELSE "thinking"
          ELSE IF id = e.to /\ (e.kind \in {"request", "response"}
                                \/ (e.kind = "peer_decision" /\ e.consult))
               THEN "reading" ELSE "idle"
    BY <1>2 DEF Mood
  <2>3. e.agent \in LiveAgents => ActingAgent(events) = e.agent
    BY <1>2 DEF ActingAgent
  <2>4. e.agent \notin LiveAgents => ActingAgent(events) = "mirrormaker"
    <3> DEFINE tickets == {n \in 1 .. Len(events) : events[n].kind = "ticket"}
    <3>1. ActingAgent(events) = IF e.agent \in LiveAgents THEN e.agent
                                ELSE IF tickets # {} /\ Min(tickets) # 0 THEN events[Min(tickets)].agent
                                ELSE "mirrormaker"
      BY <1>2 DEF ActingAgent, SelectInSeq
    <3>2. tickets # {} => Min(tickets) \in tickets
      <4>1. IsFiniteSet(1 .. Len(events))
        BY InList, FS_Interval
      <4>2. tickets \subseteq 1 .. Len(events) /\ 1 .. Len(events) \subseteq Nat
        OBVIOUS
      <4>3. IsFiniteSet(tickets)
        BY <4>1, <4>2, FS_Subset
      <4> HIDE DEF tickets
      <4> QED
        BY <4>2, <4>3, MinIsMember
    <3>3. \A n \in tickets : events[n].agent = "mirrormaker"
      BY InList DEF OwnersEvent
    <3> HIDE DEF tickets
    <3> QED
      BY <3>1, <3>2, <3>3
  <2> HIDE DEF e
  <2>5. CASE e.agent \in LiveAgents
    <3>1. id # e.agent
      BY <2>3, <2>5
    <3>2. e.to \in LiveAgents => e.kind \notin {"request", "response", "peer_decision"}
      <4>1. SUFFICES ASSUME e.to \in LiveAgents,
                            e.kind \in {"request", "response", "peer_decision"}
                     PROVE  PacketFromEvent(e) # NoHop
        BY <2>1
      <4>2. PacketFromEvent(e).from = e.agent
        BY <2>5, <4>1 DEF PacketFromEvent
      <4>3. NoHop.from = "" /\ e.agent # ""
        BY <2>5 DEF NoHop, LiveAgents
      <4> QED
        BY <4>2, <4>3
    <3> QED
      BY <2>2, <3>1, <3>2
  <2>6. CASE e.agent \notin LiveAgents
    <3>1. id # "mirrormaker" /\ id # e.agent
      BY <2>4, <2>6
    <3>2. e.agent # "mirrormaker"
      BY <2>6 DEF LiveAgents
    <3> QED
      BY <2>1, <2>2, <3>1, <3>2 DEF OwnersEvent
  <2> QED
    BY <2>5, <2>6
<1> QED
  BY <1>1, <1>2

\* No link leads to a team that was skipped.
LEMMA NoLinkToSkipped ==
  ASSUME NEW events \in Seq(Event), NEW peers, NEW skipped, Apart(peers, skipped),
         \A e \in ToSet(events) : OwnersEvent(e, peers, skipped)
  PROVE  {events[n].to : n \in SkippedFrom(events)} \cap UNION MeshLinks(events) = {}
<1>1. {events[n].to : n \in SkippedFrom(events)} \subseteq skipped
  BY InList DEF SkippedFrom, OwnersEvent
<1>2. UNION MeshLinks(events) \subseteq {"mirrormaker"} \cup peers
  <2> SUFFICES ASSUME NEW link \in MeshLinks(events), NEW a \in link
               PROVE  a \in {"mirrormaker"} \cup peers
    OBVIOUS
  <2>1. PICK e \in ToSet(events) :
          /\ link = {e.agent, e.to}
          /\ \/ e.kind \in {"request", "response"}
             \/ e.kind = "peer_decision" /\ e.consult
    BY DEF MeshLinks
  <2>2. OwnersEvent(e, peers, skipped)
    OBVIOUS
  <2> QED
    BY <2>1, <2>2 DEF OwnersEvent
<1> QED
  BY <1>1, <1>2 DEF Apart

-----------------------------------------------------------------------------
\* A flow replays the cut, a trace of the API, or nothing yet; the run is done
\* only when its flow has ended; and before the first click the page is empty.
ReplayInv ==
  /\ \A c \in Clicks : trace[c] \in {<<>>, RecordedCut} \cup LiveTraces
  /\ status = "done" => click # 0 /\ at[click] = "ended"
  /\ click = 0 => shown = <<>>

LEMMA ReplayedTraces ==
  ASSUME NEW events \in {<<>>, RecordedCut} \cup LiveTraces
  PROVE  events \in Seq(Event) /\ OwnersTrace(events)
<1>1. <<>> \in Seq(Event) /\ OwnersTrace(<<>>)
  BY DEF OwnersTrace, ToSet
<1> QED
  BY <1>1, CutIsOwners, TracesAssumption

LEMMA InitReplay == Init => ReplayInv
BY DEF Init, ReplayInv

LEMMA NextReplay == FlowInv /\ PageInv /\ ReplayInv /\ [Next]_vars => ReplayInv'
<1> SUFFICES ASSUME FlowInv, PageInv, ReplayInv, [Next]_vars PROVE ReplayInv'
  OBVIOUS
<1>1. CASE RunLive \/ RunRecorded
  <2>1. trace' = trace /\ status' = "running" /\ shown' = <<>>
    BY <1>1 DEF RunLive, RunRecorded, Start, ResetPage
  <2> QED
    BY <2>1 DEF ReplayInv
<1>2. CASE \/ CloseFinale \/ OpenFinale \/ LogTab \/ DocTab
           \/ JiraTimerFires \/ SpotTimerFires
           \/ \E c \in Clicks : FadeEnds(c)
           \/ UNCHANGED vars
  <2>1. UNCHANGED <<click, status, at, trace, shown>>
    BY <1>2 DEF CloseFinale, OpenFinale, LogTab, DocTab, JiraTimerFires,
                SpotTimerFires, FadeEnds, vars, flowVars
  <2> QED
    BY <2>1 DEF ReplayInv
<1>3. ASSUME NEW c \in Clicks, FlowStep(c) PROVE ReplayInv'
  <2>1. at[c] \in Live
    BY <1>3 DEF FlowStep, Posted, StillRunning, RunIsDone, LiveFails, Fetched,
                FetchFails, Tick, BannerOver, Live, Waiting, Replaying
  <2>2. c = click /\ click # 0 /\ status = "running"
    BY <2>1, ClicksAssumption DEF FlowInv, OneFlow, Clicks
  <2>3. ASSUME NEW events, NEW n, TickFrom(c, events, n)
        PROVE  status' = status \/ at' = [at EXCEPT ![c] = "ended"]
    BY <2>3 DEF TickFrom, Done, Advance
  <2>4. CASE Posted(c) \/ StillRunning(c) \/ LiveFails(c) \/ FetchFails(c)
    <3>1. UNCHANGED <<click, trace>> /\ status' # "done"
      BY <2>2, <2>4 DEF Posted, StillRunning, LiveFails, FetchFails, pageVars
    <3> QED
      BY <2>2, <3>1 DEF ReplayInv
  <2>5. CASE RunIsDone(c) \/ Fetched(c)
    <3>1. PICK events \in {RecordedCut} \cup LiveTraces : BeginReplay(c, events)
      BY <2>5 DEF RunIsDone, Fetched
    <3>2. trace' = [trace EXCEPT ![c] = events] /\ click' = click
          /\ (status' = status \/ at' = [at EXCEPT ![c] = "ended"])
      BY <2>3, <2>5, <3>1 DEF BeginReplay, RunIsDone, Fetched
    <3>3. \A d \in Clicks : trace'[d] = IF d = c THEN events ELSE trace[d]
      BY <3>2 DEF PageInv
    <3> QED
      BY <2>2, <3>1, <3>2, <3>3 DEF ReplayInv, FlowInv
  <2>6. CASE Tick(c) \/ BannerOver(c)
    <3>1. trace' = trace /\ click' = click
          /\ (status' = status \/ at' = [at EXCEPT ![c] = "ended"])
      BY <2>3, <2>6 DEF Tick, BannerOver, Advance
    <3> QED
      BY <2>2, <3>1 DEF ReplayInv, FlowInv
  <2> QED
    BY <1>3, <2>4, <2>5, <2>6 DEF FlowStep
<1> QED
  BY <1>1, <1>2, <1>3 DEF Next, UserStep

(* The lanes, the hop, the spotlight and the mesh agree with each other at   *)
(* every moment of a replay, and with the whole trace at its end, although   *)
(* each panel derives what it shows by a rule of its own from the events so  *)
(* far, and the cut has dropped some.  For any traces of this owner, with    *)
(* peers that have a lane or none.                                           *)
THEOREM LanesShowTheTrace == Spec => []LanesAreTrue
<1>1. FlowInv /\ PageInv /\ [Next]_vars => PageInv'
  BY NextPage
<1>2. FlowInv /\ PageInv /\ BannerInv /\ [Next]_vars => BannerInv'
  BY NextBanners
<1>3. FlowInv /\ PageInv /\ ReplayInv /\ [Next]_vars => ReplayInv'
  BY NextReplay
<1>4. FlowInv /\ PageInv /\ BannerInv /\ ReplayInv => LanesAreTrue
  <2> SUFFICES ASSUME FlowInv, PageInv, BannerInv, ReplayInv PROVE LanesAreTrue
    OBVIOUS
  <2> DEFINE T == IF click = 0 THEN <<>> ELSE trace[click]
             n == IF click = 0 THEN 0 ELSE i[click]
             peers == PeersOf(T)
             skipped == SkippedOf(T)
  <2>1. T \in Seq(Event) /\ OwnersTrace(T)
    <3>1. T \in {<<>>, RecordedCut} \cup LiveTraces
      BY DEF ReplayInv, FlowInv, Clicks
    <3> HIDE DEF T
    <3> QED
      BY <3>1, ReplayedTraces
  <2> HIDE DEF T, n
  <2>2. n \in 0 .. Len(T) /\ shown = SubSeq(T, 1, n)
    <3>1. CASE click = 0
      <4>1. shown = <<>> /\ SubSeq(<<>>, 1, 0) = <<>> /\ Len(<<>>) = 0
        BY <3>1, TraceFacts, TracesAreTraces DEF ReplayInv
      <4> QED
        BY <3>1, <4>1 DEF T, n
    <3>2. CASE click # 0
      <4>1. click \in Clicks /\ T = trace[click] /\ n = i[click]
        BY <3>2 DEF FlowInv, Clicks, T, n
      <4>2. IsTrace(T) /\ n \in Nat /\ n <= Len(T) /\ shown = SubSeq(T, 1, n)
        BY <3>2, <4>1 DEF PageInv, PageIsTheClicks
      <4>3. Len(T) \in Nat
        BY <4>2, TraceFacts
      <4> QED
        BY <4>2, <4>3
    <3> QED
      BY <3>1, <3>2
  <2>3. /\ shown \in Seq(Event)
        /\ \A e \in ToSet(shown) : OwnersEvent(e, peers, skipped)
        /\ Apart(peers, skipped)
    <3>1. Apart(peers, skipped) /\ \A e \in ToSet(T) : OwnersEvent(e, peers, skipped)
      BY <2>1, OwnersEvents
    <3>2. shown \in Seq(Event) /\ \A m \in 1 .. Len(shown) : m \in 1 .. Len(T) /\ shown[m] = T[m]
      BY <2>1, <2>2
    <3>3. ToSet(shown) \subseteq ToSet(T)
      BY <2>1, <3>2, InList
    <3> QED
      BY <3>1, <3>2, <3>3
  <2>4. ASSUME status = "done", NEW id \in LiveAgents
        PROVE  LET whole == IF recorded[click] THEN RecordedTrace ELSE trace[click]
               IN  Mood(shown, TRUE, id) =
                     IF id \in {"mirrormaker"} \cup {whole[m].to : m \in ConsultedFrom(whole)}
                     THEN "done" ELSE "idle"
    <3>1. click \in Clicks /\ at[click] = "ended" /\ n = Len(T) /\ T = trace[click]
      BY <2>4 DEF ReplayInv, FlowInv, Clicks, PageInv, PageIsTheClicks, T, n
    <3>2. shown = T
      BY <2>1, <2>2, <3>1
    <3> DEFINE whole == IF recorded[click] THEN RecordedTrace ELSE trace[click]
    <3>3. whole \in Seq(Event) /\ PeersOf(whole) = PeersOf(T)
      BY <2>1, <3>1, CutIsOwners, TracesAssumption DEF BannerInv, SawWhatItShowed
    <3> HIDE DEF whole
    <3>4. {whole[m].to : m \in ConsultedFrom(whole)} = PeersOf(whole)
      BY <3>3, InList DEF ConsultedFrom, PeersOf
    <3>5. Mood(shown, TRUE, id) =
            IF id \in {"mirrormaker"} \cup PeersOf(T) THEN "done" ELSE "idle"
      BY <2>1, <3>2, DoneLanes
    <3> QED
      BY <3>3, <3>4, <3>5 DEF whole
  <2>5. status # "done" /\ CurrentHop(shown) # NoHop =>
          LET hop == CurrentHop(shown)
              mood(id) == Mood(shown, FALSE, id)
          IN  /\ <<mood(hop.from), mood(hop.to)>> = HopMoods(hop)
              /\ \A id \in LiveAgents \ {hop.from, hop.to} : mood(id) = "idle"
    <3> HIDE DEF peers, skipped
    <3> QED
      BY <2>3, HopLanes
  <2>6. status # "done" /\ CurrentHop(shown) = NoHop =>
          \A id \in LiveAgents \ {ActingAgent(shown)} : Mood(shown, FALSE, id) = "idle"
    <3> HIDE DEF peers, skipped
    <3> QED
      BY <2>3, QuietLanes
  <2>7. {shown[m].to : m \in SkippedFrom(shown)} \cap UNION MeshLinks(shown) = {}
    <3> HIDE DEF peers, skipped
    <3> QED
      BY <2>3, NoLinkToSkipped
  <2>8. \A id : Mood(shown, status = "done", id) =
                  IF status = "done" THEN Mood(shown, TRUE, id) ELSE Mood(shown, FALSE, id)
    BY DEF Mood
  <2> QED
    BY <2>4, <2>5, <2>6, <2>7, <2>8 DEF LanesAreTrue
<1> QED
  BY <1>1, <1>2, <1>3, <1>4, InitPage, InitBanners, InitReplay, FlowHolds, PTL DEF Spec
=============================================================================
