------------------------------ MODULE DesignDoc ------------------------------
(***************************************************************************)
(* The one-pager: agents/design_doc.py renders the finding of a decided    *)
(* deliberation as the document that is sent round for review.  Modelled   *)
(* is what it asserts: its status, whether a human is needed and for what, *)
(* the mark on each alternative, who must sign off, and the appendix with  *)
(* the record of the deliberation.  The prose is left out.                 *)
(***************************************************************************)
EXTENDS Deliberation

(* all_responses: the answers of all rounds, in the order they were given. *)
Record == FlattenSeq(heard)

(* When a peer is asked, and when it first claimed authority. *)
SeatOf(peer) == SelectInSeq(peers, LAMBDA p : p = peer)

ClaimedAt(peer) ==
  SelectInSeq(Record, LAMBDA said : said.from = peer /\ said.answer.authority)

Point(why, who) == [why |-> why, who |-> who]

(* One point per team, by the number each is given. *)
PointsAbout(why, teams, at) ==
  [i \in 1 .. Cardinality(teams) |->
     Point(why, {CHOOSE p \in teams :
                   Cardinality({q \in teams : at[q] < at[p]}) = i - 1})]

(* human_decision_points of a finding: one for each team without an agent, *)
(* one for each that claims authority, one that names all the silent.      *)
HumanDecisionPoints(f) ==
  PointsAbout("undeployed", f.undeployed, [p \in f.undeployed |-> SeatOf(p)])
  \o PointsAbout("authority", f.authority, [p \in f.authority |-> ClaimedAt(p)])
  \o (IF f.tie THEN <<Point("tie", {})>> ELSE <<>>)
  \o (IF f.unreachable # {} THEN <<Point("unreachable", f.unreachable)>> ELSE <<>>)
  \o (IF f.undecided THEN <<Point("undecided", {})>> ELSE <<>>)

(* Mutant: an alternative that anyone ruled out is marked so.              *)
MarkerRulingFirst(a) ==
  IF ruledOut[a] # Standing THEN "ruled out"
  ELSE IF a \in recommended THEN "recommended" ELSE ""

(* _render_alternative: a recommended alternative is marked so, also when  *)
(* an answer ruled it out; the reason is printed in any case.              *)
Marker(a) ==
  IF a \in recommended THEN "recommended"
  ELSE IF ruledOut[a] # Standing THEN "ruled out" ELSE ""

RenderAlternative(a) ==
  [marker |-> Marker(a), whyRuledOut |-> ruledOut[a], reviewedBy |-> reviewedBy]

(* _render_teams_table, of the peers; the owner never signs off. *)
TeamsTable == [team \in TeamsInvolved |-> team \in SignOffs]

(* _render_deliberation: one row per answer. *)
DeliberationRows ==
  [i \in 1 .. Len(Record) |->
     [to |-> Record[i].from, verdict |-> Record[i].answer.verdict,
      concerns |-> Record[i].newHere]]

(* render_one_pager *)
OnePager ==
  [status         |-> IF converged THEN "converged" ELSE "incomplete",
   rounds         |-> Round,
   needsHuman     |-> RequiresHuman,
   alternatives   |-> [a \in Alternative |-> RenderAlternative(a)],
   recommendation |-> finding.recommends,
   teams          |-> TeamsTable,
   points         |-> HumanDecisionPoints(finding),
   appendix       |-> DeliberationRows]
=============================================================================
