--------------------------- MODULE MCTicketTrace ---------------------------
(* TLC instances of TicketTrace, and with it of Deliberation. *)
EXTENDS TicketTrace

CONSTANTS t0, t1, t2, absent, c1, c2

MCTeam == {t0, t1, t2, absent}
MCDeployed == {t1, t2}
MCPeerLists == {<<>>, <<t1, t2>>, <<t1, absent>>}
MCOwners == {t0}
MCListed == <<t0, t1, t2, absent>>
MCInvestigations == {<<"tool_call", "finding">>}
MCSignalLists == {<<>>, <<c1>>}
MCConcern == {c1, c2}

Says(verdict, concerns, mentions, authority) ==
  [verdict |-> verdict, concerns |-> concerns, mentions |-> mentions,
   signOff |-> authority, authority |-> authority, timedOut |-> FALSE]

(* What tells the answers apart: assent with or without a recommendation,  *)
(* for one alternative or for two; a concern, new or raised by the other   *)
(* peer too, or twice in one answer; a refusal by a team that must sign off but does not say why;  *)
(* a statement of authority.                                               *)
MCAnswers ==
  {Says("agreed", <<>>, {}, FALSE),
   Says("agreed", <<>>, {1}, FALSE),
   Says("agreed", <<>>, {2, 3}, FALSE),
   Says("agreed", <<>>, {1}, TRUE),
   Says("agreed", <<c1>>, {}, FALSE),
   Says("needs_changes", <<c2, c1, c2>>, {2}, FALSE),
   [Says("blocked", <<>>, {}, FALSE) EXCEPT !.signOff = TRUE]}
=============================================================================
