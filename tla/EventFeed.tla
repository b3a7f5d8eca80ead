----------------------------- MODULE EventFeed ------------------------------
(***************************************************************************)
(* What the stream endpoint of the gateway promises its clients (README    *)
(* "SSE of events as they happen"): each client receives the events of the *)
(* run, every one of them, once, in the order in which they happened, and  *)
(* is told that the stream is over only when it has them all.              *)
(*                                                                         *)
(* TicketRun implements this with a list and a queue shared by several     *)
(* threads; here there are only the events published so far and those each *)
(* client holds.                                                           *)
(***************************************************************************)
EXTENDS Naturals, Sequences

CONSTANTS
  Event,                \* what can be published
  Client                \* who listens

VARIABLES
  log,                  \* the events published, in order
  closed,               \* nothing will be published any more
  received,             \* the events each client holds, in order of arrival
  ended                 \* the clients that were told that the stream is over

vars == <<log, closed, received, ended>>

Init ==
  /\ log = <<>>
  /\ closed = FALSE
  /\ received = [c \in Client |-> <<>>]
  /\ ended = {}

Publish ==
  /\ ~closed
  /\ \E e \in Event : log' = Append(log, e)
  /\ UNCHANGED <<closed, received, ended>>

Close ==
  /\ ~closed
  /\ closed' = TRUE
  /\ UNCHANGED <<log, received, ended>>

Receive(c) ==
  /\ c \notin ended
  /\ Len(received[c]) < Len(log)
  /\ received' = [received EXCEPT ![c] = Append(@, log[Len(@) + 1])]
  /\ UNCHANGED <<log, closed, ended>>

End(c) ==
  /\ c \notin ended
  /\ closed
  /\ received[c] = log
  /\ ended' = ended \cup {c}
  /\ UNCHANGED <<log, closed, received>>

Next == Publish \/ Close \/ \E c \in Client : Receive(c) \/ End(c)

Spec == Init /\ [][Next]_vars
=============================================================================
