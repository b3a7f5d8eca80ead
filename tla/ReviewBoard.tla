---------------------------- MODULE ReviewBoard -----------------------------
(***************************************************************************)
(* What a deliberation promises (module docstring of agents/base_agent.py):*)
(* the owner of a ticket puts its alternatives to a board of peers, round  *)
(* after round, until one round passes without dissent or the rounds are   *)
(* used up; the matter is settled among the agents only after a round      *)
(* without dissent, and goes to a human otherwise.                         *)
(*                                                                         *)
(* Deliberation implements this with answers, concerns and alternatives;   *)
(* here a round is only the set of seats that did not assent in it.        *)
(***************************************************************************)
EXTENDS Naturals, Sequences

CONSTANT MaxRounds

VARIABLES
  seats,        \* how many peers sit on the board
  dissent,      \* for each finished round, the seats that did not assent
  outcome       \* open, settled by the agents, left to a human, failed

vars == <<seats, dissent, outcome>>

Unanimous(k) == dissent[k] = {}

Init ==
  /\ seats = 0
  /\ dissent = <<>>
  /\ outcome = "open"

Convene ==
  /\ outcome = "open"
  /\ dissent = <<>>
  /\ seats' \in Nat
  /\ UNCHANGED <<dissent, outcome>>

(* Another round, unless the last one was unanimous. *)
Poll ==
  /\ outcome = "open"
  /\ Len(dissent) < MaxRounds
  /\ dissent # <<>> => ~Unanimous(Len(dissent))
  /\ \E D \in SUBSET (1 .. seats) : dissent' = Append(dissent, D)
  /\ UNCHANGED <<seats, outcome>>

Settle ==
  /\ outcome = "open"
  /\ dissent # <<>>
  /\ Unanimous(Len(dissent))
  /\ outcome' = "settled"
  /\ UNCHANGED <<seats, dissent>>

(* The board may agree and still need a human, but it may not give up      *)
(* before it has used its rounds.                                          *)
Escalate ==
  /\ outcome = "open"
  /\ dissent # <<>>
  /\ Len(dissent) = MaxRounds \/ Unanimous(Len(dissent))
  /\ outcome' = "escalated"
  /\ UNCHANGED <<seats, dissent>>

(* A deliberation that fails leaves no record. *)
Fail ==
  /\ outcome = "open"
  /\ outcome' = "failed"
  /\ dissent' = <<>>
  /\ UNCHANGED seats

Next == Convene \/ Poll \/ Settle \/ Escalate \/ Fail

Spec == Init /\ [][Next]_vars
=============================================================================
