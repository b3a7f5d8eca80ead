---------------------------- MODULE MCTicketRun -----------------------------
(* TLC instances of TicketRun: the constants are given in the .cfg files. *)
EXTENDS TicketRun
=============================================================================
