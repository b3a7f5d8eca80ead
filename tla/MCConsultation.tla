-------------------------- MODULE MCConsultation ----------------------------
(* TLC instances of Consultation. *)
EXTENDS Consultation

MCAgent == {"coordinator", "clients", "storage"}
MCDeployed == MCAgent \ {"storage"}

(* The coordinator may consult anybody but itself, the clients team the    *)
(* coordinator back.                                                       *)
MCAsks == [a \in MCDeployed |-> IF a = "coordinator" THEN MCAgent \ {a}
                                                     ELSE {"coordinator"}]
MCStrays == {"clients"}
=============================================================================
