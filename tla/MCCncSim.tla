------------------------------ MODULE MCCncSim ------------------------------
(* CncSim with two short programs: a long one, and one that makes one product. *)
EXTENDS CncSim

MCLastLine  == [p \in Programs |-> IF p = "O1000" THEN 3 ELSE 2]
MCStill     == [p \in Programs |-> {1}]
MCNProducts == [p \in Programs |-> IF p = "O1000" THEN 2 ELSE 1]

=============================================================================
