------------------------------ MODULE MCStats ------------------------------
(* Model checking of Stats.                                                  *)
EXTENDS Stats, TLC

\* All containers belong to one project.
OneProject == [c \in Containers |-> CHOOSE q \in Projects : TRUE]
=============================================================================
