----------------------------- MODULE MCManager -----------------------------
(* Model checking of Manager: what the files are called and what can happen *)
(* differs from run to run.                                                  *)
EXTENDS Manager

\* All files in one directory, as a compose.yml and a compose.dev.yml.
SameName == [f \in Files |-> CHOOSE n \in Names : TRUE]

\* A directory whose name is not the one the files declare.
OtherName == [f \in Files |-> CHOOSE n \in Names : n # SameName[f]]
=============================================================================
