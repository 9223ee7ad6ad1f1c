-------------------------- MODULE MCCoSimInstance --------------------------
(***************************************************************************)
(* CoSimInstance for TLC.  Its constants are sets of strings and Booleans  *)
(* that the configurations write down, and its state space is finite: an   *)
(* instance has no counter that grows, so no bound and no constraint is    *)
(* needed, and a run is exhaustive for the constants it gives.             *)
(***************************************************************************)
EXTENDS CoSimInstance
=============================================================================
