--------------------------- MODULE MCEnvironments ---------------------------
(***************************************************************************)
(* CoSimInstance for TLC, in two environments without snapshots: that of   *)
(* the constants of the configuration, in which everything may happen, and *)
(* one in which evaluations fail for good or not at all, and only the      *)
(* events of changed parameters move the states outside a step.            *)
(* `environment' says which one the behaviour is of.  What holds in the    *)
(* second one only is checked there; section 4 of the README says what     *)
(* breaks it in the first.  That environment comes with what is proved of  *)
(* CoSimInstance, so that the theorems are about its very copy.            *)
(***************************************************************************)
EXTENDS CoSimInstance

VARIABLE environment

Fatal ==
    INSTANCE CoSimInstance_proofs WITH Faults <- {"failed"}, Disturbances <- {"parameters"},
        StringParameters <- FALSE, SnapshotModes <- {}

EnvironmentInit == environment \in {"every", "fatal"} /\ Init

EnvironmentNext ==
    /\ UNCHANGED environment
    /\ \/ environment = "every" /\ Next
       \/ environment = "fatal" /\ Fatal!Next

EnvironmentSpec == EnvironmentInit /\ [][EnvironmentNext]_<<environment, vars>>

----------------------------------------------------------------------------
(* See CoSimInstance: the solver steps from where the instance is, also    *)
(* when parameters that were set between the steps move the states.        *)
SyncedUnlessDiscarded == environment = "fatal" => Fatal!StepStartsSynced
=============================================================================
