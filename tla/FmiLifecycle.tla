---------------------------- MODULE FmiLifecycle ----------------------------
(***************************************************************************)
(* What an FMU instance promises its master about its life, whatever       *)
(* happens inside: which answers take it from which stage to which.        *)
(*                                                                         *)
(*   - Only an initialisation answered with OK leads to a run, and only a  *)
(*     run steps.                                                          *)
(*   - A step is answered once.  If the model stopped by itself, the step  *)
(*     is discarded and there is no further one.                           *)
(*   - An error ends the instance; a warning or a discard never changes    *)
(*     more than that.                                                     *)
(*   - What has ended comes back only by a reset, as a new instance, or    *)
(*     by restoring a saved state, at the stage the state was saved in.    *)
(*                                                                         *)
(* CoSimInstance implements this specification.                            *)
(***************************************************************************)
VARIABLES
    stage,    \* where the instance is in its life
    kept,     \* the stage of the saved state, or "none"
    answer    \* what the last call returned

lifeVars == <<stage, kept, answer>>

(* A master may call an instance in one of these stages. *)
Resting == {"instantiated", "initialising", "running", "stopped", "terminated"}

(* The others: inside fmi2DoStep, freed, and after a failed assertion. *)
Stages == Resting \cup {"stepping", "freed", "aborted"}

LifeInit == stage = "instantiated" /\ kept = "none" /\ answer = "OK"

(* A call that moves the instance from stage `from` to `to`. *)
Moves(from, to, status) ==
    stage = from /\ stage' = to /\ answer' = status /\ UNCHANGED kept

Initialise ==
    \/ Moves("instantiated", "initialising", "OK")
    \/ Moves("initialising", "running", "OK")

(* Values are got and set, a step past the stop time is refused: nothing   *)
(* moves.  Only where there is something to evaluate can it be discarded.  *)
Use ==
    /\ stage \in Resting
    /\ \/ answer' \in {"OK", "Warning"}
       \/ answer' = "Discard" /\ stage \in {"initialising", "running", "stopped"}
    /\ UNCHANGED <<stage, kept>>

(* The answer of a step that begins is still to come. *)
BeginStep == Moves("running", "stepping", answer)

EndStep ==
    \/ Moves("stepping", "running", "OK")
    \/ Moves("stepping", "stopped", "Discard")
    \/ Moves("running", "stopped", "Discard")

Fail ==
    /\ stage \in Resting \cup {"stepping"}
    /\ stage' = "terminated"
    /\ answer' = "Error"
    /\ UNCHANGED kept

End ==
    /\ stage \in Resting
    /\ stage' = "terminated"
    /\ answer' = IF stage = "terminated" THEN "Warning" ELSE "OK"
    /\ UNCHANGED kept

Reset == stage \in Resting /\ stage' = "instantiated" /\ answer' = "OK" /\ UNCHANGED kept

Save == stage \in Resting /\ kept' = stage /\ answer' = "OK" /\ UNCHANGED stage

Restore ==
    /\ stage \in Resting /\ kept # "none"
    /\ stage' = kept
    /\ answer' = "OK"
    /\ UNCHANGED kept

Discard == kept # "none" /\ kept' = "none" /\ answer' = "OK" /\ UNCHANGED stage

Free == stage \in Resting /\ kept = "none" /\ Moves(stage, "freed", answer)

Abort ==
    /\ stage \in Resting \cup {"stepping"}
    /\ stage' = "aborted"
    /\ UNCHANGED kept

LifeNext ==
    \/ Initialise \/ Use \/ BeginStep \/ EndStep \/ Fail \/ End
    \/ Reset \/ Save \/ Restore \/ Discard \/ Free \/ Abort

LifeSpec == LifeInit /\ [][LifeNext]_lifeVars
=============================================================================
