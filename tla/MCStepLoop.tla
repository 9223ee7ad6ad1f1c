----------------------------- MODULE MCStepLoop -----------------------------
(***************************************************************************)
(* StepLoop for TLC.  Besides Horizon nothing needs a bound: `taken` could *)
(* grow without end, but it starts anew with each call of the solver, in   *)
(* which time can move on only so often and the budget is limited.  The    *)
(* configurations give the solver the numbers of steps of the code.        *)
(***************************************************************************)
EXTENDS StepLoop
=============================================================================
