---------------------------- MODULE SolverContract ----------------------------
(***************************************************************************)
(* What integration_step expects of the solver, seen from outside: it is   *)
(* sent towards a later time, and answers with a time it has reached, on   *)
(* the way and never before one it has answered with.  StepLoop models the *)
(* loop around the solver on this understanding; CVodeDriver is shown to   *)
(* keep to it.                                                             *)
(***************************************************************************)
EXTENDS Integers

VARIABLES
    reached,   \* the time of the last answer
    target,    \* where the solver was sent
    working,   \* it was called and has not answered
    answer     \* "arrived", "event", "exhausted", "failed", or "none" since a restart

contractVars == <<reached, target, working, answer>>

ContractInit == reached = 0 /\ target = 0 /\ ~working /\ answer = "none"

(* It is sent to a later time, unless it failed. *)
Send ==
    /\ ~working /\ answer # "failed"
    /\ target' > reached
    /\ working'
    /\ UNCHANGED <<reached, answer>>

(* It works on. *)
Work == working /\ working' /\ UNCHANGED contractVars

(* It arrives; it stops at an event on the way; it has used up the steps   *)
(* it may take before it arrived; or it fails.                             *)
Answer ==
    /\ working /\ ~working'
    /\ reached' >= reached
    /\ UNCHANGED target
    /\ \/ answer' = "arrived" /\ reached' = target
       \/ answer' = "event" /\ reached' <= target
       \/ answer' = "exhausted" /\ reached' < target
       \/ answer' = "failed"

(* It is restarted where it is, or set up again from the start. *)
Restart ==
    /\ ~working /\ ~working'
    /\ answer' = "none"
    /\ UNCHANGED target
    /\ \/ reached' = reached
       \/ answer = "failed" /\ reached' = 0

Contract == ContractInit /\ [][Send \/ Work \/ Answer \/ Restart]_contractVars
===============================================================================
