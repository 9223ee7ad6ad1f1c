--------------------------- MODULE EventSchedule ---------------------------
(***************************************************************************)
(* What a communication step promises about simulated time, whatever the   *)
(* solver does inside:                                                     *)
(*                                                                         *)
(*   - Time only moves on, and only within a step.                         *)
(*   - A time event is not passed: time stops at it, and moves on only     *)
(*     when an event has been handled there.                               *)
(*   - Handling an event may bring the next time event forward or put it   *)
(*     off, but not to the present or the past.                            *)
(*   - A step that succeeds ends where it was asked to end, with every     *)
(*     time event up to there, its end included, handled.                  *)
(*                                                                         *)
(* StepLoop implements this specification.                                 *)
(***************************************************************************)
EXTENDS Integers

VARIABLES
    now,     \* simulated time
    due,     \* the next time event
    asked,   \* where the present or last step is to end
    within   \* a step is in progress

scheduleVars == <<now, due, asked, within>>

ScheduleInit == now < due /\ within = FALSE

(* Between steps parameters may change, and with them the next event. *)
Revise == ~within /\ due' > now /\ UNCHANGED <<now, asked, within>>

(* The master asks for a step. *)
Ask == ~within /\ within' /\ asked' >= now /\ due' > now /\ UNCHANGED now

(* Continuous time passes. *)
Pass ==
    /\ within
    /\ now <= now' /\ now' <= due /\ now' <= asked
    /\ UNCHANGED <<due, asked, within>>

(* Time passes up to an event, which is handled. *)
Occur ==
    /\ within
    /\ now <= now' /\ now' <= due /\ now' <= asked
    /\ due' > now'
    /\ UNCHANGED <<asked, within>>

Complete ==
    /\ within /\ now = asked /\ now < due
    /\ ~within'
    /\ UNCHANGED <<now, due, asked>>

(* An evaluation fails or the model stops, possibly after a last event. *)
Abandon ==
    /\ within /\ ~within'
    /\ now <= now' /\ now' <= due /\ now' <= asked
    /\ UNCHANGED <<due, asked>>

ScheduleNext == Revise \/ Ask \/ Pass \/ Occur \/ Complete \/ Abandon

Schedule == ScheduleInit /\ [][ScheduleNext]_scheduleVars
=============================================================================
