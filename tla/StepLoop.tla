------------------------------ MODULE StepLoop ------------------------------
(***************************************************************************)
(* The loops of fmi2DoStep: that of fmiDoStep_, which goes from event to   *)
(* event up to the end of the communication step, and inside it that of    *)
(* integration_step, which calls CVode until it arrives.  CoSimInstance    *)
(* abstracts from time and says what the calls do to the instance; here    *)
(* time is what matters, and the instance is only running or ended.        *)
(*                                                                         *)
(* Time is a number of instants.  CVode is any solver that returns; what   *)
(* it returns and which events the model has is nondeterministic.  Result  *)
(* files are not stored, so nextResultSampleTime is never reached.         *)
(***************************************************************************)
EXTENDS Integers

CONSTANTS
    Horizon,           \* bound: the last instant a master asks for
    StopTime,          \* tStop; beyond Horizon when it is not defined
    StopTolerance,     \* 2 * SMALL_TIME_DEV(tStop), in instants
    Deviations,        \* currentCommunicationPoint - time, 0 as it should be
    MaxStepsBeforeReinit, MaxStepsTotal, StepsBeforeReinitFactor

ASSUME TimesAssumption ==
    /\ Horizon \in Nat /\ StopTime \in Nat /\ StopTolerance \in Nat
    /\ Deviations \subseteq Int

ASSUME BudgetAssumption ==
    /\ MaxStepsBeforeReinit \in Nat \ {0}
    /\ MaxStepsTotal \in Nat /\ MaxStepsTotal >= MaxStepsBeforeReinit
    /\ StepsBeforeReinitFactor \in Nat \ {0}

Times == 0 .. Horizon

(* No time event is known (NextTimeEvent = 1e100). *)
Never == Horizon + 1

VARIABLES
    time,                  \* simulated time
    nextTimeEvent,         \* the next time event the model registered
    endStepTime,           \* where the step ends
    finalTimeEventCalled,
    tout,                  \* where the solver is to go
    nextTimeEventIn,       \* nextTimeEvent when integration_step began
    budget, accumulated,   \* current and accumulated_steps_before_reinit
    restarted,             \* CVode has not stepped since its last restart
    initStep,              \* CVode was given an initial step size
    pc,                    \* where fmi2DoStep is
    answer,                \* what the last call returned
    ended,                 \* terminated, or stopped by the model
    taken,                 \* history: CVode steps taken by integration_step
    exhausted,             \* history: the budget was what failed the step
    turn                   \* history: flips whenever fmi2DoStep does something,
                           \* so that doing the same again is not doing nothing

eventVars == <<nextTimeEvent, finalTimeEventCalled>>
solverVars == <<tout, nextTimeEventIn, budget, accumulated, restarted, initStep, taken, exhausted>>
callVars == <<endStepTime, answer, ended>>
vars == <<time, eventVars, solverVars, callVars, pc, turn>>

(* Between calls, at the head of the loop of fmiDoStep_, in that of        *)
(* integration_step, and where fmiDoStep_ calls handleEvent.               *)
Places == {"idle", "loop", "solver", "event"}

TypeOK ==
    /\ time \in Int /\ tout \in Int /\ endStepTime \in Int
    /\ nextTimeEvent \in 0 .. Never /\ nextTimeEventIn \in 0 .. Never
    /\ budget \in Nat /\ accumulated \in Nat /\ taken \in Nat
    /\ finalTimeEventCalled \in BOOLEAN /\ restarted \in BOOLEAN
    /\ initStep \in BOOLEAN /\ ended \in BOOLEAN /\ exhausted \in BOOLEAN /\ turn \in BOOLEAN
    /\ pc \in Places
    /\ answer \in {"OK", "Warning", "Discard", "Error"}

Init ==
    /\ time = 0
    /\ nextTimeEvent \in 1 .. Never
    /\ endStepTime = 0 /\ finalTimeEventCalled = FALSE
    /\ tout = 0 /\ nextTimeEventIn = 0
    /\ budget = 0 /\ accumulated = 0
    /\ restarted = TRUE /\ initStep = FALSE
    /\ pc = "idle" /\ answer = "OK" /\ ended = FALSE
    /\ taken = 0 /\ exhausted = FALSE /\ turn = TRUE

Lesser(a, b) == IF a < b THEN a ELSE b

----------------------------------------------------------------------------
(* Answers.                                                                *)

Return(status) == pc' = "idle" /\ answer' = status /\ UNCHANGED endStepTime

(* An error terminates the instance; the model may stop by itself, which   *)
(* discards the step.                                                      *)
GiveUp ==
    /\ \E status \in {"Error", "Discard"} : Return(status)
    /\ ended' = TRUE

Fail == Return("Error") /\ ended' = TRUE

(* An event iteration at time t forgets the time events and registers      *)
(* those that are still to come (1e100, if there is none).                 *)
EventsAfter(t) == {e \in 1 .. Never : e > t}

----------------------------------------------------------------------------
(* The loop of fmiDoStep_.                                                 *)

(* Mutant of Clipped: the tolerance is allowed for, but not taken off. *)
ClippedNever(end) == end

(* The end of the step, clipped to the stop time when it is barely past.   *)
Clipped(end) == IF end > StopTime THEN StopTime ELSE end

(* What an evaluation between steps may leave registered: events are       *)
(* iterated if parameters changed, and one that fails forgot the old ones. *)
EventsNow == {nextTimeEvent} \cup EventsAfter(time)

(* A call of an instance that runs: refused past the stop time; else the   *)
(* event handling for changed values is next, or the restart of a solver   *)
(* whose states were set and the evaluation that finds the derivatives.    *)
DoStep(end, valWasSet) ==
    /\ pc = "idle" /\ ~ended
    /\ UNCHANGED <<time, tout, nextTimeEventIn, budget, accumulated, initStep, taken, exhausted, ended>>
    /\ IF end - StopTime > StopTolerance
       THEN Return("Warning") /\ UNCHANGED <<eventVars, restarted>>
       ELSE /\ endStepTime' = Clipped(end)
            /\ finalTimeEventCalled' = FALSE
            /\ \/ valWasSet /\ pc' = "event" /\ UNCHANGED <<nextTimeEvent, restarted>>
               \/ /\ ~valWasSet /\ pc' = "loop"
                  /\ nextTimeEvent' \in EventsNow
                  /\ restarted' \in {restarted, TRUE}
            /\ UNCHANGED answer

(* That evaluation fails, for now or for good. *)
DoStepFails ==
    /\ pc = "idle" /\ ~ended
    /\ \/ Return("Discard") /\ UNCHANGED ended
       \/ Fail
    /\ nextTimeEvent' \in EventsNow
    /\ UNCHANGED <<time, finalTimeEventCalled, solverVars>>

(* The instance has terminated. *)
DoStepEnded ==
    /\ pc = "idle" /\ ended
    /\ Return("Error")
    /\ UNCHANGED <<time, eventVars, solverVars, ended>>

(* A getter evaluates the model after its parameters changed. *)
Get ==
    /\ pc = "idle" /\ ~ended
    /\ nextTimeEvent' \in EventsNow
    /\ UNCHANGED <<time, finalTimeEventCalled, solverVars, callVars, pc>>

(* Mutant of GoesOn: a time event at the end of the step is left there. *)
GoesOnBefore == time < endStepTime

GoesOn ==
    \/ time < endStepTime
    \/ endStepTime = nextTimeEvent /\ ~finalTimeEventCalled

(* integration_step is called for a time before the next event. *)
BeginIntegrate ==
    /\ pc = "loop" /\ GoesOn /\ time < nextTimeEvent
    /\ tout' = Lesser(endStepTime, nextTimeEvent)
    /\ nextTimeEventIn' = nextTimeEvent
    /\ budget' = MaxStepsBeforeReinit
    /\ accumulated' = MaxStepsBeforeReinit
    /\ taken' = 0
    /\ pc' = "solver"
    /\ UNCHANGED <<time, eventVars, callVars, restarted, initStep, exhausted>>

TimeEvent ==
    /\ pc = "loop" /\ GoesOn /\ ~(time < nextTimeEvent)
    /\ time' = nextTimeEvent
    /\ finalTimeEventCalled' = (finalTimeEventCalled \/ nextTimeEvent = endStepTime)
    /\ pc' = "event"
    /\ UNCHANGED <<nextTimeEvent, solverVars, callVars>>

(* handleEvent; the solver is restarted unless the event was minor. *)
HandleEvent ==
    /\ pc = "event"
    /\ \/ /\ nextTimeEvent' \in EventsAfter(time)
          /\ restarted' \in {restarted, TRUE}
          /\ pc' = "loop"
          /\ UNCHANGED <<callVars, tout, nextTimeEventIn, budget, accumulated, initStep, taken, exhausted>>
       \/ GiveUp /\ UNCHANGED <<nextTimeEvent, solverVars>>
    /\ UNCHANGED <<time, finalTimeEventCalled>>

(* Out of the loop. *)
StepDone ==
    /\ pc = "loop" /\ ~GoesOn
    /\ time' = endStepTime
    /\ Return("OK")
    /\ UNCHANGED <<eventVars, solverVars, ended>>

----------------------------------------------------------------------------
(* The loop of integration_step: one action for each return of CVode.      *)

(* Mutant of TooClose: no initial step size is set. *)
TooCloseAlways == time = tout /\ restarted

(* CVode refuses a first step of no length, unless its size is given.      *)
TooClose == time = tout /\ restarted /\ ~initStep

CVodeTooClose ==
    /\ pc = "solver" /\ TooClose
    /\ initStep' = TRUE
    /\ UNCHANGED <<time, eventVars, callVars, pc, tout, nextTimeEventIn, budget,
                   accumulated, restarted, taken, exhausted>>

(* Arrived; integration_step returns, and there is a step event or not.    *)
CVodeSuccess ==
    /\ pc = "solver" /\ ~TooClose
    /\ time' = tout
    /\ restarted' = FALSE
    /\ pc' \in {"loop", "event"}
    /\ UNCHANGED <<eventVars, callVars, tout, nextTimeEventIn, budget, accumulated,
                   initStep, taken, exhausted>>

(* Mutant of Reduced: what the event revealed is not looked at. *)
ReducedNever(next) == tout

(* Where the solver is to go when `next` is the next time event. *)
Reduced(next) == IF next # nextTimeEventIn /\ next < tout THEN next ELSE tout

(* A state or step event at tret, with none or all of the budget used up.  *)
(* If the event revealed a time event on the way, the way ends there.      *)
CVodeRootReturn(tret) ==
    /\ pc = "solver" /\ time < tret /\ tret <= tout
    /\ time' = tret
    /\ taken' \in {taken, taken + budget}
    /\ \/ /\ nextTimeEvent' \in EventsAfter(tret)
          /\ tout' = Reduced(nextTimeEvent')
          /\ restarted' \in BOOLEAN
          /\ UNCHANGED <<callVars, pc>>
       \/ GiveUp /\ UNCHANGED <<nextTimeEvent, tout, restarted>>
    /\ UNCHANGED <<finalTimeEventCalled, nextTimeEventIn, budget, accumulated, initStep, exhausted>>

(* Mutants of NextAccumulated: the total is not looked at; what exceeds it *)
(* is taken off twice.                                                     *)
NextAccumulatedUnlimited == accumulated + StepsBeforeReinitFactor * budget

NextAccumulatedTwice ==
    LET next == accumulated + StepsBeforeReinitFactor * budget
    IN  IF next > MaxStepsTotal THEN 2 * MaxStepsTotal - next ELSE next

(* What accumulated becomes: three times the last budget more, within the  *)
(* total.                                                                  *)
NextAccumulated == Lesser(accumulated + StepsBeforeReinitFactor * budget, MaxStepsTotal)

(* The budget is used up somewhere on the way.  As long as the total is    *)
(* not reached the solver restarts there with a larger one.                *)
CVodeTooMuchWork(tret) ==
    /\ pc = "solver" /\ time <= tret /\ tret < tout
    /\ taken' = taken + budget
    /\ IF accumulated < MaxStepsTotal
       THEN /\ time' = tret
            /\ accumulated' = NextAccumulated
            /\ budget' = NextAccumulated - accumulated
            /\ restarted' = TRUE
            /\ UNCHANGED <<callVars, pc, exhausted>>
       ELSE /\ Fail
            /\ exhausted' = TRUE
            /\ UNCHANGED <<time, budget, accumulated, restarted>>
    /\ UNCHANGED <<eventVars, tout, nextTimeEventIn, initStep>>

(* Any other return, and a restart that fails. *)
CVodeFails ==
    /\ pc = "solver"
    /\ Fail
    /\ UNCHANGED <<time, eventVars, solverVars>>

----------------------------------------------------------------------------
(* What fmi2DoStep does by itself once called. *)
Inside ==
    /\ \/ BeginIntegrate \/ TimeEvent \/ HandleEvent \/ StepDone
       \/ CVodeTooClose \/ CVodeSuccess
       \/ \E tret \in Times : CVodeRootReturn(tret) \/ CVodeTooMuchWork(tret)
       \/ CVodeFails
    /\ turn' = ~turn

(* Any size, from a communication point that may deviate from time. *)
Call ==
    /\ \/ \E size \in Times, deviation \in Deviations, valWasSet \in BOOLEAN :
             /\ time + deviation + size \in Times
             /\ DoStep(time + deviation + size, valWasSet)
       \/ DoStepFails \/ DoStepEnded \/ Get
    /\ UNCHANGED turn

Next == Call \/ Inside

Spec == Init /\ [][Next]_vars

(* A call that was made runs on: CVode and the equations return. *)
FairSpec == Spec /\ WF_vars(Inside)

----------------------------------------------------------------------------
(* Properties.                                                             *)

(* integration_step asserts that there is time to integrate over, and      *)
(* events keep it so: the solver is never sent past the end of the step or *)
(* a time event, also one that a state event on the way revealed.          *)
SolverTarget == pc = "solver" => time <= tout /\ tout <= endStepTime /\ tout <= nextTimeEvent

(* The step is not computed past the stop time, however close the master   *)
(* asks.                                                                   *)
WithinStopTime == time <= StopTime

(* The budgets of integration_step stay within MAX_STEPS_TOTAL and are     *)
(* never zero (no limit or the default one, to CVode), and it gives up     *)
(* only when CVode has taken all the steps it may.                         *)
BudgetHolds ==
    /\ pc = "solver" => 0 < budget /\ budget <= accumulated /\ accumulated <= MaxStepsTotal
    /\ exhausted => taken >= MaxStepsTotal

(* Why they hold.  On schedule: an instance that can be called has the    *)
(* next event before it; in a call time is within the step, up to the next *)
(* event, and once the event at the end of the step was handled nothing is *)
(* left to do.                                                             *)
OnSchedule ==
    /\ time \in Nat
    /\ pc = "idle" /\ ~ended => time < nextTimeEvent
    /\ ended => pc = "idle"
    /\ pc # "idle" => time <= nextTimeEvent /\ time <= endStepTime /\ endStepTime <= StopTime
    /\ pc # "idle" /\ finalTimeEventCalled => time = endStepTime
    /\ pc = "loop" /\ finalTimeEventCalled => time < nextTimeEvent
    /\ pc = "solver" => ~finalTimeEventCalled /\ tout <= nextTimeEventIn

(* Within budget: what was granted before the present budget was taken. *)
WithinBudget ==
    /\ exhausted => ended
    /\ ended => pc = "idle"
    /\ pc = "solver" => accumulated <= taken + budget

StepSound == OnSchedule /\ WithinBudget

(* MAX_STEPS_TOTAL is "maximum number if internal steps for a time step".  *)
StepsWithinTotal == taken <= MaxStepsTotal

(* A step is answered: neither restarts of the solver nor events at the    *)
(* end of a step keep the loops going.                                     *)
Answered == pc # "idle" ~> pc = "idle"

(* Simulated time keeps to the schedule of time events. *)
OnTime == INSTANCE EventSchedule WITH
    now <- time, due <- nextTimeEvent, asked <- endStepTime, within <- pc # "idle"

KeepsSchedule == OnTime!Schedule
=============================================================================
