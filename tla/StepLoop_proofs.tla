-------------------------- MODULE StepLoop_proofs --------------------------
(***************************************************************************)
(* Theorems about StepLoop: for any horizon, stop time and tolerance, and  *)
(* any limits on the steps of the solver.                                  *)
(***************************************************************************)
EXTENDS StepLoop, TLAPS

(* The communication points the master names do not lag behind.  (With one *)
(* that does, fmi2DoStep may put the time back to where that step ends.)   *)
NoLag == Deviations \subseteq Nat

(* The unchanged variables, one by one. *)
LEMMA Unchanged ==
    /\ UNCHANGED eventVars <=> UNCHANGED <<nextTimeEvent, finalTimeEventCalled>>
    /\ UNCHANGED solverVars <=> UNCHANGED <<tout, nextTimeEventIn, budget, accumulated,
                                            restarted, initStep, taken, exhausted>>
    /\ UNCHANGED callVars <=> UNCHANGED <<endStepTime, answer, ended>>
BY DEF eventVars, solverVars, callVars

(* Event times are what they are bounded by. *)
LEMMA EventTimes ==
    /\ \A t : EventsAfter(t) \subseteq 0 .. Never
    /\ \A t \in Int : \A e \in EventsAfter(t) : e \in Int /\ e > t
    /\ Never \in Nat
BY TimesAssumption DEF EventsAfter, Never

(* Between calls of a sound instance the next time event stays ahead. *)
LEMMA EventsAhead ==
    ASSUME time \in Int, nextTimeEvent \in Int, time < nextTimeEvent
    PROVE  \A e \in EventsNow : e \in Int /\ e > time
BY EventTimes DEF EventsNow

(* The next budget is positive and keeps within the total. *)
LEMMA BudgetGrows ==
    ASSUME budget \in Nat, accumulated \in Nat, accumulated < MaxStepsTotal, 0 < budget
    PROVE  /\ NextAccumulated \in Nat
           /\ accumulated < NextAccumulated
           /\ NextAccumulated <= MaxStepsTotal
<1> DEFINE more == StepsBeforeReinitFactor * budget
<1>1. more \in Nat /\ more > 0
  BY BudgetAssumption
<1>2. NextAccumulated = IF accumulated + more < MaxStepsTotal THEN accumulated + more
                        ELSE MaxStepsTotal
  BY DEF NextAccumulated, Lesser
<1> HIDE DEF more
<1> QED
  BY <1>1, <1>2, BudgetAssumption

(* The budget of the present step of the loop of integration_step. *)
BudgetInv ==
    /\ WithinBudget
    /\ BudgetHolds

(* The actions, with their types. *)
LEMMA TypeStep == TypeOK /\ BudgetInv /\ [Next]_vars => TypeOK'
<1> SUFFICES ASSUME TypeOK, BudgetInv, [Next]_vars PROVE TypeOK'
  OBVIOUS
<1> USE Unchanged, EventTimes DEF TypeOK, Places
<1>1. ASSUME NEW end \in Times, NEW valWasSet \in BOOLEAN, DoStep(end, valWasSet), UNCHANGED turn
      PROVE TypeOK'
  <2>1. CASE end - StopTime > StopTolerance
    BY <1>1, <2>1 DEF DoStep, Return
  <2>2. CASE ~(end - StopTime > StopTolerance)
    <3>1. endStepTime' \in Int
      BY <1>1, <2>2, TimesAssumption DEF DoStep, Clipped, Times
    <3>2. nextTimeEvent' \in 0 .. Never
      BY <1>1, <2>2 DEF DoStep, EventsNow
    <3>3. pc' \in Places
      BY <1>1, <2>2 DEF DoStep
    <3> QED
      BY <1>1, <2>2, <3>1, <3>2, <3>3 DEF DoStep
  <2> QED
    BY <2>1, <2>2
<1>2. CASE DoStepFails /\ UNCHANGED turn
  BY <1>2 DEF DoStepFails, Return, Fail, EventsNow
<1>3. CASE DoStepEnded /\ UNCHANGED turn
  BY <1>3 DEF DoStepEnded, Return
<1>4. CASE Get /\ UNCHANGED turn
  BY <1>4 DEF Get, EventsNow
<1>5. CASE BeginIntegrate /\ turn' = ~turn
  BY <1>5, BudgetAssumption DEF BeginIntegrate, Lesser
<1>6. CASE TimeEvent /\ turn' = ~turn
  BY <1>6 DEF TimeEvent
<1>7. CASE HandleEvent /\ turn' = ~turn
  BY <1>7 DEF HandleEvent, GiveUp, Return
<1>8. CASE StepDone /\ turn' = ~turn
  BY <1>8 DEF StepDone, Return
<1>9. CASE CVodeTooClose /\ turn' = ~turn
  BY <1>9 DEF CVodeTooClose
<1>10. CASE CVodeSuccess /\ turn' = ~turn
  BY <1>10 DEF CVodeSuccess
<1>11. ASSUME NEW tret \in Times, CVodeRootReturn(tret), turn' = ~turn PROVE TypeOK'
  <2>1. time' \in Int /\ taken' \in Nat
    BY <1>11, TimesAssumption DEF CVodeRootReturn, Times
  <2>2. CASE GiveUp /\ UNCHANGED <<nextTimeEvent, tout, restarted>>
    BY <1>11, <2>1, <2>2 DEF CVodeRootReturn, GiveUp, Return
  <2>3. CASE /\ nextTimeEvent' \in EventsAfter(tret)
             /\ tout' = Reduced(nextTimeEvent')
             /\ restarted' \in BOOLEAN
             /\ UNCHANGED <<callVars, pc>>
    <3>1. nextTimeEvent' \in 0 .. Never
      BY <2>3
    <3>2. tout' \in Int
      BY <2>3, <3>1 DEF Reduced
    <3> QED
      BY <1>11, <2>1, <2>3, <3>1, <3>2 DEF CVodeRootReturn
  <2> QED
    BY <1>11, <2>2, <2>3 DEF CVodeRootReturn
<1>12. ASSUME NEW tret \in Times, CVodeTooMuchWork(tret), turn' = ~turn PROVE TypeOK'
  <2>1. CASE accumulated < MaxStepsTotal
    <3>1. NextAccumulated \in Nat /\ accumulated < NextAccumulated
      BY <1>12, <2>1, BudgetGrows DEF CVodeTooMuchWork, BudgetInv, BudgetHolds
    <3> QED
      BY <1>12, <2>1, <3>1, TimesAssumption DEF CVodeTooMuchWork, Times
  <2>2. CASE ~(accumulated < MaxStepsTotal)
    BY <1>12, <2>2, TimesAssumption DEF CVodeTooMuchWork, Fail, Return, Times
  <2> QED
    BY <2>1, <2>2
<1>13. CASE CVodeFails /\ turn' = ~turn
  BY <1>13 DEF CVodeFails, Fail, Return
<1>14. CASE UNCHANGED vars
  BY <1>14 DEF vars
<1> QED
  BY <1>1, <1>2, <1>3, <1>4, <1>5, <1>6, <1>7, <1>8, <1>9, <1>10, <1>11, <1>12,
     <1>13, <1>14 DEF Next, Call, Inside
----------------------------------------------------------------------------
(* The budget.                                                             *)

(* Arithmetic of what is granted and what is taken. *)
LEMMA Granted ==
    \A granted, used, now, later \in Int :
        /\ granted <= used + now /\ used <= later => granted <= later + now
        /\ granted <= later => now <= later + (now - granted)
OBVIOUS

(* Only the actions of integration_step touch the budget. *)
LEMMA BudgetStep == TypeOK /\ BudgetInv /\ [Next]_vars => BudgetInv'
<1> SUFFICES ASSUME TypeOK, BudgetInv, [Next]_vars PROVE BudgetInv'
  OBVIOUS
<1> USE Unchanged DEF TypeOK, BudgetInv, WithinBudget, BudgetHolds
<1>1. ASSUME NEW end \in Times, NEW valWasSet \in BOOLEAN, DoStep(end, valWasSet)
      PROVE BudgetInv'
  BY <1>1 DEF DoStep, Return
<1>2. CASE DoStepFails
  BY <1>2 DEF DoStepFails, Return, Fail
<1>3. CASE DoStepEnded
  BY <1>3 DEF DoStepEnded, Return
<1>4. CASE Get
  BY <1>4 DEF Get
<1>5. CASE BeginIntegrate
  BY <1>5, BudgetAssumption DEF BeginIntegrate
<1>6. CASE TimeEvent
  BY <1>6 DEF TimeEvent
<1>7. CASE HandleEvent
  <2>1. UNCHANGED <<taken, exhausted>>
    BY <1>7 DEF HandleEvent
  <2>2. ~ended /\ ~exhausted
    BY <1>7 DEF HandleEvent
  <2>3. pc' = "idle" \/ (pc' = "loop" /\ UNCHANGED ended)
    BY <1>7 DEF HandleEvent, GiveUp, Return
  <2> QED
    BY <2>1, <2>2, <2>3
<1>8. CASE StepDone
  BY <1>8 DEF StepDone, Return
<1>9. CASE CVodeTooClose
  BY <1>9 DEF CVodeTooClose
<1>10. CASE CVodeSuccess
  BY <1>10 DEF CVodeSuccess
<1>11. ASSUME NEW tret \in Times, CVodeRootReturn(tret) PROVE BudgetInv'
  <2>1. taken' \in {taken, taken + budget} /\ pc = "solver" /\ ~ended /\ ~exhausted
    BY <1>11 DEF CVodeRootReturn
  <2>2. taken' >= taken
    BY <2>1
  <2>3. UNCHANGED <<budget, accumulated, exhausted>>
    BY <1>11 DEF CVodeRootReturn
  <2>4. pc' = "idle" \/ UNCHANGED <<pc, ended>>
    BY <1>11 DEF CVodeRootReturn, GiveUp, Return
  <2>5. accumulated' <= taken' + budget'
    <3>1. accumulated <= taken + budget
      BY <2>1
    <3>2. taken \in Int /\ budget \in Int /\ accumulated \in Int /\ taken' \in Int
      BY <2>1
    <3>3. accumulated <= taken' + budget
      BY <3>1, <3>2, <2>2, Granted
    <3> QED
      BY <3>3, <2>3
  <2>6. 0 < budget' /\ budget' <= accumulated' /\ accumulated' <= MaxStepsTotal
    BY <2>1, <2>3
  <2>7. ~exhausted'
    BY <2>1, <2>3
  <2>8. ended' => pc' = "idle"
    BY <2>1, <2>4
  <2> QED
    BY <2>5, <2>6, <2>7, <2>8
<1>12. ASSUME NEW tret \in Times, CVodeTooMuchWork(tret) PROVE BudgetInv'
  <2>1. CASE accumulated < MaxStepsTotal
    <3>1. /\ NextAccumulated \in Nat
          /\ accumulated < NextAccumulated
          /\ NextAccumulated <= MaxStepsTotal
      BY <1>12, <2>1, BudgetGrows DEF CVodeTooMuchWork
    <3>2. accumulated <= taken' /\ taken' \in Nat
      BY <1>12 DEF CVodeTooMuchWork
    <3>3. /\ accumulated' = NextAccumulated
          /\ budget' = NextAccumulated - accumulated
          /\ UNCHANGED <<pc, ended, exhausted>>
      BY <1>12, <2>1 DEF CVodeTooMuchWork
    <3>4. ~ended /\ ~exhausted
      BY <1>12 DEF CVodeTooMuchWork
    <3>5. 0 < budget' /\ budget' <= accumulated' /\ accumulated' <= MaxStepsTotal
      BY <3>1, <3>3
    <3>6. accumulated' \in Int /\ accumulated \in Int /\ taken' \in Int
      BY <3>1, <3>2, <3>3
    <3>7. accumulated' <= taken' + (accumulated' - accumulated)
      BY <3>2, <3>6, Granted
    <3>8. budget' = accumulated' - accumulated
      BY <3>3
    <3>9. accumulated' <= taken' + budget'
      BY <3>7, <3>8
    <3> QED
      BY <3>3, <3>4, <3>5, <3>9
  <2>2. CASE ~(accumulated < MaxStepsTotal)
    BY <1>12, <2>2, BudgetAssumption DEF CVodeTooMuchWork, Fail, Return
  <2> QED
    BY <2>1, <2>2
<1>13. CASE CVodeFails
  BY <1>13 DEF CVodeFails, Fail, Return
<1>14. CASE UNCHANGED vars
  BY <1>14 DEF vars
<1> QED
  BY <1>1, <1>2, <1>3, <1>4, <1>5, <1>6, <1>7, <1>8, <1>9, <1>10, <1>11, <1>12,
     <1>13, <1>14 DEF Next, Call, Inside

(* Initially no budget was granted. *)
LEMMA BudgetInit == Init => TypeOK /\ BudgetInv
<1> SUFFICES ASSUME Init PROVE TypeOK /\ BudgetInv
  OBVIOUS
<1>1. nextTimeEvent \in 0 .. Never /\ nextTimeEventIn \in 0 .. Never
  BY EventTimes DEF Init
<1>2. time \in Int /\ tout \in Int /\ endStepTime \in Int
      /\ budget \in Nat /\ accumulated \in Nat /\ taken \in Nat
  BY DEF Init
<1>3. TypeOK
  BY <1>1, <1>2 DEF Init, TypeOK, Places
<1>4. BudgetInv
  BY DEF Init, BudgetInv, WithinBudget, BudgetHolds
<1> QED
  BY <1>3, <1>4

(* The inductive invariant of the budget. *)
LEMMA Budgeted == Spec => [](TypeOK /\ BudgetInv)
<1>1. Init => TypeOK /\ BudgetInv
  BY BudgetInit
<1>2. TypeOK /\ BudgetInv /\ [Next]_vars => (TypeOK /\ BudgetInv)'
  BY TypeStep, BudgetStep
<1> QED
  BY <1>1, <1>2, PTL DEF Spec

(* fmi2DoStep keeps its variables within their types, whatever the master  *)
(* asks for and the solver returns.                                        *)
THEOREM StepTypeCorrect == Spec => []TypeOK
BY Budgeted, PTL

(* integration_step never grants more steps than MAX_STEPS_TOTAL at a      *)
(* time, never none, and gives up only when they were all taken.           *)
THEOREM BudgetIsKept == Spec => []BudgetHolds
<1>1. BudgetInv => BudgetHolds
  BY DEF BudgetInv
<1> QED
  BY <1>1, Budgeted, PTL

----------------------------------------------------------------------------
(* The schedule.                                                           *)

(* What holds of time and the events, as one invariant. *)
ScheduleInv ==
    /\ OnSchedule
    /\ SolverTarget
    /\ WithinStopTime

(* Clipping takes off no time that has passed. *)
LEMMA Clips ==
    ASSUME time \in Int, time <= StopTime, NEW end \in Int, time <= end
    PROVE  /\ Clipped(end) \in Int /\ time <= Clipped(end) /\ Clipped(end) <= StopTime
BY TimesAssumption DEF Clipped

(* With a time event revealed at tret the solver still has tret before it, *)
(* and no time event before its target.                                    *)
LEMMA Reduces ==
    ASSUME tout \in Int, nextTimeEventIn \in Int, tout <= nextTimeEventIn,
           NEW tret \in Int, tret <= tout, NEW next \in Int, next > tret
    PROVE  /\ Reduced(next) \in Int
           /\ tret <= Reduced(next) /\ Reduced(next) <= tout /\ Reduced(next) <= next
BY DEF Reduced

(* Every step keeps to the schedule, if the master's communication point   *)
(* does not lag behind.                                                    *)
LEMMA ScheduleStep ==
    ASSUME NoLag
    PROVE  TypeOK /\ ScheduleInv /\ [Next]_vars => ScheduleInv'
<1> SUFFICES ASSUME TypeOK, ScheduleInv, [Next]_vars PROVE ScheduleInv'
  OBVIOUS
<1> USE Unchanged DEF ScheduleInv, OnSchedule, SolverTarget, WithinStopTime
<1>0. /\ time \in Nat /\ tout \in Int /\ endStepTime \in Int /\ nextTimeEvent \in Int
      /\ nextTimeEventIn \in Int /\ StopTime \in Nat
      /\ finalTimeEventCalled \in BOOLEAN /\ ended \in BOOLEAN
  BY TimesAssumption DEF TypeOK
<1>1. ASSUME NEW size \in Times, NEW deviation \in Deviations, NEW valWasSet \in BOOLEAN,
             DoStep(time + deviation + size, valWasSet)
      PROVE ScheduleInv'
  <2> DEFINE end == time + deviation + size
  <2>1. end \in Int /\ time <= end
    BY <1>0, TimesAssumption DEF NoLag, Times
  <2>2. DoStep(end, valWasSet) /\ pc = "idle" /\ ~ended
    BY <1>1 DEF DoStep
  <2> HIDE DEF end
  <2>3. CASE end - StopTime > StopTolerance
    BY <1>0, <2>2, <2>3 DEF DoStep, Return
  <2>4. CASE ~(end - StopTime > StopTolerance)
    <3>1. /\ endStepTime' = Clipped(end) /\ ~finalTimeEventCalled'
          /\ pc' \in {"event", "loop"} /\ time' = time /\ ended' = ended
          /\ nextTimeEvent' \in EventsNow
      BY <2>2, <2>4 DEF DoStep, EventsNow
    <3>2. nextTimeEvent' > time /\ nextTimeEvent' \in Int
      BY <1>0, <2>2, <3>1, EventsAhead
    <3>3. endStepTime' \in Int /\ time <= endStepTime' /\ endStepTime' <= StopTime
      BY <1>0, <2>1, <3>1, Clips
    <3> QED
      BY <1>0, <2>2, <3>1, <3>2, <3>3
  <2> QED
    BY <2>3, <2>4
<1>2. CASE DoStepFails
  <2>1. /\ nextTimeEvent' \in EventsNow /\ UNCHANGED <<time>> /\ pc = "idle" /\ ~ended
        /\ pc' = "idle"
    BY <1>2 DEF DoStepFails, Return, Fail
  <2>2. nextTimeEvent' > time
    BY <1>0, <2>1, EventsAhead
  <2> QED
    BY <1>0, <2>1, <2>2
<1>3. CASE DoStepEnded
  BY <1>0, <1>3 DEF DoStepEnded, Return
<1>4. CASE Get
  <2>1. /\ nextTimeEvent' \in EventsNow /\ UNCHANGED <<time, pc, ended>>
        /\ pc = "idle" /\ ~ended
    BY <1>4 DEF Get
  <2>2. nextTimeEvent' > time
    BY <1>0, <2>1, EventsAhead
  <2> QED
    BY <1>0, <2>1, <2>2
<1>5. CASE BeginIntegrate
  BY <1>0, <1>5 DEF BeginIntegrate, Lesser, GoesOn
<1>6. CASE TimeEvent
  BY <1>0, <1>6 DEF TimeEvent
<1>7. CASE HandleEvent
  <2>1. pc = "event" /\ UNCHANGED <<time, finalTimeEventCalled, endStepTime>>
    BY <1>7 DEF HandleEvent, GiveUp, Return
  <2>2. CASE GiveUp
    BY <1>0, <2>1, <2>2 DEF GiveUp, Return
  <2>3. CASE nextTimeEvent' \in EventsAfter(time) /\ pc' = "loop" /\ UNCHANGED callVars
    <3>1. nextTimeEvent' > time /\ nextTimeEvent' \in Int
      BY <1>0, <2>3, EventTimes
    <3> QED
      BY <1>0, <2>1, <2>3, <3>1
  <2> QED
    BY <1>7, <2>2, <2>3 DEF HandleEvent
<1>8. CASE StepDone
  BY <1>0, <1>8 DEF StepDone, Return, GoesOn
<1>9. CASE CVodeTooClose
  BY <1>0, <1>9 DEF CVodeTooClose
<1>10. CASE CVodeSuccess
  BY <1>0, <1>10 DEF CVodeSuccess
<1>11. ASSUME NEW tret \in Times, CVodeRootReturn(tret) PROVE ScheduleInv'
  <2>1. /\ pc = "solver" /\ time < tret /\ tret <= tout /\ time' = tret
        /\ UNCHANGED <<finalTimeEventCalled, nextTimeEventIn, endStepTime>>
    BY <1>11 DEF CVodeRootReturn, GiveUp, Return
  <2>2. tret \in Nat
    BY TimesAssumption DEF Times
  <2>3. CASE GiveUp
    BY <1>0, <2>1, <2>2, <2>3 DEF GiveUp, Return
  <2>4. CASE /\ nextTimeEvent' \in EventsAfter(tret)
             /\ tout' = Reduced(nextTimeEvent')
             /\ UNCHANGED <<callVars, pc>>
    <3>1. nextTimeEvent' > tret /\ nextTimeEvent' \in Int
      BY <2>2, <2>4, EventTimes
    <3>2. /\ tout' \in Int /\ tret <= tout' /\ tout' <= tout /\ tout' <= nextTimeEvent'
      BY <1>0, <2>1, <2>2, <2>4, <3>1, Reduces
    <3>3. pc' = "solver" /\ ended' = ended /\ endStepTime' = endStepTime
      BY <2>1, <2>4
    <3> QED
      BY <1>0, <2>1, <2>2, <3>1, <3>2, <3>3
  <2> QED
    BY <1>11, <2>3, <2>4 DEF CVodeRootReturn
<1>12. ASSUME NEW tret \in Times, CVodeTooMuchWork(tret) PROVE ScheduleInv'
  <2>1. tret \in Nat
    BY TimesAssumption DEF Times
  <2>2. CASE accumulated < MaxStepsTotal
    BY <1>0, <1>12, <2>1, <2>2 DEF CVodeTooMuchWork
  <2>3. CASE ~(accumulated < MaxStepsTotal)
    BY <1>0, <1>12, <2>1, <2>3 DEF CVodeTooMuchWork, Fail, Return
  <2> QED
    BY <2>2, <2>3
<1>13. CASE CVodeFails
  BY <1>0, <1>13 DEF CVodeFails, Fail, Return
<1>14. CASE UNCHANGED vars
  BY <1>14 DEF vars
<1> QED
  BY <1>1, <1>2, <1>3, <1>4, <1>5, <1>6, <1>7, <1>8, <1>9, <1>10, <1>11, <1>12,
     <1>13, <1>14 DEF Next, Call, Inside

(* The first step has not begun, and the first time event is to come. *)
LEMMA ScheduleStart == Init => ScheduleInv
<1> SUFFICES ASSUME Init PROVE ScheduleInv
  OBVIOUS
<1>1. nextTimeEvent > 0
  BY TimesAssumption DEF Init, Never
<1>2. time = 0 /\ pc = "idle" /\ ~ended
  BY DEF Init
<1> QED
  BY <1>1, <1>2, TimesAssumption DEF ScheduleInv, OnSchedule, SolverTarget, WithinStopTime

(* The inductive invariant of the loops. *)
LEMMA Scheduled ==
    ASSUME NoLag
    PROVE  Spec => [](TypeOK /\ BudgetInv /\ ScheduleInv)
<1>1. Init => TypeOK /\ BudgetInv /\ ScheduleInv
  BY BudgetInit, ScheduleStart
<1>2. TypeOK /\ BudgetInv /\ ScheduleInv /\ [Next]_vars
        => (TypeOK /\ BudgetInv /\ ScheduleInv)'
  BY TypeStep, BudgetStep, ScheduleStep
<1> QED
  BY <1>1, <1>2, PTL DEF Spec

(* integration_step is never sent backwards, past the end of the step or   *)
(* past a time event, whatever events the solver meets on its way.         *)
THEOREM SolverTargetIsKept == ASSUME NoLag PROVE Spec => []SolverTarget
<1>1. ScheduleInv => SolverTarget
  BY DEF ScheduleInv
<1> QED
  BY <1>1, Scheduled, PTL

(* Simulated time does not pass the stop time. *)
THEOREM StopTimeIsKept == ASSUME NoLag PROVE Spec => []WithinStopTime
<1>1. ScheduleInv => WithinStopTime
  BY DEF ScheduleInv
<1> QED
  BY <1>1, Scheduled, PTL

(* Between calls the next event is ahead; in a call time stays within the  *)
(* step and the events, and the budget within what was granted.            *)
THEOREM StepIsSound == ASSUME NoLag PROVE Spec => []StepSound
<1>1. BudgetInv /\ ScheduleInv => StepSound
  BY DEF BudgetInv, ScheduleInv, StepSound
<1> QED
  BY <1>1, Scheduled, PTL

----------------------------------------------------------------------------
(* The loops implement EventSchedule.                                      *)

(* A step of the loops is one of the schedule, or none. *)
LEMMA ScheduleImplemented ==
    ASSUME NoLag
    PROVE  TypeOK /\ ScheduleInv /\ [Next]_vars => [OnTime!ScheduleNext]_(OnTime!scheduleVars)
<1> SUFFICES ASSUME TypeOK, ScheduleInv, [Next]_vars
             PROVE  OnTime!ScheduleNext \/ UNCHANGED OnTime!scheduleVars
  OBVIOUS
<1> USE Unchanged DEF ScheduleInv, OnSchedule, SolverTarget
<1> USE DEF OnTime!ScheduleNext, OnTime!scheduleVars
<1>0. /\ time \in Nat /\ tout \in Int /\ endStepTime \in Int /\ nextTimeEvent \in Int
      /\ StopTime \in Nat /\ finalTimeEventCalled \in BOOLEAN
  BY TimesAssumption DEF TypeOK
<1>1. ASSUME NEW size \in Times, NEW deviation \in Deviations, NEW valWasSet \in BOOLEAN,
             DoStep(time + deviation + size, valWasSet)
      PROVE  OnTime!ScheduleNext \/ UNCHANGED OnTime!scheduleVars
  <2> DEFINE end == time + deviation + size
  <2>1. end \in Int /\ time <= end
    BY <1>0, TimesAssumption DEF NoLag, Times
  <2>2. DoStep(end, valWasSet) /\ pc = "idle" /\ ~ended
    BY <1>1 DEF DoStep
  <2> HIDE DEF end
  <2>3. CASE end - StopTime > StopTolerance
    BY <2>2, <2>3 DEF DoStep, Return
  <2>4. CASE ~(end - StopTime > StopTolerance)
    <3>1. /\ endStepTime' = Clipped(end) /\ pc' \in {"event", "loop"} /\ time' = time
          /\ nextTimeEvent' \in EventsNow
      BY <2>2, <2>4 DEF DoStep, EventsNow
    <3>2. nextTimeEvent' > time
      BY <1>0, <2>2, <3>1, EventsAhead
    <3>3. endStepTime' >= time
      BY <1>0, <2>1, <3>1, Clips DEF WithinStopTime
    <3> QED
      BY <2>2, <3>1, <3>2, <3>3 DEF OnTime!Ask
  <2> QED
    BY <2>3, <2>4
<1>2. CASE DoStepFails
  <2>1. /\ nextTimeEvent' \in EventsNow /\ UNCHANGED <<time, endStepTime>>
        /\ pc = "idle" /\ ~ended /\ pc' = "idle"
    BY <1>2 DEF DoStepFails, Return, Fail
  <2>2. nextTimeEvent' > time
    BY <1>0, <2>1, EventsAhead
  <2> QED
    BY <2>1, <2>2 DEF OnTime!Revise
<1>3. CASE DoStepEnded
  BY <1>3 DEF DoStepEnded, Return
<1>4. CASE Get
  <2>1. nextTimeEvent' > time
    BY <1>0, <1>4, EventsAhead DEF Get
  <2> QED
    BY <1>4, <2>1 DEF Get, OnTime!Revise
<1>5. CASE BeginIntegrate
  BY <1>5 DEF BeginIntegrate
<1>6. CASE TimeEvent
  BY <1>0, <1>6 DEF TimeEvent, OnTime!Pass
<1>7. CASE HandleEvent
  <2>1. pc = "event" /\ UNCHANGED <<time, endStepTime>>
    BY <1>7 DEF HandleEvent, GiveUp, Return
  <2>2. CASE GiveUp /\ UNCHANGED nextTimeEvent
    BY <1>0, <2>1, <2>2 DEF GiveUp, Return, OnTime!Abandon
  <2>3. CASE nextTimeEvent' \in EventsAfter(time) /\ pc' = "loop"
    <3>1. nextTimeEvent' > time
      BY <1>0, <2>3, EventTimes
    <3> QED
      BY <1>0, <2>1, <2>3, <3>1 DEF OnTime!Occur
  <2> QED
    BY <1>7, <2>2, <2>3 DEF HandleEvent
<1>8. CASE StepDone
  BY <1>0, <1>8 DEF StepDone, Return, GoesOn, OnTime!Complete
<1>9. CASE CVodeTooClose
  BY <1>9 DEF CVodeTooClose
<1>10. CASE CVodeSuccess
  BY <1>0, <1>10 DEF CVodeSuccess, OnTime!Pass
<1>11. ASSUME NEW tret \in Times, CVodeRootReturn(tret)
       PROVE  OnTime!ScheduleNext \/ UNCHANGED OnTime!scheduleVars
  <2>1. pc = "solver" /\ time < tret /\ tret <= tout /\ time' = tret /\ UNCHANGED endStepTime
    BY <1>11 DEF CVodeRootReturn, GiveUp, Return
  <2>2. tret \in Nat
    BY TimesAssumption DEF Times
  <2>3. CASE GiveUp /\ UNCHANGED nextTimeEvent
    BY <1>0, <2>1, <2>2, <2>3 DEF GiveUp, Return, OnTime!Abandon
  <2>4. CASE nextTimeEvent' \in EventsAfter(tret) /\ UNCHANGED pc
    <3>1. nextTimeEvent' > tret
      BY <2>2, <2>4, EventTimes
    <3> QED
      BY <1>0, <2>1, <2>2, <2>4, <3>1 DEF OnTime!Occur
  <2> QED
    BY <1>11, <2>3, <2>4 DEF CVodeRootReturn
<1>12. ASSUME NEW tret \in Times, CVodeTooMuchWork(tret)
       PROVE  OnTime!ScheduleNext \/ UNCHANGED OnTime!scheduleVars
  <2>1. tret \in Nat
    BY TimesAssumption DEF Times
  <2>2. CASE accumulated < MaxStepsTotal
    BY <1>0, <1>12, <2>1, <2>2 DEF CVodeTooMuchWork, OnTime!Pass
  <2>3. CASE ~(accumulated < MaxStepsTotal)
    BY <1>0, <1>12, <2>3 DEF CVodeTooMuchWork, Fail, Return, OnTime!Abandon
  <2> QED
    BY <2>2, <2>3
<1>13. CASE CVodeFails
  BY <1>0, <1>13 DEF CVodeFails, Fail, Return, OnTime!Abandon
<1>14. CASE UNCHANGED vars
  BY <1>14 DEF vars
<1> QED
  BY <1>1, <1>2, <1>3, <1>4, <1>5, <1>6, <1>7, <1>8, <1>9, <1>10, <1>11, <1>12,
     <1>13, <1>14 DEF Next, Call, Inside

(* Simulated time keeps to the schedule of time events: it never runs back *)
(* or past one, and a step that succeeds has handled all events up to its  *)
(* end.                                                                    *)
THEOREM ScheduleIsKept == ASSUME NoLag PROVE Spec => KeepsSchedule
<1>1. Init => OnTime!ScheduleInit
  <2> SUFFICES ASSUME Init PROVE OnTime!ScheduleInit
    OBVIOUS
  <2>1. nextTimeEvent > time /\ pc = "idle"
    BY TimesAssumption DEF Init, Never
  <2> QED
    BY <2>1, TimesAssumption DEF OnTime!ScheduleInit, Init, Never
<1>2. TypeOK /\ ScheduleInv /\ [Next]_vars => [OnTime!ScheduleNext]_(OnTime!scheduleVars)
  BY ScheduleImplemented
<1> QED
  BY <1>1, <1>2, Scheduled, PTL DEF Spec, KeepsSchedule, OnTime!Schedule
=============================================================================
