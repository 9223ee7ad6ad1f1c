---------------------------- MODULE EventMode_proofs ---------------------------
(***************************************************************************)
(* What an event leaves, for any bound on its iterations: an evaluation    *)
(* after which no other is needed has settled pre, made every reinit and   *)
(* armed the when clause, and nothing an importer may call between that    *)
(* and the next event undoes it.                                           *)
(*                                                                         *)
(* Two facts carry it.  An iteration is begun only by an instance that has *)
(* not had too many, and at the end of an event the results are valid, so  *)
(* that a getter does not evaluate again, unless an input was changed.     *)
(*                                                                         *)
(* And where it ends: call by call an event comes to where it comes when   *)
(* it is iterated at once.  A call leaves what as many evaluations at once *)
(* leave, but for a reinit it has still to make and a when clause it has   *)
(* still to arm (Image); asking for values in between evaluates the same   *)
(* iteration again, to the same result (Own).  The calls may take one      *)
(* iteration more, which then changes nothing (NothingMore).               *)
(***************************************************************************)
EXTENDS EventMode, WellFoundedInduction, TLAPS

(* The equations and the input do not change during an evaluation. *)
Given == model \in Models /\ u \in Inputs

Kinds == {0, 2, 3, 5}

(* What is settled when the event is over. *)
Settled(e) == e.pre = e.d /\ ~e.pending /\ e.NextTimeEvent /\ e.QEvaluate = e.QEvaluateNew

CountedIter == mStatus # "Terminated" => eq.Iter <= MaxIter

ExitIsEvaluated == mStatus = "EventModeExit" /\ ~disturbed => icall

IInv == TypeOK /\ CountedIter /\ ExitIsEvaluated /\ NothingLeftOver

----------------------------------------------------------------------------
(* One evaluation. *)

LEMMA CountedIs ==
    ASSUME NEW e \in Evaluations, NEW made \in BOOLEAN
    PROVE  Counted(e, made) \in 0 .. 3
BY DEF Counted, Evaluations

LEMMA BegunIs ==
    ASSUME Given, NEW e \in Evaluations, NEW one \in Kinds, one = 3 => e.Iter <= MaxIter
    PROVE  /\ Begun(e, one) \in Evaluations
           /\ one # 5 => ~Begun(e, one).pending
           /\ Begun(e, one).Iter = (IF one = 5 THEN e.Iter ELSE IF one = 3 THEN e.Iter + 1 ELSE 1)
<1>1. /\ e.Iter \in 0 .. MaxIter + 1 /\ e.pending \in BOOLEAN /\ e.x \in States
      /\ model.value \in States /\ Counted(e, e.pending) \in 0 .. 3
  BY CountedIs DEF Evaluations, Given, Models
<1>2. CASE one = 5
  BY <1>2 DEF Begun
<1>3. CASE one # 5
  <2> DEFINE iter == (IF one < 3 THEN 0 ELSE e.Iter) + 1
             x    == IF e.pending THEN model.value ELSE e.x
  <2>1. iter \in 0 .. MaxIter + 1 /\ iter = (IF one = 3 THEN e.Iter + 1 ELSE 1) /\ x \in States
    BY <1>1, <1>3, MaxIterAssumption DEF Kinds
  <2>2. Begun(e, one) = [e EXCEPT !.Iter = iter, !.NextTimeEvent = FALSE, !.AnyEvent = FALSE,
                                  !.x = x, !.reinits = Counted(e, e.pending),
                                  !.pending = FALSE]
    BY <1>3 DEF Begun
  <2> HIDE DEF iter, x
  <2>3. Begun(e, one) \in Evaluations
    BY <1>1, <2>1, <2>2 DEF Evaluations
  <2>4. ~Begun(e, one).pending /\ Begun(e, one).Iter = iter
    BY <2>2 DEF Evaluations
  <2> QED BY <1>3, <2>1, <2>3, <2>4
<1> QED BY <1>2, <1>3

LEMMA DataAtStartIs ==
    ASSUME NEW e \in Evaluations, NEW one \in Kinds
    PROVE  /\ DataAtStart(e, one) \in Evaluations
           /\ DataAtStart(e, one).pending = e.pending
           /\ DataAtStart(e, one).Iter = e.Iter
BY DEF DataAtStart, Evaluations

LEMMA DiscreteIs ==
    ASSUME Given, NEW e \in Evaluations
    PROVE  /\ Discrete(e) \in Evaluations
           /\ Discrete(e).NextTimeEvent /\ Discrete(e).pending = e.pending
           /\ Discrete(e).Iter = e.Iter
<1>1. model.next[Above(e.x), e.pre] \in {0, 1}
  <2>1. Above(e.x) \in BOOLEAN /\ e.pre \in {0, 1}
    BY DEF Above, Evaluations
  <2>2. model.next \in [BOOLEAN \X {0, 1} -> {0, 1}]
    BY DEF Given, Models
  <2> QED BY <2>1, <2>2
<1> QED BY <1>1 DEF Discrete, Evaluations

(* A reinit that is left for the next iteration asks for it. *)
LEMMA WhenIs ==
    ASSUME Given, NEW e \in Evaluations, NEW one \in Kinds
    PROVE  /\ When(e, one) \in Evaluations
           /\ When(e, one).NextTimeEvent = e.NextTimeEvent
           /\ When(e, one).Iter = e.Iter
           /\ When(e, one).pending => e.pending \/ When(e, one).AnyEvent
<1>1. model.value \in States /\ (one = 0) \in BOOLEAN /\ Counted(e, one = 0) \in 0 .. 3
  BY CountedIs DEF Given, Models
<1>2. CASE ~Condition(e)
  BY <1>2 DEF When, Evaluations
<1>3. CASE Condition(e) /\ ~e.QEvaluate
  BY <1>3 DEF When
<1>4. CASE Condition(e) /\ e.QEvaluate
  <2> DEFINE x == IF one = 0 THEN model.value ELSE e.x
             left == e.pending \/ one # 0
  <2>1. When(e, one) = [e EXCEPT !.QEvaluateNew = FALSE, !.AnyEvent = TRUE, !.x = x,
                                 !.reinits = Counted(e, one = 0), !.pending = left]
    BY <1>4 DEF When
  <2>2. x \in States /\ left \in BOOLEAN
    BY <1>1 DEF Evaluations
  <2> HIDE DEF x, left
  <2>3. When(e, one) \in Evaluations
    BY <1>1, <2>1, <2>2 DEF Evaluations
  <2>4. /\ When(e, one).NextTimeEvent = e.NextTimeEvent /\ When(e, one).Iter = e.Iter
        /\ When(e, one).AnyEvent
    BY <2>1 DEF Evaluations
  <2> QED BY <2>3, <2>4
<1> QED BY <1>2, <1>3, <1>4

LEMMA DataAtEndIs ==
    ASSUME NEW e \in Evaluations, NEW one \in Kinds
    PROVE  /\ DataAtEnd(e, one) \in Evaluations
           /\ DataAtEnd(e, one).NextTimeEvent = e.NextTimeEvent
           /\ DataAtEnd(e, one).pending = e.pending /\ DataAtEnd(e, one).Iter = e.Iter
           /\ ~DataAtEnd(e, one).AnyEvent =>
                 ~e.AnyEvent /\ DataAtEnd(e, one).pre = DataAtEnd(e, one).d
BY DEF DataAtEnd, Evaluations

(* An evaluation: what it leaves, and, when no other is needed, that what  *)
(* is settled at the end of an event is.                                   *)
LEMMA EvaluatedIs ==
    ASSUME Given, NEW e \in Evaluations, NEW one \in Kinds, one = 3 => e.Iter <= MaxIter
    PROVE  /\ Evaluated(e, one) \in Evaluations
           /\ Evaluated(e, one).Iter =
                 (IF one = 5 THEN e.Iter ELSE IF one = 3 THEN e.Iter + 1 ELSE 1)
           /\ one # 5 /\ ~Again(Evaluated(e, one)) /\ ~TooMany(Evaluated(e, one)) =>
                 Settled(Evaluated(e, one))
<1> DEFINE begun == Begun(e, one)
           data == DataAtStart(begun, one)
           equal == Discrete(data)
           computed == When(equal, one)
           once == DataAtEnd(computed, one)
<1>1. Once(e, one) = once
  BY DEF Once, Equations
<1>2. Evaluated(e, one) = Finished(once)
  BY <1>1 DEF Evaluated
<1> HIDE DEF once
<1>3. /\ once \in Evaluations /\ once.NextTimeEvent
      /\ once.Iter = (IF one = 5 THEN e.Iter ELSE IF one = 3 THEN e.Iter + 1 ELSE 1)
      /\ one # 5 /\ ~once.AnyEvent => once.pre = once.d /\ ~once.pending
  <2>1. /\ begun \in Evaluations
        /\ one # 5 => ~begun.pending
        /\ begun.Iter = (IF one = 5 THEN e.Iter ELSE IF one = 3 THEN e.Iter + 1 ELSE 1)
    BY BegunIs
  <2> HIDE DEF begun
  <2>2. data \in Evaluations /\ data.pending = begun.pending /\ data.Iter = begun.Iter
    BY <2>1, DataAtStartIs
  <2> HIDE DEF data
  <2>3. /\ equal \in Evaluations /\ equal.NextTimeEvent
        /\ equal.pending = data.pending /\ equal.Iter = data.Iter
    BY <2>2, DiscreteIs
  <2> HIDE DEF equal
  <2>4. /\ computed \in Evaluations /\ computed.NextTimeEvent = equal.NextTimeEvent
        /\ computed.Iter = equal.Iter
        /\ computed.pending => equal.pending \/ computed.AnyEvent
    BY <2>3, WhenIs
  <2> HIDE DEF computed
  <2>5. /\ once \in Evaluations /\ once.NextTimeEvent = computed.NextTimeEvent
        /\ once.pending = computed.pending /\ once.Iter = computed.Iter
        /\ ~once.AnyEvent => ~computed.AnyEvent /\ once.pre = once.d
    BY <2>4, DataAtEndIs DEF once
  <2> QED BY <2>1, <2>2, <2>3, <2>4, <2>5
<1> HIDE DEF begun, data, equal, computed
<1>4. CASE Again(once) \/ TooMany(once)
  <2>1. Finished(once) = once
    BY <1>4 DEF Finished
  <2> QED BY <1>2, <1>3, <1>4, <2>1
<1>5. CASE ~Again(once) /\ ~TooMany(once)
  <2>1. Finished(once) = [once EXCEPT !.QEvaluate = once.QEvaluateNew]
    BY <1>5 DEF Finished
  <2>2. Finished(once) \in Evaluations
    BY <1>3, <2>1 DEF Evaluations
  <2>3. ~once.AnyEvent
    BY <1>3, <1>5, MaxIterAssumption DEF Again, TooMany, Evaluations
  <2>4. /\ Finished(once).Iter = once.Iter /\ Finished(once).NextTimeEvent = once.NextTimeEvent
        /\ Finished(once).pre = once.pre /\ Finished(once).d = once.d
        /\ Finished(once).pending = once.pending
        /\ Finished(once).QEvaluate = Finished(once).QEvaluateNew
    BY <1>3, <2>1 DEF Evaluations
  <2> QED BY <1>2, <1>3, <2>2, <2>3, <2>4 DEF Settled
<1> QED BY <1>4, <1>5

LEMMA LeftByIs ==
    ASSUME Given, NEW e \in Evaluations, NEW one \in Kinds, one = 3 => e.Iter <= MaxIter,
           NEW left \in LeftBy(e, one)
    PROVE  /\ left \in Evaluations
           /\ left.Iter = (IF one = 5 THEN e.Iter ELSE IF one = 3 THEN e.Iter + 1 ELSE 1)
<1> DEFINE begun == Begun(e, one)
           data == DataAtStart(begun, one)
<1>1. /\ begun \in Evaluations
      /\ begun.Iter = (IF one = 5 THEN e.Iter ELSE IF one = 3 THEN e.Iter + 1 ELSE 1)
  BY BegunIs
<1>2. left \in {begun, data, Discrete(data)}
  BY DEF LeftBy
<1> HIDE DEF begun
<1>3. data \in Evaluations /\ data.Iter = begun.Iter
  BY <1>1, DataAtStartIs
<1> HIDE DEF data
<1>4. Discrete(data) \in Evaluations /\ Discrete(data).Iter = data.Iter
  BY <1>3, DiscreteIs
<1> QED BY <1>1, <1>2, <1>3, <1>4

LEMMA BetweenIs ==
    ASSUME Given, NEW e \in Evaluations
    PROVE  /\ Between(e) \in Evaluations /\ Between(e).Iter = 1
           /\ Settled(e) => Settled(Between(e))
<1>1. /\ Counted(e, e.pending) \in 0 .. 3 /\ 1 \in 0 .. MaxIter + 1
      /\ (IF e.pending THEN model.value ELSE e.x) \in States
  BY CountedIs, MaxIterAssumption DEF Given, Models, Evaluations
<1>2. Between(e) \in Evaluations /\ Between(e).Iter = 1
  BY <1>1 DEF Between, Evaluations
<1>3. /\ Between(e).pre = e.pre /\ Between(e).d = e.d /\ ~Between(e).pending
      /\ Between(e).NextTimeEvent = e.NextTimeEvent /\ Between(e).QEvaluate = e.QEvaluate
      /\ Between(e).QEvaluateNew = e.QEvaluateNew
  BY DEF Between, Evaluations
<1> QED BY <1>2, <1>3 DEF Settled

----------------------------------------------------------------------------
(* The calls. *)

LEMMA InitSettled == ASSUME Init PROVE IInv
<1> USE MaxIterAssumption
<1>1. Given
  BY DEF Init, Given
<1>2. PICK x \in States, d \in {0, 1}, armed \in BOOLEAN :
          eq = [x |-> x, d |-> d, pre |-> d, QEvaluate |-> armed, QEvaluateNew |-> armed,
                pending |-> FALSE, AnyEvent |-> FALSE, Iter |-> 1,
                NextTimeEvent |-> TRUE, reinits |-> 0]
  BY DEF Init
<1>3. eq \in Evaluations /\ eq.Iter <= MaxIter
  BY <1>2 DEF Evaluations
<1>4. TypeOK
  BY <1>1, <1>3 DEF Init, Given, TypeOK, EventModes
<1> QED BY <1>3, <1>4 DEF Init, IInv, CountedIter, ExitIsEvaluated, NothingLeftOver

(* Before the next iteration the last one may be made again. *)
LEMMA PreparedIs ==
    ASSUME IInv, mStatus \in EventModes
    PROVE  /\ Prepared \in Evaluations /\ Prepared.Iter <= MaxIter
           /\ Kind \in {2, 3}
           /\ Result \in Evaluations
           /\ ~Again(Result) /\ ~TooMany(Result) => Settled(Result)
<1>1. Given /\ eq \in Evaluations /\ eq.Iter <= MaxIter
  BY DEF IInv, TypeOK, Given, CountedIter, EventModes
<1>2. Prepared \in Evaluations /\ Prepared.Iter <= MaxIter
  <2>1. Evaluated(eq, 5) \in Evaluations /\ Evaluated(eq, 5).Iter = eq.Iter
    BY <1>1, EvaluatedIs DEF Kinds
  <2> QED BY <1>1, <2>1 DEF Prepared
<1>3. Kind \in {2, 3}
  BY DEF Kind
<1>4. /\ Evaluated(Prepared, Kind) \in Evaluations
      /\ ~Again(Evaluated(Prepared, Kind)) /\ ~TooMany(Evaluated(Prepared, Kind)) =>
            Settled(Evaluated(Prepared, Kind))
  <2>1. Kind \in Kinds /\ Kind # 5
    BY <1>3 DEF Kinds
  <2> QED BY <1>1, <1>2, <2>1, EvaluatedIs
<1> QED BY <1>2, <1>3, <1>4 DEF Result

LEMMA BeginsIs ==
    ASSUME NEW e \in Evaluations
    PROVE  /\ Begins(e) \in Evaluations /\ Begins(e).Iter = e.Iter
           /\ Settled(e) => Settled(Begins(e))
           /\ [Begins(e) EXCEPT !.Iter = 0] \in Evaluations
<1>1. Begins(e) \in Evaluations /\ Begins(e).Iter = e.Iter
  BY DEF Begins, Evaluations
<1>2. Settled(e) => Settled(Begins(e))
  BY DEF Begins, Evaluations, Settled
<1>3. 0 \in 0 .. MaxIter + 1
  BY MaxIterAssumption
<1>4. \A b \in Evaluations : [b EXCEPT !.Iter = 0] \in Evaluations
  BY <1>3 DEF Evaluations
<1> QED BY <1>1, <1>2, <1>4

LEMMA ConvergesSettled == ASSUME IInv, Converges PROVE IInv'
<1>1. /\ Result \in Evaluations /\ Settled(Result) /\ Result.Iter <= MaxIter
      /\ eq' = Begins(Result) /\ icall' = TRUE /\ mStatus' = "EventModeExit"
      /\ start' = {eq'} /\ evaluated' = FALSE /\ disturbed' = FALSE
      /\ firstEventCall' = FALSE /\ valWasSet' = FALSE /\ UNCHANGED <<model, u>>
  BY PreparedIs, MaxIterAssumption DEF Converges, Fails, TooMany, Refreshed, Evaluations
<1>2. eq' \in Evaluations /\ eq'.Iter <= MaxIter /\ Settled(eq')
  BY <1>1, BeginsIs
<1>3. TypeOK'
  BY <1>1, <1>2 DEF IInv, TypeOK, EventModes
<1> QED BY <1>1, <1>2, <1>3
        DEF IInv, CountedIter, ExitIsEvaluated, NothingLeftOver, Settled

LEMMA IteratesOnSettled == ASSUME IInv, IteratesOn PROVE IInv'
<1>1. /\ Result \in Evaluations /\ Result.Iter <= MaxIter
      /\ eq' = Result /\ icall' = FALSE /\ mStatus' = "EventMode2" /\ evaluated' = TRUE
      /\ firstEventCall' = FALSE /\ valWasSet' = FALSE /\ UNCHANGED <<model, u, start, disturbed>>
  BY PreparedIs, MaxIterAssumption DEF IteratesOn, Fails, TooMany, Refreshed, Evaluations
<1>2. TypeOK'
  BY <1>1 DEF IInv, TypeOK, EventModes
<1> QED BY <1>1, <1>2 DEF IInv, CountedIter, ExitIsEvaluated, NothingLeftOver

LEMMA ModelTerminatesSettled == ASSUME IInv, ModelTerminates PROVE IInv'
<1>1. /\ Result \in Evaluations /\ Result.Iter <= MaxIter
      /\ eq' = Result /\ icall' \in BOOLEAN /\ mStatus' = "EventModeExit" /\ evaluated' = TRUE
      /\ start' = {} /\ disturbed' = TRUE
      /\ firstEventCall' = FALSE /\ valWasSet' = FALSE /\ UNCHANGED <<model, u>>
  BY PreparedIs, MaxIterAssumption DEF ModelTerminates, Fails, TooMany, Refreshed, Evaluations
<1>2. TypeOK'
  BY <1>1 DEF IInv, TypeOK, EventModes
<1> QED BY <1>1, <1>2 DEF IInv, CountedIter, ExitIsEvaluated, NothingLeftOver

(* A call that ends in an error. *)
LEMMA TerminatedSettled ==
    ASSUME IInv, mStatus' = "Terminated", eq' \in Evaluations,
           {firstEventCall', valWasSet'} \subseteq BOOLEAN,
           UNCHANGED <<model, u, icall, historyVars>>
    PROVE  IInv'
<1>1. TypeOK'
  BY DEF IInv, TypeOK, historyVars
<1> QED BY <1>1 DEF IInv, CountedIter, ExitIsEvaluated, NothingLeftOver

LEMMA FailureSettled == ASSUME IInv, NoFixpoint \/ EvaluationFails PROVE IInv'
<1>1. CASE NoFixpoint
  BY <1>1, TerminatedSettled DEF NoFixpoint, Refreshed, IInv, TypeOK
<1>2. CASE EvaluationFails
  <2>1. Prepared \in Evaluations /\ Prepared.Iter <= MaxIter /\ Kind \in Kinds
    BY <1>2, PreparedIs DEF EvaluationFails, Kinds
  <2>2. Given /\ eq' \in LeftBy(Prepared, Kind)
    BY <1>2 DEF EvaluationFails, IInv, TypeOK, Given
  <2>3. eq' \in Evaluations
    BY <2>1, <2>2, LeftByIs
  <2> QED BY <1>2, <2>3, TerminatedSettled DEF EvaluationFails, Refreshed
<1> QED BY <1>1, <1>2

LEMMA EnterEventModeSettled == ASSUME IInv, EnterEventMode PROVE IInv'
<1>1. /\ eq \in Evaluations /\ eq.Iter <= MaxIter /\ eq' = Begins(eq)
      /\ mStatus' = "EventMode" /\ firstEventCall' = TRUE /\ evaluated' = FALSE
      /\ start' \subseteq {[eq' EXCEPT !.Iter = 0]}
      /\ UNCHANGED <<model, u, valWasSet, icall, disturbed>>
  BY DEF EnterEventMode, IInv, TypeOK, CountedIter
<1>2. /\ eq' \in Evaluations /\ eq'.Iter <= MaxIter
      /\ [eq' EXCEPT !.Iter = 0] \in Evaluations
  BY <1>1, BeginsIs
<1>3. TypeOK'
  BY <1>1, <1>2 DEF IInv, TypeOK, EventModes
<1> QED BY <1>1, <1>2, <1>3 DEF IInv, CountedIter, ExitIsEvaluated, NothingLeftOver

LEMMA EnterContinuousTimeModeSettled == ASSUME IInv, EnterContinuousTimeMode PROVE IInv'
<1>1. TypeOK'
  BY DEF EnterContinuousTimeMode, IInv, TypeOK
<1> QED BY <1>1 DEF EnterContinuousTimeMode, IInv, CountedIter, ExitIsEvaluated, NothingLeftOver

LEMMA SetInputSettled == ASSUME IInv, SetInput PROVE IInv'
<1>1. start' \subseteq Evaluations /\ disturbed' \in BOOLEAN
  BY DEF SetInput, IInv, TypeOK
<1>2. TypeOK'
  BY <1>1 DEF SetInput, IInv, TypeOK
<1> QED BY <1>2 DEF SetInput, IInv, CountedIter, ExitIsEvaluated, NothingLeftOver, EventModes

LEMMA SetContinuousStatesSettled == ASSUME IInv, SetContinuousStates PROVE IInv'
<1>1. PICK x \in States : eq' = [eq EXCEPT !.x = x]
  BY DEF SetContinuousStates
<1>2. eq \in Evaluations
  BY DEF IInv, TypeOK
<1>3. /\ eq' \in Evaluations /\ eq'.Iter = eq.Iter
      /\ Settled(eq) => Settled(eq')
  BY <1>1, <1>2 DEF Evaluations, Settled
<1>4. TypeOK'
  BY <1>3 DEF SetContinuousStates, historyVars, IInv, TypeOK
<1> QED BY <1>3, <1>4 DEF SetContinuousStates, historyVars, IInv, CountedIter,
        ExitIsEvaluated, NothingLeftOver, Settled

(* At the end of an event that nothing disturbed, no getter evaluates. *)
LEMMA GetInEventSettled == ASSUME IInv, GetInEvent PROVE IInv'
<1> DEFINE one == IF firstEventCall THEN 2 ELSE 5
<1>1. Given /\ eq \in Evaluations /\ eq.Iter <= MaxIter /\ one \in Kinds /\ one # 3
  BY DEF GetInEvent, IInv, TypeOK, Given, CountedIter, EventModes, Kinds
<1>2. eq' \in Evaluations /\ eq'.Iter <= MaxIter
  <2>1. \/ eq' = Evaluated(eq, one)
        \/ eq' \in LeftBy(eq, one)
    BY DEF GetInEvent
  <2> HIDE DEF one
  <2>2. CASE eq' = Evaluated(eq, one)
    BY <1>1, <2>2, EvaluatedIs, MaxIterAssumption
  <2>3. CASE eq' \in LeftBy(eq, one)
    BY <1>1, <2>3, LeftByIs, MaxIterAssumption
  <2> QED BY <2>1, <2>2, <2>3
<1>3. /\ icall' \in BOOLEAN /\ start' \subseteq Evaluations /\ evaluated' = TRUE
      /\ firstEventCall' = FALSE /\ valWasSet' = FALSE
      /\ UNCHANGED <<model, u, mStatus, disturbed>>
  BY DEF GetInEvent, Refreshed, IInv, TypeOK
<1>4. TypeOK'
  BY <1>2, <1>3 DEF IInv, TypeOK
<1>5. mStatus \in EventModes /\ ~icall
  BY DEF GetInEvent
<1> QED BY <1>2, <1>3, <1>4, <1>5
        DEF IInv, CountedIter, ExitIsEvaluated, NothingLeftOver, EventModes

LEMMA BetweenSettled ==
    ASSUME IInv, GetBetween \/ CompletedIntegratorStep
    PROVE  IInv'
<1>1. /\ mStatus = "ContinuousTimeMode" /\ eq' = Between(eq) /\ icall' \in BOOLEAN
      /\ valWasSet' = FALSE /\ mStatus' \in {mStatus, "Terminated"}
      /\ UNCHANGED <<model, u, firstEventCall, start, evaluated, disturbed>>
  BY DEF GetBetween, CompletedIntegratorStep, historyVars
<1>2. Given /\ eq \in Evaluations
  BY DEF IInv, TypeOK, Given
<1>3. eq' \in Evaluations /\ eq'.Iter <= MaxIter /\ (Settled(eq) => Settled(eq'))
  BY <1>1, <1>2, BetweenIs, MaxIterAssumption
<1>4. TypeOK'
  BY <1>1, <1>3 DEF IInv, TypeOK
<1> QED BY <1>1, <1>3, <1>4
        DEF IInv, CountedIter, ExitIsEvaluated, NothingLeftOver, Settled

LEMMA NextSettled == ASSUME IInv, [Next]_vars PROVE IInv'
<1>1. CASE Terminate
  BY <1>1, TerminatedSettled DEF Terminate, IInv, TypeOK
<1>2. CASE UNCHANGED vars
  <2>1. TypeOK'
    BY <1>2 DEF vars, historyVars, IInv, TypeOK
  <2> QED BY <1>2, <2>1
          DEF vars, historyVars, IInv, CountedIter, ExitIsEvaluated, NothingLeftOver
<1> QED BY <1>1, <1>2, ConvergesSettled, IteratesOnSettled, ModelTerminatesSettled,
           FailureSettled, EnterEventModeSettled, EnterContinuousTimeModeSettled,
           SetInputSettled, SetContinuousStatesSettled, GetInEventSettled, BetweenSettled
        DEF Next, NewDiscreteStates

(* The variables are of their types: in particular the iterations of an    *)
(* event are counted to one past the bound at most, also after failures.   *)
THEOREM EventTypes == Spec => []TypeOK
<1>1. Init => IInv
  BY InitSettled
<1>2. IInv /\ [Next]_vars => IInv'
  BY NextSettled
<1>3. IInv => TypeOK
  BY DEF IInv
<1> QED BY <1>1, <1>2, <1>3, PTL DEF Spec

(* When an event is over nothing of it is left that could still happen in  *)
(* a later evaluation, whatever the importer calls before the next one.    *)
THEOREM EventIsOver == Spec => []NothingLeftOver
<1>1. Init => IInv
  BY InitSettled
<1>2. IInv /\ [Next]_vars => IInv'
  BY NextSettled
<1>3. IInv => NothingLeftOver
  BY DEF IInv
<1> QED BY <1>1, <1>2, <1>3, PTL DEF Spec

----------------------------------------------------------------------------
(* What an evaluation computes, from the state and the pre it is made      *)
(* with: the discrete variable, where the when clause is enabled, and      *)
(* whether it fires.                                                       *)

Computed(x, p) == model.next[Above(x), p]
Meets(x, d)    == Above(x) /\ u = "down" /\ d \in model.gate

MadeWith(e, one)  == IF one # 5 /\ e.pending THEN model.value ELSE e.x
PreOf(e, one)     == IF one = 5 THEN e.pre ELSE e.d
Armed(e, one)     == IF one = 3 THEN e.QEvaluateNew ELSE e.QEvaluate
NewOf(e, one)     == Computed(MadeWith(e, one), PreOf(e, one))
Enabled(e, one)   == Meets(MadeWith(e, one), NewOf(e, one))
Fires(e, one)     == Enabled(e, one) /\ Armed(e, one)

LEMMA ComputedIs ==
    ASSUME Given, NEW x \in States, NEW p \in {0, 1}
    PROVE  Computed(x, p) \in {0, 1}
<1>1. Above(x) \in BOOLEAN
  BY DEF Above
<1>2. model.next \in [BOOLEAN \X {0, 1} -> {0, 1}]
  BY DEF Given, Models
<1> QED
  BY <1>1, <1>2 DEF Computed

LEMMA FiresIs ==
    ASSUME Given, NEW e \in Evaluations, NEW one \in Kinds
    PROVE  /\ MadeWith(e, one) \in States /\ PreOf(e, one) \in {0, 1}
           /\ NewOf(e, one) \in {0, 1} /\ Armed(e, one) \in BOOLEAN
           /\ Enabled(e, one) \in BOOLEAN /\ Fires(e, one) \in BOOLEAN
<1>1. MadeWith(e, one) \in States
  BY DEF MadeWith, Evaluations, Given, Models
<1>2. PreOf(e, one) \in {0, 1} /\ Armed(e, one) \in BOOLEAN
  BY DEF PreOf, Armed, Evaluations
<1>3. NewOf(e, one) \in {0, 1}
  BY <1>1, <1>2, ComputedIs DEF NewOf
<1>4. Enabled(e, one) \in BOOLEAN /\ Fires(e, one) \in BOOLEAN
  BY DEF Enabled, Fires, Meets
<1> QED
  BY <1>1, <1>2, <1>3, <1>4

(* The stages.                                                             *)
LEMMA WhenDoes ==
    ASSUME Given, NEW e \in Evaluations, NEW one \in Kinds
    PROVE  LET w == When(e, one)
               fires == Meets(e.x, e.d) /\ e.QEvaluate
           IN  /\ w.d = e.d /\ w.pre = e.pre /\ w.QEvaluate = e.QEvaluate
               /\ w.QEvaluateNew <=> IF Meets(e.x, e.d) THEN ~fires /\ e.QEvaluateNew
                                     ELSE e.QEvaluateNew \/ ~e.QEvaluate
               /\ w.AnyEvent <=> e.AnyEvent \/ fires
               /\ w.pending <=> e.pending \/ (one # 0 /\ fires)
               /\ w.x = (IF one = 0 /\ fires THEN model.value ELSE e.x)
               /\ w.reinits = Counted(e, one = 0 /\ fires)
<1>1. Condition(e) <=> Meets(e.x, e.d)
  BY DEF Condition, Meets
<1>2. model.value \in States /\ Counted(e, one = 0) \in 0 .. 3 /\ Counted(e, FALSE) = e.reinits
  BY CountedIs DEF Given, Models, Counted
<1>3. CASE ~Condition(e)
  <2>1. When(e, one) = [e EXCEPT !.QEvaluateNew = (e.QEvaluateNew \/ ~e.QEvaluate)]
    BY <1>3 DEF When
  <2>2. ~(one = 0 /\ Meets(e.x, e.d) /\ e.QEvaluate) /\ Counted(e, one = 0 /\ Meets(e.x, e.d) /\ e.QEvaluate) = e.reinits
    BY <1>1, <1>3 DEF Counted
  <2> QED
    BY <1>1, <1>3, <2>1, <2>2 DEF Evaluations
<1>4. CASE Condition(e) /\ ~e.QEvaluate
  <2>1. When(e, one) = e
    BY <1>4 DEF When
  <2>2. Counted(e, one = 0 /\ Meets(e.x, e.d) /\ e.QEvaluate) = e.reinits
    BY <1>4 DEF Counted
  <2> QED
    BY <1>1, <1>4, <2>1, <2>2 DEF Evaluations
<1>5. CASE Condition(e) /\ e.QEvaluate
  <2> DEFINE x == IF one = 0 THEN model.value ELSE e.x
             left == e.pending \/ one # 0
             count == Counted(e, one = 0)
  <2>1. When(e, one) = [e EXCEPT !.QEvaluateNew = FALSE, !.AnyEvent = TRUE, !.x = x,
                                 !.reinits = count, !.pending = left]
    BY <1>5 DEF When
  <2>2. count = Counted(e, one = 0 /\ Meets(e.x, e.d) /\ e.QEvaluate)
    BY <1>1, <1>5 DEF Counted
  <2>3. left \in BOOLEAN
    OBVIOUS
  <2> HIDE DEF count, left, x
  <2>4. LET w == When(e, one)
        IN  /\ w.d = e.d /\ w.pre = e.pre /\ w.QEvaluate = e.QEvaluate
            /\ ~w.QEvaluateNew /\ w.AnyEvent /\ w.pending = left
            /\ w.x = x /\ w.reinits = count
    BY <2>1 DEF Evaluations
  <2> QED
    BY <1>1, <1>5, <2>2, <2>4 DEF left, x
<1> QED
  BY <1>3, <1>4, <1>5

(* What an evaluation gives.                                               *)
LEMMA OnceIs ==
    ASSUME Given, NEW e \in Evaluations, NEW one \in Kinds, one = 3 => e.Iter <= MaxIter
    PROVE  LET r == Once(e, one)
           IN  /\ r \in Evaluations
               /\ r.Iter = (IF one = 5 THEN e.Iter ELSE IF one = 3 THEN e.Iter + 1 ELSE 1)
               /\ r.d = NewOf(e, one)
               /\ r.pre = (IF one = 0 THEN NewOf(e, one) ELSE PreOf(e, one))
               /\ r.x = (IF one = 0 /\ Fires(e, one) THEN model.value ELSE MadeWith(e, one))
               /\ r.pending <=> (one = 5 /\ e.pending) \/ (one # 0 /\ Fires(e, one))
               /\ r.QEvaluateNew <=> ~Enabled(e, one)
               /\ r.QEvaluate <=> IF one = 0 THEN ~Enabled(e, one) ELSE Armed(e, one)
               /\ one # 0 => r.reinits = IF one = 5 THEN e.reinits ELSE Counted(e, e.pending)
               /\ one = 0 /\ ~e.pending => r.reinits = Counted(e, Fires(e, one))
               /\ r.AnyEvent <=> \/ one = 5 /\ e.AnyEvent
                                 \/ one # 5 /\ e.pre # e.d
                                 \/ Fires(e, one) \/ PreOf(e, one) # NewOf(e, one)
<1> DEFINE x0 == MadeWith(e, one)
           p0 == PreOf(e, one)
           ar == Armed(e, one)
           d0 == NewOf(e, one)
           en == Enabled(e, one)
           fi == Fires(e, one)
           n0 == IF one = 5 THEN e.reinits ELSE Counted(e, e.pending)
           i0 == IF one = 5 THEN e.Iter ELSE IF one = 3 THEN e.Iter + 1 ELSE 1
           begun == Begun(e, one)
           data == DataAtStart(begun, one)
           equal == Discrete(data)
           computed == When(equal, one)
           once == DataAtEnd(computed, one)
<1>1. Once(e, one) = once
  BY DEF Once, Equations
<1>2. /\ begun \in Evaluations /\ begun.Iter = i0
      /\ begun.x = x0 /\ begun.d = e.d /\ begun.pre = e.pre
      /\ begun.QEvaluate = e.QEvaluate /\ begun.QEvaluateNew = e.QEvaluateNew
      /\ begun.pending <=> one = 5 /\ e.pending
      /\ begun.AnyEvent <=> one = 5 /\ e.AnyEvent
      /\ begun.reinits = n0
  <2>1. begun \in Evaluations /\ begun.Iter = i0
    BY BegunIs
  <2>2. CASE one = 5
    BY <2>1, <2>2 DEF Begun, MadeWith
  <2>3. CASE one # 5
    <3> DEFINE iter == (IF one < 3 THEN 0 ELSE e.Iter) + 1
               x == IF e.pending THEN model.value ELSE e.x
               c == Counted(e, e.pending)
    <3>1. begun = [e EXCEPT !.Iter = iter, !.NextTimeEvent = FALSE, !.AnyEvent = FALSE,
                            !.x = x, !.reinits = c, !.pending = FALSE]
      BY <2>3 DEF Begun
    <3>2. x = x0 /\ c = n0
      BY <2>3 DEF MadeWith
    <3> HIDE DEF iter, x, c, begun, x0, n0
    <3> QED
      BY <2>1, <2>3, <3>1, <3>2 DEF Evaluations
  <2> QED
    BY <2>2, <2>3
<1> HIDE DEF begun
<1>3. /\ data \in Evaluations /\ data.Iter = i0
      /\ data.x = x0 /\ data.d = e.d /\ data.pre = p0
      /\ data.QEvaluate = ar /\ data.QEvaluateNew = ar
      /\ data.pending = begun.pending /\ data.reinits = n0
      /\ data.AnyEvent <=> \/ one = 5 /\ e.AnyEvent
                           \/ one # 5 /\ e.pre # e.d
  <2>1. data \in Evaluations /\ data.Iter = i0 /\ data.pending = begun.pending
    BY <1>2, DataAtStartIs
  <2> DEFINE a == begun.AnyEvent \/ (one # 5 /\ begun.pre # begun.d)
             q == IF one = 3 THEN begun.QEvaluateNew ELSE begun.QEvaluate
             p == IF one = 5 THEN begun.pre ELSE begun.d
  <2>2. data = [begun EXCEPT !.AnyEvent = a, !.pre = p, !.QEvaluate = q, !.QEvaluateNew = q]
    BY DEF DataAtStart
  <2>3. q = ar /\ p = p0
    BY <1>2 DEF Armed, PreOf
  <2>4. a <=> \/ one = 5 /\ e.AnyEvent
              \/ one # 5 /\ e.pre # e.d
    BY <1>2
  <2> HIDE DEF a, p, q, data, p0, ar, x0, n0, i0
  <2>5. /\ data.x = begun.x /\ data.d = begun.d /\ data.pre = p /\ data.QEvaluate = q
        /\ data.QEvaluateNew = q /\ data.reinits = begun.reinits /\ data.AnyEvent = a
    BY <1>2, <2>2 DEF Evaluations
  <2> QED
    BY <1>2, <2>1, <2>3, <2>4, <2>5
<1> HIDE DEF data
<1>4. /\ equal \in Evaluations /\ equal.Iter = i0
      /\ equal.x = x0 /\ equal.d = d0 /\ equal.pre = p0
      /\ equal.QEvaluate = ar /\ equal.QEvaluateNew = ar
      /\ equal.pending = begun.pending /\ equal.reinits = n0
      /\ equal.AnyEvent = data.AnyEvent
  <2>1. equal \in Evaluations /\ equal.Iter = i0 /\ equal.pending = begun.pending
    BY <1>3, DiscreteIs
  <2>2. equal = [data EXCEPT !.d = d0, !.NextTimeEvent = TRUE]
    BY <1>3 DEF Discrete, NewOf, Computed
  <2> HIDE DEF equal, d0, p0, ar, x0, n0, i0
  <2>3. /\ equal.x = data.x /\ equal.d = d0 /\ equal.pre = data.pre
        /\ equal.QEvaluate = data.QEvaluate /\ equal.QEvaluateNew = data.QEvaluateNew
        /\ equal.reinits = data.reinits /\ equal.AnyEvent = data.AnyEvent
    BY <1>3, <2>2 DEF Evaluations
  <2> QED
    BY <1>3, <2>1, <2>3
<1> HIDE DEF equal
<1>5. Meets(equal.x, equal.d) <=> en
  BY <1>4 DEF Enabled
<1>6. /\ computed \in Evaluations /\ computed.Iter = i0
      /\ computed.x = (IF one = 0 /\ fi THEN model.value ELSE x0)
      /\ computed.d = d0 /\ computed.pre = p0
      /\ computed.QEvaluate = ar /\ (computed.QEvaluateNew <=> ~en)
      /\ computed.pending <=> (one = 5 /\ e.pending) \/ (one # 0 /\ fi)
      /\ computed.reinits = Counted(equal, one = 0 /\ fi)
      /\ computed.AnyEvent <=> equal.AnyEvent \/ fi
  <2>1. computed \in Evaluations /\ computed.Iter = i0
    BY <1>4, WhenIs
  <2>2. fi <=> en /\ ar
    BY DEF Fires
  <2>3. /\ computed.d = equal.d /\ computed.pre = equal.pre /\ computed.QEvaluate = equal.QEvaluate
        /\ computed.QEvaluateNew <=> IF en THEN ~fi /\ equal.QEvaluateNew
                                     ELSE equal.QEvaluateNew \/ ~equal.QEvaluate
        /\ computed.AnyEvent <=> equal.AnyEvent \/ fi
        /\ computed.pending <=> equal.pending \/ (one # 0 /\ fi)
        /\ computed.x = (IF one = 0 /\ fi THEN model.value ELSE equal.x)
        /\ computed.reinits = Counted(equal, one = 0 /\ fi)
    <3> DEFINE f == Meets(equal.x, equal.d) /\ equal.QEvaluate
    <3>1. /\ computed.d = equal.d /\ computed.pre = equal.pre /\ computed.QEvaluate = equal.QEvaluate
          /\ computed.QEvaluateNew <=> IF Meets(equal.x, equal.d) THEN ~f /\ equal.QEvaluateNew
                                       ELSE equal.QEvaluateNew \/ ~equal.QEvaluate
          /\ computed.AnyEvent <=> equal.AnyEvent \/ f
          /\ computed.pending <=> equal.pending \/ (one # 0 /\ f)
          /\ computed.x = (IF one = 0 /\ f THEN model.value ELSE equal.x)
          /\ computed.reinits = Counted(equal, one = 0 /\ f)
      BY <1>4, WhenDoes
    <3>2. f <=> fi
      BY <1>4, <1>5, <2>2
    <3>3. Counted(equal, one = 0 /\ f) = Counted(equal, one = 0 /\ fi)
      BY <3>2 DEF Counted
    <3> HIDE DEF f, fi, en, computed
    <3> QED
      BY <1>5, <3>1, <3>2, <3>3
  <2> HIDE DEF fi, en, computed, d0, p0, ar, x0, n0, i0
  <2> QED
    BY <1>2, <1>4, <2>1, <2>2, <2>3
<1> HIDE DEF computed
<1>7. /\ once \in Evaluations /\ once.Iter = i0
      /\ once.x = computed.x /\ once.d = d0
      /\ once.pre = (IF one = 0 THEN d0 ELSE p0)
      /\ once.pending = computed.pending /\ once.reinits = computed.reinits
      /\ once.QEvaluateNew = computed.QEvaluateNew
      /\ once.QEvaluate <=> IF one = 0 THEN ~en ELSE ar
      /\ once.AnyEvent <=> computed.AnyEvent \/ p0 # d0
  <2>1. once \in Evaluations /\ once.Iter = i0 /\ once.pending = computed.pending
    BY <1>6, DataAtEndIs
  <2> DEFINE a == computed.AnyEvent \/ computed.pre # computed.d
             p == IF one = 0 THEN computed.d ELSE computed.pre
             q == IF one = 0 THEN computed.QEvaluateNew ELSE computed.QEvaluate
  <2>2. once = [computed EXCEPT !.AnyEvent = a, !.pre = p, !.QEvaluate = q]
    BY DEF DataAtEnd
  <2>3. p = (IF one = 0 THEN d0 ELSE p0) /\ (a <=> computed.AnyEvent \/ p0 # d0)
        /\ (q <=> IF one = 0 THEN ~en ELSE ar)
    <3> HIDE DEF fi, en, d0, p0, ar, x0, n0, i0
    <3> QED
      BY <1>6
  <2> HIDE DEF a, p, q, once, fi, en, d0, p0, ar, x0, n0, i0
  <2>4. /\ once.x = computed.x /\ once.d = computed.d /\ once.pre = p /\ once.reinits = computed.reinits
        /\ once.QEvaluateNew = computed.QEvaluateNew /\ once.QEvaluate = q /\ once.AnyEvent = a
    BY <1>6, <2>2 DEF Evaluations
  <2> QED
    BY <1>6, <2>1, <2>3, <2>4
<1> HIDE DEF once
<1>8. /\ one # 0 => computed.reinits = n0
      /\ one = 0 /\ ~e.pending => computed.reinits = Counted(e, fi)
  <2>1. computed.reinits = Counted(equal, one = 0 /\ fi) /\ equal.reinits = n0
    BY <1>4, <1>6
  <2>2. one = 0 /\ ~e.pending => n0 = e.reinits
    BY DEF Counted
  <2> HIDE DEF n0, fi
  <2> QED
    BY <2>1, <2>2 DEF Counted
<1> HIDE DEF fi, en, d0, p0, ar, x0, n0, i0
<1>9. /\ once \in Evaluations /\ once.Iter = i0
      /\ once.d = d0 /\ once.pre = (IF one = 0 THEN d0 ELSE p0)
      /\ once.x = (IF one = 0 /\ fi THEN model.value ELSE x0)
      /\ once.pending <=> (one = 5 /\ e.pending) \/ (one # 0 /\ fi)
      /\ once.QEvaluateNew <=> ~en
      /\ once.QEvaluate <=> IF one = 0 THEN ~en ELSE ar
      /\ one # 0 => once.reinits = n0
      /\ one = 0 /\ ~e.pending => once.reinits = Counted(e, fi)
      /\ once.AnyEvent <=> \/ one = 5 /\ e.AnyEvent
                           \/ one # 5 /\ e.pre # e.d
                           \/ fi \/ p0 # d0
  BY <1>3, <1>4, <1>6, <1>7, <1>8
<1> QED
  BY <1>1, <1>9 DEF fi, en, d0, p0, ar, x0, n0, i0

----------------------------------------------------------------------------
(* The event iterated at once: one evaluation after the other, until one   *)
(* changes nothing.                                                        *)

(* A set of numbers has its least one.                                     *)
LEMMA LeastIs ==
    ASSUME NEW S, S \subseteq Nat, S # {}
    PROVE  \E x \in S : \A y \in S : x <= y
<1>1. PICK x \in S : \A y \in S : ~ (<<y, x>> \in OpToRel(<, Nat))
  BY NatLessThanWellFounded, WFMin
<1>2. \A y \in S : ~(y < x)
  BY <1>1 DEF OpToRel
<1>3. \A y \in S : x <= y
  BY <1>2
<1> QED
  BY <1>3

(* Nothing is left for another evaluation: pre, the reinit, and, when the  *)
(* last one changed nothing, the variable and the when clause.             *)
Whole(a) ==
    /\ a \in Evaluations /\ ~a.pending /\ a.pre = a.d
    /\ ~a.AnyEvent => /\ a.d = Computed(a.x, a.d)
                      /\ a.QEvaluate <=> ~Meets(a.x, a.d)

(* They agree but for Iter, NextTimeEvent and QEvaluateNew.                *)
Agree(a, b) ==
    /\ a.x = b.x /\ a.d = b.d /\ a.pre = b.pre /\ a.pending = b.pending
    /\ a.QEvaluate = b.QEvaluate /\ a.reinits = b.reinits /\ a.AnyEvent = b.AnyEvent

(* An evaluation from a state to which no reinit is left.                  *)
LEMMA AtOnceIs ==
    ASSUME Given, NEW e \in Evaluations, ~e.pending
    PROVE  LET r == Once(e, 0)
               d == Computed(e.x, e.d)
               fires == Meets(e.x, d) /\ e.QEvaluate
           IN  /\ Whole(r) /\ r.Iter = 1
               /\ r.d = d /\ r.x = (IF fires THEN model.value ELSE e.x)
               /\ r.QEvaluate <=> ~Meets(e.x, d)
               /\ r.reinits = Counted(e, fires)
               /\ r.AnyEvent <=> e.pre # e.d \/ e.d # d \/ fires
<1> DEFINE r == Once(e, 0)
           d == Computed(e.x, e.d)
           fires == Meets(e.x, d) /\ e.QEvaluate
<1>1. /\ MadeWith(e, 0) = e.x /\ PreOf(e, 0) = e.d /\ NewOf(e, 0) = d
      /\ Enabled(e, 0) = Meets(e.x, d) /\ Fires(e, 0) = fires
  BY DEF MadeWith, PreOf, NewOf, Enabled, Fires, Armed
<1>2. /\ r \in Evaluations /\ r.Iter = 1 /\ r.d = d /\ r.pre = d
      /\ r.x = (IF fires THEN model.value ELSE e.x)
      /\ ~r.pending /\ (r.QEvaluate <=> ~Meets(e.x, d))
      /\ r.reinits = Counted(e, fires)
      /\ r.AnyEvent <=> e.pre # e.d \/ e.d # d \/ fires
  <2>1. 0 \in Kinds /\ 0 # 3 /\ 0 # 5
    BY DEF Kinds
  <2> HIDE DEF r, d, fires
  <2> QED
    BY <1>1, <2>1, OnceIs DEF r
<1>3. ~r.AnyEvent => r.d = Computed(r.x, r.d) /\ (r.QEvaluate <=> ~Meets(r.x, r.d))
  <2>1. SUFFICES ASSUME ~r.AnyEvent
                 PROVE  r.d = Computed(r.x, r.d) /\ (r.QEvaluate <=> ~Meets(r.x, r.d))
    OBVIOUS
  <2>2. r.x = e.x /\ r.d = e.d /\ e.d = d
    <3> HIDE DEF r, d, fires
    <3> QED
      BY <2>1, <1>2
  <2> QED
    BY <1>2, <2>2
<1> QED
  BY <1>2, <1>3 DEF Whole

(* After one that changed nothing another one changes nothing.             *)
LEMMA NothingMore ==
    ASSUME Given, NEW a, Whole(a), ~a.AnyEvent
    PROVE  Agree(a, Once(a, 0))
<1> DEFINE r == Once(a, 0)
           d == Computed(a.x, a.d)
           fires == Meets(a.x, d) /\ a.QEvaluate
<1>1. /\ a \in Evaluations /\ ~a.pending /\ a.pre = a.d /\ a.d = d
      /\ a.QEvaluate <=> ~Meets(a.x, a.d)
  BY DEF Whole
<1>2. /\ Whole(r)
      /\ r.d = d /\ r.x = (IF fires THEN model.value ELSE a.x)
      /\ r.QEvaluate <=> ~Meets(a.x, d)
      /\ r.reinits = Counted(a, fires)
      /\ r.AnyEvent <=> a.pre # a.d \/ a.d # d \/ fires
  BY <1>1, AtOnceIs
<1>3. ~fires
  BY <1>1
<1>4. r.pre = r.d /\ ~r.pending /\ r \in Evaluations
  BY <1>2 DEF Whole
<1>5. r.x = a.x /\ r.d = a.d /\ r.pre = a.pre /\ r.reinits = a.reinits /\ ~r.AnyEvent
      /\ (r.QEvaluate <=> a.QEvaluate)
  <2> HIDE DEF r, d, fires
  <2> QED
    BY <1>1, <1>2, <1>3, <1>4 DEF Counted
<1>6. /\ a.pending \in BOOLEAN /\ a.QEvaluate \in BOOLEAN /\ a.AnyEvent \in BOOLEAN
      /\ r.pending \in BOOLEAN /\ r.QEvaluate \in BOOLEAN /\ r.AnyEvent \in BOOLEAN
  BY <1>1, <1>4 DEF Evaluations
<1> HIDE DEF r, d, fires
<1> QED
  BY <1>1, <1>4, <1>5, <1>6 DEF Agree, r

(* The evaluations from a state to which no reinit is left.                *)
Following(a) == IF Again(a) THEN [Once(a, 0) EXCEPT !.Iter = a.Iter + 1] ELSE a

IsRun(f, e) ==
    /\ f[0] = Once(e, 0)
    /\ \A n \in 1 .. MaxIter : f[n] = Following(f[n - 1])

LEMMA RunExists ==
    ASSUME NEW e
    PROVE  \E f : IsRun(f, e) /\ AtOnce(e) = f[MaxIter]
<1> DEFINE n == MaxIter
           Step(g, s) == IF s = 0 THEN Once(e, 0)
                         ELSE CHOOSE this \in {IF Again(l) THEN [Once(l, 0) EXCEPT !.Iter = l.Iter + 1]
                                               ELSE l : l \in {g[s - 1]}} : TRUE
           Is(g, m) == g = [s \in 0 .. m |-> Step(g, s)]
           f == CHOOSE g : Is(g, n)
<1>1. n \in Nat /\ n > 0
  BY MaxIterAssumption
<1>2. AtOnce(e) = f[n]
  BY DEF AtOnce
<1>3. \A g, s : s # 0 => Step(g, s) = Following(g[s - 1])
  BY DEF Following
<1> HIDE DEF n, Step
<1>4. \A m \in 0 .. n : \E g : Is(g, m)
  <2> DEFINE S == {m \in 0 .. n : ~\E g : Is(g, m)}
  <2>1. SUFFICES ASSUME S # {} PROVE FALSE
    OBVIOUS
  <2>2. PICK m \in S : \A x \in S : m <= x
    <3>1. S \subseteq Nat
      BY <1>1
    <3> HIDE DEF S
    <3> QED
      BY <2>1, <3>1, LeastIs
  <2>3. CASE m = 0
    <3> DEFINE h == [s \in 0 .. 0 |-> Once(e, 0)]
    <3>1. \A s \in 0 .. 0 : Step(h, s) = Once(e, 0)
      BY DEF Step
    <3>2. Is(h, 0)
      BY <3>1
    <3> QED
      BY <2>2, <2>3, <3>2
  <2>4. CASE m # 0
    <3>1. m \in 0 .. n /\ m - 1 \in 0 .. n /\ m - 1 \notin S
      BY <1>1, <2>2, <2>4
    <3>2. PICK g : Is(g, m - 1)
      BY <3>1
    <3> DEFINE h == [s \in 0 .. m |-> IF s = m THEN Following(g[m - 1]) ELSE g[s]]
    <3>3. \A s \in 0 .. m : h[s] = Step(h, s)
      <4> TAKE s \in 0 .. m
      <4>1. CASE s = m
        <5>1. h[m - 1] = g[m - 1] /\ m - 1 \in 0 .. m
          BY <3>1, <1>1, <2>4
        <5>2. h[m] = Following(g[m - 1]) /\ m \in 0 .. m
          BY <3>1, <1>1
        <5> HIDE DEF h
        <5> QED
          BY <4>1, <5>1, <5>2, <2>4, <1>3
      <4>2. CASE s # m
        <5>1. s \in 0 .. m - 1 /\ h[s] = g[s]
          BY <3>1, <1>1, <4>2
        <5>2. g[s] = Step(g, s)
          BY <3>2, <5>1
        <5>3. s # 0 => h[s - 1] = g[s - 1]
          BY <3>1, <1>1, <5>1
        <5> HIDE DEF h
        <5>4. Step(g, s) = Step(h, s)
          <6>1. CASE s = 0
            BY <6>1 DEF Step
          <6>2. CASE s # 0
            <7>1. Step(g, s) = Following(g[s - 1]) /\ Step(h, s) = Following(h[s - 1])
              BY <6>2, <1>3
            <7> QED
              BY <6>2, <7>1, <5>3
          <6> QED
            BY <6>1, <6>2
        <5> QED
          BY <5>1, <5>2, <5>4
      <4> QED
        BY <4>1, <4>2
    <3>4. h = [s \in 0 .. m |-> Step(h, s)]
      <4>1. h = [s \in 0 .. m |-> h[s]]
        OBVIOUS
      <4> HIDE DEF h
      <4> QED
        BY <3>3, <4>1
    <3> HIDE DEF h
    <3>5. Is(h, m)
      BY <3>4
    <3> QED
      BY <2>2, <3>5
  <2> QED
    BY <2>3, <2>4
<1>5. Is(f, n)
  <2>1. n \in 0 .. n
    BY <1>1
  <2> HIDE DEF Is
  <2> QED
    BY <1>4, <2>1
<1>6. f[0] = Once(e, 0) /\ \A s \in 1 .. n : f[s] = Following(f[s - 1])
  <2> HIDE DEF f
  <2>1. \A s \in 0 .. n : f[s] = Step(f, s)
    BY <1>5
  <2>2. 0 \in 0 .. n /\ Step(f, 0) = Once(e, 0)
    BY <1>1 DEF Step
  <2>3. \A s \in 1 .. n : s \in 0 .. n /\ s # 0
    BY <1>1
  <2> QED
    BY <2>1, <2>2, <2>3, <1>3
<1> QED
  BY <1>2, <1>6 DEF IsRun, n

(* What such a run goes through, and where it ends.                        *)
LEMMA FollowingIs ==
    ASSUME Given, NEW a, Whole(a)
    PROVE  LET b == Following(a)
           IN  /\ Whole(b)
               /\ Again(a) \/ ~a.AnyEvent => Agree(b, Once(a, 0))
               /\ b.Iter = (IF Again(a) THEN a.Iter + 1 ELSE a.Iter)
               /\ ~a.AnyEvent => b = a
<1>1. a \in Evaluations /\ ~a.pending
  BY DEF Whole
<1>2. CASE Again(a)
  <2> DEFINE r == Once(a, 0)
             b == [r EXCEPT !.Iter = a.Iter + 1]
  <2>1. Whole(r) /\ r \in Evaluations
    BY <1>1, AtOnceIs DEF Whole
  <2>2. a.Iter + 1 \in 0 .. MaxIter + 1 /\ a.AnyEvent
    BY <1>1, <1>2, MaxIterAssumption DEF Again, Evaluations
  <2> HIDE DEF r
  <2>3. /\ b \in Evaluations /\ b.Iter = a.Iter + 1
        /\ Agree(b, r)
    BY <2>1, <2>2 DEF Evaluations, Agree
  <2>4. Whole(b)
    BY <2>1, <2>3 DEF Whole, Agree
  <2>5. Following(a) = b
    BY <1>2 DEF Following, r
  <2> HIDE DEF b
  <2> QED
    BY <1>2, <2>2, <2>3, <2>4, <2>5 DEF r
<1>3. CASE ~Again(a)
  <2>1. Following(a) = a
    BY <1>3 DEF Following
  <2> QED
    BY <1>3, <2>1, NothingMore
<1> QED
  BY <1>2, <1>3

(* There is but one.                                                       *)
LEMMA RunEnds ==
    ASSUME NEW e, NEW f, IsRun(f, e)
    PROVE  AtOnce(e) = f[MaxIter]
<1> USE MaxIterAssumption
<1>1. PICK g : IsRun(g, e) /\ AtOnce(e) = g[MaxIter]
  BY RunExists
<1> DEFINE S == {n \in 0 .. MaxIter : f[n] # g[n]}
<1>2. SUFFICES ASSUME S # {} PROVE FALSE
  <2>1. MaxIter \in 0 .. MaxIter
    OBVIOUS
  <2> QED
    BY <1>1, <2>1
<1>3. PICK n \in S : \A y \in S : n <= y
  <2>1. S \subseteq Nat
    OBVIOUS
  <2> HIDE DEF S
  <2> QED
    BY <1>2, <2>1, LeastIs
<1>4. n \in 0 .. MaxIter /\ f[n] # g[n]
  BY <1>3
<1>5. CASE n = 0
  BY <1>1, <1>4, <1>5 DEF IsRun
<1>6. CASE n # 0
  <2>1. n \in 1 .. MaxIter /\ n - 1 \in 0 .. MaxIter /\ n - 1 \notin S
    BY <1>3, <1>4, <1>6
  <2>2. f[n - 1] = g[n - 1]
    BY <2>1
  <2>3. f[n] = Following(f[n - 1]) /\ g[n] = Following(g[n - 1])
    BY <1>1, <2>1 DEF IsRun
  <2> QED
    BY <1>4, <2>2, <2>3
<1> QED
  BY <1>5, <1>6

LEMMA RunIs ==
    ASSUME Given, NEW e \in Evaluations, ~e.pending, NEW f, IsRun(f, e)
    PROVE  /\ f[0].Iter = 1
           /\ \A n \in 0 .. MaxIter : Whole(f[n])
           /\ \A n \in 0 .. MaxIter : f[n].Iter <= f[MaxIter].Iter
           /\ \A n \in 0 .. MaxIter : ~f[n].AnyEvent => f[MaxIter] = f[n]
<1> USE MaxIterAssumption
<1>1. f[0].Iter = 1 /\ Whole(f[0])
  BY AtOnceIs DEF IsRun
<1>2. \A n \in 1 .. MaxIter : f[n] = Following(f[n - 1])
  BY DEF IsRun
<1>3. \A n \in 0 .. MaxIter : Whole(f[n])
  <2> DEFINE S == {n \in 0 .. MaxIter : ~Whole(f[n])}
  <2>1. SUFFICES ASSUME S # {} PROVE FALSE
    OBVIOUS
  <2>2. PICK n \in S : \A y \in S : n <= y
    <3>1. S \subseteq Nat
      OBVIOUS
    <3> HIDE DEF S
    <3> QED
      BY <2>1, <3>1, LeastIs
  <2>3. n \in 1 .. MaxIter /\ n - 1 \in 0 .. MaxIter /\ n - 1 \notin S
    <3>1. n # 0
      BY <1>1, <2>2
    <3> QED
      BY <2>2, <3>1
  <2>4. Whole(f[n - 1])
    BY <2>3
  <2>5. f[n] = Following(f[n - 1]) /\ ~Whole(f[n])
    BY <1>2, <2>2, <2>3
  <2>6. Whole(Following(f[n - 1]))
    <3> DEFINE a == f[n - 1]
    <3> HIDE DEF a
    <3> QED
      BY <2>4, FollowingIs DEF a
  <2> QED
    BY <2>5, <2>6
<1>4. \A n \in 1 .. MaxIter : /\ f[n - 1].Iter <= f[n].Iter /\ f[n].Iter \in Nat
                              /\ f[n - 1].Iter \in Nat
                              /\ ~f[n - 1].AnyEvent => f[n] = f[n - 1]
  <2> TAKE n \in 1 .. MaxIter
  <2>1. n - 1 \in 0 .. MaxIter /\ n \in 0 .. MaxIter
    OBVIOUS
  <2> DEFINE a == f[n - 1]
             b == f[n]
  <2>2. Whole(a) /\ Whole(b) /\ b = Following(a)
    BY <1>2, <1>3, <2>1
  <2> HIDE DEF a, b
  <2>3. a.Iter \in Nat /\ b.Iter \in Nat
    BY <2>2 DEF Whole, Evaluations
  <2>4. b.Iter = (IF Again(a) THEN a.Iter + 1 ELSE a.Iter) /\ (~a.AnyEvent => b = a)
    BY <2>2, FollowingIs
  <2>5. a.Iter <= b.Iter
    BY <2>3, <2>4
  <2> QED
    BY <2>3, <2>4, <2>5 DEF a, b
<1>5. ASSUME NEW n \in 0 .. MaxIter
      PROVE  \A m \in n .. MaxIter : f[n].Iter <= f[m].Iter /\ (~f[n].AnyEvent => f[m] = f[n])
  <2> DEFINE Good(m) == f[n].Iter <= f[m].Iter /\ (~f[n].AnyEvent => f[m] = f[n])
             S == {m \in n .. MaxIter : ~Good(m)}
  <2>1. SUFFICES ASSUME S # {} PROVE FALSE
    OBVIOUS
  <2>2. PICK m \in S : \A y \in S : m <= y
    <3>1. S \subseteq Nat
      OBVIOUS
    <3> HIDE DEF S
    <3> QED
      BY <2>1, <3>1, LeastIs
  <2>3. f[n].Iter \in Nat
    BY <1>3 DEF Whole, Evaluations
  <2>4. m \in n .. MaxIter /\ ~Good(m)
    BY <2>2
  <2>5. m # n
    BY <2>3, <2>4
  <2>6. m \in 1 .. MaxIter /\ m - 1 \in n .. MaxIter /\ m - 1 \notin S
    BY <2>2, <2>4, <2>5
  <2>7. Good(m - 1)
    BY <2>6
  <2> DEFINE a == f[n]
             b == f[m - 1]
             c == f[m]
  <2>8. b.Iter <= c.Iter /\ b.Iter \in Nat /\ c.Iter \in Nat /\ (~b.AnyEvent => c = b)
        /\ a.Iter <= b.Iter /\ (~a.AnyEvent => b = a) /\ a.Iter \in Nat
    BY <1>4, <2>3, <2>6, <2>7
  <2> HIDE DEF a, b, c
  <2>9. a.Iter <= c.Iter /\ (~a.AnyEvent => c = a)
    BY <2>8
  <2> QED
    BY <2>4, <2>9 DEF a, c
<1>6. \A n \in 0 .. MaxIter : MaxIter \in n .. MaxIter
  OBVIOUS
<1> QED
  BY <1>1, <1>3, <1>5, <1>6

----------------------------------------------------------------------------
(* The event iterated call by call.  s is what a call leaves, and a what   *)
(* as many evaluations at once leave: a reinit is still to be made there,  *)
(* and the when clause is still to be armed.                               *)

Image(s, a) ==
    /\ a.d = s.d /\ a.x = (IF s.pending THEN model.value ELSE s.x)
    /\ a.QEvaluate <=> s.QEvaluateNew
    /\ a.reinits = Counted(s, s.pending)

(* What an evaluation leaves, so that the same one again gives it again.   *)
Own(s) ==
    /\ s.d = Computed(s.x, s.pre)
    /\ s.QEvaluateNew <=> ~Meets(s.x, s.d)
    /\ s.pending <=> Meets(s.x, s.d) /\ s.QEvaluate
    /\ s.pending => s.AnyEvent

(* One iteration of either kind.                                           *)
LEMMA OneMore ==
    ASSUME Given, NEW s \in Evaluations, NEW one \in {2, 3}, s.Iter <= MaxIter,
           NEW a \in Evaluations, ~a.pending, a.pre = a.d, Image(s, a),
           one = 2 => (s.QEvaluate <=> s.QEvaluateNew)
    PROVE  LET t == Once(s, one)
               r == Once(a, 0)
           IN  /\ t \in Evaluations /\ Own(t) /\ Image(t, r)
               /\ t.AnyEvent <=> s.pre # s.d \/ r.AnyEvent
               /\ t.pre # t.d => r.AnyEvent
               /\ t.Iter = (IF one = 3 THEN s.Iter + 1 ELSE 1)
<1> DEFINE t == Once(s, one)
           r == Once(a, 0)
           d == Computed(a.x, a.d)
           fires == Meets(a.x, d) /\ a.QEvaluate
<1>1. one \in Kinds /\ one # 5 /\ one # 0
  BY DEF Kinds
<1>2. MadeWith(s, one) = a.x /\ PreOf(s, one) = a.d
  BY <1>1 DEF MadeWith, PreOf, Image
<1>3. Armed(s, one) <=> a.QEvaluate
  BY DEF Armed, Image
<1>4. NewOf(s, one) = d /\ (Enabled(s, one) <=> Meets(a.x, d)) /\ (Fires(s, one) <=> fires)
  BY <1>2, <1>3 DEF NewOf, Enabled, Fires
<1>5. /\ t \in Evaluations
      /\ t.Iter = (IF one = 3 THEN s.Iter + 1 ELSE 1)
      /\ t.d = NewOf(s, one) /\ t.pre = PreOf(s, one) /\ t.x = MadeWith(s, one)
      /\ t.pending <=> Fires(s, one)
      /\ t.QEvaluateNew <=> ~Enabled(s, one)
      /\ t.QEvaluate <=> Armed(s, one)
      /\ t.reinits = Counted(s, s.pending)
      /\ t.AnyEvent <=> s.pre # s.d \/ Fires(s, one) \/ PreOf(s, one) # NewOf(s, one)
  <2> HIDE DEF t
  <2> QED
    BY <1>1, OnceIs DEF t
<1>6. /\ r.d = d /\ r.x = (IF fires THEN model.value ELSE a.x)
      /\ r.QEvaluate <=> ~Meets(a.x, d)
      /\ r.reinits = Counted(a, fires)
      /\ r.AnyEvent <=> a.d # d \/ fires
  <2> HIDE DEF r, d, fires
  <2> QED
    BY AtOnceIs DEF r, d, fires
<1>7. a.reinits = Counted(s, s.pending)
  BY DEF Image
<1> HIDE DEF t, r, d
<1>8. Own(t)
  BY <1>2, <1>3, <1>4, <1>5 DEF Own, d
<1>9. Counted(t, t.pending) = r.reinits
  BY <1>4, <1>5, <1>6, <1>7 DEF Counted
<1>10. Image(t, r)
  BY <1>2, <1>4, <1>5, <1>6, <1>9 DEF Image
<1> HIDE DEF fires
<1>11. /\ t.AnyEvent <=> s.pre # s.d \/ r.AnyEvent
       /\ t.pre # t.d => r.AnyEvent
  BY <1>2, <1>4, <1>5, <1>6
<1> QED
  BY <1>5, <1>8, <1>10, <1>11 DEF t, r

(* The same iteration again.                                               *)
LEMMA SameAgain ==
    ASSUME Given, NEW s \in Evaluations, s.d = Computed(s.x, s.pre),
           s.pending => Meets(s.x, s.d) /\ s.QEvaluate, s.pending => s.AnyEvent
    PROVE  LET t == Once(s, 5)
           IN  /\ t \in Evaluations /\ Own(t)
               /\ t.x = s.x /\ t.d = s.d /\ t.pre = s.pre /\ t.reinits = s.reinits
               /\ t.pending <=> Meets(s.x, s.d) /\ s.QEvaluate
               /\ t.QEvaluateNew <=> ~Meets(s.x, s.d)
               /\ t.Iter = s.Iter
<1> DEFINE t == Once(s, 5)
<1>1. 5 \in Kinds
  BY DEF Kinds
<1>2. MadeWith(s, 5) = s.x /\ PreOf(s, 5) = s.pre /\ Armed(s, 5) = s.QEvaluate
  BY DEF MadeWith, PreOf, Armed
<1>3. NewOf(s, 5) = s.d /\ (Enabled(s, 5) <=> Meets(s.x, s.d))
      /\ (Fires(s, 5) <=> Meets(s.x, s.d) /\ s.QEvaluate)
  BY <1>2 DEF NewOf, Enabled, Fires
<1>4. /\ t \in Evaluations /\ t.Iter = s.Iter
      /\ t.d = NewOf(s, 5) /\ t.pre = PreOf(s, 5) /\ t.x = MadeWith(s, 5)
      /\ t.pending <=> s.pending \/ Fires(s, 5)
      /\ t.QEvaluateNew <=> ~Enabled(s, 5)
      /\ t.QEvaluate <=> Armed(s, 5)
      /\ t.reinits = s.reinits
      /\ t.AnyEvent <=> s.AnyEvent \/ Fires(s, 5) \/ PreOf(s, 5) # NewOf(s, 5)
  <2> HIDE DEF t
  <2> QED
    BY <1>1, OnceIs DEF t
<1> HIDE DEF t
<1>5. Own(t)
  BY <1>2, <1>3, <1>4 DEF Own
<1> QED
  BY <1>2, <1>3, <1>4, <1>5 DEF t

(* The end of an evaluation.                                               *)
LEMMA FinishedIs ==
    ASSUME NEW t \in Evaluations, Own(t)
    PROVE  LET f == Finished(t)
           IN  /\ f \in Evaluations /\ Own(f)
               /\ f.x = t.x /\ f.d = t.d /\ f.pre = t.pre /\ f.pending = t.pending
               /\ f.QEvaluateNew = t.QEvaluateNew /\ f.reinits = t.reinits
               /\ f.AnyEvent = t.AnyEvent /\ f.Iter = t.Iter
               /\ \A a : Image(t, a) => Image(f, a)
<1> DEFINE f == Finished(t)
<1>1. CASE Again(t) \/ TooMany(t)
  BY <1>1 DEF Finished
<1>2. CASE ~Again(t) /\ ~TooMany(t)
  <2>1. f = [t EXCEPT !.QEvaluate = t.QEvaluateNew]
    BY <1>2 DEF Finished
  <2> HIDE DEF f
  <2>2. /\ f \in Evaluations
        /\ f.x = t.x /\ f.d = t.d /\ f.pre = t.pre /\ f.pending = t.pending
        /\ f.QEvaluateNew = t.QEvaluateNew /\ f.reinits = t.reinits
        /\ f.AnyEvent = t.AnyEvent /\ f.Iter = t.Iter /\ f.QEvaluate = t.QEvaluateNew
    BY <2>1 DEF Evaluations
  <2>3. ~t.AnyEvent
    BY <1>2, MaxIterAssumption DEF Again, TooMany, Evaluations
  <2>4. Own(f)
    BY <2>2, <2>3 DEF Own
  <2>5. Counted(f, f.pending) = Counted(t, t.pending)
    BY <2>2 DEF Counted
  <2>6. \A a : Image(t, a) => Image(f, a)
    BY <2>2, <2>5 DEF Image
  <2> QED
    BY <2>2, <2>4, <2>6 DEF f
<1> QED
  BY <1>1, <1>2

LEMMA EvaluatedIsFinished ==
    ASSUME NEW e, NEW one
    PROVE  Evaluated(e, one) = Finished(Once(e, one))
BY DEF Evaluated

(* Where an event begins.                                                  *)
Started(e) ==
    /\ e \in Evaluations /\ ~e.pending /\ e.pre = e.d
    /\ e.QEvaluate <=> e.QEvaluateNew

(* Nothing but Iter and AnyEvent is another.                               *)
Alike(s, e) ==
    /\ s.x = e.x /\ s.d = e.d /\ s.pre = e.pre /\ s.pending = e.pending
    /\ s.QEvaluate = e.QEvaluate /\ s.QEvaluateNew = e.QEvaluateNew /\ s.reinits = e.reinits

(* s is where k iterations have led from e: all before the last one        *)
(* changed something.                                                      *)
Reached(e, s) ==
    /\ Own(s)
    /\ \E f, k : /\ k \in 1 .. MaxIter /\ IsRun(f, e)
                 /\ Image(s, f[k - 1]) /\ f[k - 1].Iter = k
                 /\ k <= s.Iter /\ s.Iter <= e.Iter + k
                 /\ s.pre # s.d => f[k - 1].AnyEvent

LEMMA AlikeImage ==
    ASSUME NEW e, Started(e), NEW s \in Evaluations, Alike(s, e)
    PROVE  Image(s, e) /\ s.pre = s.d /\ (s.QEvaluate <=> s.QEvaluateNew)
BY DEF Started, Alike, Image, Counted

(* The first iteration.                                                    *)
LEMMA FirstCall ==
    ASSUME Given, NEW e, Started(e), NEW s \in Evaluations, Alike(s, e), s.Iter <= MaxIter,
           NEW one \in {2, 3}, one = 3 => s.Iter = e.Iter /\ 1 <= e.Iter
    PROVE  Reached(e, Evaluated(s, one))
<1> DEFINE t == Once(s, one)
           w == Evaluated(s, one)
<1>1. PICK f : IsRun(f, e)
  BY RunExists
<1>2. f[0] = Once(e, 0) /\ f[0].Iter = 1
  BY <1>1, RunIs DEF IsRun, Started
<1>3. /\ t \in Evaluations /\ Own(t) /\ Image(t, f[0])
      /\ t.pre # t.d => f[0].AnyEvent
      /\ t.Iter = (IF one = 3 THEN s.Iter + 1 ELSE 1)
  <2>1. /\ e \in Evaluations /\ ~e.pending /\ e.pre = e.d /\ Image(s, e)
        /\ s.QEvaluate <=> s.QEvaluateNew
    BY AlikeImage DEF Started
  <2> HIDE DEF t
  <2> QED
    BY <1>2, <2>1, OneMore DEF t
<1> HIDE DEF t
<1>4. /\ w \in Evaluations /\ Own(w) /\ Image(w, f[0])
      /\ w.pre # w.d => f[0].AnyEvent
      /\ w.Iter = (IF one = 3 THEN s.Iter + 1 ELSE 1)
  <2>1. w = Finished(t)
    BY EvaluatedIsFinished DEF t
  <2> HIDE DEF w
  <2> QED
    BY <1>3, <2>1, FinishedIs
<1> HIDE DEF w
<1>5. 1 <= w.Iter /\ w.Iter <= e.Iter + 1
  <2>1. e.Iter \in Nat /\ s.Iter \in Nat
    BY DEF Started, Evaluations
  <2> QED
    BY <1>4, <2>1
<1>6. 1 \in 1 .. MaxIter /\ 1 - 1 = 0
  BY MaxIterAssumption
<1>7. Image(w, f[1 - 1]) /\ f[1 - 1].Iter = 1 /\ (w.pre # w.d => f[1 - 1].AnyEvent)
  BY <1>2, <1>4, <1>6
<1> QED
  BY <1>1, <1>4, <1>5, <1>6, <1>7 DEF Reached, w

(* It is made with the same iteration again where an event is begun again. *)
LEMMA FirstCallAgain ==
    ASSUME Given, NEW e, Started(e), NEW s \in Evaluations, Alike(s, e), s.Iter <= MaxIter,
           e.d = Computed(e.x, e.d), s.Iter = e.Iter, 1 <= e.Iter
    PROVE  Reached(e, Evaluated(s, 5))
<1> DEFINE t == Once(s, 5)
           w == Evaluated(s, 5)
           r == Once(e, 0)
<1>1. PICK f : IsRun(f, e)
  BY RunExists
<1>2. f[0] = r /\ f[0].Iter = 1
  BY <1>1, RunIs DEF IsRun, Started
<1>3. /\ s.x = e.x /\ s.d = e.d /\ s.pre = e.pre /\ e.pre = e.d /\ ~s.pending /\ ~e.pending
      /\ s.QEvaluate = e.QEvaluate /\ s.reinits = e.reinits /\ e \in Evaluations
  BY DEF Alike, Started
<1>4. /\ t \in Evaluations /\ Own(t)
      /\ t.x = s.x /\ t.d = s.d /\ t.pre = s.pre /\ t.reinits = s.reinits
      /\ t.pending <=> Meets(s.x, s.d) /\ s.QEvaluate
      /\ t.QEvaluateNew <=> ~Meets(s.x, s.d)
      /\ t.Iter = s.Iter
  <2> HIDE DEF t
  <2> QED
    BY <1>3, SameAgain DEF t
<1> DEFINE fires == Meets(e.x, e.d) /\ e.QEvaluate
<1>5. /\ r.d = e.d /\ r.x = (IF fires THEN model.value ELSE e.x)
      /\ r.QEvaluate <=> ~Meets(e.x, e.d)
      /\ r.reinits = Counted(e, fires)
  <2>1. Computed(e.x, e.d) = e.d
    OBVIOUS
  <2>2. LET d == Computed(e.x, e.d)
            go == Meets(e.x, d) /\ e.QEvaluate
        IN  /\ r.d = d /\ r.x = (IF go THEN model.value ELSE e.x)
            /\ r.QEvaluate <=> ~Meets(e.x, d)
            /\ r.reinits = Counted(e, go)
    <3> HIDE DEF r
    <3> QED
      BY <1>3, AtOnceIs DEF r
  <2> HIDE DEF r
  <2> QED
    BY <2>1, <2>2
<1> HIDE DEF t, r
<1>6. Image(t, r)
  <2>1. Counted(t, t.pending) = Counted(e, fires)
    BY <1>3, <1>4 DEF Counted
  <2> QED
    BY <1>3, <1>4, <1>5, <2>1 DEF Image
<1>7. w \in Evaluations /\ Own(w) /\ Image(w, r) /\ w.pre = w.d /\ w.Iter = e.Iter
  <2>1. w = Finished(t)
    BY EvaluatedIsFinished DEF t
  <2> HIDE DEF w
  <2> QED
    BY <1>3, <1>4, <1>6, <2>1, FinishedIs
<1> HIDE DEF w
<1>8. 1 <= w.Iter /\ w.Iter <= e.Iter + 1 /\ 1 \in 1 .. MaxIter /\ 1 - 1 = 0
  <2>1. e.Iter \in Nat
    BY <1>3 DEF Evaluations
  <2> QED
    BY <1>7, <2>1, MaxIterAssumption
<1>9. Image(w, f[1 - 1]) /\ f[1 - 1].Iter = 1 /\ (w.pre # w.d => f[1 - 1].AnyEvent)
  BY <1>2, <1>7, <1>8
<1> QED
  BY <1>1, <1>7, <1>8, <1>9 DEF Reached, w

(* Between two calls the last iteration is made again.                     *)
LEMMA LookedAt ==
    ASSUME Given, NEW e, NEW s \in Evaluations, Reached(e, s)
    PROVE  Reached(e, Evaluated(s, 5))
<1> DEFINE t == Once(s, 5)
           w == Evaluated(s, 5)
<1>1. PICK f, k : /\ k \in 1 .. MaxIter /\ IsRun(f, e)
                  /\ Image(s, f[k - 1]) /\ f[k - 1].Iter = k
                  /\ k <= s.Iter /\ s.Iter <= e.Iter + k
                  /\ s.pre # s.d => f[k - 1].AnyEvent
  BY DEF Reached
<1>2. /\ s.d = Computed(s.x, s.pre)
      /\ s.QEvaluateNew <=> ~Meets(s.x, s.d)
      /\ s.pending <=> Meets(s.x, s.d) /\ s.QEvaluate
      /\ s.pending => s.AnyEvent
  BY DEF Reached, Own
<1>3. /\ t \in Evaluations /\ Own(t)
      /\ t.x = s.x /\ t.d = s.d /\ t.pre = s.pre /\ t.reinits = s.reinits
      /\ t.pending <=> Meets(s.x, s.d) /\ s.QEvaluate
      /\ t.QEvaluateNew <=> ~Meets(s.x, s.d)
      /\ t.Iter = s.Iter
  <2> HIDE DEF t
  <2> QED
    BY <1>2, SameAgain DEF t
<1> HIDE DEF t
<1>4. Image(t, f[k - 1])
  <2>1. (t.pending <=> s.pending) /\ (t.QEvaluateNew <=> s.QEvaluateNew)
    BY <1>2, <1>3
  <2>2. Counted(t, t.pending) = Counted(s, s.pending)
    BY <1>3, <2>1 DEF Counted
  <2> QED
    BY <1>1, <1>3, <2>1, <2>2 DEF Image
<1>5. Own(w) /\ Image(w, f[k - 1]) /\ w.pre = s.pre /\ w.d = s.d /\ w.Iter = s.Iter
  <2>1. w = Finished(t)
    BY EvaluatedIsFinished DEF t
  <2> HIDE DEF w
  <2> QED
    BY <1>3, <1>4, <2>1, FinishedIs
<1> HIDE DEF w
<1> QED
  BY <1>1, <1>5 DEF Reached, w

(* What ends the event at the end of an event iterated at once.            *)
LEMMA EndsAlike ==
    ASSUME NEW t, Settled(t), NEW c, Image(t, c), Whole(c), ~c.AnyEvent, t \in Evaluations
    PROVE  SameAs(t, c)
<1>1. /\ c.d = t.d /\ c.x = t.x /\ (c.QEvaluate <=> t.QEvaluate)
      /\ c.reinits = t.reinits /\ c.pre = c.d /\ t.pre = t.d /\ ~t.pending
  BY DEF Settled, Image, Whole, Counted
<1>2. c.QEvaluate \in BOOLEAN /\ t.QEvaluate \in BOOLEAN
  BY DEF Whole, Evaluations
<1>3. c.QEvaluate = t.QEvaluate
  BY <1>1, <1>2
<1> QED
  BY <1>1, <1>3 DEF SameAs

(* The next iteration: another one is needed, or the event ends where it   *)
(* ends at once; and there are too many only when there are at once.       *)
LEMMA NextCall ==
    ASSUME Given, NEW e, Started(e), NEW s \in Evaluations, Reached(e, s), s.Iter <= MaxIter
    PROVE  LET t == Evaluated(s, 3)
           IN  /\ t.Iter = s.Iter + 1
               /\ t.Iter <= MaxIter /\ t.AnyEvent => Reached(e, t)
               /\ t.Iter <= MaxIter /\ ~t.AnyEvent => SameAs(t, AtOnce(e))
               /\ s.Iter = MaxIter => e.Iter + AtOnce(e).Iter >= MaxIter
<1> DEFINE o == Once(s, 3)
           t == Evaluated(s, 3)
<1>1. PICK f, k : /\ k \in 1 .. MaxIter /\ IsRun(f, e)
                  /\ Image(s, f[k - 1]) /\ f[k - 1].Iter = k
                  /\ k <= s.Iter /\ s.Iter <= e.Iter + k
                  /\ s.pre # s.d => f[k - 1].AnyEvent
  BY DEF Reached
<1> DEFINE a == f[k - 1]
           c == f[k]
           r == Once(a, 0)
<1>2. e \in Evaluations /\ ~e.pending
  BY DEF Started
<1>3. k - 1 \in 0 .. MaxIter /\ k \in 0 .. MaxIter /\ k \in Nat /\ MaxIter \in Nat
  BY <1>1, MaxIterAssumption
<1>4. /\ AtOnce(e) = f[MaxIter]
      /\ Whole(a) /\ Whole(c) /\ a.Iter <= f[MaxIter].Iter
      /\ ~c.AnyEvent => f[MaxIter] = c
      /\ c = Following(a)
  <2>1. AtOnce(e) = f[MaxIter]
    BY <1>1, RunEnds
  <2>2. /\ \A n \in 0 .. MaxIter : Whole(f[n])
        /\ \A n \in 0 .. MaxIter : f[n].Iter <= f[MaxIter].Iter
        /\ \A n \in 0 .. MaxIter : ~f[n].AnyEvent => f[MaxIter] = f[n]
    BY <1>1, <1>2, RunIs
  <2>3. c = Following(a)
    BY <1>1 DEF IsRun
  <2> QED
    BY <1>3, <2>1, <2>2, <2>3
<1>5. a \in Evaluations /\ ~a.pending /\ a.pre = a.d /\ a.Iter = k /\ Image(s, a)
  BY <1>1, <1>4 DEF Whole
<1>6. MaxIter \in 0 .. MaxIter /\ f[MaxIter].Iter \in Nat /\ s.Iter \in Nat /\ e.Iter \in Nat
  <2>1. MaxIter \in 0 .. MaxIter
    BY <1>3
  <2>2. Whole(f[MaxIter])
    BY <1>1, <1>2, <2>1, RunIs
  <2> QED
    BY <1>2, <2>1, <2>2 DEF Whole, Evaluations
<1> HIDE DEF a, c, r
<1>7. /\ o \in Evaluations /\ Own(o) /\ Image(o, r)
      /\ o.AnyEvent <=> s.pre # s.d \/ r.AnyEvent
      /\ o.pre # o.d => r.AnyEvent
      /\ o.Iter = s.Iter + 1
  <2>1. 3 \in {2, 3} /\ 3 # 2
    OBVIOUS
  <2> HIDE DEF o
  <2> QED
    BY <1>5, <2>1, OneMore DEF o, r
<1> HIDE DEF o
<1>8. /\ t \in Evaluations /\ Own(t) /\ Image(t, r)
      /\ t.AnyEvent <=> s.pre # s.d \/ r.AnyEvent
      /\ t.pre # t.d => r.AnyEvent
      /\ t.Iter = s.Iter + 1
  <2>1. t = Finished(o)
    BY EvaluatedIsFinished DEF o
  <2> HIDE DEF t
  <2> QED
    BY <1>7, <2>1, FinishedIs
<1>9. Again(a) <=> a.AnyEvent
  BY <1>3, <1>5, <1>1 DEF Again
<1>10. /\ Agree(c, r)
       /\ c.Iter = (IF a.AnyEvent THEN k + 1 ELSE k)
  BY <1>4, <1>5, <1>9, FollowingIs DEF r
<1>11. Image(t, c)
  <2>1. c.d = r.d /\ c.x = r.x /\ c.QEvaluate = r.QEvaluate /\ c.reinits = r.reinits
    BY <1>10 DEF Agree
  <2> HIDE DEF t
  <2> QED
    BY <1>8, <2>1 DEF Image
<1>12. c.AnyEvent = r.AnyEvent
  BY <1>10 DEF Agree
<1>13. t.Iter <= MaxIter /\ ~t.AnyEvent => SameAs(t, AtOnce(e))
  <2>1. SUFFICES ASSUME t.Iter <= MaxIter, ~t.AnyEvent PROVE SameAs(t, c)
    BY <1>4, <1>8, <1>12
  <2>2. ~Again(t) /\ ~TooMany(t)
    <3> HIDE DEF t
    <3> QED
      BY <2>1, <1>3, <1>6, <1>8 DEF Again, TooMany
  <2>3. Settled(t)
    <3>1. 3 \in Kinds /\ 3 # 5
      BY DEF Kinds
    <3> HIDE DEF t
    <3> QED
      BY <2>2, <3>1, EvaluatedIs DEF t
  <2>4. ~c.AnyEvent
    BY <2>1, <1>8, <1>12
  <2> HIDE DEF t
  <2> QED
    BY <2>3, <2>4, <1>4, <1>8, <1>11, EndsAlike
<1>14. t.Iter <= MaxIter /\ t.AnyEvent => Reached(e, t)
  <2> HIDE DEF t
  <2>1. SUFFICES ASSUME t.Iter <= MaxIter, t.AnyEvent PROVE Reached(e, t)
    OBVIOUS
  <2>2. a.AnyEvent
    <3>1. SUFFICES ASSUME ~a.AnyEvent PROVE FALSE
      OBVIOUS
    <3>2. ~r.AnyEvent
      <4>1. Agree(a, r)
        BY <3>1, <1>4, NothingMore DEF r
      <4> QED
        BY <3>1, <4>1 DEF Agree
    <3>3. s.pre = s.d
      BY <3>1, <1>1 DEF a
    <3> QED
      BY <2>1, <3>2, <3>3, <1>8
  <2>3. c.Iter = k + 1 /\ k + 1 \in 1 .. MaxIter /\ k + 1 <= t.Iter /\ t.Iter <= e.Iter + (k + 1)
    BY <2>1, <2>2, <1>1, <1>3, <1>6, <1>8, <1>10
  <2>4. f[(k + 1) - 1] = c
    BY <1>3 DEF c
  <2>5. t.pre # t.d => c.AnyEvent
    BY <1>8, <1>12
  <2> QED
    BY <1>1, <1>8, <1>11, <2>3, <2>4, <2>5 DEF Reached
<1>15. s.Iter = MaxIter => e.Iter + AtOnce(e).Iter >= MaxIter
  <2>1. AtOnce(e).Iter = f[MaxIter].Iter
    BY <1>4
  <2>2. k <= f[MaxIter].Iter
    BY <1>4, <1>5
  <2> QED
    BY <2>1, <2>2, <1>1, <1>3, <1>6
<1> QED
  BY <1>8, <1>13, <1>14, <1>15 DEF t

----------------------------------------------------------------------------
(* While an event is iterated: nothing but the input was changed since it  *)
(* began, or it has been iterated so far from there.                       *)

Unmoved(e) ==
    /\ Alike(eq, e)
    /\ ~firstEventCall => /\ eq.Iter = e.Iter /\ 1 <= e.Iter
                          /\ e.d = Computed(e.x, e.d)

Iterated ==
    mStatus \in EventModes =>
        \A e \in start :
            /\ Started(e)
            /\ ~evaluated => Unmoved(e)
            /\ evaluated => ~firstEventCall /\ ~valWasSet /\ Reached(e, eq)

SInv == IInv /\ Iterated

(* The equations and the input stay what they are, but for a change of the *)
(* input; so do the iterations from a state.                               *)
LEMMA OnceKept ==
    ASSUME UNCHANGED <<model, u>>
    PROVE  \A e, one : Once(e, one)' = Once(e, one)
<1>1. ASSUME NEW e, NEW one PROVE Begun(e, one)' = Begun(e, one)
  BY DEF Begun, Counted
<1>2. ASSUME NEW e, NEW one PROVE DataAtStart(e, one)' = DataAtStart(e, one)
  BY DEF DataAtStart
<1>3. ASSUME NEW e, NEW one PROVE When(e, one)' = When(e, one)
  BY DEF When, Condition, Counted
<1>4. ASSUME NEW e PROVE Discrete(e)' = Discrete(e)
  BY DEF Discrete
<1>5. ASSUME NEW e, NEW one PROVE DataAtEnd(e, one)' = DataAtEnd(e, one)
  BY DEF DataAtEnd
<1> TAKE e, one
<1> DEFINE b == Begun(e, one)
           s == DataAtStart(b, one)
           d == Discrete(s)
           w == When(d, one)
<1>6. Once(e, one) = DataAtEnd(w, one)
  BY DEF Once, Equations
<1> QED
  BY <1>1, <1>2, <1>3, <1>4, <1>5, <1>6 DEF Once, Equations

LEMMA RunKept ==
    ASSUME UNCHANGED <<model, u>>, NEW f, NEW e, IsRun(f, e)
    PROVE  IsRun(f, e)'
<1>1. \A a, one : Once(a, one)' = Once(a, one)
  BY OnceKept
<1>2. ASSUME NEW a PROVE Following(a)' = Following(a)
  <2>1. Once(a, 0)' = Once(a, 0)
    BY <1>1
  <2> QED
    BY <2>1 DEF Following, Again
<1>3. (f[0] = Once(e, 0))'
  <2>1. Once(e, 0)' = Once(e, 0)
    BY <1>1
  <2> QED
    BY <2>1 DEF IsRun
<1>4. (\A n \in 1 .. MaxIter : f[n] = Following(f[n - 1]))'
  <2>1. ASSUME NEW n \in 1 .. MaxIter PROVE (f[n] = Following(f[n - 1]))'
    <3>1. Following(f[n - 1])' = Following(f[n - 1])
      BY <1>2
    <3> QED
      BY <3>1 DEF IsRun
  <2> QED
    BY <2>1
<1> QED
  BY <1>3, <1>4 DEF IsRun

LEMMA ReachedKept ==
    ASSUME UNCHANGED <<model, u>>, NEW e, Reached(e, eq')
    PROVE  Reached(e, eq)'
<1>1. PICK f, k : /\ k \in 1 .. MaxIter /\ IsRun(f, e)
                  /\ Image(eq', f[k - 1]) /\ f[k - 1].Iter = k
                  /\ k <= eq'.Iter /\ eq'.Iter <= e.Iter + k
                  /\ eq'.pre # eq'.d => f[k - 1].AnyEvent
  BY DEF Reached
<1>2. IsRun(f, e)'
  BY <1>1, RunKept
<1>3. Own(eq)'
  BY DEF Reached, Own, Computed, Meets
<1>4. Image(eq, f[k - 1])'
  BY <1>1 DEF Image, Counted
<1> QED
  BY <1>1, <1>2, <1>3, <1>4 DEF Reached

LEMMA InitIterated == ASSUME Init PROVE SInv
<1>1. IInv
  BY InitSettled
<1>2. start = {eq} /\ ~evaluated /\ firstEventCall = TRUE
  BY DEF Init
<1>3. PICK x \in States, d \in {0, 1}, armed \in BOOLEAN :
          eq = [x |-> x, d |-> d, pre |-> d, QEvaluate |-> armed, QEvaluateNew |-> armed,
                pending |-> FALSE, AnyEvent |-> FALSE, Iter |-> 1,
                NextTimeEvent |-> TRUE, reinits |-> 0]
  BY DEF Init
<1>4. Started(eq)
  BY <1>1, <1>3 DEF Started, IInv, TypeOK
<1>5. Unmoved(eq)
  BY <1>2 DEF Unmoved, Alike
<1> QED
  BY <1>1, <1>2, <1>4, <1>5 DEF SInv, Iterated

(* What IInv says for a call in an event.                                  *)
LEMMA InEvent ==
    ASSUME SInv, mStatus \in EventModes
    PROVE  /\ Given /\ eq \in Evaluations /\ eq.Iter <= MaxIter /\ start \subseteq Evaluations
           /\ Prepared \in Evaluations /\ Prepared.Iter <= MaxIter /\ Result \in Evaluations
           /\ ~Again(Result) /\ ~TooMany(Result) => Settled(Result)
           /\ \A e \in start :
                 /\ Started(e)
                 /\ ~evaluated => Unmoved(e)
                 /\ evaluated => ~firstEventCall /\ ~valWasSet /\ Reached(e, eq)
<1>1. IInv
  BY DEF SInv
<1>2. Given /\ eq \in Evaluations /\ eq.Iter <= MaxIter /\ start \subseteq Evaluations
  BY <1>1 DEF IInv, TypeOK, Given, CountedIter, EventModes
<1> QED
  BY <1>1, <1>2, PreparedIs DEF SInv, Iterated

(* What fmi2NewDiscreteStates does, from where the event has come to.      *)
LEMMA ResultIs ==
    ASSUME SInv, mStatus \in EventModes, NEW e \in start
    PROVE  /\ ~Fails /\ Again(Result) => Reached(e, Result)
           /\ ~Fails /\ ~Again(Result) => SameAs(Result, AtOnce(e))
           /\ Fails => e.Iter + AtOnce(e).Iter >= MaxIter
<1> DEFINE s == Prepared
           t == Result
<1>1. /\ Given /\ eq \in Evaluations /\ eq.Iter <= MaxIter
      /\ s \in Evaluations /\ s.Iter <= MaxIter /\ t \in Evaluations
      /\ ~Again(t) /\ ~TooMany(t) => Settled(t)
      /\ Started(e) /\ e \in Evaluations /\ ~e.pending
      /\ ~evaluated => Unmoved(e)
      /\ evaluated => ~firstEventCall /\ ~valWasSet /\ Reached(e, eq)
  BY InEvent DEF Started
<1>2. PICK f : IsRun(f, e)
  BY RunExists
<1>3. /\ AtOnce(e) = f[MaxIter] /\ f[0] = Once(e, 0) /\ f[0].Iter = 1 /\ 1 <= f[MaxIter].Iter
      /\ f[MaxIter].Iter \in Nat
      /\ ~f[0].AnyEvent => f[MaxIter] = f[0]
      /\ Whole(f[0])
  <2>1. 0 \in 0 .. MaxIter /\ MaxIter \in 0 .. MaxIter
    BY MaxIterAssumption
  <2>2. /\ f[0].Iter = 1 /\ f[0].Iter <= f[MaxIter].Iter
        /\ ~f[0].AnyEvent => f[MaxIter] = f[0]
        /\ Whole(f[0]) /\ Whole(f[MaxIter])
    BY <1>1, <1>2, <2>1, RunIs
  <2> QED
    BY <1>2, <2>2, RunEnds DEF IsRun, Whole, Evaluations
<1>4. s.Iter \in Nat /\ t.Iter \in Nat /\ e.Iter \in Nat /\ eq.Iter \in Nat /\ MaxIter \in Nat /\ MaxIter > 2
  BY <1>1, MaxIterAssumption DEF Evaluations
<1>5. Fails <=> t.Iter > MaxIter
  BY <1>1, <1>4 DEF Fails, TooMany
(* It is the next iteration of an event under way, ... *)
<1>6. ASSUME Reached(e, s), t = Evaluated(s, 3)
      PROVE  /\ ~Fails /\ Again(t) => Reached(e, t)
             /\ ~Fails /\ ~Again(t) => SameAs(t, AtOnce(e))
             /\ Fails => e.Iter + AtOnce(e).Iter >= MaxIter
  <2> HIDE DEF s, t
  <2>1. /\ t.Iter = s.Iter + 1
        /\ t.Iter <= MaxIter /\ t.AnyEvent => Reached(e, t)
        /\ t.Iter <= MaxIter /\ ~t.AnyEvent => SameAs(t, AtOnce(e))
        /\ s.Iter = MaxIter => e.Iter + AtOnce(e).Iter >= MaxIter
    BY <1>1, <1>6, NextCall
  <2>2. ~Fails => t.Iter <= MaxIter /\ (Again(t) <=> t.AnyEvent)
    BY <1>4, <1>5 DEF Again
  <2>3. Fails => s.Iter = MaxIter
    BY <1>1, <1>4, <1>5, <2>1
  <2> QED
    BY <2>1, <2>2, <2>3
(* ... or the first one. *)
<1>7. ASSUME Alike(s, e), NEW one \in {2, 3}, one = 3 => s.Iter = e.Iter /\ 1 <= e.Iter,
             t = Evaluated(s, one)
      PROVE  /\ ~Fails /\ Again(t) => Reached(e, t)
             /\ ~Fails /\ ~Again(t) => SameAs(t, AtOnce(e))
             /\ Fails => e.Iter + AtOnce(e).Iter >= MaxIter
  <2> HIDE DEF s, t
  <2>1. Reached(e, t)
    BY <1>1, <1>7, FirstCall
  <2>2. /\ Image(t, f[0])
        /\ t.AnyEvent <=> s.pre # s.d \/ f[0].AnyEvent
        /\ t.Iter = (IF one = 3 THEN s.Iter + 1 ELSE 1)
    <3> DEFINE o == Once(s, one)
               r == f[0]
    <3>1. e.pre = e.d /\ Image(s, e) /\ (s.QEvaluate <=> s.QEvaluateNew)
      BY <1>1, <1>7, AlikeImage DEF Started
    <3>2. /\ o \in Evaluations /\ Own(o) /\ Image(o, r)
          /\ o.AnyEvent <=> s.pre # s.d \/ r.AnyEvent
          /\ o.Iter = (IF one = 3 THEN s.Iter + 1 ELSE 1)
      <4> HIDE DEF o, r
      <4>1. r = Once(e, 0)
        BY <1>3 DEF r
      <4> QED
        BY <1>1, <3>1, <4>1, OneMore DEF o
    <3>3. t = Finished(o)
      BY <1>7, EvaluatedIsFinished
    <3> HIDE DEF o, r
    <3>4. Image(t, r) /\ t.AnyEvent = o.AnyEvent /\ t.Iter = o.Iter
      BY <3>2, <3>3, FinishedIs
    <3> QED
      BY <3>2, <3>4 DEF r
  <2>3. s.pre = s.d
    BY <1>1, <1>7 DEF Alike, Started
  <2>4. ~Fails /\ ~Again(t) => SameAs(t, AtOnce(e))
    <3>1. SUFFICES ASSUME ~Fails, ~Again(t) PROVE SameAs(t, AtOnce(e))
      OBVIOUS
    <3>2. ~t.AnyEvent /\ ~TooMany(t)
      BY <3>1, <1>4, <1>5 DEF Again, TooMany
    <3>3. Settled(t)
      BY <3>1, <3>2, <1>1
    <3>4. ~f[0].AnyEvent /\ AtOnce(e) = f[0]
      BY <3>2, <2>2, <1>3
    <3> QED
      BY <3>3, <3>4, <2>2, <1>1, <1>3, EndsAlike
  <2>5. Fails => e.Iter + AtOnce(e).Iter >= MaxIter
    <3>1. SUFFICES ASSUME Fails PROVE e.Iter + AtOnce(e).Iter >= MaxIter
      OBVIOUS
    <3>2. one = 3 /\ s.Iter = MaxIter
      BY <3>1, <2>2, <1>1, <1>4, <1>5
    <3>3. e.Iter = MaxIter
      BY <3>2, <1>7
    <3>4. AtOnce(e).Iter \in Nat
      BY <1>3
    <3> QED
      BY <3>3, <3>4, <1>4
  <2> QED
    BY <2>1, <2>4, <2>5
<1>8. CASE evaluated
  <2>1. s = eq /\ t = Evaluated(s, 3)
    BY <1>1, <1>8 DEF Prepared, Result, Kind
  <2>2. Reached(e, s)
    BY <1>1, <1>8, <2>1
  <2> QED
    BY <1>6, <2>1, <2>2
<1>9. CASE ~evaluated /\ firstEventCall
  <2>1. s = eq /\ t = Evaluated(s, 2) /\ 2 \in {2, 3} /\ 2 # 3
    BY <1>9 DEF Prepared, Result, Kind
  <2>2. Alike(s, e)
    BY <1>1, <1>9, <2>1 DEF Unmoved
  <2> HIDE DEF s, t
  <2> QED
    BY <1>7, <2>1, <2>2 DEF s, t
<1>10. CASE ~evaluated /\ ~firstEventCall /\ ~valWasSet
  <2>1. s = eq /\ t = Evaluated(s, 3) /\ 3 \in {2, 3}
    BY <1>10 DEF Prepared, Result, Kind
  <2>2. Alike(s, e) /\ s.Iter = e.Iter /\ 1 <= e.Iter
    BY <1>1, <1>10, <2>1 DEF Unmoved
  <2> HIDE DEF s, t
  <2> QED
    BY <1>7, <2>1, <2>2 DEF s, t
<1>11. CASE ~evaluated /\ ~firstEventCall /\ valWasSet
  <2>1. s = Evaluated(eq, 5) /\ t = Evaluated(s, 3)
    BY <1>11 DEF Prepared, Result, Kind
  <2>2. Alike(eq, e) /\ eq.Iter = e.Iter /\ 1 <= e.Iter /\ e.d = Computed(e.x, e.d)
    BY <1>1, <1>11 DEF Unmoved
  <2>3. Reached(e, s)
    <3> HIDE DEF s
    <3> QED
      BY <1>1, <2>1, <2>2, FirstCallAgain
  <2> QED
    BY <1>6, <2>1, <2>3
<1> QED
  BY <1>8, <1>9, <1>10, <1>11

(* The calls.                                                              *)
LEMMA ConvergesIterated == ASSUME SInv, Converges PROVE Iterated'
<1>1. /\ mStatus \in EventModes /\ ~Fails /\ ~Again(Result)
      /\ eq' = Begins(Result) /\ start' = {eq'} /\ evaluated' = FALSE
      /\ firstEventCall' = FALSE /\ UNCHANGED <<model, u>>
  BY DEF Converges, Refreshed
<1>2. /\ Given /\ Result \in Evaluations /\ Settled(Result) /\ Prepared \in Evaluations
      /\ Prepared.Iter <= MaxIter
  BY <1>1, InEvent DEF Fails
<1> DEFINE t == Result
           b == Begins(t)
<1>3. b \in Evaluations /\ Settled(b) /\ b.Iter = t.Iter
  BY <1>2, BeginsIs
<1>4. b.x = t.x /\ b.d = t.d /\ b.pre = t.pre
  <2> HIDE DEF t
  <2> QED
    BY <1>2 DEF Begins, Evaluations
<1>5. Kind \in {2, 3} /\ Kind \in Kinds /\ Kind # 5 /\ Kind # 0
  BY DEF Kind, Kinds
<1>6. t.d = Computed(t.x, t.pre) /\ 1 <= t.Iter
  <2> DEFINE o == Once(Prepared, Kind)
  <2>1. /\ o \in Evaluations
        /\ o.Iter = (IF Kind = 3 THEN Prepared.Iter + 1 ELSE 1)
        /\ o.d = NewOf(Prepared, Kind) /\ o.pre = PreOf(Prepared, Kind)
        /\ o.x = MadeWith(Prepared, Kind)
    <3> HIDE DEF o
    <3> QED
      BY <1>2, <1>5, OnceIs DEF o
  <2> HIDE DEF o
  <2>2. o.d = Computed(o.x, o.pre) /\ 1 <= o.Iter
    <3>1. Prepared.Iter \in Nat
      BY <1>2 DEF Evaluations
    <3> QED
      BY <2>1, <3>1 DEF NewOf
  <2>3. t = Finished(o)
    BY EvaluatedIsFinished DEF Result, o
  <2>4. t.x = o.x /\ t.d = o.d /\ t.pre = o.pre /\ t.Iter = o.Iter
    <3> HIDE DEF t
    <3>1. \/ t = o
          \/ t = [o EXCEPT !.QEvaluate = o.QEvaluateNew]
      BY <2>3 DEF Finished
    <3> QED
      BY <3>1, <2>1 DEF Evaluations
  <2> QED
    BY <2>2, <2>4
<1>7. Started(b) /\ 1 <= b.Iter /\ b.d = Computed(b.x, b.d)
  <2>1. t.pre = t.d
    BY <1>2 DEF Settled
  <2>2. b.d = Computed(b.x, b.d) /\ 1 <= b.Iter
    BY <2>1, <1>3, <1>4, <1>6
  <2> HIDE DEF b
  <2> QED
    BY <2>2, <1>3 DEF Started, Settled
<1>8. Started(eq') /\ Alike(eq', eq') /\ 1 <= eq'.Iter /\ eq'.d = Computed(eq'.x, eq'.d)
  BY <1>1, <1>7 DEF Alike
<1>9. \A e \in start' : Started(e)' /\ Unmoved(e)'
  BY <1>1, <1>8 DEF Started, Unmoved, Alike, Computed
<1> QED
  BY <1>1, <1>9 DEF Iterated

LEMMA IteratesOnIterated == ASSUME SInv, IteratesOn PROVE Iterated'
<1>1. /\ mStatus \in EventModes /\ ~Fails /\ Again(Result)
      /\ eq' = Result /\ start' = start /\ evaluated' = TRUE
      /\ firstEventCall' = FALSE /\ valWasSet' = FALSE /\ UNCHANGED <<model, u>>
  BY DEF IteratesOn, Refreshed
<1>2. ASSUME NEW e \in start' PROVE Started(e)' /\ Reached(e, eq)'
  <2>1. e \in start
    BY <1>1
  <2>2. Started(e)
    BY <1>1, <2>1, InEvent
  <2>3. Reached(e, eq')
    BY <1>1, <2>1, ResultIs
  <2>4. Reached(e, eq)'
    BY <1>1, <2>3, ReachedKept
  <2> QED
    BY <2>2, <2>4 DEF Started
<1> QED
  BY <1>1, <1>2 DEF Iterated

(* Where nothing of the event is known, or it is over.                     *)
LEMMA NoneIterated ==
    ASSUME start' = {} \/ mStatus' \notin EventModes
    PROVE  Iterated'
BY DEF Iterated

LEMMA EnterEventModeIterated == ASSUME SInv, EnterEventMode PROVE Iterated'
<1>1. CASE disturbed
  BY <1>1, NoneIterated DEF EnterEventMode
<1>2. CASE ~disturbed
  <2> DEFINE b == Begins(eq)
             z == [b EXCEPT !.Iter = 0]
  <2>1. /\ mStatus = "ContinuousTimeMode" /\ firstEventCall' = TRUE /\ eq' = b
        /\ start' = {z} /\ evaluated' = FALSE
    BY <1>2 DEF EnterEventMode
  <2>2. eq \in Evaluations /\ Settled(eq)
    BY <1>2, <2>1 DEF SInv, IInv, TypeOK, NothingLeftOver, Settled
  <2>3. b \in Evaluations /\ Settled(b) /\ z \in Evaluations
    BY <2>2, BeginsIs
  <2> HIDE DEF b
  <2>4. /\ z.x = b.x /\ z.d = b.d /\ z.pre = b.pre /\ z.pending = b.pending
        /\ z.QEvaluate = b.QEvaluate /\ z.QEvaluateNew = b.QEvaluateNew /\ z.reinits = b.reinits
    BY <2>3 DEF Evaluations
  <2> HIDE DEF z
  <2>5. Started(z) /\ Alike(b, z)
    BY <2>3, <2>4 DEF Started, Alike, Settled
  <2>6. \A e \in start' : Started(e)' /\ Unmoved(e)'
    BY <2>1, <2>5 DEF Started, Unmoved, Alike
  <2> QED
    BY <2>1, <2>6 DEF Iterated
<1> QED
  BY <1>1, <1>2

LEMMA SetInputIterated == ASSUME SInv, SetInput PROVE Iterated'
<1>1. CASE mStatus \notin EventModes
  BY <1>1, NoneIterated DEF SetInput
<1>2. CASE mStatus \in EventModes /\ evaluated
  BY <1>2, NoneIterated DEF SetInput
<1>3. CASE mStatus \in EventModes /\ ~evaluated
  <2>1. UNCHANGED <<model, eq, mStatus, firstEventCall, evaluated, start>>
    BY <1>3 DEF SetInput
  <2>2. \A e \in start : Started(e) /\ Unmoved(e)
    BY <1>3, InEvent
  <2>3. \A e \in start' : Started(e)' /\ Unmoved(e)'
    BY <2>1, <2>2 DEF Started, Unmoved, Alike, Computed
  <2> QED
    BY <1>3, <2>1, <2>3 DEF Iterated
<1> QED
  BY <1>1, <1>2, <1>3

LEMMA GetInEventIterated == ASSUME SInv, GetInEvent PROVE Iterated'
<1> DEFINE one == IF firstEventCall THEN 2 ELSE 5
<1>1. /\ mStatus \in EventModes /\ evaluated' = TRUE
      /\ firstEventCall' = FALSE /\ valWasSet' = FALSE /\ UNCHANGED <<model, u>>
      /\ (eq' = Evaluated(eq, one) /\ start' = start) \/ start' = {}
  BY DEF GetInEvent, Refreshed
<1>2. CASE start' = {}
  BY <1>2, NoneIterated
<1>3. CASE eq' = Evaluated(eq, one) /\ start' = start
  <2>1. ASSUME NEW e \in start' PROVE Started(e)' /\ Reached(e, eq)'
    <3>1. /\ Given /\ eq \in Evaluations /\ eq.Iter <= MaxIter /\ Started(e)
          /\ ~evaluated => Unmoved(e)
          /\ evaluated => ~firstEventCall /\ Reached(e, eq)
      BY <1>1, <1>3, InEvent
    <3>2. CASE evaluated
      <4>1. Reached(e, Evaluated(eq, 5)) /\ eq' = Evaluated(eq, 5)
        BY <3>1, <3>2, <1>3, LookedAt
      <4> QED
        BY <4>1, <3>1, <1>1, ReachedKept DEF Started
    <3>3. CASE ~evaluated /\ firstEventCall
      <4>1. Alike(eq, e) /\ eq' = Evaluated(eq, 2) /\ 2 \in {2, 3} /\ 2 # 3
        BY <3>1, <3>3, <1>3 DEF Unmoved
      <4>2. Reached(e, Evaluated(eq, 2))
        BY <3>1, <4>1, FirstCall
      <4> QED
        BY <4>1, <4>2, <3>1, <1>1, ReachedKept DEF Started
    <3>4. CASE ~evaluated /\ ~firstEventCall
      <4>1. /\ Alike(eq, e) /\ eq' = Evaluated(eq, 5) /\ eq.Iter = e.Iter /\ 1 <= e.Iter
            /\ e.d = Computed(e.x, e.d)
        BY <3>1, <3>4, <1>3 DEF Unmoved
      <4>2. Reached(e, Evaluated(eq, 5))
        BY <3>1, <4>1, FirstCallAgain
      <4> QED
        BY <4>1, <4>2, <3>1, <1>1, ReachedKept DEF Started
    <3> QED
      BY <3>2, <3>3, <3>4
  <2> QED
    BY <1>1, <2>1 DEF Iterated
<1> QED
  BY <1>1, <1>2, <1>3

LEMMA NextIterated == ASSUME SInv, [Next]_vars PROVE SInv'
<1>1. IInv'
  BY NextSettled DEF SInv
<1> SUFFICES Iterated'
  BY <1>1 DEF SInv
<1>2. CASE NoFixpoint \/ EvaluationFails \/ ModelTerminates \/ EnterContinuousTimeMode \/ Terminate
  <2>1. start' = {} \/ mStatus' \notin EventModes
    BY <1>2 DEF NoFixpoint, EvaluationFails, ModelTerminates, EnterContinuousTimeMode, Terminate,
                EventModes
  <2> QED
    BY <2>1, NoneIterated
<1>3. CASE SetContinuousStates \/ GetBetween \/ CompletedIntegratorStep
  <2>1. mStatus' \notin EventModes
    BY <1>3 DEF SetContinuousStates, GetBetween, CompletedIntegratorStep, EventModes
  <2> QED
    BY <2>1, NoneIterated
<1>4. CASE UNCHANGED vars
  <2>1. CASE mStatus \in EventModes
    <3>1. UNCHANGED <<model, u, eq, mStatus, firstEventCall, valWasSet, evaluated, start>>
      BY <1>4 DEF vars, historyVars
    <3>2. ASSUME NEW e \in start'
          PROVE  /\ Started(e)'
                 /\ ~evaluated => Unmoved(e)'
                 /\ evaluated => ~firstEventCall /\ ~valWasSet /\ Reached(e, eq)'
      <4>1. /\ Started(e)
            /\ ~evaluated => Unmoved(e)
            /\ evaluated => ~firstEventCall /\ ~valWasSet /\ Reached(e, eq')
        BY <2>1, <3>1, InEvent
      <4>2. Started(e)' /\ (Unmoved(e) => Unmoved(e)')
        BY <3>1, <4>1 DEF Started, Unmoved, Alike, Computed
      <4>3. Reached(e, eq') => Reached(e, eq)'
        BY <3>1, ReachedKept
      <4> QED
        BY <4>1, <4>2, <4>3
    <3> QED
      BY <3>1, <3>2 DEF Iterated
  <2>2. CASE mStatus \notin EventModes
    BY <1>4, <2>2, NoneIterated DEF vars
  <2> QED
    BY <2>1, <2>2
<1> QED
  BY <1>2, <1>3, <1>4, ConvergesIterated, IteratesOnIterated, EnterEventModeIterated,
     SetInputIterated, GetInEventIterated
  DEF Next, NewDiscreteStates

(* An importer that iterates an event call by call, and looks at values    *)
(* between the calls, ends it where one evaluation would have, and is told *)
(* that there are too many iterations only if the one evaluation would     *)
(* have come as far (fmiNewDiscreteStates_ and dsblock_did).               *)
THEOREM StepwiseIsAtOnce == Spec => StepwiseAsAtOnce
<1> DEFINE A == \A e \in start :
                   /\ Converges  => SameAs(Result, AtOnce(e))
                   /\ NoFixpoint => e.Iter + AtOnce(e).Iter >= MaxIter
<1>1. Init => SInv
  BY InitIterated
<1>2. SInv /\ [Next]_vars => SInv'
  BY NextIterated
<1>3. SInv => A
  <2> SUFFICES ASSUME SInv, NEW e \in start
               PROVE  /\ Converges  => SameAs(Result, AtOnce(e))
                      /\ NoFixpoint => e.Iter + AtOnce(e).Iter >= MaxIter
    OBVIOUS
  <2>1. Converges => mStatus \in EventModes /\ ~Fails /\ ~Again(Result)
    BY DEF Converges
  <2>2. NoFixpoint => mStatus \in EventModes /\ Fails
    BY DEF NoFixpoint
  <2> QED
    BY <2>1, <2>2, ResultIs
<1>4. SInv /\ [Next]_vars => [A]_vars
  BY <1>3
<1> HIDE DEF A
<1>5. Spec => [][A]_vars
  BY <1>1, <1>2, <1>4, PTL DEF Spec
<1> QED
  BY <1>5 DEF StepwiseAsAtOnce, A
=============================================================================
