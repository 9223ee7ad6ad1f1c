----------------------------- MODULE EventMode ------------------------------
(***************************************************************************)
(* The event mode of a model-exchange instance: fmi2EnterEventMode,        *)
(* fmi2NewDiscreteStates, fmi2EnterContinuousTimeMode and what may be      *)
(* called between them, with the evaluation of the equations at an event   *)
(* as dsblock_did controls it by DymolaOneIteration_.                      *)
(*                                                                         *)
(* The equations are those any model is translated to, in small: one       *)
(* state x, one discrete variable d that depends on pre(d) and on a        *)
(* relation of x, and one when clause with a reinit of x, like that of     *)
(* the limited lag in the SCRX example.  Which equations they are is       *)
(* chosen once, in Init.                                                   *)
(***************************************************************************)
EXTENDS Naturals

CONSTANT MaxIter  \* iterations an event may take

ASSUME MaxIterAssumption == MaxIter \in Nat /\ MaxIter > 2

(* Values of x, at its limit and above it, and inputs that pull it up or   *)
(* down.                                                                   *)
States == 1 .. 2
OutMax == 1
Inputs == {"down", "up"}

Above(x) == x > OutMax

(* The equations of a model: the discrete variable, where the when clause  *)
(* is enabled, and the value of its reinit.                                *)
Models == [next : [BOOLEAN \X {0, 1} -> {0, 1}], gate : {{1}, {0, 1}}, value : States]

(* The variables of the equations and what is kept of the events: the      *)
(* discrete variable and its pre, whether the when clause is armed         *)
(* (QEvaluate, QEvaluateNew), a reinit that is still to be made (helpvari),*)
(* AnyEvent_, Iter, whether the next time event is known, and, as history, *)
(* how often x was reinitialised.                                          *)
Evaluations ==
    [x : States, d : {0, 1}, pre : {0, 1},
     QEvaluate : BOOLEAN, QEvaluateNew : BOOLEAN, pending : BOOLEAN,
     AnyEvent : BOOLEAN, Iter : 0 .. MaxIter + 1, NextTimeEvent : BOOLEAN,
     reinits : 0 .. 3]

Counted(e, made) == IF made THEN (e.reinits + 1) % 4 ELSE e.reinits

(* They are counted anew from where an event begins, or is begun again. *)
Begins(e) == [e EXCEPT !.reinits = 0]

VARIABLES
    model,      \* the equations
    eq,         \* what they are evaluated on
    u,          \* the input
    mStatus, firstEventCall, valWasSet,
    icall,      \* the cache holds what a getter needs
    start,      \* history: {eq} where the event began or last converged, and
                \* {} between events, or when since then an input was changed
                \* after an evaluation, or an evaluation was discarded
    evaluated,  \* history: since then, an evaluation was made
    disturbed   \* history: an input was changed after the event converged,
                \* or the model terminated in it

historyVars == <<start, evaluated, disturbed>>

vars == <<model, eq, u, mStatus, firstEventCall, valWasSet, icall, historyVars>>

EventModes == {"EventMode", "EventMode2", "EventModeExit"}

TypeOK ==
    /\ model \in Models /\ eq \in Evaluations
    /\ start \subseteq Evaluations
    /\ u \in Inputs
    /\ mStatus \in EventModes \cup {"ContinuousTimeMode", "Terminated"}
    /\ {firstEventCall, valWasSet, icall, evaluated, disturbed} \subseteq BOOLEAN

----------------------------------------------------------------------------
(* One evaluation of the equations at an event, with DymolaOneIteration_   *)
(* one: 0 iterates until nothing changes, 2 is the first evaluation of an  *)
(* event, 3 one more iteration and 5 the same iteration again.             *)

(* Mutant of Begun: the iterations are counted anew at each call. *)
BegunEachTime(e, one) ==
    [e EXCEPT !.Iter = 1, !.NextTimeEvent = FALSE, !.AnyEvent = FALSE,
              !.x = IF e.pending THEN model.value ELSE e.x,
              !.reinits = Counted(e, e.pending), !.pending = FALSE]

(* From dsblock_did to equations_: a reinit of the last iteration is made. *)
Begun(e, one) ==
    IF one = 5 THEN e
    ELSE [e EXCEPT
            !.Iter = (IF one < 3 THEN 0 ELSE e.Iter) + 1,
            !.NextTimeEvent = FALSE,
            !.AnyEvent = FALSE,
            !.x = IF e.pending THEN model.value ELSE e.x,
            !.reinits = Counted(e, e.pending),
            !.pending = FALSE]

(* Mutant of DataAtStart: the same iteration again counts as the next. *)
DataAtStartAnew(e, one) ==
    [e EXCEPT !.AnyEvent = e.AnyEvent \/ e.pre # e.d, !.pre = e.d,
              !.QEvaluate = e.QEvaluateNew, !.QEvaluateNew = e.QEvaluateNew]

(* InitializeData(0): pre gets the value of the last iteration, and what   *)
(* the when clause did in it takes effect.                                 *)
DataAtStart(e, one) ==
    LET armed == IF one = 3 THEN e.QEvaluateNew ELSE e.QEvaluate
    IN  [e EXCEPT
            !.AnyEvent = e.AnyEvent \/ (one # 5 /\ e.pre # e.d),
            !.pre = IF one = 5 THEN e.pre ELSE e.d,
            !.QEvaluate = armed,
            !.QEvaluateNew = armed]

Condition(e) == Above(e.x) /\ u = "down" /\ e.d \in model.gate

(* whenModelica with its reinit. *)
When(e, one) ==
    IF ~Condition(e)
    THEN [e EXCEPT !.QEvaluateNew = e.QEvaluateNew \/ ~e.QEvaluate]
    ELSE IF ~e.QEvaluate THEN e
    ELSE [e EXCEPT
            !.QEvaluateNew = FALSE,
            !.AnyEvent = TRUE,
            !.x = IF one = 0 THEN model.value ELSE e.x,
            !.reinits = Counted(e, one = 0),
            !.pending = e.pending \/ one # 0]

(* The discrete equation; a time event registers itself. *)
Discrete(e) == [e EXCEPT !.d = model.next[Above(e.x), e.pre], !.NextTimeEvent = TRUE]

(* The equations, in the order of the translated model. *)
Equations(e, one) == When(Discrete(e), one)

(* InitializeData(1). *)
DataAtEnd(e, one) ==
    [e EXCEPT
        !.AnyEvent = e.AnyEvent \/ e.pre # e.d,
        !.pre = IF one = 0 THEN e.d ELSE e.pre,
        !.QEvaluate = IF one = 0 THEN e.QEvaluateNew ELSE e.QEvaluate]

(* The stages one after the other (each of a set of one element, so that  *)
(* TLC evaluates it once).                                                 *)
Once(e, one) ==
    LET begun    == {Begun(e, one)}
        data     == {DataAtStart(b, one) : b \in begun}
        computed == {Equations(b, one) : b \in data}
    IN  CHOOSE done \in {DataAtEnd(b, one) : b \in computed} : TRUE

(* Mutant of TooMany: off by one. *)
TooManyLate(e) == e.Iter > MaxIter + 1

(* The end of dsblock_did: is another iteration needed, or are there too   *)
(* many?                                                                   *)
Again(e)   == e.AnyEvent /\ e.Iter <= MaxIter
TooMany(e) == e.Iter > MaxIter

(* Mutant of Finished: the arming is left to the next iteration. *)
FinishedAlone(e) == e

(* Without one, the when clause is armed for the next event. *)
Finished(e) == IF Again(e) \/ TooMany(e) THEN e ELSE [e EXCEPT !.QEvaluate = e.QEvaluateNew]

Evaluated(e, one) == CHOOSE done \in {Finished(b) : b \in {Once(e, one)}} : TRUE

(* What an evaluation that fails leaves: it ends anywhere before the when  *)
(* clauses, and nothing is put back.                                       *)
LeftBy(e, one) ==
    LET begun == Begun(e, one)
        data  == DataAtStart(begun, one)
    IN  {begun, data, Discrete(data)}

(* An evaluation between events: relations and pre are held, so that the   *)
(* equations give the d they gave last; but a reinit that is left is made. *)
Between(e) ==
    [e EXCEPT
        !.Iter = 1, !.AnyEvent = FALSE,
        !.x = IF e.pending THEN model.value ELSE e.x,
        !.reinits = Counted(e, e.pending),
        !.pending = FALSE]

----------------------------------------------------------------------------
(* fmi2ExitInitializationMode: the initial equations are solved, and the   *)
(* first event is to be iterated.                                          *)
Init ==
    /\ model \in Models /\ u \in Inputs
    /\ \E x \in States, d \in {0, 1}, armed \in BOOLEAN :
          /\ eq = [x |-> x, d |-> d, pre |-> d, QEvaluate |-> armed, QEvaluateNew |-> armed,
                   pending |-> FALSE, AnyEvent |-> FALSE, Iter |-> 1,
                   NextTimeEvent |-> TRUE, reinits |-> 0]
          /\ d = model.next[Above(x), d]
          /\ armed = ~Condition(eq)
    /\ mStatus = "EventMode" /\ firstEventCall = TRUE
    /\ valWasSet = FALSE /\ icall = FALSE
    /\ start = {eq} /\ evaluated = FALSE /\ disturbed = FALSE

----------------------------------------------------------------------------
(* fmi2NewDiscreteStates. *)

(* After inputs were set, the last iteration is made again with them. *)
Prepared == IF valWasSet /\ ~firstEventCall THEN Evaluated(eq, 5) ELSE eq

Kind == IF firstEventCall THEN 2 ELSE 3

Result == Evaluated(Prepared, Kind)

Fails == TooMany(Prepared) \/ TooMany(Result)

Refreshed == firstEventCall' = FALSE /\ valWasSet' = FALSE

(* The next iteration is made.  Either it changes nothing, ... *)
Converges ==
    /\ mStatus \in EventModes
    /\ ~Fails /\ ~Again(Result)
    /\ eq' = Begins(Result) /\ icall' = TRUE
    /\ mStatus' = "EventModeExit"
    /\ start' = {eq'} /\ evaluated' = FALSE /\ disturbed' = FALSE
    /\ Refreshed
    /\ UNCHANGED <<model, u>>

(* ... or another one is needed, ... *)
IteratesOn ==
    /\ mStatus \in EventModes
    /\ ~Fails /\ Again(Result)
    /\ eq' = Result /\ icall' = FALSE
    /\ mStatus' = "EventMode2"
    /\ evaluated' = TRUE
    /\ Refreshed
    /\ UNCHANGED <<model, u, start, disturbed>>

(* ... or there have been too many of them, ... *)
NoFixpoint ==
    /\ mStatus \in EventModes
    /\ Fails
    /\ mStatus' = "Terminated"
    /\ Refreshed
    /\ UNCHANGED <<model, u, eq, icall, historyVars>>

(* ... or the evaluation fails, ... *)
EvaluationFails ==
    /\ mStatus \in EventModes
    /\ eq' \in LeftBy(Prepared, Kind)
    /\ mStatus' = "Terminated"
    /\ Refreshed
    /\ UNCHANGED <<model, u, icall, historyVars>>

(* ... or the model terminates, which ends the event where it is. *)
ModelTerminates ==
    /\ mStatus \in EventModes
    /\ ~Fails
    /\ eq' = Result /\ icall' \in BOOLEAN
    /\ mStatus' = "EventModeExit"
    /\ evaluated' = TRUE /\ start' = {} /\ disturbed' = TRUE
    /\ Refreshed
    /\ UNCHANGED <<model, u>>

NewDiscreteStates ==
    Converges \/ IteratesOn \/ NoFixpoint \/ EvaluationFails \/ ModelTerminates

----------------------------------------------------------------------------
(* What the importer does besides.                                         *)

EnterEventMode ==
    /\ mStatus = "ContinuousTimeMode"
    /\ mStatus' = "EventMode" /\ firstEventCall' = TRUE
    /\ eq' = Begins(eq)
    /\ start' = (IF disturbed THEN {} ELSE {[eq' EXCEPT !.Iter = 0]}) /\ evaluated' = FALSE
    /\ UNCHANGED <<model, u, valWasSet, icall, disturbed>>

EnterContinuousTimeMode ==
    /\ mStatus = "EventModeExit"
    /\ mStatus' = "ContinuousTimeMode"
    /\ start' = {} /\ evaluated' = FALSE
    /\ UNCHANGED <<model, eq, u, firstEventCall, valWasSet, icall, disturbed>>

(* fmi2SetReal of an input, with another value. *)
SetInput ==
    /\ mStatus # "Terminated"
    /\ u' \in Inputs \ {u}
    /\ valWasSet' = TRUE /\ icall' = FALSE
    /\ IF mStatus \in EventModes
       THEN start' = (IF evaluated THEN {} ELSE start) /\ disturbed' = TRUE
       ELSE UNCHANGED <<start, disturbed>>
    /\ UNCHANGED <<model, eq, mStatus, firstEventCall, evaluated>>

(* A step of the importer's integrator: fmi2SetTime, and                   *)
(* fmi2SetContinuousStates, which does not look at the mode; importers     *)
(* call it between events.                                                 *)
SetContinuousStates ==
    /\ mStatus = "ContinuousTimeMode"
    /\ \E x \in States \ {eq.x} : eq' = [eq EXCEPT !.x = x]
    /\ valWasSet' = TRUE /\ icall' = FALSE
    /\ UNCHANGED <<model, u, mStatus, firstEventCall, historyVars>>

(* fmi2GetReal, fmi2GetDerivatives, fmi2GetEventIndicators: in an event,   *)
(* the values are those of the first iteration or of the same one again.   *)
GetInEvent ==
    /\ mStatus \in EventModes /\ ~icall
    /\ LET one == IF firstEventCall THEN 2 ELSE 5
       IN  \/ /\ eq' = Evaluated(eq, one)
              /\ icall' = ~Again(eq')
              /\ UNCHANGED start
           \* fmi2Discard, and the importer goes on.
           \/ /\ eq' \in LeftBy(eq, one)
              /\ icall' \in BOOLEAN
              /\ start' = {}
    /\ evaluated' = TRUE
    /\ Refreshed
    /\ UNCHANGED <<model, u, mStatus, disturbed>>

GetBetween ==
    /\ mStatus = "ContinuousTimeMode" /\ ~icall
    /\ eq' = Between(eq)
    /\ icall' \in BOOLEAN
    /\ valWasSet' = FALSE
    /\ UNCHANGED <<model, u, mStatus, firstEventCall, historyVars>>

(* fmi2CompletedIntegratorStep does not discard. *)
CompletedIntegratorStep ==
    /\ mStatus = "ContinuousTimeMode" /\ ~icall
    /\ eq' = Between(eq)
    /\ icall' \in BOOLEAN
    /\ valWasSet' = FALSE
    /\ mStatus' \in {mStatus, "Terminated"}
    /\ UNCHANGED <<model, u, firstEventCall, historyVars>>

Terminate ==
    /\ mStatus # "Terminated"
    /\ mStatus' = "Terminated"
    /\ UNCHANGED <<model, eq, u, firstEventCall, valWasSet, icall, historyVars>>

Next ==
    \/ NewDiscreteStates
    \/ EnterEventMode \/ EnterContinuousTimeMode
    \/ SetInput \/ SetContinuousStates
    \/ GetInEvent \/ GetBetween \/ CompletedIntegratorStep
    \/ Terminate

Spec == Init /\ [][Next]_vars

(* An importer in an event calls fmi2NewDiscreteStates until no further    *)
(* call is needed; nothing is assumed of what it calls between.            *)
FairSpec == Spec /\ WF_vars(mStatus \in {"EventMode", "EventMode2"} /\ NewDiscreteStates)

----------------------------------------------------------------------------
(* The reference: the event is iterated in one evaluation, as that of a    *)
(* co-simulation instance is.                                              *)
AtOnce(e) ==
    LET iteration[n \in 0 .. MaxIter] ==
          IF n = 0 THEN Once(e, 0)
          ELSE CHOOSE this \in {IF Again(last) THEN [Once(last, 0) EXCEPT !.Iter = last.Iter + 1]
                                ELSE last : last \in {iteration[n - 1]}} : TRUE
    IN  iteration[MaxIter]

----------------------------------------------------------------------------
(* Properties.                                                             *)

SameAs(e, r) ==
    /\ ~r.AnyEvent /\ ~e.pending
    /\ <<e.x, e.d, e.pre, e.QEvaluate, e.reinits>> = <<r.x, r.d, r.pre, r.QEvaluate, r.reinits>>

(* An importer that iterates the event call by call, and looks at values   *)
(* between the calls, ends it where one evaluation would have: with the    *)
(* same states and discrete variables, the when clause armed or not as     *)
(* there, and as many reinits made.  It is told that there are too many    *)
(* iterations only if the one evaluation takes as many as are allowed;     *)
(* where the event was begun again, together with those made before (Iter  *)
(* of start), which the code still counts.                                 *)
StepwiseAsAtOnce ==
    [][\A e \in start :
         /\ Converges  => SameAs(Result, AtOnce(e))
         /\ NoFixpoint => e.Iter + AtOnce(e).Iter >= MaxIter]_vars

(* When the event is over nothing of it is left that could still happen:   *)
(* pre is settled, no reinit is waiting to move the states in a later      *)
(* evaluation, and the next time event is known; and getters did not move  *)
(* the states.                                                             *)
NothingLeftOver ==
    mStatus \in {"EventModeExit", "ContinuousTimeMode"} /\ ~disturbed =>
        eq.pre = eq.d /\ ~eq.pending /\ eq.NextTimeEvent /\ eq.QEvaluate = eq.QEvaluateNew

(* An event ends: with a fixpoint, or an error. *)
EventModeEnds ==
    mStatus \in {"EventMode", "EventMode2"} ~> mStatus \in {"EventModeExit", "Terminated"}
=============================================================================
