----------------------------- MODULE InputSignals -----------------------------
(***************************************************************************)
(* Inputs with derivatives: what the master says of an input with          *)
(* fmi2SetReal and fmi2SetRealInputDerivatives at a communication point    *)
(* is, for the next step, a line, and each callback of the solver displaces*)
(* the inputs of the instance along it to its own time and back to that of *)
(* the instance.                                                           *)
(*                                                                         *)
(* Values, rates and times are integers.  What the solver solves, and when *)
(* its callbacks are made, is any.                                         *)
(***************************************************************************)
EXTENDS Integers

CONSTANTS
    Inputs, Values, Rates, \* what the master sets, and to what
    StartValue,            \* of every input
    Horizon,               \* no time is past it (a bound)
    NamesSome,             \* may the master name rates for some inputs only,
    GoesOnAfterFailure     \* and set, step or reset after a step that failed?

VARIABLES
    time, inputs,
    ipData,    \* useDerivatives, inputsT0, inputDerivatives, derivativeTime
    signal,    \* history: the line of each input, as the master stated it
    stepping,  \* fmi2DoStep: "no", "yes", or it "failed"
    end,       \* endStepTime
    evaluated, \* the last evaluation of the step: by whom, when, with what inputs
    saved      \* an FMU state the master holds, or {}

vars == <<time, inputs, ipData, signal, stepping, end, evaluated, saved>>

Times == 0 .. Horizon
Idle  == [by |-> "none"]

TypeOK ==
    /\ time \in Times /\ end \in Times
    /\ inputs \in [Inputs -> Int]
    /\ ipData.useDerivatives \in BOOLEAN
    /\ ipData.inputsT0 \in [Inputs -> Int]
    /\ ipData.inputDerivatives \in [Inputs -> Int]
    /\ ipData.derivativeTime \in Times
    /\ signal \in [Inputs -> [at : Times, value : Int, rate : Int]]
    /\ stepping \in {"no", "yes", "failed"}
    /\ evaluated.by \in {"none", "callback", "event", "arrival"}

On(i, t) == signal[i].value + signal[i].rate * (t - signal[i].at)

Constant(t, u) == [i \in Inputs |-> [at |-> t, value |-> u[i], rate |-> 0]]

StartInputs == [i \in Inputs |-> StartValue]

(* integration_allocate_ipData *)
Allocated ==
    [useDerivatives |-> FALSE, inputsT0 |-> [i \in Inputs |-> 0],
     inputDerivatives |-> [i \in Inputs |-> 0], derivativeTime |-> 0]

Init ==
    /\ time = 0 /\ inputs = StartInputs
    /\ ipData = Allocated
    /\ signal = Constant(0, StartInputs)
    /\ stepping = "no" /\ end = 0 /\ evaluated = Idle /\ saved = {}

----------------------------------------------------------------------------
(* The master, at a communication point.                                   *)

AtPoint == stepping = "no" \/ (GoesOnAfterFailure /\ stepping = "failed")

(* integration_sync_extrapolation_input *)
Synced(ip, i, v) == [ip EXCEPT !.inputsT0[i] = v]

SetReal(i, v) ==
    /\ AtPoint
    /\ inputs' = [inputs EXCEPT ![i] = v]
    /\ ipData' = IF inputs[i] = v THEN ipData ELSE Synced(ipData, i, v)
    /\ signal' = [signal EXCEPT ![i] = [at |-> time, value |-> v, rate |-> @.rate]]
    /\ UNCHANGED <<time, stepping, end, evaluated, saved>>

(* The lines of all inputs start here; an input that is not named keeps    *)
(* the rate it was given last, in this step or an earlier one.             *)
SetRealInputDerivatives(vr, rate) ==
    /\ AtPoint /\ vr # {} /\ (NamesSome \/ vr = Inputs)
    /\ ipData' = [useDerivatives |-> TRUE, inputsT0 |-> inputs, derivativeTime |-> time,
                  inputDerivatives |-> [i \in Inputs |-> IF i \in vr THEN rate
                                                         ELSE ipData.inputDerivatives[i]]]
    /\ signal' = [i \in Inputs |-> IF i \in vr
                                   THEN [at |-> time, value |-> inputs[i], rate |-> rate]
                                   ELSE signal[i]]
    /\ UNCHANGED <<time, inputs, stepping, end, evaluated, saved>>

(* The values get their start values again, and the next initialisation    *)
(* the time; ipData is left as it is.                                      *)
Reset ==
    /\ stepping # "yes"
    /\ GoesOnAfterFailure \/ ~ipData.useDerivatives
    /\ time' = 0 /\ inputs' = StartInputs
    /\ signal' = Constant(0, StartInputs)
    /\ stepping' = "no" /\ evaluated' = Idle
    /\ UNCHANGED <<ipData, end, saved>>

GetFMUstate ==
    /\ stepping = "no"
    /\ saved' = {[time |-> time, inputs |-> inputs, ipData |-> ipData, signal |-> signal]}
    /\ UNCHANGED <<time, inputs, ipData, signal, stepping, end, evaluated>>

(* Mutant of Cloned: the flag comes along, the lines do not. *)
ClonedFlag(target, source) == [target EXCEPT !.useDerivatives = source.useDerivatives]

(* clone_ipData: lines that are not in use are not copied. *)
Cloned(target, source) ==
    IF source.useDerivatives THEN source ELSE [target EXCEPT !.useDerivatives = FALSE]

SetFMUstate ==
    /\ stepping # "yes"
    /\ \E s \in saved :
          /\ time' = s.time /\ inputs' = s.inputs /\ signal' = s.signal
          /\ ipData' = Cloned(ipData, s.ipData)
    /\ stepping' = "no" /\ evaluated' = Idle
    /\ UNCHANGED <<end, saved>>

----------------------------------------------------------------------------
(* The step.                                                               *)

DoStep(h) ==
    /\ AtPoint /\ time + h <= Horizon
    /\ stepping' = "yes" /\ end' = time + h /\ evaluated' = Idle
    /\ UNCHANGED <<time, inputs, ipData, signal, saved>>

(* integration_extrapolate_inputs *)
Extrapolated(t) ==
    IF ipData.useDerivatives
    THEN [i \in Inputs |-> ipData.inputsT0[i]
                           + ipData.inputDerivatives[i] * (t - ipData.derivativeTime)]
    ELSE inputs

(* "restore time, states and inputs": along the line, to the instance's time. *)
PutBack(t) == Extrapolated(time)

(* jac_f and g, at a time of the solver's choice, also past the end. *)
Callback(t) ==
    /\ stepping = "yes"
    /\ evaluated' = [by |-> "callback", at |-> t, inputs |-> Extrapolated(t)]
    /\ inputs' = PutBack(t)
    /\ UNCHANGED <<time, ipData, signal, stepping, end, saved>>

(* A root return: the time is set, and the event is evaluated with the     *)
(* inputs of the time before.                                              *)
StateEvent(t) ==
    /\ stepping = "yes" /\ time < t /\ t <= end
    /\ time' = t
    /\ evaluated' = [by |-> "event", at |-> t, inputs |-> inputs]
    /\ UNCHANGED <<inputs, ipData, signal, stepping, end, saved>>

(* integration_step has reached the end of the step, a time event or a     *)
(* result sample: "compute approximate inputs".                            *)
Arrive(t) ==
    /\ stepping = "yes" /\ time <= t /\ t <= end
    /\ time' = t
    /\ inputs' = Extrapolated(t)
    /\ evaluated' = [by |-> "arrival", at |-> t, inputs |-> Extrapolated(t)]
    /\ UNCHANGED <<ipData, signal, stepping, end, saved>>

StepDone ==
    /\ stepping = "yes" /\ time = end /\ evaluated.by = "arrival"
    /\ stepping' = "no" /\ evaluated' = Idle
    /\ ipData' = [ipData EXCEPT !.useDerivatives = FALSE]
    /\ signal' = Constant(time, [i \in Inputs |-> On(i, time)])
    /\ UNCHANGED <<time, inputs, end, saved>>

StepFails ==
    /\ stepping = "yes"
    /\ stepping' = "failed"
    /\ UNCHANGED <<time, inputs, ipData, signal, end, evaluated, saved>>

Next ==
    \/ \E i \in Inputs, v \in Values : SetReal(i, v)
    \/ \E vr \in SUBSET Inputs, rate \in Rates : SetRealInputDerivatives(vr, rate)
    \/ Reset \/ GetFMUstate \/ SetFMUstate
    \/ \E h \in 1 .. Horizon : DoStep(h)
    \/ \E t \in Times : Callback(t) \/ StateEvent(t) \/ Arrive(t)
    \/ StepDone \/ StepFails

Spec == Init /\ [][Next]_vars

----------------------------------------------------------------------------
(* Properties.                                                             *)

(* Whatever the master set, in which order, and whichever state it went    *)
(* back to: every evaluation of a step sees the inputs on the lines the    *)
(* master stated, at its own time.  A state event is excepted: its time is *)
(* set and the inputs are not moved there.                                 *)
EvaluatedOnSignal ==
    evaluated.by \in {"callback", "arrival"} =>
        \A i \in Inputs : evaluated.inputs[i] = On(i, evaluated.at)

(* Between the callbacks the instance has its inputs on the lines at its   *)
(* own time, whatever times the solver evaluated at, but for a state event.*)
InputsPutBack ==
    evaluated.by # "event" => \A i \in Inputs : inputs[i] = On(i, time)
=============================================================================
