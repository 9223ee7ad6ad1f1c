---------------------------- MODULE MCPerturbation ----------------------------
(***************************************************************************)
(* The computations that displace the values of a running instance and     *)
(* have to put them back, for TLC: the Jacobian callback of the solver,    *)
(* fmi2GetDirectionalDerivative, and the callbacks that move inputs along  *)
(* their derivatives.  They act on different fields and are never nested,  *)
(* so one is checked at a time: `kind' says which one the behaviour is of, *)
(* and the variables of the other kinds stay None.                         *)
(*                                                                         *)
(* Three columns are the fewest of which two can share a group and one     *)
(* not; a column has five attempts.  Two known variables are in one group, *)
(* in two, or without groups.  Inputs do not depend on one another.        *)
(***************************************************************************)
EXTENDS Integers

CONSTANTS
    None, N, Failures,
    Knowns, Derivatives, NY, MaxKnowns, OtherSeeds, EvaluatesFirst, SavesComputed,
    MayFailTwice,
    Inputs, Values, Rates, StartValue, Horizon, NamesSome, GoesOnAfterFailure

ASSUME PerturbationAssumption ==
    /\ N \in Nat /\ Failures \in Nat
    /\ NY \in Nat \ {0} /\ MaxKnowns \in Nat \ {0}
    /\ {OtherSeeds, EvaluatesFirst, SavesComputed, MayFailTwice} \subseteq BOOLEAN
    /\ Values \cup Rates \cup {StartValue} \subseteq Int /\ Horizon \in Nat
    /\ {NamesSome, GoesOnAfterFailure} \subseteq BOOLEAN

VARIABLES
    kind, pc, inJacobian,
    Sparse, depends, group, g, col, k, y, ftmp, J, data, rowvals, exhausted,
    cg, value, result, icall, recalJacobian, updatedJacobian, jac, jacV, jacZ,
    asked, answer, saved,
    time, inputs, ipData, signal, stepping, end, evaluated

callbackVars    == <<Sparse, depends, group, g, col, k, y, ftmp, J, data, rowvals, exhausted>>
directionalVars == <<cg, value, result, icall, recalJacobian, updatedJacobian, jac, jacV, jacZ,
                     asked, answer>>
inputVars       == <<time, inputs, ipData, signal, stepping, end, evaluated>>
vars == <<kind, pc, inJacobian, callbackVars, directionalVars, inputVars, saved>>

Callback    == INSTANCE Jacobian
Directional == INSTANCE DirectionalDerivative
Signals     == INSTANCE InputSignals

CallbackUnused ==
    /\ Sparse = None /\ depends = None /\ group = None /\ g = None /\ col = None /\ k = None
    /\ y = None /\ ftmp = None /\ J = None /\ data = None /\ rowvals = None /\ exhausted = None

DirectionalUnused ==
    /\ cg = None /\ value = None /\ result = None /\ icall = None /\ recalJacobian = None
    /\ updatedJacobian = None /\ jac = None /\ jacV = None /\ jacZ = None
    /\ asked = None /\ answer = None

SignalsUnused ==
    /\ time = None /\ inputs = None /\ ipData = None /\ signal = None /\ stepping = None
    /\ end = None /\ evaluated = None

Init ==
    \/ kind = "callback" /\ Callback!Init /\ DirectionalUnused /\ SignalsUnused /\ saved = None
    \/ kind = "directional" /\ Directional!Init /\ CallbackUnused /\ SignalsUnused
    \/ kind = "inputs" /\ Signals!Init /\ CallbackUnused /\ DirectionalUnused
       /\ pc = None /\ inJacobian = None

Next ==
    /\ UNCHANGED kind
    /\ \/ kind = "callback" /\ Callback!Next /\ UNCHANGED <<directionalVars, inputVars, saved>>
       \/ kind = "directional" /\ Directional!Next /\ UNCHANGED <<callbackVars, inputVars>>
       \/ kind = "inputs" /\ Signals!Next
          /\ UNCHANGED <<callbackVars, directionalVars, pc, inJacobian>>

Spec == Init /\ [][Next]_vars

----------------------------------------------------------------------------
(* The types of all kinds. *)
TypeOK ==
    CASE kind = "callback" -> Callback!TypeOK
      [] kind = "directional" -> Directional!TypeOK
      [] kind = "inputs" -> Signals!TypeOK

(* See Jacobian, DirectionalDerivative and InputSignals: whatever failed,  *)
(* no increment is left in the states and inputs, the results in the       *)
(* instance are those of its values, and the inputs those of its time.     *)
LeavesInstance ==
    CASE kind = "callback" -> Callback!LeavesStates
      [] kind = "directional" -> Directional!GettersPresent
      [] kind = "inputs" -> Signals!InputsPutBack

(* See Jacobian and InputSignals: a Jacobian that is reported as computed  *)
(* is right, and evaluations see the inputs the master stated.             *)
ComputedIsRight ==
    CASE kind = "callback" -> Callback!ComputedIsRight
      [] kind = "directional" -> TRUE
      [] kind = "inputs" -> Signals!EvaluatedOnSignal

(* See DirectionalDerivative: kept columns are of the present values. *)
DerivativeIsPresent == [][kind = "directional" => Directional!PresentAnswered]_vars
=============================================================================
