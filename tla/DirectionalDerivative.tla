------------------------ MODULE DirectionalDerivative ------------------------
(***************************************************************************)
(* fmi2GetDirectionalDerivative of a running instance, by differences.     *)
(* With column groups in the generated code, and one known variable asked  *)
(* for with the seed 1, whole groups of columns are made and kept for the  *)
(* next call; otherwise the known variables are displaced along the seed   *)
(* through the setter, and the unknowns read through the getter.           *)
(*                                                                         *)
(* A value is which of the master's values it is and how far it is         *)
(* displaced.  A result (a derivative or an output) is which result of an  *)
(* evaluation it holds, and the values that evaluation was made with.      *)
(***************************************************************************)
EXTENDS Integers, FiniteSets

CONSTANTS
    Knowns,        \* states and inputs: the columns
    Derivatives,   \* state derivatives
    NY,            \* outputs, 1 to NY
    MaxKnowns,     \* how many known variables the master asks for at a time,
    OtherSeeds,    \* whether for one with a seed that is not 1 although there are groups,
    EvaluatesFirst,\* whether it had the derivatives evaluated before,
    SavesComputed, \* whether it saves an FMU state right after a derivative,
    MayFailTwice   \* and whether both evaluations of a difference may fail

VARIABLES
    cg,              \* the column groups of the generated code
    value,           \* states and inputs
    result,          \* derivatives and outputs
    icall,           \* up to which demand the results are of the values
    recalJacobian,
    updatedJacobian, \* 1 for a column that is asked for, 2 for one that is kept
    jac,             \* the columns kept: the values they are the differences
                     \* around, {} for no or wrong differences
    pc, jacV, jacZ,  \* the grouped computation, and what it saved
    inJacobian,      \* mInJacobian
    asked,           \* the known variables of the present or last call
    answer,          \* what it answered: "ok", "discard" or "none"
    saved            \* an FMU state the master holds, or {}

instanceVars == <<value, result, icall, recalJacobian>>
keptVars     == <<updatedJacobian, jac>>
callVars     == <<pc, jacV, jacZ, inJacobian, asked, answer>>
vars == <<cg, instanceVars, keptVars, callVars, saved>>

Outputs == 1 .. NY
Results == Derivatives \cup Outputs

(* iDemandOutput, iDemandDerivative *)
Demand(r) == IF r \in Outputs THEN 1 ELSE 2

Positions == [of : {0, 1}, by : {-1, 0, 1}]
Points == [Knowns -> Positions]
Held   == [of : Results, at : Points]

TypeOK ==
    /\ cg \in SUBSET (SUBSET Knowns)
    /\ value \in Points /\ jacV \in Points
    /\ result \in [Results -> Held] /\ jacZ \in [Results -> Held]
    /\ icall \in 0 .. 2
    /\ recalJacobian \in BOOLEAN /\ inJacobian \in BOOLEAN
    /\ updatedJacobian \in [Knowns -> 0 .. 2]
    /\ jac \in [Knowns -> SUBSET Points]
    /\ pc \in {"idle", "groups"}
    /\ asked \subseteq Knowns
    /\ answer \in {"ok", "discard", "none"}

Start == [k \in Knowns |-> [of |-> 0, by |-> 0]]
Fresh(at) == [r \in Results |-> [of |-> r, at |-> at]]

(* The generated groups: the columns of one share no row. *)
Groupings == {groups \in SUBSET ((SUBSET Knowns) \ {{}}) :
                /\ \A a, b \in groups : a # b => a \cap b = {}
                /\ groups = {} \/ UNION groups = Knowns}

Init ==
    /\ cg \in Groupings
    /\ value = Start /\ result = Fresh(Start) /\ icall = 2
    /\ recalJacobian = TRUE
    /\ updatedJacobian = [k \in Knowns |-> 0] /\ jac = [k \in Knowns |-> {}]
    /\ pc = "idle" /\ jacV = Start /\ jacZ = Fresh(Start) /\ inJacobian = FALSE
    /\ asked = {} /\ answer = "none" /\ saved = {}

----------------------------------------------------------------------------
(* What the master does besides.                                           *)

(* FMI_SET lowers the cache and has the Jacobian made anew; so do the      *)
(* setters of time and states.                                             *)
Modified == icall' = 0 /\ recalJacobian' = TRUE

SetReal(k) ==
    /\ pc = "idle"
    /\ value' = [value EXCEPT ![k].of = 1 - @]
    /\ Modified
    /\ UNCHANGED <<cg, result, keptVars, callVars, saved>>

(* The sections an evaluation runs when d is demanded at icall c. *)
Evaluated(held, at, c, d) ==
    [r \in Results |-> IF c < Demand(r) /\ Demand(r) <= d THEN [of |-> r, at |-> at] ELSE held[r]]

GetReal(r) ==
    /\ pc = "idle" /\ icall < Demand(r)
    /\ result' = Evaluated(result, value, icall, Demand(r))
    /\ icall' = Demand(r)
    /\ UNCHANGED <<cg, value, recalJacobian, keptVars, callVars, saved>>

GetFMUstate ==
    /\ pc = "idle" /\ (recalJacobian \/ SavesComputed)
    /\ saved' = {[value |-> value, result |-> result, icall |-> icall,
                  recalJacobian |-> recalJacobian]}
    /\ UNCHANGED <<cg, instanceVars, keptVars, callVars>>

(* copyVariables: the flag comes from the saved state, the columns stay.   *)
SetFMUstate ==
    /\ pc = "idle"
    /\ \E s \in saved :
          /\ value' = s.value /\ result' = s.result /\ icall' = s.icall
          /\ recalJacobian' = s.recalJacobian
    /\ UNCHANGED <<cg, keptVars, callVars, saved>>

----------------------------------------------------------------------------
(* By groups.                                                              *)

(* Mutant of Outdated: the columns are kept until a value is set, but not  *)
(* by which function.                                                      *)
OutdatedByCache == icall < 2

Outdated == icall < 2 \/ recalJacobian

(* Columns that are kept are dropped when a value changed; the one that is *)
(* asked for is marked if it is not kept; values and results are saved,    *)
(* the latter whether they are of the values or not.                       *)
AskByGroups(k) ==
    LET kept == IF Outdated THEN [j \in Knowns |-> 0] ELSE updatedJacobian
    IN  /\ pc = "idle" /\ cg # {}
        /\ EvaluatesFirst => icall = 2
        /\ pc' = "groups" /\ inJacobian' = TRUE
        /\ asked' = {k} /\ answer' = "none"
        /\ recalJacobian' = FALSE
        /\ updatedJacobian' = [kept EXCEPT ![k] = IF @ = 0 THEN 1 ELSE @]
        /\ jacV' = value /\ jacZ' = result
        /\ UNCHANGED <<cg, value, result, icall, jac, saved>>

Displaced(at, ks, by) == [k \in Knowns |-> IF k \in ks THEN [at[k] EXCEPT !.by = by] ELSE at[k]]

(* "And reset derivatives/outputs": outputs[ind-ind] is the first output   *)
(* for all of them, so that it gets what was the last one.                 *)
ResultsReset(held) ==
    [r \in Results |-> IF r \in Derivatives THEN jacZ[r]
                       ELSE IF r = 1 THEN jacZ[NY] ELSE held[r]]

Wanted(group) == \E k \in group : updatedJacobian[k] = 1

(* Is the difference made of the right results around the present values?  *)
(* On a side that failed, what the results were reset to is used.          *)
Side(held, failed, reset) == IF failed THEN reset ELSE held

Difference(group, plus, minus) ==
    IF \A r \in Results :
          /\ plus[r].of = r /\ minus[r].of = r
          /\ {plus[r].at, minus[r].at} \subseteq
                {jacV, Displaced(jacV, group, 1), Displaced(jacV, group, -1)}
          /\ plus[r].at # minus[r].at
    THEN {jacV} ELSE {}

(* One group: two evaluations, each with the members displaced and put     *)
(* back.  A result that a failed evaluation left is not looked at again.   *)
ComputeGroup(group, failedPos, failedNeg) ==
    LET plus  == Fresh(Displaced(jacV, group, 1))
        minus == Fresh(Displaced(jacV, group, -1))
        reset == ResultsReset(minus)
    IN  /\ pc = "groups" /\ group \in cg /\ Wanted(group)
        /\ value' = jacV
        /\ icall' \in IF failedNeg THEN {1, 2} ELSE {2}
        /\ result' = reset
        /\ IF failedPos /\ failedNeg
           \* done2, with the status still fmi2OK and all differences zero
           THEN /\ MayFailTwice
                /\ pc' = "idle" /\ inJacobian' = FALSE /\ answer' = "ok"
                /\ UNCHANGED keptVars
           ELSE /\ jac' = [k \in Knowns |->
                             IF k \in group
                             THEN Difference(group, Side(plus, failedPos, reset),
                                             Side(minus, failedNeg, reset))
                             ELSE jac[k]]
                /\ updatedJacobian' = [k \in Knowns |-> IF k \in group THEN 2
                                                        ELSE updatedJacobian[k]]
                /\ UNCHANGED <<pc, inJacobian, answer>>
        /\ UNCHANGED <<cg, recalJacobian, jacV, jacZ, asked, saved>>

GroupsDone ==
    /\ pc = "groups" /\ \A group \in cg : ~Wanted(group)
    /\ pc' = "idle" /\ inJacobian' = FALSE
    /\ answer' = "ok"
    /\ UNCHANGED <<cg, instanceVars, keptVars, jacV, jacZ, asked, saved>>

----------------------------------------------------------------------------
(* Along the seed.                                                         *)

(* "Restore": the first known variable. *)
PutBack(displaced, first) == [displaced EXCEPT ![first] = jacV'[first]]

(* A value is displaced from the master's once, at most. *)
Undisplaced == \A k \in Knowns : value[k].by = 0

(* All the known variables are displaced one way, then the other, and the  *)
(* unknowns read.  The evaluations are forced, and an unknown is any.  If  *)
(* both fail, the call ends where it is.  With column groups it comes to   *)
(* this for several known variables, or a seed that is not 1.              *)
AlongSeed(ks, first, failedPos, failedNeg) ==
    LET minus == Displaced(value, ks, -1)
    IN  /\ pc = "idle" /\ Undisplaced
        /\ first \in ks /\ Cardinality(ks) <= MaxKnowns
        /\ cg = {} \/ Cardinality(ks) > 1 \/ OtherSeeds
        /\ jacV' = value
        /\ asked' = ks
        /\ result' = IF failedNeg THEN result ELSE Fresh(minus)
        /\ IF failedPos /\ failedNeg
           THEN MayFailTwice /\ value' = minus /\ answer' = "discard"
           ELSE value' = PutBack(minus, first) /\ answer' = "ok"
        /\ Modified
        /\ UNCHANGED <<cg, keptVars, pc, jacZ, inJacobian, saved>>

Next ==
    \/ \E k \in Knowns : SetReal(k) \/ AskByGroups(k)
    \/ \E r \in Results : GetReal(r)
    \/ GetFMUstate \/ SetFMUstate
    \/ \E group \in cg, failedPos, failedNeg \in BOOLEAN : ComputeGroup(group, failedPos, failedNeg)
    \/ GroupsDone
    \/ \E ks \in SUBSET Knowns, first \in Knowns, failedPos, failedNeg \in BOOLEAN :
          AlongSeed(ks, first, failedPos, failedNeg)

Spec == Init /\ [][Next]_vars

----------------------------------------------------------------------------
(* Properties.                                                             *)

(* What is answered with fmi2OK by groups is the derivative at the present *)
(* values: columns that were kept from an earlier call are of these values,*)
(* and the difference is made of the evaluations around them, also when    *)
(* one of the two failed.                                                  *)
PresentAnswered == pc = "groups" /\ answer' = "ok" => \A k \in asked : jac'[k] = {value'}
DerivativeIsPresent == [][PresentAnswered]_vars

(* "Restore": every value the call displaced is put back, whatever failed. *)
KnownsPutBack == pc = "idle" => Undisplaced

(* A directional derivative is a question: afterwards a getter answers with*)
(* the results of the master's values, from the cache or not.              *)
GettersPresent ==
    /\ KnownsPutBack
    /\ pc = "idle" => /\ ~inJacobian
                     /\ \A r \in Results :
                            Demand(r) <= icall => result[r] = [of |-> r, at |-> value]
=============================================================================
