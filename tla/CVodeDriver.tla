----------------------------- MODULE CVodeDriver -----------------------------
(***************************************************************************)
(* The driver of the vendored solver, CVode, with its search for roots of  *)
(* the event indicators (cvRcheck1 to 3, cvRootfind), as integration.c     *)
(* uses it: CV_NORMAL, forward in time, no stop time, every direction of   *)
(* crossing.  A step of the solver (cvStep) is one action here; CVodeStep  *)
(* opens it.                                                               *)
(*                                                                         *)
(* Time is a grid whose unit is the tolerance ttol of a root, the same as  *)
(* the roundoff troundoff and tfuzz of a time.  An indicator is its sign   *)
(* at every instant: the solver's interpolant is taken to be the solution. *)
(***************************************************************************)
EXTENDS Integers, FiniteSets

CONSTANTS
    G,           \* the event indicators
    Horizon,     \* bound: the last instant the solver may reach
    StepSizes,   \* bound: lengths of a step, 0 when h is below the roundoff of tn
    FirstSizes,  \* bound: lengths of a first step as it is first attempted
    Tenth,       \* one over PT1: 10 in the code, less in a small instance
    MaxSteps,    \* mxstep
    MaxChanges   \* bound: how often the indicators change sign, all together

ASSUME DriverAssumption ==
    /\ Horizon \in Nat \ {0}
    /\ StepSizes \subseteq Nat
    /\ FirstSizes \subseteq Nat
    /\ Tenth \in Nat \ {0}
    /\ MaxSteps \in Nat \ {0}
    /\ MaxChanges \in Nat

Roundoff == 1
Times  == 0 .. Horizon
Points == 0 .. Horizon + Roundoff
Sign   == {-1, 0, 1}

VARIABLES
    sig,       \* the signs of the indicators over time (environment)
    pc,        \* where CVode is
    entry,     \* the search for a root is that of the stop tests at entry
    stepped,   \* nst > 0
    nstloc,    \* steps of this call
    tn, hu,    \* the internal time and the last step
    h0u,       \* the initial step size
    tout, tretlast,
    ret,       \* what the last call returned
    tlo, thi, glo, ghi,
    gactive, iroots, irfnd,
    told,      \* history: the sign of each indicator the caller last learned of
    looked,    \* history: when the signs the search last compared with were taken
    stepEvent, \* history: a root return was for a step event
    advanced   \* history: the last return was later than the one before

searchVars == <<tlo, thi, glo, ghi, gactive, iroots, told, looked>>
stepVars   == <<stepped, nstloc, tn, hu, h0u>>
callVars   == <<tout, tretlast, ret, stepEvent, advanced>>
vars == <<sig, pc, entry, irfnd, stepVars, callVars, searchVars>>

TypeOK ==
    /\ sig \in [G -> [Points -> Sign]]
    /\ pc \in {"idle", "first", "stops", "loop", "search", "searched"}
    /\ entry \in BOOLEAN /\ stepped \in BOOLEAN /\ irfnd \in BOOLEAN
    /\ stepEvent \in BOOLEAN /\ advanced \in BOOLEAN
    /\ nstloc \in 0 .. MaxSteps
    /\ tn \in Times /\ hu \in {0} \cup StepSizes /\ h0u \in {0} \cup FirstSizes
    /\ tout \in Times /\ tretlast \in Times /\ tlo \in Times /\ thi \in Times
    /\ ret \in {"none", "CV_SUCCESS", "CV_ROOT_RETURN", "CV_TOO_MUCH_WORK", "CV_TOO_CLOSE", "failed"}
    /\ glo \in [G -> Sign] /\ ghi \in [G -> Sign] /\ told \in [G -> Sign]
    /\ gactive \in [G -> BOOLEAN]
    /\ iroots \in [G -> Sign]
    /\ looked \in [G -> Points]

(* The instants at which a function over time changes its value. *)
Changes(f) == {t \in Points \ {0} : f[t] # f[t - 1]}

(* An indicator and its negative are treated alike: the first sign is +.    *)
Curves ==
    {f \in [Points -> Sign] :
        /\ Cardinality(Changes(f)) <= MaxChanges
        /\ \A t \in Points : f[t] = -1 => \E u \in 0 .. t : f[u] = 1}

(* The solutions that may lie ahead of a start.                            *)
Solutions ==
    {s \in [G -> Curves] : Cardinality({p \in G \X Points : p[2] \in Changes(s[p[1]])}) <= MaxChanges}

(* A solution that begins at t0; before it, nothing matters. *)
StartingAt(t0, s) == [i \in G |-> [t \in Points |-> s[i][IF t < t0 THEN 0 ELSE t - t0]]]

At(t) == [i \in G |-> sig[i][t]]

Lesser(a, b)  == IF a < b THEN a ELSE b
Greater(a, b) == IF a < b THEN b ELSE a

(* Not looked at before the first call after a start. *)
NotKnown == [i \in G |-> [t \in Points |-> 0]]

(* CVodeInit and CVodeRootInit. *)
Init ==
    /\ sig = NotKnown
    /\ pc = "idle" /\ entry = FALSE /\ stepped = FALSE /\ irfnd = FALSE
    /\ nstloc = 0 /\ tn = 0 /\ hu = 0 /\ h0u = 0
    /\ tout = 0 /\ tretlast = 0 /\ ret = "none" /\ stepEvent = FALSE /\ advanced = FALSE
    /\ tlo = 0 /\ thi = 0
    /\ glo = [i \in G |-> 0] /\ ghi = [i \in G |-> 0] /\ told = [i \in G |-> 0]
    /\ gactive = [i \in G |-> TRUE] /\ iroots = [i \in G |-> 0]
    /\ looked = [i \in G |-> 0]

----------------------------------------------------------------------------
(* Returns.                                                                *)

Return(flag, t) ==
    /\ ret' = flag /\ tretlast' = t
    /\ advanced' = (t > tretlast)
    /\ pc' = "idle"
    /\ UNCHANGED <<sig, tout>>

(* An indicator cannot be evaluated: the call fails where it is. *)
RootFunctionFails ==
    /\ pc \in {"first", "stops", "loop", "search"}
    /\ Return("failed", tretlast)
    /\ stepEvent' = FALSE
    /\ UNCHANGED <<entry, irfnd, stepVars, searchVars>>

----------------------------------------------------------------------------
(* The caller.                                                             *)

(* integration_step sends the solver to a later time.  At a start, the     *)
(* solution ahead is any.                                                  *)
Call(t) ==
    /\ pc = "idle" /\ ret # "failed" /\ t > tretlast
    /\ tout' = t
    /\ pc' = IF stepped THEN "stops" ELSE "first"
    /\ IF stepped \/ ret = "CV_TOO_CLOSE"
       THEN UNCHANGED sig
       ELSE \E s \in Solutions : sig' = StartingAt(tn, s)
    /\ UNCHANGED <<entry, irfnd, stepVars, tretlast, ret, stepEvent, advanced, searchVars>>

(* CVodeReInit, after an event or changed states: another solution begins  *)
(* at the time of the last return.  What gactive says is kept; what is     *)
(* left of the last search is not read again, and forgotten here.          *)
ForgetSearch ==
    /\ tlo' = 0 /\ thi' = 0
    /\ glo' = [i \in G |-> 0] /\ ghi' = [i \in G |-> 0]
    /\ iroots' = [i \in G |-> 0] /\ told' = [i \in G |-> 0]
    /\ looked' = [i \in G |-> 0]

ReInit ==
    /\ pc = "idle" /\ ret # "failed"
    /\ ForgetSearch
    /\ sig' = NotKnown
    /\ tn' = tretlast /\ hu' = 0 /\ h0u' = 0 /\ stepped' = FALSE /\ nstloc' = 0
    /\ irfnd' = FALSE
    /\ ret' = "none"
    /\ UNCHANGED <<pc, tout, tretlast, gactive>>
    /\ entry' = FALSE /\ stepEvent' = FALSE /\ advanced' = FALSE

(* The instance failed, and is set up again from the start. *)
SetUpAgain ==
    /\ pc = "idle" /\ ret = "failed"
    /\ sig' = NotKnown
    /\ tn' = 0 /\ hu' = 0 /\ h0u' = 0 /\ stepped' = FALSE /\ nstloc' = 0 /\ irfnd' = FALSE
    /\ tretlast' = 0 /\ ret' = "none"
    /\ gactive' = [i \in G |-> TRUE]
    /\ entry' = FALSE /\ stepEvent' = FALSE /\ advanced' = FALSE
    /\ ForgetSearch
    /\ UNCHANGED <<pc, tout>>

----------------------------------------------------------------------------
(* The first call.                                                         *)

(* cvRcheck1: is some indicator zero at the start?  Then those that are,   *)
(* and those left out before, are looked at again, a tenth of the step     *)
(* that is about to be attempted later, or ttol if that is more.           *)
LookAhead == \E i \in G : sig[i][tn] = 0

(* Mutant of LooksAhead: all of them are looked at again. *)
LooksAheadAtAll(i) == LookAhead

LooksAhead(i) == LookAhead /\ (sig[i][tn] = 0 \/ ~gactive[i])

LookAt(h) == tn + Greater(Roundoff, h \div Tenth)

(* It is watched if it is no longer zero then; one that is not looked at   *)
(* stays as it was.                                                        *)
Activated(i, h) == IF LooksAhead(i) THEN sig[i][LookAt(h)] # 0 ELSE gactive[i]

(* Where the sign the search begins with is taken. *)
StartsFrom(i, h) == IF LooksAhead(i) /\ sig[i][LookAt(h)] # 0 THEN LookAt(h) ELSE tn

StartSign(i, h) == sig[i][StartsFrom(i, h)]

(* What a caller can count on: the sign at the start of an indicator that  *)
(* is watched and not zero there; of any other, the sign it has once the   *)
(* look ahead is over.                                                     *)
SignKnown(i, h) ==
    IF gactive[i] /\ sig[i][tn] # 0 THEN sig[i][tn] ELSE sig[i][LookAt(h)]

(* cvHin gives no first step that is longer than the way to tout. *)
FirstCall(h) ==
    /\ pc = "first" /\ h <= tout - tn
    /\ h0u' = h
    /\ tlo' = tn
    /\ iroots' = [i \in G |-> 0]
    /\ gactive' = [i \in G |-> Activated(i, h)]
    /\ glo' = [i \in G |-> StartSign(i, h)]
    /\ told' = [i \in G |-> SignKnown(i, h)]
    /\ looked' = [i \in G |-> StartsFrom(i, h)]
    /\ tretlast' = tn
    /\ nstloc' = 0
    /\ pc' = "loop" /\ entry' = FALSE
    /\ UNCHANGED <<sig, irfnd, stepped, tn, hu, tout, ret, stepEvent, advanced, thi, ghi>>

(* The first evaluation fails, or no initial step size is found, which the *)
(* caller makes up for when the reason is that tout is too close.          *)
FirstCallFails ==
    /\ pc = "first"
    /\ \E flag \in {"failed", "CV_TOO_CLOSE"} : Return(flag, tn)
    /\ stepEvent' = FALSE
    /\ UNCHANGED <<entry, irfnd, stepVars, searchVars>>

----------------------------------------------------------------------------
(* The search for a root in (tlo, thi].                                    *)

Crossed(hi) == {i \in G : gactive[i] /\ glo[i] * hi[i] < 0}
Zeros(hi)   == {i \in G : gactive[i] /\ hi[i] = 0}

(* Mutant of Roots: an indicator that is zero at the end is no root. *)
RootsThrough(hi) == Crossed(hi)

Roots(hi) == Crossed(hi) \cup Zeros(hi)

(* Mutants of SearchEnd: to the internal time, and to tout. *)
SearchEndInternal(to) == to
SearchEndAsked(to)    == tout

(* cvRcheck3 searches up to the internal time or tout, whichever is first. *)
SearchEnd(to) == Lesser(to, tout)

BeginSearch(to) ==
    /\ thi' = SearchEnd(to)
    /\ ghi' = At(thi')
    /\ pc' = "search"
    /\ UNCHANGED <<sig, tlo, glo, gactive>>

(* Mutant of Converged: the tolerance is doubled. *)
ConvergedEarly == Crossed(ghi) = {} \/ thi - tlo <= 2 * Roundoff

Converged == Crossed(ghi) = {} \/ thi - tlo <= Roundoff

(* cvRootfind narrows the interval around the first sign change; the       *)
(* secant takes any point inside.                                          *)
Narrow(mid) ==
    /\ pc = "search" /\ ~Converged
    /\ tlo < mid /\ mid < thi
    /\ IF Roots(At(mid)) # {}
       THEN thi' = mid /\ ghi' = At(mid) /\ UNCHANGED <<tlo, glo, looked>>
       ELSE tlo' = mid /\ glo' = At(mid) /\ looked' = [i \in G |-> mid] /\ UNCHANGED <<thi, ghi>>
    /\ UNCHANGED <<sig, pc, entry, irfnd, stepVars, callVars, gactive, iroots, told>>

(* The end of cvRootfind and of cvRcheck3. *)
Located ==
    /\ pc = "search" /\ Converged
    /\ tlo' = thi /\ glo' = ghi
    /\ gactive' = [i \in G |-> gactive[i] \/ ghi[i] # 0]
    /\ told' = [i \in G |-> IF i \in Roots(ghi) \/ ~gactive[i] THEN ghi[i] ELSE told[i]]
    /\ IF Roots(ghi) # {}
       THEN /\ iroots' = [i \in G |-> IF i \notin Roots(ghi) THEN 0 ELSE IF glo[i] > 0 THEN -1 ELSE 1]
            /\ irfnd' = TRUE
            /\ stepEvent' = FALSE
            /\ Return("CV_ROOT_RETURN", thi)
            /\ UNCHANGED looked
       ELSE /\ irfnd' = (irfnd /\ ~entry)
            /\ pc' = "searched"
            /\ looked' = [i \in G |-> thi]
            /\ UNCHANGED <<sig, callVars, iroots>>
    /\ UNCHANGED <<entry, stepVars, thi, ghi>>

----------------------------------------------------------------------------
(* Stop tests at the entry of a later call.                                *)

(* cvRcheck2, after a root was returned: indicators that are zero there,   *)
(* and what they are a moment later.                                       *)
ZerosLeft == IF irfnd THEN {i \in G : gactive[i] /\ sig[i][tlo] = 0} ELSE {}

CloseZeros == IF ZerosLeft = {} THEN {} ELSE {i \in G : gactive[i] /\ sig[i][tlo + Roundoff] = 0}

(* One is still zero: a close pair of roots, an error. *)
CloseRoots ==
    /\ pc = "stops" /\ CloseZeros \cap ZerosLeft # {}
    /\ Return("failed", tretlast)
    /\ stepEvent' = FALSE
    /\ UNCHANGED <<entry, irfnd, stepVars, searchVars>>

(* Another one becomes zero: a root, returned for where the last one was.  *)
NextRoot ==
    /\ pc = "stops" /\ CloseZeros # {} /\ CloseZeros \cap ZerosLeft = {}
    /\ iroots' = [i \in G |-> IF i \in ZerosLeft \cup CloseZeros THEN 1 ELSE 0]
    /\ glo' = [i \in G |-> sig[i][tlo + (IF i \in ZerosLeft THEN Roundoff ELSE 0)]]
    /\ ghi' = At(tlo + Roundoff)
    /\ told' = [i \in G |-> IF i \in ZerosLeft THEN glo'[i] ELSE told[i]]
    /\ looked' = [i \in G |-> tlo]
    /\ stepEvent' = FALSE
    /\ Return("CV_ROOT_RETURN", tlo)
    /\ UNCHANGED <<entry, irfnd, stepVars, tlo, thi, gactive>>

(* The sign the search goes on from, and where it is taken. *)
GoesOnFrom(i) == tlo + (IF i \in ZerosLeft THEN Roundoff ELSE 0)

SignAfterRoot(i) == IF irfnd THEN sig[i][GoesOnFrom(i)] ELSE glo[i]

(* Is there a part of the last step left to search? *)
Unsearched == tn - tretlast > Roundoff

StopTests ==
    /\ pc = "stops" /\ CloseZeros = {}
    /\ iroots' = [i \in G |-> IF irfnd THEN (IF i \in ZerosLeft THEN 1 ELSE 0) ELSE iroots[i]]
    /\ glo' = [i \in G |-> SignAfterRoot(i)]
    /\ looked' = [i \in G |-> IF irfnd THEN GoesOnFrom(i) ELSE looked[i]]
    /\ told' = [i \in G |-> IF i \in ZerosLeft THEN glo'[i] ELSE told[i]]
    /\ nstloc' = 0
    /\ entry' = TRUE
    /\ IF Unsearched
       THEN thi' = SearchEnd(tn) /\ ghi' = At(thi') /\ pc' = "search"
       ELSE /\ pc' = "searched"
            /\ UNCHANGED <<thi, ghi>>
    /\ UNCHANGED <<sig, irfnd, stepped, tn, hu, h0u, callVars, tlo, gactive>>

----------------------------------------------------------------------------
(* The loop.                                                               *)

(* Mutant of StepsTaken: a step is not counted. *)
StepsTakenBefore == nstloc

StepsTaken == nstloc + 1

(* Mutant of OutOfSteps: one step more. *)
OutOfStepsLate == nstloc > MaxSteps

OutOfSteps == nstloc >= MaxSteps

(* cvStep; the search for a root in it begins.  Attempts that fail make    *)
(* the first step shorter, also than the look ahead was.                   *)
Step(h) ==
    /\ pc = "loop" /\ ~OutOfSteps
    /\ tn + h \in Times
    /\ ~stepped => h <= h0u
    /\ tn' = tn + h /\ hu' = h
    /\ stepped' = TRUE /\ nstloc' = StepsTaken
    /\ entry' = FALSE
    /\ BeginSearch(tn + h)
    /\ UNCHANGED <<irfnd, h0u, callVars, iroots, told, looked>>

(* The weights or the tolerances cannot be met, or the step fails. *)
StepFails ==
    /\ pc = "loop"
    /\ Return("failed", tn)
    /\ stepEvent' = FALSE
    /\ UNCHANGED <<entry, irfnd, stepVars, searchVars>>

TooMuchWork ==
    /\ pc = "loop" /\ OutOfSteps
    /\ Return("CV_TOO_MUCH_WORK", tn)
    /\ stepEvent' = FALSE
    /\ UNCHANGED <<entry, irfnd, stepVars, searchVars>>

(* stepgfun reports a step event, at the end of the step or at tout. *)
StepEvent ==
    /\ pc = "searched" /\ ~entry
    /\ irfnd' = TRUE /\ stepEvent' = TRUE
    /\ thi' = SearchEnd(tn)
    /\ Return("CV_ROOT_RETURN", thi')
    /\ UNCHANGED <<entry, stepVars, tlo, glo, ghi, gactive, iroots, told, looked>>

Arrived ==
    /\ pc = "searched" /\ tn >= tout
    /\ Return("CV_SUCCESS", tout)
    /\ stepEvent' = FALSE
    /\ UNCHANGED <<entry, irfnd, stepVars, searchVars>>

GoOn ==
    /\ pc = "searched" /\ tn < tout
    /\ pc' = "loop"
    /\ UNCHANGED <<sig, entry, irfnd, stepVars, callVars, searchVars>>

----------------------------------------------------------------------------
Inside ==
    \/ RootFunctionFails \/ (\E h \in FirstSizes : FirstCall(h)) \/ FirstCallFails
    \/ CloseRoots \/ NextRoot \/ StopTests
    \/ (\E mid \in Times : Narrow(mid)) \/ Located
    \/ (\E h \in StepSizes : Step(h)) \/ StepFails \/ TooMuchWork
    \/ StepEvent \/ Arrived \/ GoOn

Outside == (\E t \in Times : Call(t)) \/ ReInit \/ SetUpAgain

Next == Inside \/ Outside

Spec == Init /\ [][Next]_vars

(* A call that was made runs on: CVode is one function that is not         *)
(* interrupted, and the evaluations and steps it asks for return.          *)
FairSpec == Spec /\ WF_vars(Inside)

----------------------------------------------------------------------------
(* Properties.                                                             *)

(* The documented precondition of cvRootfind: none of the indicators that  *)
(* are watched is zero where the search begins.  It takes cvRcheck1 and    *)
(* cvRcheck2 to make it so at a start and after a root.                    *)
StartsNonzero == pc = "search" => \A i \in G : gactive[i] => glo[i] # 0

(* What the search goes on from is the sign the caller was last told of,   *)
(* and the one the indicator really had when the search last looked: no    *)
(* change of sign of an indicator that is watched is passed by without a   *)
(* root return that names it.  The search last looked where it stands or,  *)
(* to leave a zero, a roundoff later.  Only between a start at which some  *)
(* indicator is zero and the end of the look ahead are changes passed by.  *)
NoneMissed ==
    pc \in {"loop", "searched"} =>
        \A i \in G : gactive[i] =>
            /\ glo[i] = told[i] /\ told[i] = sig[i][looked[i]]
            /\ \/ looked[i] - tlo \in 0 .. Roundoff
               \/ ~stepped /\ LookAhead /\ looked[i] = LookAt(h0u)

(* When CVode returns, everything before that time has been searched, but  *)
(* for a rest within the roundoff.                                         *)
SearchedToReturn ==
    pc = "idle" /\ ret \in {"CV_SUCCESS", "CV_ROOT_RETURN"} => tretlast - tlo \in 0 .. Roundoff

(* A root return names an indicator that is watched and, within the        *)
(* tolerance of the time returned, is zero or changes its sign.  Or its    *)
(* sign was compared with that of the look ahead, and the first step, made *)
(* shorter by failures, or another root in it, ends before that: a change  *)
(* that is yet to come, and then undone, is returned.                      *)
RootIsThere ==
    pc = "idle" /\ ret = "CV_ROOT_RETURN" /\ ~stepEvent =>
        \E i \in G :
            /\ iroots[i] # 0 /\ gactive[i]
            /\ \/ looked[i] > tretlast
               \/ \E t \in Points, u \in Points :
                     /\ tretlast - Roundoff <= t /\ t <= u /\ u <= tretlast + Roundoff
                     /\ sig[i][t] * sig[i][u] <= 0

(* The parts of the search agree, and nothing is missed between them. *)
NothingMissed == StartsNonzero /\ NoneMissed /\ SearchedToReturn

(* The solution is interpolated only inside the last step, but for the     *)
(* roundoff CVodeGetDky allows: the searches and returns ignore its        *)
(* answer, and would go on with what an earlier call left in y.            *)
InterpolatesInside ==
    LET Inner(t) == tn - hu - Roundoff <= t /\ t <= tn
    IN  /\ pc = "search" => Inner(tlo) /\ Inner(thi)
        /\ pc = "stops" /\ irfnd => Inner(tlo)
        /\ pc = "searched" /\ tn >= tout => Inner(tout)

(* A root is found past the time of the last return, so that the loop of   *)
(* integration_step gets on, except for a root next to the last one, where *)
(* steps are no longer than the roundoff, and for one in the rest that was *)
(* left unsearched before the last return, at the beginning of the step.   *)
RootAdvances ==
    pc = "idle" /\ ret = "CV_ROOT_RETURN" =>
        advanced \/ CloseZeros # {} \/ hu <= Roundoff \/ tretlast = tn - hu

(* A root return is of a root, and gets the caller on. *)
RootReturned == RootIsThere /\ RootAdvances

(* Every call is answered: the search converges, and steps, however short, *)
(* are limited.                                                            *)
Answered == pc # "idle" ~> pc = "idle"

(* The solver keeps to what integration_step expects of it. *)
Outwardly == INSTANCE SolverContract WITH
    reached <- tretlast, target <- tout, working <- pc # "idle",
    answer <- CASE ret = "CV_SUCCESS" -> "arrived"
                [] ret = "CV_ROOT_RETURN" -> "event"
                [] ret = "CV_TOO_MUCH_WORK" -> "exhausted"
                [] ret = "CV_TOO_CLOSE" -> "exhausted"
                [] OTHER -> ret

KeepsContract == Outwardly!Contract
=============================================================================
