------------------------- MODULE CVodeDriver_proofs -------------------------
(***************************************************************************)
(* Proofs about CVodeDriver, for any number of indicators, any solutions   *)
(* and any steps: what the search for roots covers, and what the caller is *)
(* told of it.                                                             *)
(***************************************************************************)
EXTENDS CVodeDriver, TLAPS

Answers == {"none", "CV_SUCCESS", "CV_ROOT_RETURN", "CV_TOO_MUCH_WORK", "CV_TOO_CLOSE", "failed"}

(* Between two calls after the first step, and where a search is under way *)
(* or is about to begin.                                                   *)
Settled   == stepped /\ pc \in {"idle", "stops"} /\ ret # "failed"
Searching == pc \in {"loop", "search", "searched"}

(* Which parts of the state go together. *)
Phases ==
    /\ pc # "idle" => ret # "failed"
    /\ pc \in {"stops", "search", "searched"} => stepped
    /\ ~stepped => ~irfnd /\ hu = 0 /\ pc \in {"idle", "first", "loop"}
    /\ ~stepped /\ ret # "failed" => tn = tretlast
    /\ pc = "first" => ~stepped
    /\ pc = "loop" /\ ~stepped => nstloc = 0
    /\ pc = "idle" /\ ret = "CV_TOO_CLOSE" => ~stepped
    /\ pc # "idle" => tretlast < tout
    /\ pc = "idle" /\ ret \in {"CV_SUCCESS", "CV_ROOT_RETURN"} => stepped

(* Where the search stands between two calls: at the time of the last      *)
(* return, or a roundoff before it, when that was the internal time.       *)
AtRest ==
    Settled =>
        /\ tlo <= tretlast /\ tretlast <= tn /\ tn <= tlo + hu + 1
        /\ tretlast = tlo \/ (tretlast = tlo + 1 /\ tn = tretlast)

(* Before a step, all but a roundoff has been searched. *)
BeforeStep ==
    pc = "loop" =>
        /\ tretlast <= tn /\ tn < tout
        /\ tlo <= tn /\ tn <= tlo + 1
        /\ nstloc > 0 => tlo = tn

(* A search covers what of the step the caller asked for, or ends at roots *)
(* it has found.                                                           *)
InSearch ==
    pc = "search" =>
        /\ tlo <= thi /\ thi <= tn /\ thi <= tout /\ tretlast <= thi
        /\ tn <= tlo + hu + 1
        /\ thi = Lesser(tn, tout) \/ Roots(ghi) # {}
        /\ entry => tretlast <= tlo /\ tlo < thi /\ nstloc = 0
        /\ ~entry => tretlast <= tn - hu /\ tn - hu < tout /\ (tlo < thi \/ hu = 0)

(* After a search, all that was asked for has been searched, but for what  *)
(* the stop tests leave out.                                               *)
AfterSearch ==
    pc = "searched" =>
        /\ tretlast <= tn /\ tlo <= tn /\ tn <= tlo + hu + 1
        /\ ~entry => tlo = Lesser(tn, tout) /\ tretlast <= tn - hu /\ tn - hu < tout
        /\ entry /\ tn >= tout => tlo = tout \/ (tn = tout /\ tlo + 1 = tout)
        /\ entry /\ tn < tout => tn <= tlo + 1
        /\ entry => nstloc = 0

Positions == AtRest /\ BeforeStep /\ InSearch /\ AfterSearch

(* The search goes on from signs that are not zero, are those the caller   *)
(* knows, and are of the place where it stands or of a later one, *)
Known(i) ==
    gactive[i] =>
        /\ glo[i] # 0 /\ glo[i] = told[i] /\ glo[i] = sig[i][looked[i]]
        /\ tlo <= looked[i]

(* which is no more than a roundoff later, *)
Near(i) == gactive[i] => looked[i] <= tlo + 1

(* but where the first step has not been taken after a look ahead. *)
Ahead(i) == gactive[i] => looked[i] = tlo \/ (LookAhead /\ looked[i] = LookAt(h0u))

(* Where it stands, the caller knows the sign that is there, if any. *)
Told(i) == gactive[i] /\ sig[i][tlo] # 0 => told[i] = sig[i][tlo]

Signs ==
    /\ Searching \/ (Settled /\ ~irfnd) => \A i \in G : Known(i)
    /\ Settled /\ irfnd => \A i \in G : Told(i)
    /\ pc = "searched" /\ (irfnd \/ ~entry) => \A i \in G : Told(i)
    /\ pc = "loop" /\ irfnd => \A i \in G : Told(i)
    /\ pc = "search" => \A i \in G : ghi[i] = sig[i][thi]
    /\ pc = "searched" \/ (pc = "loop" /\ stepped) \/ (Settled /\ ~irfnd) => \A i \in G : Near(i)
    /\ pc = "loop" /\ ~stepped => \A i \in G : Ahead(i)

IInv == TypeOK /\ Phases /\ Positions /\ Signs

(* The types in four parts. *)
Flags ==
    /\ entry \in BOOLEAN /\ stepped \in BOOLEAN /\ irfnd \in BOOLEAN
    /\ stepEvent \in BOOLEAN /\ advanced \in BOOLEAN

Numbers ==
    /\ pc \in {"idle", "first", "stops", "loop", "search", "searched"}
    /\ nstloc \in 0 .. MaxSteps
    /\ tn \in Times /\ hu \in {0} \cup StepSizes /\ h0u \in {0} \cup FirstSizes
    /\ tout \in Times /\ tretlast \in Times /\ tlo \in Times /\ thi \in Times
    /\ ret \in Answers

Curved == sig \in [G -> [Points -> Sign]]

Marks ==
    /\ glo \in [G -> Sign] /\ ghi \in [G -> Sign] /\ told \in [G -> Sign]
    /\ gactive \in [G -> BOOLEAN]
    /\ iroots \in [G -> Sign]
    /\ looked \in [G -> Points]

(* The types are the four parts together, *)
LEMMA TypeParts == TypeOK <=> Flags /\ Numbers /\ Curved /\ Marks
BY DEF TypeOK, Flags, Numbers, Curved, Marks, Answers

(* also after a step. *)
LEMMA TypePartsNext == TypeOK' <=> Flags' /\ Numbers' /\ Curved' /\ Marks'
BY DEF TypeOK, Flags, Numbers, Curved, Marks, Answers

USE DriverAssumption DEF Times, Points, Sign, Roundoff

(* Signs that do not differ by a crossing are the same. *)
LEMMA SameSign ==
    ASSUME NEW a \in Sign, NEW b \in Sign, a # 0, b # 0, ~(a * b < 0)
    PROVE  a = b
<1>1. CASE a = 1
  BY <1>1
<1>2. CASE a = -1
  BY <1>2
<1>. QED  BY <1>1, <1>2

(* A search begins from signs that are known. *)
LEMMA FromKnown ==
    ASSUME TypeOK, Signs, Searching, NEW i \in G, gactive[i]
    PROVE  /\ glo[i] \in Sign /\ glo[i] # 0 /\ glo[i] = told[i] /\ glo[i] = sig[i][looked[i]]
           /\ looked[i] \in Points /\ tlo <= looked[i]
BY DEF TypeOK, Signs, Known

(* A fraction of a length is no longer, *)
LEMMA Fraction == ASSUME NEW h \in Nat PROVE h \div Tenth \in 0 .. h
<1>1. h \div Tenth \in Int /\ Tenth * (h \div Tenth) <= h /\ h < Tenth * (h \div Tenth) + Tenth
  OBVIOUS
<1>. DEFINE q == h \div Tenth
<1>. HIDE DEF q
<1>2. q \in Int /\ Tenth * q <= h /\ h < Tenth * q + Tenth
  BY <1>1 DEF q
<1>3. q >= 0
  BY <1>2
<1>4. q <= Tenth * q
  BY <1>2, <1>3
<1>. QED  BY <1>2, <1>3, <1>4 DEF q

(* and the look ahead does not pass tout. *)
LEMMA LookIsInside ==
    ASSUME NEW h \in FirstSizes, tn \in Times, tout \in Times, tn < tout, h <= tout - tn
    PROVE  LookAt(h) \in Points /\ tn < LookAt(h) /\ LookAt(h) <= tout
<1>1. h \in Nat /\ h \div Tenth \in 0 .. h
  BY Fraction
<1>. QED  BY <1>1 DEF LookAt, Greater

(* The inductive invariant holds at the start, *)
LEMMA InitSound == Init => IInv
<1>. SUFFICES ASSUME Init PROVE IInv
  OBVIOUS
<1>1. TypeOK
  <2>1. sig \in [G -> [Points -> Sign]]
    BY DEF Init, NotKnown
  <2>2. Times # {} /\ 0 \in Times
    OBVIOUS
  <2>3. glo \in [G -> Sign] /\ ghi \in [G -> Sign] /\ told \in [G -> Sign]
        /\ gactive \in [G -> BOOLEAN] /\ iroots \in [G -> Sign] /\ looked \in [G -> Points]
    BY DEF Init
  <2>4. pc = "idle" /\ ret = "none" /\ entry \in BOOLEAN /\ stepped \in BOOLEAN /\ irfnd \in BOOLEAN
        /\ stepEvent \in BOOLEAN /\ advanced \in BOOLEAN
    BY DEF Init
  <2>5. nstloc = 0 /\ tn = 0 /\ hu = 0 /\ h0u = 0 /\ tout = 0 /\ tretlast = 0 /\ tlo = 0 /\ thi = 0
    BY DEF Init
  <2>. QED  BY <2>1, <2>2, <2>3, <2>4, <2>5 DEF TypeOK
<1>2. Phases
  BY DEF Init, Phases
<1>3. Positions
  BY DEF Init, Positions, AtRest, BeforeStep, InSearch, AfterSearch, Settled
<1>4. Signs
  BY DEF Init, Signs, Settled, Searching
<1>. QED  BY <1>1, <1>2, <1>3, <1>4 DEF IInv

(* A step keeps together the parts of the state that go together. *)
LEMMA PhasesStep == IInv /\ [Next]_vars => Phases'
<1>. SUFFICES ASSUME IInv, [Next]_vars PROVE Phases'
  OBVIOUS
<1>. USE DEF IInv, TypeOK, Phases, searchVars, stepVars, callVars
<1>1. CASE RootFunctionFails
  BY <1>1 DEF RootFunctionFails, Return
<1>2. CASE \E h \in FirstSizes : FirstCall(h)
  BY <1>2 DEF FirstCall
<1>3. CASE FirstCallFails
  BY <1>3 DEF FirstCallFails, Return
<1>4. CASE CloseRoots
  BY <1>4 DEF CloseRoots, Return
<1>5. CASE NextRoot
  BY <1>5 DEF NextRoot, Return, ZerosLeft
<1>6. CASE StopTests
  BY <1>6 DEF StopTests
<1>7. CASE \E mid \in Times : Narrow(mid)
  BY <1>7 DEF Narrow
<1>8. CASE Located
  BY <1>8 DEF Located, Return
<1>9. CASE \E h \in StepSizes : Step(h)
  <2>1. PICK h \in StepSizes : Step(h)
    BY <1>9
  <2>. QED  BY <2>1 DEF Step, BeginSearch
<1>10. CASE StepFails
  BY <1>10 DEF StepFails, Return
<1>11. CASE TooMuchWork
  BY <1>11 DEF TooMuchWork, Return, OutOfSteps
<1>12. CASE StepEvent
  BY <1>12 DEF StepEvent, Return, SearchEnd
<1>13. CASE Arrived
  BY <1>13 DEF Arrived, Return
<1>14. CASE GoOn
  BY <1>14 DEF GoOn
<1>15. CASE \E t \in Times : Call(t)
  BY <1>15 DEF Call
<1>16. CASE ReInit
  BY <1>16 DEF ReInit, ForgetSearch
<1>17. CASE SetUpAgain
  BY <1>17 DEF SetUpAgain, ForgetSearch
<1>18. CASE UNCHANGED vars
  BY <1>18 DEF vars
<1>. QED  BY <1>1, <1>2, <1>3, <1>4, <1>5, <1>6, <1>7, <1>8, <1>9, <1>10, <1>11, <1>12, <1>13, <1>14, <1>15, <1>16, <1>17, <1>18 DEF Next, Inside, Outside

(* Every step leaves the search at rest where the last return was. *)
LEMMA AtRestStep == IInv /\ [Next]_vars => AtRest'
<1>. SUFFICES ASSUME IInv, [Next]_vars PROVE AtRest'
  OBVIOUS
<1>. USE DEF IInv, TypeOK, Phases, Positions, AtRest, BeforeStep, InSearch, AfterSearch, Settled, searchVars, stepVars, callVars
<1>1. CASE RootFunctionFails
  BY <1>1 DEF RootFunctionFails, Return
<1>2. CASE \E h \in FirstSizes : FirstCall(h)
  BY <1>2 DEF FirstCall
<1>3. CASE FirstCallFails
  BY <1>3 DEF FirstCallFails, Return
<1>4. CASE CloseRoots
  BY <1>4 DEF CloseRoots, Return
<1>5. CASE NextRoot
  BY <1>5 DEF NextRoot, Return, ZerosLeft
<1>6. CASE StopTests
  BY <1>6 DEF StopTests, Unsearched, SearchEnd, Lesser
<1>7. CASE \E mid \in Times : Narrow(mid)
  BY <1>7 DEF Narrow, Lesser
<1>8. CASE Located
  BY <1>8 DEF Located, Return, Lesser
<1>9. CASE \E h \in StepSizes : Step(h)
  BY <1>9 DEF Step, BeginSearch, StepsTaken, OutOfSteps, SearchEnd, Lesser
<1>10. CASE StepFails
  BY <1>10 DEF StepFails, Return
<1>11. CASE TooMuchWork
  BY <1>11 DEF TooMuchWork, Return, OutOfSteps
<1>12. CASE StepEvent
  BY <1>12 DEF StepEvent, Return, SearchEnd, Lesser
<1>13. CASE Arrived
  BY <1>13 DEF Arrived, Return, Lesser
<1>14. CASE GoOn
  BY <1>14 DEF GoOn, Lesser
<1>15. CASE \E t \in Times : Call(t)
  BY <1>15 DEF Call
<1>16. CASE ReInit
  BY <1>16 DEF ReInit, ForgetSearch
<1>17. CASE SetUpAgain
  BY <1>17 DEF SetUpAgain, ForgetSearch
<1>18. CASE UNCHANGED vars
  BY <1>18 DEF vars, Lesser, Roots, Crossed, Zeros
<1>. QED  BY <1>1, <1>2, <1>3, <1>4, <1>5, <1>6, <1>7, <1>8, <1>9, <1>10, <1>11, <1>12, <1>13, <1>14, <1>15, <1>16, <1>17, <1>18 DEF Next, Inside, Outside

(* Every step leads to the next one with all but a roundoff searched. *)
LEMMA BeforeStepStep == IInv /\ [Next]_vars => BeforeStep'
<1>. SUFFICES ASSUME IInv, [Next]_vars PROVE BeforeStep'
  OBVIOUS
<1>. USE DEF IInv, TypeOK, Phases, Positions, AtRest, BeforeStep, InSearch, AfterSearch, Settled, searchVars, stepVars, callVars
<1>1. CASE RootFunctionFails
  BY <1>1 DEF RootFunctionFails, Return
<1>2. CASE \E h \in FirstSizes : FirstCall(h)
  BY <1>2 DEF FirstCall
<1>3. CASE FirstCallFails
  BY <1>3 DEF FirstCallFails, Return
<1>4. CASE CloseRoots
  BY <1>4 DEF CloseRoots, Return
<1>5. CASE NextRoot
  BY <1>5 DEF NextRoot, Return, ZerosLeft
<1>6. CASE StopTests
  BY <1>6 DEF StopTests, Unsearched, SearchEnd, Lesser
<1>7. CASE \E mid \in Times : Narrow(mid)
  BY <1>7 DEF Narrow, Lesser
<1>8. CASE Located
  BY <1>8 DEF Located, Return, Lesser
<1>9. CASE \E h \in StepSizes : Step(h)
  BY <1>9 DEF Step, BeginSearch, StepsTaken, OutOfSteps, SearchEnd, Lesser
<1>10. CASE StepFails
  BY <1>10 DEF StepFails, Return
<1>11. CASE TooMuchWork
  BY <1>11 DEF TooMuchWork, Return, OutOfSteps
<1>12. CASE StepEvent
  BY <1>12 DEF StepEvent, Return, SearchEnd, Lesser
<1>13. CASE Arrived
  BY <1>13 DEF Arrived, Return, Lesser
<1>14. CASE GoOn
  BY <1>14 DEF GoOn, Lesser
<1>15. CASE \E t \in Times : Call(t)
  BY <1>15 DEF Call
<1>16. CASE ReInit
  BY <1>16 DEF ReInit, ForgetSearch
<1>17. CASE SetUpAgain
  BY <1>17 DEF SetUpAgain, ForgetSearch
<1>18. CASE UNCHANGED vars
  BY <1>18 DEF vars, Lesser, Roots, Crossed, Zeros
<1>. QED  BY <1>1, <1>2, <1>3, <1>4, <1>5, <1>6, <1>7, <1>8, <1>9, <1>10, <1>11, <1>12, <1>13, <1>14, <1>15, <1>16, <1>17, <1>18 DEF Next, Inside, Outside

(* A search begins, and is narrowed, within the last step. *)
LEMMA InSearchStep == IInv /\ [Next]_vars => InSearch'
<1>. SUFFICES ASSUME IInv, [Next]_vars PROVE InSearch'
  OBVIOUS
<1>. USE DEF IInv, TypeOK, Phases, Positions, AtRest, BeforeStep, InSearch, AfterSearch, Settled, searchVars, stepVars, callVars
<1>1. CASE RootFunctionFails
  BY <1>1 DEF RootFunctionFails, Return
<1>2. CASE \E h \in FirstSizes : FirstCall(h)
  BY <1>2 DEF FirstCall
<1>3. CASE FirstCallFails
  BY <1>3 DEF FirstCallFails, Return
<1>4. CASE CloseRoots
  BY <1>4 DEF CloseRoots, Return
<1>5. CASE NextRoot
  BY <1>5 DEF NextRoot, Return, ZerosLeft
<1>6. CASE StopTests
  BY <1>6 DEF StopTests, Unsearched, SearchEnd, Lesser
<1>7. CASE \E mid \in Times : Narrow(mid)
  <2>1. PICK mid \in Times : Narrow(mid)
    BY <1>7
  <2>2. pc = "search" /\ pc' = "search" /\ tlo < mid /\ mid < thi /\ Crossed(ghi) # {}
        /\ UNCHANGED <<entry, tn, hu, tout, tretlast, gactive, sig, nstloc>>
    BY <2>1 DEF Narrow, Converged
  <2>3. CASE Roots(At(mid)) # {}
    <3>1. thi' = mid /\ tlo' = tlo /\ glo' = glo /\ ghi' = At(mid)
      BY <2>1, <2>3 DEF Narrow
    <3>2. (Roots(ghi))' # {}
      BY <2>2, <2>3, <3>1 DEF Roots, Crossed, Zeros
    <3>. QED  BY <2>2, <3>1, <3>2
  <2>4. CASE Roots(At(mid)) = {}
    <3>1. thi' = thi /\ tlo' = mid /\ glo' = At(mid) /\ ghi' = ghi
      BY <2>1, <2>4 DEF Narrow
    <3>2. PICK i \in G : gactive[i] /\ glo[i] * ghi[i] < 0
      BY <2>2 DEF Crossed
    <3>3. gactive[i] = TRUE
      BY <3>2
    <3>4. At(mid)[i] # 0 /\ ~(glo[i] * At(mid)[i] < 0)
      BY <2>4, <3>2 DEF Roots, Crossed, Zeros
    <3>5. glo[i] \in Sign /\ At(mid)[i] \in Sign /\ glo[i] # 0
      BY <2>1, <2>2, <3>2, FromKnown DEF At, Searching
    <3>6. At(mid)[i] = glo[i]
      BY <3>4, <3>5, SameSign
    <3>7. (Roots(ghi))' # {}
      BY <2>2, <3>1, <3>2, <3>6 DEF Roots, Crossed
    <3>. QED  BY <2>2, <3>1, <3>7
  <2>. QED  BY <2>3, <2>4
<1>8. CASE Located
  BY <1>8 DEF Located, Return, Lesser
<1>9. CASE \E h \in StepSizes : Step(h)
  BY <1>9 DEF Step, BeginSearch, StepsTaken, OutOfSteps, SearchEnd, Lesser
<1>10. CASE StepFails
  BY <1>10 DEF StepFails, Return
<1>11. CASE TooMuchWork
  BY <1>11 DEF TooMuchWork, Return, OutOfSteps
<1>12. CASE StepEvent
  BY <1>12 DEF StepEvent, Return, SearchEnd, Lesser
<1>13. CASE Arrived
  BY <1>13 DEF Arrived, Return, Lesser
<1>14. CASE GoOn
  BY <1>14 DEF GoOn, Lesser
<1>15. CASE \E t \in Times : Call(t)
  BY <1>15 DEF Call
<1>16. CASE ReInit
  BY <1>16 DEF ReInit, ForgetSearch
<1>17. CASE SetUpAgain
  BY <1>17 DEF SetUpAgain, ForgetSearch
<1>18. CASE UNCHANGED vars
  BY <1>18 DEF vars, Lesser, Roots, Crossed, Zeros
<1>. QED  BY <1>1, <1>2, <1>3, <1>4, <1>5, <1>6, <1>7, <1>8, <1>9, <1>10, <1>11, <1>12, <1>13, <1>14, <1>15, <1>16, <1>17, <1>18 DEF Next, Inside, Outside

(* A search that finds nothing has covered what it was begun for. *)
LEMMA AfterSearchStep == IInv /\ [Next]_vars => AfterSearch'
<1>. SUFFICES ASSUME IInv, [Next]_vars PROVE AfterSearch'
  OBVIOUS
<1>. USE DEF IInv, TypeOK, Phases, Positions, AtRest, BeforeStep, InSearch, AfterSearch, Settled, searchVars, stepVars, callVars
<1>1. CASE RootFunctionFails
  BY <1>1 DEF RootFunctionFails, Return
<1>2. CASE \E h \in FirstSizes : FirstCall(h)
  BY <1>2 DEF FirstCall
<1>3. CASE FirstCallFails
  BY <1>3 DEF FirstCallFails, Return
<1>4. CASE CloseRoots
  BY <1>4 DEF CloseRoots, Return
<1>5. CASE NextRoot
  BY <1>5 DEF NextRoot, Return, ZerosLeft
<1>6. CASE StopTests
  BY <1>6 DEF StopTests, Unsearched, SearchEnd, Lesser
<1>7. CASE \E mid \in Times : Narrow(mid)
  BY <1>7 DEF Narrow, Lesser
<1>8. CASE Located
  BY <1>8 DEF Located, Return, Lesser
<1>9. CASE \E h \in StepSizes : Step(h)
  BY <1>9 DEF Step, BeginSearch, StepsTaken, OutOfSteps, SearchEnd, Lesser
<1>10. CASE StepFails
  BY <1>10 DEF StepFails, Return
<1>11. CASE TooMuchWork
  BY <1>11 DEF TooMuchWork, Return, OutOfSteps
<1>12. CASE StepEvent
  BY <1>12 DEF StepEvent, Return, SearchEnd, Lesser
<1>13. CASE Arrived
  BY <1>13 DEF Arrived, Return, Lesser
<1>14. CASE GoOn
  BY <1>14 DEF GoOn, Lesser
<1>15. CASE \E t \in Times : Call(t)
  BY <1>15 DEF Call
<1>16. CASE ReInit
  BY <1>16 DEF ReInit, ForgetSearch
<1>17. CASE SetUpAgain
  BY <1>17 DEF SetUpAgain, ForgetSearch
<1>18. CASE UNCHANGED vars
  BY <1>18 DEF vars, Lesser, Roots, Crossed, Zeros
<1>. QED  BY <1>1, <1>2, <1>3, <1>4, <1>5, <1>6, <1>7, <1>8, <1>9, <1>10, <1>11, <1>12, <1>13, <1>14, <1>15, <1>16, <1>17, <1>18 DEF Next, Inside, Outside

(* What the signs are said to be does not change with the rest. *)
LEMMA SignsSame == UNCHANGED vars => UNCHANGED Signs
BY DEF vars, searchVars, stepVars, callVars, Signs, Known, Near, Ahead, Told, Settled, Searching, LookAhead, LookAt

(* The signs the search goes on from stay those the caller knows. *)
LEMMA SignsStep == IInv /\ [Next]_vars => Signs'
<1>. SUFFICES ASSUME IInv, [Next]_vars PROVE Signs'
  OBVIOUS
<1>. USE DEF IInv, TypeOK, Phases, Signs, Known, Near, Ahead, Told, Settled, Searching, searchVars, stepVars, callVars
<1>1. CASE RootFunctionFails
  BY <1>1 DEF RootFunctionFails, Return
<1>2. CASE \E h \in FirstSizes : FirstCall(h)
  <2>1. PICK h \in FirstSizes : FirstCall(h)
    BY <1>2
  <2>2. /\ tlo' = tn /\ tn' = tn /\ sig' = sig /\ pc' = "loop" /\ ~stepped' /\ ~irfnd' /\ h0u' = h
        /\ gactive' = [i \in G |-> Activated(i, h)]
        /\ glo' = [i \in G |-> StartSign(i, h)]
        /\ told' = [i \in G |-> SignKnown(i, h)]
        /\ looked' = [i \in G |-> StartsFrom(i, h)]
    BY <2>1 DEF FirstCall
  <2>3. LookAt(h) \in Points /\ tn < LookAt(h)
    BY <2>1, LookIsInside DEF FirstCall
  <2>4. LookAhead' = LookAhead /\ (LookAt(h0u))' = LookAt(h)
    BY <2>2 DEF LookAhead, LookAt
  <2>5. ASSUME NEW i \in G, gactive'[i]
        PROVE  /\ glo'[i] # 0 /\ glo'[i] = told'[i] /\ glo'[i] = sig'[i][looked'[i]]
               /\ looked'[i] = tn \/ (LookAhead /\ looked'[i] = LookAt(h))
    <3>1. /\ Activated(i, h) /\ glo'[i] = StartSign(i, h) /\ told'[i] = SignKnown(i, h)
          /\ looked'[i] = StartsFrom(i, h) /\ sig' = sig
      BY <2>2, <2>5
    <3>2. CASE LooksAhead(i)
      <4>1. sig[i][LookAt(h)] # 0
        BY <3>1, <3>2 DEF Activated
      <4>. QED  BY <3>1, <3>2, <4>1 DEF LooksAhead, StartsFrom, StartSign, SignKnown
    <3>3. CASE ~LooksAhead(i)
      <4>1. gactive[i] /\ sig[i][tn] # 0
        BY <3>1, <3>3 DEF Activated, LooksAhead, LookAhead
      <4>. QED  BY <3>1, <3>3, <4>1 DEF StartsFrom, StartSign, SignKnown
    <3>. QED  BY <3>2, <3>3
  <2>6. \A i \in G : Known(i)' /\ Ahead(i)'
    BY <2>2, <2>3, <2>4, <2>5
  <2>. QED  BY <2>2, <2>6
<1>3. CASE FirstCallFails
  BY <1>3 DEF FirstCallFails, Return
<1>4. CASE CloseRoots
  BY <1>4 DEF CloseRoots, Return
<1>5. CASE NextRoot
  <2>1. irfnd /\ pc' = "idle" /\ irfnd' = irfnd
    BY <1>5 DEF NextRoot, Return, CloseZeros, ZerosLeft
  <2>2. \A i \in G : Told(i)'
    BY <1>5, <2>1 DEF NextRoot, Return, ZerosLeft
  <2>. QED  BY <2>1, <2>2
<1>6. CASE StopTests
  <2>1. /\ pc = "stops" /\ CloseZeros = {} /\ entry' = TRUE /\ pc' \in {"search", "searched"}
        /\ UNCHANGED <<sig, irfnd, tlo, gactive>>
        /\ glo' = [i \in G |-> SignAfterRoot(i)]
        /\ looked' = [i \in G |-> IF irfnd THEN GoesOnFrom(i) ELSE looked[i]]
        /\ told' = [i \in G |-> IF i \in ZerosLeft THEN glo'[i] ELSE told[i]]
        /\ pc' = "search" => ghi' = At(thi')
    BY <1>6 DEF StopTests
  <2>2. Settled /\ TypeOK /\ Signs
    BY <2>1
  <2>. USE DEF Points
  <2>3. ASSUME NEW i \in G, gactive'[i]
        PROVE  /\ glo'[i] # 0 /\ glo'[i] = told'[i] /\ glo'[i] = sig'[i][looked'[i]]
               /\ tlo' <= looked'[i] /\ looked'[i] <= tlo' + 1
               /\ irfnd /\ sig'[i][tlo'] # 0 => told'[i] = sig'[i][tlo']
    <3>. HIDE DEF IInv, Phases, Signs, Settled, Searching, TypeOK
    <3>1. gactive[i] /\ glo'[i] = SignAfterRoot(i)
          /\ looked'[i] = (IF irfnd THEN GoesOnFrom(i) ELSE looked[i])
          /\ told'[i] = (IF i \in ZerosLeft THEN glo'[i] ELSE told[i])
          /\ sig' = sig /\ tlo' = tlo /\ tlo \in Int
      BY <2>1, <2>2, <2>3 DEF TypeOK
    <3>2. CASE ~irfnd
      <4>1. Known(i) /\ Near(i) /\ i \notin ZerosLeft
        BY <2>2, <3>2 DEF Signs, ZerosLeft
      <4>. QED  BY <3>1, <3>2, <4>1 DEF SignAfterRoot
    <3>3. CASE irfnd /\ i \in ZerosLeft
      <4>1. sig[i][tlo + 1] # 0 /\ sig[i][tlo] = 0
        BY <2>1, <3>3 DEF CloseZeros, ZerosLeft
      <4>. QED  BY <3>1, <3>3, <4>1 DEF SignAfterRoot, GoesOnFrom
    <3>4. CASE irfnd /\ i \notin ZerosLeft
      <4>1. sig[i][tlo] # 0
        BY <3>1, <3>4 DEF ZerosLeft
      <4>2. told[i] = sig[i][tlo]
        BY <2>2, <3>1, <3>4, <4>1 DEF Signs
      <4>. QED  BY <3>1, <3>4, <4>1, <4>2 DEF SignAfterRoot, GoesOnFrom
    <3>. QED  BY <3>2, <3>3, <3>4
  <2>4. \A i \in G : Known(i)' /\ Near(i)' /\ (irfnd => Told(i)')
    BY <2>1, <2>3
  <2>5. pc' = "search" => \A i \in G : ghi'[i] = sig'[i][thi']
    BY <2>1 DEF At
  <2>. HIDE DEF Known, Near, Ahead, Told
  <2>. QED  BY <2>1, <2>4, <2>5
<1>7. CASE \E mid \in Times : Narrow(mid)
  <2>1. PICK mid \in Times : Narrow(mid)
    BY <1>7
  <2>2. pc = "search" /\ pc' = "search"
        /\ UNCHANGED <<entry, stepped, irfnd, ret, told, gactive, sig>>
    BY <2>1 DEF Narrow
  <2>3. CASE Roots(At(mid)) # {}
    <3>1. thi' = mid /\ tlo' = tlo /\ glo' = glo /\ ghi' = At(mid) /\ looked' = looked
      BY <2>1, <2>3 DEF Narrow
    <3>2. \A i \in G : Known(i)'
      BY <2>2, <3>1
    <3>3. \A i \in G : ghi'[i] = sig'[i][thi']
      BY <2>2, <3>1 DEF At
    <3>. HIDE DEF Known, Near, Ahead, Told
    <3>. QED  BY <2>2, <3>2, <3>3
  <2>4. CASE Roots(At(mid)) = {}
    <3>1. thi' = thi /\ tlo' = mid /\ glo' = At(mid) /\ ghi' = ghi /\ looked' = [i \in G |-> mid]
      BY <2>1, <2>4 DEF Narrow
    <3>2. ASSUME NEW i \in G, gactive[i]
          PROVE  At(mid)[i] # 0 /\ At(mid)[i] = glo[i] /\ At(mid)[i] = sig[i][mid]
      <4>1. At(mid)[i] # 0 /\ ~(glo[i] * At(mid)[i] < 0)
        BY <2>4, <3>2 DEF Roots, Crossed, Zeros
      <4>2. glo[i] \in Sign /\ At(mid)[i] \in Sign /\ glo[i] # 0 /\ At(mid)[i] = sig[i][mid]
        BY <2>1, <2>2, <3>2, FromKnown DEF At
      <4>. QED  BY <4>1, <4>2, SameSign
    <3>3. \A i \in G : Known(i)'
      <4>1. SUFFICES ASSUME NEW i \in G, gactive'[i]
                     PROVE  /\ glo'[i] # 0 /\ glo'[i] = told'[i] /\ glo'[i] = sig'[i][looked'[i]]
                            /\ tlo' <= looked'[i]
        OBVIOUS
      <4>2. gactive[i] /\ told'[i] = told[i] /\ sig' = sig /\ looked'[i] = mid /\ tlo' = mid
            /\ glo'[i] = At(mid)[i]
        BY <2>2, <3>1, <4>1
      <4>3. glo[i] = told[i]
        BY <2>2, <4>2, FromKnown
      <4>. QED  BY <3>2, <4>2, <4>3
    <3>4. \A i \in G : ghi'[i] = sig'[i][thi']
      BY <2>2, <3>1
    <3>. HIDE DEF Known, Near, Ahead, Told
    <3>. QED  BY <2>2, <3>3, <3>4
  <2>. QED  BY <2>3, <2>4
<1>8. CASE Located
  <2>1. /\ pc = "search" /\ tlo' = thi /\ glo' = ghi /\ sig' = sig
        /\ gactive' = [i \in G |-> gactive[i] \/ ghi[i] # 0]
        /\ told' = [i \in G |-> IF i \in Roots(ghi) \/ ~gactive[i] THEN ghi[i] ELSE told[i]]
    BY <1>8 DEF Located, Return
  <2>2. ASSUME NEW i \in G, gactive'[i]
        PROVE  told'[i] = ghi[i]
    <3>1. CASE i \in Roots(ghi) \/ ~gactive[i]
      BY <2>1, <3>1
    <3>2. CASE i \notin Roots(ghi) /\ gactive[i]
      <4>1. ghi[i] # 0 /\ ~(glo[i] * ghi[i] < 0)
        BY <3>2 DEF Roots, Crossed, Zeros
      <4>2. glo[i] \in Sign /\ glo[i] # 0 /\ glo[i] = told[i] /\ ghi[i] \in Sign
        BY <2>1, <3>2, FromKnown
      <4>3. glo[i] = ghi[i]
        BY <4>1, <4>2, SameSign
      <4>. QED  BY <2>1, <3>2, <4>2, <4>3
    <3>. QED  BY <3>1, <3>2
  <2>3. \A i \in G : ghi[i] = sig'[i][tlo']
    BY <2>1
  <2>4. \A i \in G : Told(i)'
    BY <2>1, <2>2, <2>3
  <2>5. CASE Roots(ghi) # {}
    <3>1. pc' = "idle" /\ irfnd' = TRUE
      BY <1>8, <2>5 DEF Located, Return
    <3>. QED  BY <2>4, <3>1
  <2>6. CASE Roots(ghi) = {}
    <3>1. pc' = "searched" /\ looked' = [i \in G |-> thi] /\ thi \in Int
      BY <1>8, <2>6 DEF Located
    <3>2. ASSUME NEW i \in G, gactive'[i] PROVE ghi[i] # 0
      BY <2>1, <2>6, <3>2 DEF Roots, Zeros
    <3>3. \A i \in G : Known(i)' /\ Near(i)'
      BY <2>1, <2>2, <2>3, <3>1, <3>2
    <3>. HIDE DEF Known, Near, Ahead, Told
    <3>. QED  BY <2>4, <3>1, <3>3
  <2>. QED  BY <2>5, <2>6
<1>9. CASE \E h \in StepSizes : Step(h)
  <2>1. PICK h \in StepSizes : Step(h)
    BY <1>9
  <2>2. \A i \in G : ghi'[i] = sig'[i][thi']
    BY <2>1 DEF Step, BeginSearch, At
  <2>. QED  BY <2>1, <2>2 DEF Step, BeginSearch
<1>10. CASE StepFails
  BY <1>10 DEF StepFails, Return
<1>11. CASE TooMuchWork
  BY <1>11 DEF TooMuchWork, Return, OutOfSteps
<1>12. CASE StepEvent
  BY <1>12 DEF StepEvent, Return, SearchEnd
<1>13. CASE Arrived
  BY <1>13 DEF Arrived, Return
<1>14. CASE GoOn
  BY <1>14 DEF GoOn
<1>15. CASE \E t \in Times : Call(t)
  BY <1>15 DEF Call
<1>16. CASE ReInit
  BY <1>16 DEF ReInit, ForgetSearch
<1>17. CASE SetUpAgain
  BY <1>17 DEF SetUpAgain, ForgetSearch
<1>18. CASE UNCHANGED vars
  BY <1>18, SignsSame
<1>. QED  BY <1>1, <1>2, <1>3, <1>4, <1>5, <1>6, <1>7, <1>8, <1>9, <1>10, <1>11, <1>12, <1>13, <1>14, <1>15, <1>16, <1>17, <1>18 DEF Next, Inside, Outside

(* A return sets `advanced' to a truth value. *)
LEMMA ReturnFlag ==
    ASSUME NEW flag, NEW t \in Times, tretlast \in Times, Return(flag, t)
    PROVE  advanced' \in BOOLEAN
<1>1. advanced' = (t > tretlast)
  BY DEF Return
<1>2. (t > tretlast) \in BOOLEAN
  OBVIOUS
<1>. QED  BY <1>1, <1>2, Zenon

(* The flags stay truth values. *)
LEMMA FlagsStep == IInv /\ [Next]_vars => Flags'
<1>. SUFFICES ASSUME IInv, [Next]_vars PROVE Flags'
  OBVIOUS
<1>. USE DEF IInv, TypeOK, Flags, searchVars, stepVars, callVars
<1>1. CASE RootFunctionFails
  <2>1. advanced' \in BOOLEAN
    BY <1>1, ReturnFlag DEF RootFunctionFails
  <2>. QED  BY <1>1, <2>1 DEF RootFunctionFails, Return
<1>2. CASE \E h \in FirstSizes : FirstCall(h)
  BY <1>2 DEF FirstCall
<1>3. CASE FirstCallFails
  <2>1. advanced' \in BOOLEAN
    BY <1>3, ReturnFlag DEF FirstCallFails
  <2>. QED  BY <1>3, <2>1 DEF FirstCallFails, Return
<1>4. CASE CloseRoots
  <2>1. advanced' \in BOOLEAN
    BY <1>4, ReturnFlag DEF CloseRoots
  <2>. QED  BY <1>4, <2>1 DEF CloseRoots, Return
<1>5. CASE NextRoot
  <2>1. advanced' \in BOOLEAN
    BY <1>5, ReturnFlag DEF NextRoot
  <2>. QED  BY <1>5, <2>1 DEF NextRoot, Return
<1>6. CASE StopTests
  BY <1>6 DEF StopTests
<1>7. CASE \E mid \in Times : Narrow(mid)
  BY <1>7 DEF Narrow
<1>8. CASE Located
  <2>1. advanced' \in BOOLEAN
    <3>1. CASE Roots(ghi) # {}
      BY <1>8, <3>1, ReturnFlag DEF Located
    <3>2. CASE Roots(ghi) = {}
      BY <1>8, <3>2 DEF Located
    <3>. QED  BY <3>1, <3>2
  <2>2. irfnd' \in BOOLEAN
    <3>1. CASE Roots(ghi) # {}
      BY <1>8, <3>1 DEF Located
    <3>2. CASE Roots(ghi) = {}
      <4>1. irfnd' = (irfnd /\ ~entry)
        BY <1>8, <3>2 DEF Located
      <4>. QED  BY <4>1, Zenon
    <3>. QED  BY <3>1, <3>2
  <2>. QED  BY <1>8, <2>1, <2>2 DEF Located, Return
<1>9. CASE \E h \in StepSizes : Step(h)
  BY <1>9 DEF Step, BeginSearch, StepsTaken, OutOfSteps
<1>10. CASE StepFails
  <2>1. advanced' \in BOOLEAN
    BY <1>10, ReturnFlag DEF StepFails
  <2>. QED  BY <1>10, <2>1 DEF StepFails, Return
<1>11. CASE TooMuchWork
  <2>1. advanced' \in BOOLEAN
    BY <1>11, ReturnFlag DEF TooMuchWork
  <2>. QED  BY <1>11, <2>1 DEF TooMuchWork, Return
<1>12. CASE StepEvent
  BY <1>12 DEF StepEvent, Return, SearchEnd
<1>13. CASE Arrived
  <2>1. advanced' \in BOOLEAN
    BY <1>13, ReturnFlag DEF Arrived
  <2>. QED  BY <1>13, <2>1 DEF Arrived, Return
<1>14. CASE GoOn
  BY <1>14 DEF GoOn
<1>15. CASE \E t \in Times : Call(t)
  BY <1>15 DEF Call
<1>16. CASE ReInit
  BY <1>16 DEF ReInit, ForgetSearch
<1>17. CASE SetUpAgain
  BY <1>17 DEF SetUpAgain, ForgetSearch
<1>18. CASE UNCHANGED vars
  BY <1>18 DEF vars
<1>. QED  BY <1>1, <1>2, <1>3, <1>4, <1>5, <1>6, <1>7, <1>8, <1>9, <1>10, <1>11, <1>12, <1>13, <1>14, <1>15, <1>16, <1>17, <1>18 DEF Next, Inside, Outside

(* Times, counters and the answer keep their types. *)
LEMMA NumbersStep == IInv /\ [Next]_vars => Numbers'
<1>. SUFFICES ASSUME IInv, [Next]_vars PROVE Numbers'
  OBVIOUS
<1>. USE DEF IInv, TypeOK, Phases, Positions, AtRest, BeforeStep, InSearch, AfterSearch, Settled, Numbers, Answers, searchVars, stepVars, callVars
<1>1. CASE RootFunctionFails
  BY <1>1 DEF RootFunctionFails, Return
<1>2. CASE \E h \in FirstSizes : FirstCall(h)
  BY <1>2 DEF FirstCall
<1>3. CASE FirstCallFails
  BY <1>3 DEF FirstCallFails, Return
<1>4. CASE CloseRoots
  BY <1>4 DEF CloseRoots, Return
<1>5. CASE NextRoot
  BY <1>5 DEF NextRoot, Return, ZerosLeft
<1>6. CASE StopTests
  BY <1>6 DEF StopTests, SearchEnd, Lesser
<1>7. CASE \E mid \in Times : Narrow(mid)
  BY <1>7 DEF Narrow
<1>8. CASE Located
  BY <1>8 DEF Located, Return
<1>9. CASE \E h \in StepSizes : Step(h)
  BY <1>9 DEF Step, BeginSearch, StepsTaken, OutOfSteps, SearchEnd, Lesser
<1>10. CASE StepFails
  BY <1>10 DEF StepFails, Return
<1>11. CASE TooMuchWork
  BY <1>11 DEF TooMuchWork, Return, OutOfSteps
<1>12. CASE StepEvent
  BY <1>12 DEF StepEvent, Return, SearchEnd, Lesser
<1>13. CASE Arrived
  BY <1>13 DEF Arrived, Return
<1>14. CASE GoOn
  BY <1>14 DEF GoOn
<1>15. CASE \E t \in Times : Call(t)
  BY <1>15 DEF Call
<1>16. CASE ReInit
  BY <1>16 DEF ReInit, ForgetSearch
<1>17. CASE SetUpAgain
  BY <1>17 DEF SetUpAgain, ForgetSearch
<1>18. CASE UNCHANGED vars
  BY <1>18 DEF vars
<1>. QED  BY <1>1, <1>2, <1>3, <1>4, <1>5, <1>6, <1>7, <1>8, <1>9, <1>10, <1>11, <1>12, <1>13, <1>14, <1>15, <1>16, <1>17, <1>18 DEF Next, Inside, Outside

(* The indicators keep a sign at every instant. *)
LEMMA CurvedStep == IInv /\ [Next]_vars => Curved'
<1>. SUFFICES ASSUME IInv, [Next]_vars PROVE Curved'
  OBVIOUS
<1>. USE DEF IInv, TypeOK, Curved, searchVars, stepVars, callVars
<1>1. CASE RootFunctionFails
  BY <1>1 DEF RootFunctionFails, Return
<1>2. CASE \E h \in FirstSizes : FirstCall(h)
  BY <1>2 DEF FirstCall
<1>3. CASE FirstCallFails
  BY <1>3 DEF FirstCallFails, Return
<1>4. CASE CloseRoots
  BY <1>4 DEF CloseRoots, Return
<1>5. CASE NextRoot
  BY <1>5 DEF NextRoot, Return, ZerosLeft
<1>6. CASE StopTests
  BY <1>6 DEF StopTests
<1>7. CASE \E mid \in Times : Narrow(mid)
  BY <1>7 DEF Narrow
<1>8. CASE Located
  BY <1>8 DEF Located, Return
<1>9. CASE \E h \in StepSizes : Step(h)
  BY <1>9 DEF Step, BeginSearch, StepsTaken, OutOfSteps
<1>10. CASE StepFails
  BY <1>10 DEF StepFails, Return
<1>11. CASE TooMuchWork
  BY <1>11 DEF TooMuchWork, Return, OutOfSteps
<1>12. CASE StepEvent
  BY <1>12 DEF StepEvent, Return, SearchEnd
<1>13. CASE Arrived
  BY <1>13 DEF Arrived, Return
<1>14. CASE GoOn
  BY <1>14 DEF GoOn
<1>15. CASE \E t \in Times : Call(t)
  <2>1. PICK t \in Times : Call(t)
    BY <1>15
  <2>2. CASE UNCHANGED sig
    BY <2>2
  <2>3. CASE sig' # sig
    <3>1. PICK s \in Solutions : sig' = StartingAt(tn, s)
      BY <2>1, <2>3 DEF Call
    <3>2. s \in [G -> [Points -> Sign]]
      BY DEF Solutions, Curves
    <3>3. \A t1 \in Points : (IF t1 < tn THEN 0 ELSE t1 - tn) \in Points
      OBVIOUS
    <3>. QED  BY <3>1, <3>2, <3>3 DEF StartingAt
  <2>. QED  BY <2>2, <2>3
<1>16. CASE ReInit
  BY <1>16 DEF ReInit, ForgetSearch, NotKnown
<1>17. CASE SetUpAgain
  BY <1>17 DEF SetUpAgain, ForgetSearch, NotKnown
<1>18. CASE UNCHANGED vars
  BY <1>18 DEF vars
<1>. QED  BY <1>1, <1>2, <1>3, <1>4, <1>5, <1>6, <1>7, <1>8, <1>9, <1>10, <1>11, <1>12, <1>13, <1>14, <1>15, <1>16, <1>17, <1>18 DEF Next, Inside, Outside

(* The signs at one instant. *)
LEMMA AtType == ASSUME sig \in [G -> [Points -> Sign]], NEW t \in Points PROVE At(t) \in [G -> Sign]
BY DEF At

(* The signs and marks of the search keep their types. *)
LEMMA MarksStep == IInv /\ [Next]_vars => Marks'
<1>. SUFFICES ASSUME IInv, [Next]_vars PROVE Marks'
  OBVIOUS
<1>. USE DEF IInv, TypeOK, Marks, searchVars, stepVars, callVars
<1>1. CASE RootFunctionFails
  BY <1>1 DEF RootFunctionFails, Return
<1>2. CASE \E h \in FirstSizes : FirstCall(h)
  <2>1. PICK h \in FirstSizes : FirstCall(h)
    BY <1>2
  <2>2. LookAt(h) \in Points /\ tn \in Points
    BY <2>1, LookIsInside DEF FirstCall, Phases
  <2>3. ASSUME NEW i \in G
        PROVE  /\ StartSign(i, h) \in Sign /\ SignKnown(i, h) \in Sign
               /\ StartsFrom(i, h) \in Points /\ Activated(i, h) \in BOOLEAN
    <3>1. StartsFrom(i, h) \in Points
      BY <2>2 DEF StartsFrom
    <3>2. StartSign(i, h) \in Sign
      BY <3>1 DEF StartSign
    <3>3. SignKnown(i, h) \in Sign
      BY <2>2 DEF SignKnown
    <3>4. gactive[i] \in BOOLEAN /\ (sig[i][LookAt(h)] # 0) \in BOOLEAN
      OBVIOUS
    <3>5. Activated(i, h) \in BOOLEAN
      BY <3>4, Zenon DEF Activated
    <3>. QED  BY <3>1, <3>2, <3>3, <3>5
  <2>. QED  BY <2>1, <2>3 DEF FirstCall
<1>3. CASE FirstCallFails
  BY <1>3 DEF FirstCallFails, Return
<1>4. CASE CloseRoots
  BY <1>4 DEF CloseRoots, Return
<1>5. CASE NextRoot
  <2>1. glo' \in [G -> Sign]
    BY <1>5 DEF NextRoot
  <2>2. ghi' \in [G -> Sign]
    BY <1>5, AtType DEF NextRoot
  <2>3. told' \in [G -> Sign] /\ iroots' \in [G -> Sign]
    BY <1>5, <2>1 DEF NextRoot
  <2>. QED  BY <1>5, <2>1, <2>2, <2>3 DEF NextRoot
<1>6. CASE StopTests
  <2>0. \A i \in G : GoesOnFrom(i) \in Points
    BY DEF GoesOnFrom
  <2>1. \A i \in G : SignAfterRoot(i) \in Sign
    BY <2>0 DEF SignAfterRoot
  <2>5. looked' \in [G -> Points]
    BY <1>6, <2>0 DEF StopTests
  <2>2. glo' \in [G -> Sign]
    BY <1>6, <2>1 DEF StopTests
  <2>3. told' \in [G -> Sign] /\ iroots' \in [G -> Sign]
    BY <1>6, <2>2 DEF StopTests
  <2>4. ghi' \in [G -> Sign]
    <3>1. CASE Unsearched
      <4>1. thi' \in Points /\ ghi' = At(thi')
        BY <1>6, <3>1 DEF StopTests, SearchEnd, Lesser
      <4>. QED  BY <4>1, AtType
    <3>2. CASE ~Unsearched
      BY <1>6, <3>2 DEF StopTests
    <3>. QED  BY <3>1, <3>2
  <2>. QED  BY <1>6, <2>2, <2>3, <2>4, <2>5 DEF StopTests
<1>7. CASE \E mid \in Times : Narrow(mid)
  <2>1. PICK mid \in Times : Narrow(mid)
    BY <1>7
  <2>2. At(mid) \in [G -> Sign]
    BY AtType
  <2>. QED  BY <2>1, <2>2 DEF Narrow
<1>8. CASE Located
  BY <1>8 DEF Located, Return
<1>9. CASE \E h \in StepSizes : Step(h)
  <2>1. PICK h \in StepSizes : Step(h)
    BY <1>9
  <2>2. thi' \in Points /\ ghi' = At(thi')
    BY <2>1 DEF Step, BeginSearch, SearchEnd, Lesser
  <2>3. ghi' \in [G -> Sign]
    BY <2>2, AtType
  <2>. QED  BY <2>1, <2>3 DEF Step, BeginSearch
<1>10. CASE StepFails
  BY <1>10 DEF StepFails, Return
<1>11. CASE TooMuchWork
  BY <1>11 DEF TooMuchWork, Return, OutOfSteps
<1>12. CASE StepEvent
  BY <1>12 DEF StepEvent, Return, SearchEnd
<1>13. CASE Arrived
  BY <1>13 DEF Arrived, Return
<1>14. CASE GoOn
  BY <1>14 DEF GoOn
<1>15. CASE \E t \in Times : Call(t)
  BY <1>15 DEF Call
<1>16. CASE ReInit
  BY <1>16 DEF ReInit, ForgetSearch
<1>17. CASE SetUpAgain
  BY <1>17 DEF SetUpAgain, ForgetSearch
<1>18. CASE UNCHANGED vars
  BY <1>18 DEF vars
<1>. QED  BY <1>1, <1>2, <1>3, <1>4, <1>5, <1>6, <1>7, <1>8, <1>9, <1>10, <1>11, <1>12, <1>13, <1>14, <1>15, <1>16, <1>17, <1>18 DEF Next, Inside, Outside

----------------------------------------------------------------------------
(* is kept by every step, *)
LEMMA Inductive == IInv /\ [Next]_vars => IInv'
BY TypePartsNext, FlagsStep, NumbersStep, CurvedStep, MarksStep, PhasesStep, AtRestStep,
   BeforeStepStep, InSearchStep, AfterSearchStep, SignsStep DEF IInv, Positions

(* and so holds always. *)
LEMMA Invariant == Spec => []IInv
BY InitSound, Inductive, PTL DEF Spec

(* The types. *)
THEOREM DriverTypeCorrect == Spec => []TypeOK
<1>1. IInv => TypeOK
  BY DEF IInv
<1>. QED  BY <1>1, Invariant, PTL

(* cvRcheck1, cvRcheck2 and cvRcheck3 hand the search on from one to the   *)
(* other and from call to call: it begins where no watched indicator is    *)
(* zero, goes on from the signs the caller was told of, which are those    *)
(* the indicators had where it last looked, and covers all that CVode has  *)
(* returned from.  What an indicator does while cvRcheck1 looks ahead is   *)
(* excepted: ttol, or a tenth of a first step of any length.               *)
THEOREM NothingIsMissed == Spec => []NothingMissed
<1>1. IInv => NothingMissed
  <2>. SUFFICES ASSUME IInv PROVE NothingMissed
    OBVIOUS
  <2>. USE DEF IInv
  <2>1. StartsNonzero
    BY DEF StartsNonzero, Signs, Known, Searching
  <2>2. NoneMissed
    <3>. SUFFICES ASSUME pc \in {"loop", "searched"}, NEW i \in G, gactive[i]
                 PROVE  /\ glo[i] = told[i] /\ told[i] = sig[i][looked[i]]
                        /\ \/ looked[i] - tlo \in 0 .. Roundoff
                           \/ ~stepped /\ LookAhead /\ looked[i] = LookAt(h0u)
      BY DEF NoneMissed
    <3>1. Known(i) /\ (Near(i) \/ (~stepped /\ Ahead(i)))
      BY DEF Signs, Searching
    <3>2. looked[i] \in Int /\ tlo \in Int
      BY DEF TypeOK
    <3>. QED  BY <3>1, <3>2 DEF Known, Near, Ahead
  <2>3. SearchedToReturn
    BY DEF SearchedToReturn, TypeOK, Phases, Positions, AtRest, Settled
  <2>. QED  BY <2>1, <2>2, <2>3 DEF NothingMissed
<1>. QED  BY <1>1, Invariant, PTL

(* Every time the search and the returns ask the interpolation for is in   *)
(* the interval CVodeGetDky accepts; its answer is not looked at there.    *)
THEOREM InterpolationIsInside == Spec => []InterpolatesInside
<1>1. IInv => InterpolatesInside
  BY DEF IInv, TypeOK, Phases, Positions, AtRest, InSearch, AfterSearch, Settled, Lesser,
     InterpolatesInside
<1>. QED  BY <1>1, Invariant, PTL

(* A root that is returned is there. *)
LEMMA RootIsThereStep == IInv /\ RootIsThere /\ [Next]_vars => RootIsThere'
<1>. SUFFICES ASSUME IInv, RootIsThere, Next PROVE RootIsThere'
  BY DEF vars, stepVars, callVars, searchVars, RootIsThere
<1>. USE DEF IInv, TypeOK
<1>1. CASE Located
  <2>1. SUFFICES ASSUME Roots(ghi) # {} PROVE RootIsThere'
    BY <1>1 DEF Located, RootIsThere
  <2>2. /\ pc = "search" /\ Converged /\ tretlast' = thi /\ sig' = sig
        /\ gactive' = [i \in G |-> gactive[i] \/ ghi[i] # 0]
        /\ iroots' = [i \in G |-> IF i \notin Roots(ghi) THEN 0 ELSE IF glo[i] > 0 THEN -1 ELSE 1]
    BY <1>1, <2>1 DEF Located, Return
  <2>3. PICK i \in Roots(ghi) : Crossed(ghi) # {} => i \in Crossed(ghi)
    BY <2>1 DEF Roots
  <2>4. i \in G /\ gactive[i] /\ gactive'[i] /\ iroots'[i] # 0 /\ ghi[i] = sig[i][thi]
    BY <2>2, <2>3 DEF Roots, Crossed, Zeros, Signs
  <2>5. CASE ghi[i] = 0
    <3>1. sig'[i][thi] * sig'[i][thi] <= 0
      BY <2>2, <2>4, <2>5
    <3>2. thi \in Points /\ tretlast' - 1 <= thi /\ thi <= tretlast' + 1
      BY <2>2
    <3>. QED  BY <2>4, <3>1, <3>2 DEF RootIsThere
  <2>6. CASE ghi[i] # 0
    <3>1. i \in Crossed(ghi)
      BY <2>3, <2>6 DEF Roots, Zeros
    <3>2. thi - tlo <= 1 /\ tlo <= thi /\ glo[i] * ghi[i] < 0
      BY <2>2, <3>1 DEF Converged, Crossed, Positions, InSearch
    <3>3. glo[i] = sig[i][looked[i]] /\ tlo <= looked[i] /\ looked[i] \in Points
      BY <2>2, <2>4 DEF Signs, Known, Searching
    <3>4. CASE looked[i] > thi
      <4>1. looked' = looked
        BY <1>1, <2>1 DEF Located
      <4>. QED  BY <2>2, <2>4, <3>4, <4>1 DEF RootIsThere
    <3>5. CASE looked[i] <= thi
      <4>1. glo[i] \in Sign /\ ghi[i] \in Sign
        BY <2>4
      <4>2. glo[i] * ghi[i] <= 0
        BY <3>2, <4>1
      <4>3. sig'[i][looked[i]] * sig'[i][thi] <= 0
        BY <2>2, <2>4, <3>3, <4>2
      <4>4. thi \in Points /\ tretlast' - 1 <= looked[i] /\ thi <= tretlast' + 1
        BY <2>2, <3>2, <3>3
      <4>. QED  BY <2>4, <3>3, <3>5, <4>3, <4>4 DEF RootIsThere
    <3>. QED  BY <3>3, <3>4, <3>5
  <2>. QED  BY <2>5, <2>6
<1>2. CASE NextRoot
  <2>1. PICK i \in ZerosLeft : TRUE
    BY <1>2 DEF NextRoot, CloseZeros
  <2>2. i \in G /\ gactive'[i] /\ iroots'[i] # 0 /\ sig'[i][tlo] = 0 /\ tretlast' = tlo
    BY <1>2, <2>1 DEF NextRoot, Return, ZerosLeft
  <2>3. tlo \in Points /\ sig'[i][tlo] * sig'[i][tlo] <= 0
        /\ tretlast' - Roundoff <= tlo /\ tlo <= tlo /\ tlo <= tretlast' + Roundoff
    BY <2>2 DEF Roundoff
  <2>4. \E s \in Points, r \in Points :
           /\ tretlast' - Roundoff <= s /\ s <= r /\ r <= tretlast' + Roundoff
           /\ sig'[i][s] * sig'[i][r] <= 0
    BY <2>3
  <2>. QED  BY <2>2, <2>4 DEF RootIsThere
<1>3. CASE ~Located /\ ~NextRoot
  <2>1. pc' # "idle" \/ ret' # "CV_ROOT_RETURN" \/ stepEvent'
    BY <1>3 DEF Next, Inside, Outside, RootFunctionFails, FirstCall, FirstCallFails, CloseRoots,
       StopTests, Narrow, Step, BeginSearch, StepFails, TooMuchWork, StepEvent, Arrived, GoOn,
       Call, ReInit, SetUpAgain, Return
  <2>. QED  BY <2>1 DEF RootIsThere
<1>. QED  BY <1>1, <1>2, <1>3

(* A root that is returned gets the caller on. *)
LEMMA RootAdvancesStep == IInv /\ RootAdvances /\ [Next]_vars => RootAdvances'
<1>. SUFFICES ASSUME IInv, RootAdvances, Next PROVE RootAdvances'
  BY DEF vars, stepVars, callVars, searchVars, RootAdvances, CloseZeros, ZerosLeft
<1>. USE DEF IInv, TypeOK
<1>1. CASE Located
  <2>1. SUFFICES ASSUME Roots(ghi) # {} PROVE RootAdvances'
    BY <1>1 DEF Located, RootAdvances
  <2>2. pc = "search" /\ tretlast' = thi /\ advanced' = (thi > tretlast) /\ UNCHANGED <<tn, hu>>
    BY <1>1, <2>1 DEF Located, Return, stepVars
  <2>3. thi > tretlast \/ hu <= 1 \/ thi = tn - hu
    BY <2>2 DEF Positions, InSearch
  <2>. QED  BY <2>2, <2>3 DEF RootAdvances
<1>2. CASE NextRoot
  <2>1. CloseZeros # {} /\ UNCHANGED <<irfnd, gactive, sig, tlo>>
    BY <1>2 DEF NextRoot, Return
  <2>2. (CloseZeros)' # {}
    BY <2>1 DEF CloseZeros, ZerosLeft
  <2>. QED  BY <2>2 DEF RootAdvances
<1>3. CASE StepEvent
  <2>1. /\ pc = "searched" /\ ~entry /\ tretlast' = Lesser(tn, tout)
        /\ advanced' = (Lesser(tn, tout) > tretlast) /\ UNCHANGED <<tn, hu>>
    BY <1>3 DEF StepEvent, Return, stepVars, SearchEnd
  <2>2. Lesser(tn, tout) > tretlast \/ hu <= 1
    BY <2>1 DEF Positions, AfterSearch, Phases, Lesser
  <2>. QED  BY <2>1, <2>2 DEF RootAdvances
<1>4. CASE ~Located /\ ~NextRoot /\ ~StepEvent
  <2>1. pc' # "idle" \/ ret' # "CV_ROOT_RETURN"
    BY <1>4 DEF Next, Inside, Outside, RootFunctionFails, FirstCall, FirstCallFails, CloseRoots,
       StopTests, Narrow, Step, BeginSearch, StepFails, TooMuchWork, Arrived, GoOn,
       Call, ReInit, SetUpAgain, Return
  <2>. QED  BY <2>1 DEF RootAdvances
<1>. QED  BY <1>1, <1>2, <1>3, <1>4

(* integration_step is given roots that are there, unless the first step   *)
(* ends before the look ahead of cvRcheck1 does, and no root twice, but    *)
(* for those next to the time of the last return.                          *)
THEOREM RootsAreReturned == Spec => []RootReturned
<1>1. Init => RootIsThere /\ RootAdvances
  BY DEF Init, RootIsThere, RootAdvances
<1>2. RootIsThere /\ RootAdvances => RootReturned
  BY DEF RootReturned
<1>. QED  BY <1>1, <1>2, Invariant, RootIsThereStep, RootAdvancesStep, PTL DEF Spec

(* cvRcheck2 gives the same answer again when a root was returned and a    *)
(* call after it ended within the roundoff.                                *)
NoneClose ==
    irfnd /\ ((pc = "searched" /\ entry) \/ (Settled /\ tretlast # tlo)) => CloseZeros = {}

LEMMA NoneCloseStep == IInv /\ NoneClose /\ [Next]_vars => NoneClose'
<1>. SUFFICES ASSUME IInv, NoneClose, [Next]_vars,
                     irfnd', (pc' = "searched" /\ entry') \/ (Settled' /\ tretlast' # tlo')
              PROVE  (CloseZeros)' = {}
  BY DEF NoneClose
<1>1. UNCHANGED <<irfnd, gactive, sig, tlo>> => (CloseZeros)' = CloseZeros
  BY DEF CloseZeros, ZerosLeft
<1>2. CASE UNCHANGED vars
  BY <1>1, <1>2 DEF vars, callVars, searchVars, stepVars, NoneClose, Settled
<1>3. CASE StopTests
  BY <1>1, <1>3 DEF StopTests, callVars
<1>4. CASE Located
  BY <1>4 DEF Located, Return, Settled, callVars
<1>5. CASE Arrived
  <2>1. (pc = "searched" /\ entry) \/ (pc = "searched" /\ ~entry /\ tn >= tout)
    BY <1>5 DEF Arrived, IInv, TypeOK
  <2>2. CASE entry
    BY <1>1, <1>5, <2>1, <2>2 DEF Arrived, Return, NoneClose, searchVars
  <2>3. CASE ~entry
    <3>1. tlo = Lesser(tn, tout)
      BY <2>1, <2>3 DEF IInv, Positions, AfterSearch
    <3>2. tretlast' = tout /\ tlo' = tlo /\ pc' = "idle"
      BY <1>5 DEF Arrived, Return, searchVars
    <3>3. tlo = tout
      <4>1. tn \in Nat /\ tout \in Nat /\ tn >= tout
        BY <2>1, <2>3 DEF IInv, TypeOK
      <4>. QED  BY <3>1, <4>1 DEF Lesser
    <3>. QED  BY <3>2, <3>3
  <2>. QED  BY <2>2, <2>3
<1>6. CASE TooMuchWork
  <2>1. tlo = tn /\ tretlast' = tn /\ tlo' = tlo /\ pc' = "idle"
    BY <1>6 DEF TooMuchWork, OutOfSteps, Return, IInv, TypeOK, Positions, BeforeStep, searchVars
  <2>. QED  BY <2>1
<1>7. CASE \E t \in Times : Call(t)
  BY <1>1, <1>7 DEF Call, Settled, NoneClose, searchVars, IInv, Phases
<1>8. CASE StepEvent \/ NextRoot
  BY <1>8 DEF StepEvent, NextRoot, Return, SearchEnd, IInv, Positions, AfterSearch, Lesser
<1>9. CASE \/ RootFunctionFails \/ (\E h \in FirstSizes : FirstCall(h)) \/ FirstCallFails \/ CloseRoots \/ StepFails \/ GoOn
           \/ ReInit \/ SetUpAgain \/ (\E mid \in Times : Narrow(mid)) \/ (\E h \in StepSizes : Step(h))
  BY <1>9 DEF RootFunctionFails, FirstCall, FirstCallFails, CloseRoots, StepFails, GoOn, ReInit,
     SetUpAgain, Narrow, Step, BeginSearch, Return, Settled, stepVars, IInv, Phases
<1>. QED  BY <1>2, <1>3, <1>4, <1>5, <1>6, <1>7, <1>8, <1>9 DEF Next, Inside, Outside

(* Every step of the driver is one the caller allows for. *)
LEMMA ContractStep ==
    IInv /\ IInv' /\ NoneClose /\ [Next]_vars =>
        [Outwardly!Send \/ Outwardly!Work \/ Outwardly!Answer \/ Outwardly!Restart]_(Outwardly!contractVars)
<1>. SUFFICES ASSUME IInv, IInv', NoneClose, Next
              PROVE  \/ Outwardly!Send \/ Outwardly!Work \/ Outwardly!Answer \/ Outwardly!Restart
                     \/ UNCHANGED Outwardly!contractVars
  BY DEF vars, callVars, Outwardly!contractVars
<1>. DEFINE A == CASE ret = "CV_SUCCESS" -> "arrived"
                   [] ret = "CV_ROOT_RETURN" -> "event"
                   [] ret = "CV_TOO_MUCH_WORK" -> "exhausted"
                   [] ret = "CV_TOO_CLOSE" -> "exhausted"
                   [] OTHER -> ret
<1>0. /\ tn \in Nat /\ tout \in Nat /\ tretlast \in Nat /\ tlo \in Nat /\ thi \in Nat /\ hu \in Nat
      /\ tretlast' \in Nat /\ tout' \in Nat /\ ret \in Answers /\ ret' \in Answers
  BY DEF IInv, TypeOK, Answers
<1>1. ASSUME NEW t \in Times, Call(t) PROVE Outwardly!Send
  BY <1>0, <1>1 DEF Call, Outwardly!Send
<1>2. CASE ReInit \/ SetUpAgain
  <2>1. A' = "none" /\ (ret = "failed" => A = "failed")
    BY <1>2 DEF ReInit, SetUpAgain
  <2>2. /\ pc = "idle" /\ pc' = "idle" /\ tout' = tout
        /\ tretlast' = tretlast \/ (ret = "failed" /\ tretlast' = 0)
    BY <1>2 DEF ReInit, SetUpAgain
  <2>. QED  BY <2>1, <2>2 DEF Outwardly!Restart
<1>3. CASE pc # "idle" /\ pc' # "idle" /\ UNCHANGED <<tretlast, tout, ret>>
  BY <1>3 DEF Outwardly!Work, Outwardly!contractVars
<1>4. ASSUME NEW t \in Nat,
             \/ ret' = "CV_SUCCESS" /\ t = tout
             \/ ret' = "CV_ROOT_RETURN" /\ t <= tout
             \/ ret' \in {"CV_TOO_MUCH_WORK", "CV_TOO_CLOSE"} /\ t < tout
             \/ ret' = "failed",
             t >= tretlast, pc # "idle", pc' = "idle", tretlast' = t, tout' = tout
      PROVE  Outwardly!Answer
  <2>1. /\ ret' = "CV_SUCCESS" => A' = "arrived"
        /\ ret' = "CV_ROOT_RETURN" => A' = "event"
        /\ ret' \in {"CV_TOO_MUCH_WORK", "CV_TOO_CLOSE"} => A' = "exhausted"
        /\ ret' = "failed" => A' = "failed"
    OBVIOUS
  <2>. HIDE DEF A
  <2>2. \/ A' = "arrived" /\ tretlast' = tout
        \/ A' = "event" /\ tretlast' <= tout
        \/ A' = "exhausted" /\ tretlast' < tout
        \/ A' = "failed"
    BY <1>4, <2>1
  <2>. QED  BY <1>4, <2>2 DEF Outwardly!Answer, A
<1>. HIDE DEF A
<1>5. CASE RootFunctionFails \/ CloseRoots \/ StepFails \/ FirstCallFails
  <2>1. /\ pc # "idle" /\ pc' = "idle" /\ tout' = tout /\ tretlast' \in {tretlast, tn}
        /\ ret' = "failed" \/ (pc = "first" /\ ret' = "CV_TOO_CLOSE" /\ tretlast' = tn)
    BY <1>5 DEF RootFunctionFails, CloseRoots, StepFails, FirstCallFails, Return
  <2>2. tretlast' >= tretlast /\ (pc = "first" => tn < tout)
    BY <1>0, <1>5, <2>1 DEF IInv, Phases, Positions, BeforeStep, StepFails, FirstCallFails,
       RootFunctionFails, CloseRoots, Return
  <2>. QED  BY <1>0, <1>4, <2>1, <2>2
<1>6. CASE NextRoot
  <2>1. pc = "stops" /\ pc' = "idle" /\ tout' = tout /\ tretlast' = tlo /\ ret' = "CV_ROOT_RETURN" /\ irfnd
    BY <1>6 DEF NextRoot, Return, CloseZeros, ZerosLeft
  <2>2. CloseZeros # {} /\ Settled
    BY <1>6, <2>1 DEF NextRoot, Settled, IInv, Phases
  <2>3. tretlast = tlo
    BY <2>1, <2>2 DEF NoneClose
  <2>. QED  BY <1>0, <1>4, <2>1, <2>3 DEF IInv, Phases
<1>7. CASE Located
  <2>1. CASE Roots(ghi) # {}
    <3>1. pc = "search" /\ pc' = "idle" /\ tout' = tout /\ tretlast' = thi /\ ret' = "CV_ROOT_RETURN"
      BY <1>7, <2>1 DEF Located, Return
    <3>. QED  BY <1>0, <1>4, <3>1 DEF IInv, Positions, InSearch
  <2>2. CASE ~(Roots(ghi) # {})
    BY <1>3, <1>7, <2>2 DEF Located, callVars
  <2>. QED  BY <2>1, <2>2
<1>8. CASE TooMuchWork \/ StepEvent \/ Arrived
  <2>1. CASE TooMuchWork
    BY <1>0, <1>4, <2>1 DEF TooMuchWork, Return, IInv, Positions, BeforeStep
  <2>2. CASE StepEvent
    <3>1. /\ pc = "searched" /\ ~entry /\ pc' = "idle" /\ tout' = tout
          /\ ret' = "CV_ROOT_RETURN" /\ tretlast' = Lesser(tn, tout)
      BY <2>2 DEF StepEvent, Return, SearchEnd
    <3>. QED  BY <1>0, <1>4, <3>1 DEF IInv, Phases, Positions, AfterSearch, Lesser
  <2>3. CASE Arrived
    BY <1>0, <1>4, <2>3 DEF Arrived, Return, IInv, Phases
  <2>. QED  BY <1>8, <2>1, <2>2, <2>3
<1>9. CASE \E h \in FirstSizes : FirstCall(h)
  BY <1>3, <1>9 DEF FirstCall, IInv, Phases
<1>10. CASE StopTests \/ GoOn \/ (\E mid \in Times : Narrow(mid)) \/ (\E h \in StepSizes : Step(h))
  BY <1>3, <1>10 DEF StopTests, GoOn, Narrow, Step, BeginSearch, callVars
<1>. QED  BY <1>1, <1>2, <1>5, <1>6, <1>7, <1>8, <1>9, <1>10 DEF Next, Inside, Outside

(* CVode keeps to what StepLoop takes the solver to be. *)
THEOREM ContractIsKept == Spec => KeepsContract
<1>1. Init => Outwardly!ContractInit
  BY DEF Init, Outwardly!ContractInit
<1>2. Init => NoneClose
  BY DEF Init, NoneClose, Settled
<1>. QED  BY <1>1, <1>2, ContractStep, NoneCloseStep, Invariant, PTL DEF Spec, KeepsContract, Outwardly!Contract
=============================================================================
