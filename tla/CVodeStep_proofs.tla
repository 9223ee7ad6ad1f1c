-------------------------- MODULE CVodeStep_proofs --------------------------
(***************************************************************************)
(* Proofs about CVodeStep, for every greatest order and every limit: the   *)
(* history array, the sizes of the last steps, the Newton matrix and the   *)
(* choice of the order.                                                    *)
(***************************************************************************)
EXTENDS CVodeStep, TLAPS

(* The failures and the setups of an attempt: the second setup after one   *)
(* that used the saved Jacobian evaluates it.                              *)
Limits ==
    /\ pc \notin {"ready", "failed"} => nef < MaxNef
    /\ setups <= 2
    /\ pc = "system" => setups <= 1
    /\ pc = "system" /\ setups > 0 => callSetup /\ convfail = "CV_FAIL_BAD_J" /\ gamrat = "same"
    /\ pc = "newton" /\ ~jcur => setups <= 1
    /\ pc = "newton" /\ setups > 0 => gamrat = "same"

(* As many sizes are known as are used: at a start none, in an attempt     *)
(* those below the order, and that of the order when a change is           *)
(* considered and after the step.                                          *)
Sizes ==
    /\ nst = 0 => q = 1 /\ qwait >= 2
    /\ nst > 0 => tau[1] = 1 /\ \A i \in Orders : i < q => tau[i] = i
    /\ nst > 0 /\ (pc = "ready" \/ qwait = 1) => tau[q] = q
    /\ pc = "ready" /\ nst > 0 => qprime <= q + 1

(* The Newton matrix and the saved Jacobian are there, unless the last     *)
(* setup failed, and then the next attempt begins with another.            *)
Newton ==
    /\ pc \in {"newton", "test"} => matrix /\ savedJ
    /\ pc = "ready" /\ nst > 0 => matrix /\ savedJ
    /\ pc = "predict" /\ nst > 0 /\ nflag # "PREV_CONV_FAIL" => matrix /\ savedJ
    /\ pc = "system" /\ ~callSetup => matrix /\ savedJ
    /\ pc = "system" /\ callSetup /\ ~Evaluated => savedJ

(* What a change of the order is decided from is of the last step. *)
Fresh ==
    /\ pc \in {"system", "newton", "test"} => tested = (qwait = 1)
    /\ qwait = 1 /\ q # QMax => acor = 1
    /\ pc = "ready" /\ larger /\ qprime > q => acor = 1

IInv == TypeOK /\ HistoryIntact /\ Limits /\ Sizes /\ Newton /\ Fresh

(* The types in three parts. *)
Flags ==
    /\ larger \in BOOLEAN /\ etamax \in BOOLEAN /\ tested \in BOOLEAN
    /\ callSetup \in BOOLEAN /\ jcur \in BOOLEAN /\ matrix \in BOOLEAN /\ savedJ \in BOOLEAN

Numbers ==
    /\ pc \in {"ready", "predict", "system", "newton", "test", "failed"}
    /\ nst \in 0 .. 2
    /\ q \in Orders /\ qprime \in Orders /\ zn \in Orders
    /\ qwait \in 1 .. QMax + 1 + LongWait
    /\ predicted \in 0 .. QMax
    /\ acor \in 1 .. Old
    /\ ncf \in 0 .. MaxNcf /\ nef \in 0 .. MaxNef
    /\ nflag \in {"FIRST_CALL", "PREV_CONV_FAIL", "PREV_ERR_FAIL"}
    /\ gamrat \in {"same", "near", "off", "far"}
    /\ convfail \in {"CV_NO_FAILURES", "CV_FAIL_BAD_J", "CV_FAIL_OTHER"}
    /\ setups \in 0 .. 3
    /\ nstlp \in 0 .. Msbp /\ nstlj \in 0 .. Msbj + 1

Ages == tau \in [Orders -> 1 .. Old]

USE StepAssumption DEF Orders, Old

LEMMA TypeParts == TypeOK <=> Flags /\ Numbers /\ Ages
BY DEF TypeOK, Flags, Numbers, Ages

LEMMA TypePartsNext == TypeOK' <=> Flags' /\ Numbers' /\ Ages'
BY DEF TypeOK, Flags, Numbers, Ages

----------------------------------------------------------------------------
(* The inductive invariant holds at the start, and every step keeps each   *)
(* of its parts.                                                           *)

LEMMA InitSound == Init => IInv
<1>. SUFFICES ASSUME Init PROVE IInv
  OBVIOUS
<1>1. Flags /\ Numbers /\ Ages
  <2>1. Flags  BY DEF Init, Flags
  <2>2. Numbers  BY DEF Init, Numbers
  <2>3. Ages  BY DEF Init, Ages
  <2>. QED  BY <2>1, <2>2, <2>3
<1>2. HistoryIntact /\ Limits
  BY DEF Init, HistoryIntact, Limits
<1>3. Sizes /\ Newton /\ Fresh
  BY DEF Init, Sizes, Newton, Fresh
<1>. QED  BY <1>1, <1>2, <1>3, TypeParts DEF IInv

(* The history array follows the order and the prediction. *)
LEMMA HistoryStep == IInv /\ [Next]_vars => HistoryIntact'
<1>. SUFFICES ASSUME IInv, [Next]_vars PROVE HistoryIntact'
  OBVIOUS
<1>. USE DEF IInv, TypeOK, HistoryIntact, orderVars, newtonVars, failVars
<1>1. CASE ReInit
  BY <1>1 DEF ReInit
<1>2. CASE BeginStep
  BY <1>2 DEF BeginStep, Adjusted
<1>3. CASE Predict
  BY <1>3 DEF Predict, NeedsSetup
<1>4. CASE PredictionFails
  BY <1>4 DEF PredictionFails, Unsolved, Fail, Restored, Retries, Lesser
<1>5. CASE Setup
  BY <1>5 DEF Setup, SetupCalled, Evaluated, Lesser
<1>6. CASE SetupFails
  BY <1>6 DEF SetupFails, SetupCalled, Evaluated, Lesser, Unsolved, Fail, Restored, Retries
<1>7. CASE NoSetup
  BY <1>7 DEF NoSetup
<1>8. CASE Solved
  BY <1>8 DEF Solved
<1>9. CASE TryAgain
  BY <1>9 DEF TryAgain
<1>10. CASE NotSolved
  BY <1>10 DEF NotSolved, Unsolved, Fail, Restored, Retries, Lesser
<1>11. CASE ErrorTestFails
  BY <1>11 DEF ErrorTestFails, Lowered, Adjusted, Restored
<1>12. CASE EndStep
  BY <1>12 DEF EndStep, Complete, Shifted, Older, KeptAcor, MayGrow, Lesser, Greater
<1>13. CASE \E order \in Orders : ChooseOrder(order)
  BY <1>13 DEF ChooseOrder, Complete, Shifted, Older, KeptAcor, KeepsCorrection, ConsiderAgain, MayGrow, Lesser
<1>14. CASE SetUpAgain
  BY <1>14 DEF SetUpAgain
<1>15. CASE UNCHANGED vars
  BY <1>15 DEF vars
<1>. QED  BY <1>1, <1>2, <1>3, <1>4, <1>5, <1>6, <1>7, <1>8, <1>9, <1>10, <1>11, <1>12, <1>13, <1>14, <1>15 DEF Next, Inside

(* The failures and the setups of an attempt stay within their limits. *)
LEMMA LimitsStep == IInv /\ [Next]_vars => Limits'
<1>. SUFFICES ASSUME IInv, [Next]_vars PROVE Limits'
  OBVIOUS
<1>. USE DEF IInv, TypeOK, Limits, Evaluated, orderVars, newtonVars, failVars
<1>1. CASE ReInit
  BY <1>1 DEF ReInit
<1>2. CASE BeginStep
  BY <1>2 DEF BeginStep, Adjusted
<1>3. CASE Predict
  BY <1>3 DEF Predict, NeedsSetup
<1>4. CASE PredictionFails
  BY <1>4 DEF PredictionFails, Unsolved, Fail, Restored, Retries, Lesser
<1>5. CASE Setup
  BY <1>5 DEF Setup, SetupCalled, Evaluated, Lesser
<1>6. CASE SetupFails
  BY <1>6 DEF SetupFails, SetupCalled, Evaluated, Lesser, Unsolved, Fail, Restored, Retries
<1>7. CASE NoSetup
  BY <1>7 DEF NoSetup
<1>8. CASE Solved
  BY <1>8 DEF Solved
<1>9. CASE TryAgain
  BY <1>9 DEF TryAgain
<1>10. CASE NotSolved
  BY <1>10 DEF NotSolved, Unsolved, Fail, Restored, Retries, Lesser
<1>11. CASE ErrorTestFails
  BY <1>11 DEF ErrorTestFails, Lowered, Adjusted, Restored
<1>12. CASE EndStep
  BY <1>12 DEF EndStep, Complete, Shifted, Older, KeptAcor, MayGrow, Lesser, Greater
<1>13. CASE \E order \in Orders : ChooseOrder(order)
  BY <1>13 DEF ChooseOrder, Complete, Shifted, Older, KeptAcor, KeepsCorrection, ConsiderAgain, MayGrow, Lesser
<1>14. CASE SetUpAgain
  BY <1>14 DEF SetUpAgain
<1>15. CASE UNCHANGED vars
  BY <1>15 DEF vars
<1>. QED  BY <1>1, <1>2, <1>3, <1>4, <1>5, <1>6, <1>7, <1>8, <1>9, <1>10, <1>11, <1>12, <1>13, <1>14, <1>15 DEF Next, Inside

(* After a setup that failed the next attempt evaluates the Jacobian. *)
LEMMA NewtonStep == IInv /\ [Next]_vars => Newton'
<1>. SUFFICES ASSUME IInv, [Next]_vars PROVE Newton'
  OBVIOUS
<1>. USE DEF IInv, TypeOK, Newton, Evaluated, Sizes, orderVars, newtonVars, failVars
<1>1. CASE ReInit
  BY <1>1 DEF ReInit
<1>2. CASE BeginStep
  BY <1>2 DEF BeginStep, Adjusted
<1>3. CASE Predict
  BY <1>3 DEF Predict, NeedsSetup
<1>4. CASE PredictionFails
  BY <1>4 DEF PredictionFails, Unsolved, Fail, Restored, Retries, Lesser
<1>5. CASE Setup
  BY <1>5 DEF Setup, SetupCalled, Evaluated, Lesser
<1>6. CASE SetupFails
  BY <1>6 DEF SetupFails, SetupCalled, Evaluated, Lesser, Unsolved, Fail, Restored, Retries
<1>7. CASE NoSetup
  BY <1>7 DEF NoSetup
<1>8. CASE Solved
  BY <1>8 DEF Solved
<1>9. CASE TryAgain
  BY <1>9 DEF TryAgain
<1>10. CASE NotSolved
  BY <1>10 DEF NotSolved, Unsolved, Fail, Restored, Retries, Lesser
<1>11. CASE ErrorTestFails
  BY <1>11 DEF ErrorTestFails, Lowered, Adjusted, Restored
<1>12. CASE EndStep
  BY <1>12 DEF EndStep, Complete, Shifted, Older, KeptAcor, MayGrow, Lesser, Greater
<1>13. CASE \E order \in Orders : ChooseOrder(order)
  BY <1>13 DEF ChooseOrder, Complete, Shifted, Older, KeptAcor, KeepsCorrection, ConsiderAgain, MayGrow, Lesser
<1>14. CASE SetUpAgain
  BY <1>14 DEF SetUpAgain
<1>15. CASE UNCHANGED vars
  BY <1>15 DEF vars
<1>. QED  BY <1>1, <1>2, <1>3, <1>4, <1>5, <1>6, <1>7, <1>8, <1>9, <1>10, <1>11, <1>12, <1>13, <1>14, <1>15 DEF Next, Inside

(* qwait is one only after a step that kept its correction. *)
LEMMA FreshStep == IInv /\ [Next]_vars => Fresh'
<1>. SUFFICES ASSUME IInv, [Next]_vars PROVE Fresh'
  OBVIOUS
<1>. USE DEF IInv, TypeOK, Fresh, Sizes, orderVars, newtonVars, failVars
<1>1. CASE ReInit
  BY <1>1 DEF ReInit
<1>2. CASE BeginStep
  BY <1>2 DEF BeginStep, Adjusted
<1>3. CASE Predict
  BY <1>3 DEF Predict, NeedsSetup
<1>4. CASE PredictionFails
  BY <1>4 DEF PredictionFails, Unsolved, Fail, Restored, Retries, Lesser
<1>5. CASE Setup
  BY <1>5 DEF Setup, SetupCalled, Evaluated, Lesser
<1>6. CASE SetupFails
  BY <1>6 DEF SetupFails, SetupCalled, Evaluated, Lesser, Unsolved, Fail, Restored, Retries
<1>7. CASE NoSetup
  BY <1>7 DEF NoSetup
<1>8. CASE Solved
  BY <1>8 DEF Solved
<1>9. CASE TryAgain
  BY <1>9 DEF TryAgain
<1>10. CASE NotSolved
  BY <1>10 DEF NotSolved, Unsolved, Fail, Restored, Retries, Lesser
<1>11. CASE ErrorTestFails
  BY <1>11 DEF ErrorTestFails, Lowered, Adjusted, Restored
<1>12. CASE EndStep
  BY <1>12 DEF EndStep, Complete, Shifted, Older, KeptAcor, MayGrow, Lesser, Greater
<1>13. CASE \E order \in Orders : ChooseOrder(order)
  BY <1>13 DEF ChooseOrder, Complete, Shifted, Older, KeptAcor, KeepsCorrection, ConsiderAgain, MayGrow, Lesser
<1>14. CASE SetUpAgain
  BY <1>14 DEF SetUpAgain
<1>15. CASE UNCHANGED vars
  BY <1>15 DEF vars
<1>. QED  BY <1>1, <1>2, <1>3, <1>4, <1>5, <1>6, <1>7, <1>8, <1>9, <1>10, <1>11, <1>12, <1>13, <1>14, <1>15 DEF Next, Inside

(* An order is raised by one, and then used for at least that many steps   *)
(* before the size of the oldest one is needed.                            *)
LEMMA SizesStep == IInv /\ [Next]_vars => Sizes'
<1>. SUFFICES ASSUME IInv, [Next]_vars PROVE Sizes'
  OBVIOUS
<1>. USE DEF IInv, TypeOK, Sizes, orderVars, newtonVars, failVars
<1>1. CASE ReInit
  BY <1>1 DEF ReInit
<1>2. CASE BeginStep
  BY <1>2 DEF BeginStep, Adjusted
<1>3. CASE Predict
  BY <1>3 DEF Predict, NeedsSetup
<1>4. CASE PredictionFails
  BY <1>4 DEF PredictionFails, Unsolved, Fail, Restored, Retries, Lesser
<1>5. CASE Setup
  BY <1>5 DEF Setup, SetupCalled, Evaluated, Lesser
<1>6. CASE SetupFails
  BY <1>6 DEF SetupFails, SetupCalled, Evaluated, Lesser, Unsolved, Fail, Restored, Retries
<1>7. CASE NoSetup
  BY <1>7 DEF NoSetup
<1>8. CASE Solved
  BY <1>8 DEF Solved
<1>9. CASE TryAgain
  BY <1>9 DEF TryAgain
<1>10. CASE NotSolved
  BY <1>10 DEF NotSolved, Unsolved, Fail, Restored, Retries, Lesser
<1>11. CASE ErrorTestFails
  BY <1>11 DEF ErrorTestFails, Lowered, Adjusted, Restored
<1>12. CASE EndStep
  <2>1. (nst = 0 => q = 1 /\ qwait >= 2)'
    BY <1>12 DEF EndStep, Complete, Lesser, Greater
  <2>2. (nst > 0 => tau[1] = 1 /\ \A i \in Orders : i < q => tau[i] = i)'
    BY <1>12 DEF EndStep, Complete, Shifted, Older, Lesser
  <2>3. (nst > 0 /\ (pc = "ready" \/ qwait = 1) => tau[q] = q)'
    BY <1>12 DEF EndStep, Complete, Shifted, Older, Lesser
  <2>4. (pc = "ready" /\ nst > 0 => qprime <= q + 1)'
    BY <1>12 DEF EndStep, Complete
  <2> QED
    BY <2>1, <2>2, <2>3, <2>4 DEF Sizes
<1>13. CASE \E order \in Orders : ChooseOrder(order)
  <2>1. PICK order \in Orders : ChooseOrder(order)
    BY <1>13
  <2>2. (nst = 0 => q = 1 /\ qwait >= 2)'
    BY <2>1 DEF ChooseOrder, Complete, ConsiderAgain, Lesser
  <2>3. (nst > 0 => tau[1] = 1 /\ \A i \in Orders : i < q => tau[i] = i)'
    <3>1. q' = q /\ tau' = [i \in Orders |-> IF i = 1 THEN 1
                                            ELSE Older(tau[IF Shifted(i) THEN i - 1 ELSE i])]
      BY <2>1 DEF ChooseOrder, Complete
    <3>2. tau'[1] = 1
      BY <3>1, StepAssumption
    <3>3. ASSUME NEW i \in Orders, i < q, i # 1 PROVE tau'[i] = i
      <4>1. i - 1 \in Orders /\ i - 1 < q /\ nst > 0 /\ Shifted(i)
        BY <3>3, StepAssumption DEF Shifted
      <4>2. tau[i - 1] = i - 1
        BY <4>1
      <4>3. tau'[i] = Older(i - 1)
        BY <3>1, <3>3, <4>1, <4>2
      <4> QED
        BY <4>3, StepAssumption DEF Older, Lesser
    <3> QED
      BY <3>1, <3>2, <3>3
  <2>4. (nst > 0 /\ (pc = "ready" \/ qwait = 1) => tau[q] = q)'
    BY <2>1 DEF ChooseOrder, Complete, Shifted, Older, Lesser
  <2>5. (pc = "ready" /\ nst > 0 => qprime <= q + 1)'
    BY <2>1 DEF ChooseOrder, Complete
  <2> QED
    BY <2>2, <2>3, <2>4, <2>5 DEF Sizes
<1>14. CASE SetUpAgain
  BY <1>14 DEF SetUpAgain
<1>15. CASE UNCHANGED vars
  BY <1>15 DEF vars
<1>. QED  BY <1>1, <1>2, <1>3, <1>4, <1>5, <1>6, <1>7, <1>8, <1>9, <1>10, <1>11, <1>12, <1>13, <1>14, <1>15 DEF Next, Inside

(* An attempt that is given up, for another one or for good. *)
LEMMA UnsolvedNumbers ==
    ASSUME TypeOK, Unsolved \/ (Fail /\ UNCHANGED failVars)
    PROVE  /\ pc' \in {"predict", "failed"} /\ nst' = nst /\ q' = q /\ qprime' = qprime /\ zn' = zn
           /\ qwait' = qwait /\ acor' = acor /\ nef' = nef
           /\ ncf' \in 0 .. MaxNcf /\ predicted' \in 0 .. QMax
           /\ nflag' \in {nflag, "PREV_CONV_FAIL"}
<1>. USE DEF TypeOK, orderVars, failVars
<1>1. predicted' \in 0 .. QMax
  <2>1. predicted' = Restored
    BY DEF Unsolved, Fail
  <2>2. Restored \in 0 .. QMax
    BY StepAssumption DEF Restored
  <2> QED
    BY <2>1, <2>2
<1>2. ncf' \in 0 .. MaxNcf
  <2>1. ncf \in 0 .. MaxNcf /\ MaxNcf \in Nat
    BY StepAssumption
  <2>2. ncf' = Lesser(ncf + 1, MaxNcf) \/ ncf' = ncf
    BY DEF Unsolved
  <2> QED
    BY <2>1, <2>2 DEF Lesser
<1>3. CASE Unsolved
  BY <1>1, <1>2, <1>3 DEF Unsolved
<1>4. CASE Fail /\ UNCHANGED failVars
  BY <1>1, <1>2, <1>4 DEF Fail
<1>. QED  BY <1>3, <1>4

(* The types, part by part. *)
LEMMA NumbersStep == IInv /\ [Next]_vars => Numbers'
<1>. SUFFICES ASSUME IInv, [Next]_vars PROVE Numbers'
  OBVIOUS
<1>. USE DEF IInv, TypeOK, Numbers, Limits, orderVars, newtonVars, failVars
<1>1. CASE ReInit
  BY <1>1 DEF ReInit
<1>2. CASE BeginStep
  BY <1>2 DEF BeginStep, Adjusted
<1>3. CASE Predict
  BY <1>3 DEF Predict, NeedsSetup
<1>4. CASE PredictionFails
  <2>1. TypeOK  BY DEF IInv
  <2>. QED  BY <1>4, <2>1, UnsolvedNumbers DEF PredictionFails
<1>5. CASE Setup
  BY <1>5 DEF Setup, SetupCalled, Evaluated, Lesser
<1>6. CASE SetupFails
  <2>1. TypeOK  BY DEF IInv
  <2>2. Unsolved \/ (Fail /\ UNCHANGED failVars)
    BY <1>6 DEF SetupFails
  <2>3. setups' \in 0 .. 3 /\ nstlp' \in 0 .. Msbp /\ nstlj' \in 0 .. Msbj + 1
    BY <1>6 DEF SetupFails, SetupCalled, Lesser
  <2>4. gamrat' \in {"same", "near", "off", "far"} /\ convfail' = convfail
    BY <1>6 DEF SetupFails, SetupCalled
  <2>. QED  BY <2>1, <2>2, <2>3, <2>4, UnsolvedNumbers
<1>7. CASE NoSetup
  BY <1>7 DEF NoSetup
<1>8. CASE Solved
  BY <1>8 DEF Solved
<1>9. CASE TryAgain
  BY <1>9 DEF TryAgain
<1>10. CASE NotSolved
  <2>1. TypeOK  BY DEF IInv
  <2>. QED  BY <1>10, <2>1, UnsolvedNumbers DEF NotSolved
<1>11. CASE ErrorTestFails
  BY <1>11 DEF ErrorTestFails, Lowered, Adjusted, Restored
<1>12. CASE EndStep
  BY <1>12 DEF EndStep, Complete, Shifted, Older, KeptAcor, MayGrow, Lesser, Greater
<1>13. CASE \E order \in Orders : ChooseOrder(order)
  BY <1>13 DEF ChooseOrder, Complete, Shifted, Older, KeptAcor, KeepsCorrection, ConsiderAgain, MayGrow, Lesser
<1>14. CASE SetUpAgain
  BY <1>14 DEF SetUpAgain
<1>15. CASE UNCHANGED vars
  BY <1>15 DEF vars
<1>. QED  BY <1>1, <1>2, <1>3, <1>4, <1>5, <1>6, <1>7, <1>8, <1>9, <1>10, <1>11, <1>12, <1>13, <1>14, <1>15 DEF Next, Inside

LEMMA FlagsStep == IInv /\ [Next]_vars => Flags'
<1>. SUFFICES ASSUME IInv, [Next]_vars PROVE Flags'
  OBVIOUS
<1>. USE DEF IInv, TypeOK, Flags, orderVars, newtonVars, failVars
<1>1. CASE ReInit
  BY <1>1 DEF ReInit
<1>2. CASE BeginStep
  BY <1>2 DEF BeginStep, Adjusted
<1>3. CASE Predict
  BY <1>3 DEF Predict, NeedsSetup
<1>4. CASE PredictionFails
  BY <1>4 DEF PredictionFails, Unsolved, Fail, Restored, Retries, Lesser
<1>5. CASE Setup
  BY <1>5 DEF Setup, SetupCalled, Evaluated, Lesser
<1>6. CASE SetupFails
  BY <1>6 DEF SetupFails, SetupCalled, Evaluated, Lesser, Unsolved, Fail, Restored, Retries
<1>7. CASE NoSetup
  BY <1>7 DEF NoSetup
<1>8. CASE Solved
  BY <1>8 DEF Solved
<1>9. CASE TryAgain
  BY <1>9 DEF TryAgain
<1>10. CASE NotSolved
  BY <1>10 DEF NotSolved, Unsolved, Fail, Restored, Retries, Lesser
<1>11. CASE ErrorTestFails
  BY <1>11 DEF ErrorTestFails, Lowered, Adjusted, Restored
<1>12. CASE EndStep
  BY <1>12 DEF EndStep, Complete, Shifted, Older, KeptAcor, MayGrow, Lesser, Greater
<1>13. CASE \E order \in Orders : ChooseOrder(order)
  BY <1>13 DEF ChooseOrder, Complete, Shifted, Older, KeptAcor, KeepsCorrection, ConsiderAgain, MayGrow, Lesser
<1>14. CASE SetUpAgain
  BY <1>14 DEF SetUpAgain
<1>15. CASE UNCHANGED vars
  BY <1>15 DEF vars
<1>. QED  BY <1>1, <1>2, <1>3, <1>4, <1>5, <1>6, <1>7, <1>8, <1>9, <1>10, <1>11, <1>12, <1>13, <1>14, <1>15 DEF Next, Inside

LEMMA AgesStep == IInv /\ [Next]_vars => Ages'
<1>. SUFFICES ASSUME IInv, [Next]_vars PROVE Ages'
  OBVIOUS
<1>. USE DEF IInv, TypeOK, Ages, orderVars, newtonVars, failVars
<1>1. CASE ReInit
  BY <1>1 DEF ReInit
<1>2. CASE BeginStep
  BY <1>2 DEF BeginStep, Adjusted
<1>3. CASE Predict
  BY <1>3 DEF Predict, NeedsSetup
<1>4. CASE PredictionFails
  BY <1>4 DEF PredictionFails, Unsolved, Fail, Restored, Retries, Lesser
<1>5. CASE Setup
  BY <1>5 DEF Setup, SetupCalled, Evaluated, Lesser
<1>6. CASE SetupFails
  BY <1>6 DEF SetupFails, SetupCalled, Evaluated, Lesser, Unsolved, Fail, Restored, Retries
<1>7. CASE NoSetup
  BY <1>7 DEF NoSetup
<1>8. CASE Solved
  BY <1>8 DEF Solved
<1>9. CASE TryAgain
  BY <1>9 DEF TryAgain
<1>10. CASE NotSolved
  BY <1>10 DEF NotSolved, Unsolved, Fail, Restored, Retries, Lesser
<1>11. CASE ErrorTestFails
  BY <1>11 DEF ErrorTestFails, Lowered, Adjusted, Restored
<1>12. CASE EndStep
  BY <1>12 DEF EndStep, Complete, Shifted, Older, KeptAcor, MayGrow, Lesser, Greater
<1>13. CASE \E order \in Orders : ChooseOrder(order)
  BY <1>13 DEF ChooseOrder, Complete, Shifted, Older, KeptAcor, KeepsCorrection, ConsiderAgain, MayGrow, Lesser
<1>14. CASE SetUpAgain
  BY <1>14 DEF SetUpAgain
<1>15. CASE UNCHANGED vars
  BY <1>15 DEF vars
<1>. QED  BY <1>1, <1>2, <1>3, <1>4, <1>5, <1>6, <1>7, <1>8, <1>9, <1>10, <1>11, <1>12, <1>13, <1>14, <1>15 DEF Next, Inside

----------------------------------------------------------------------------
(* The theorems.                                                           *)

LEMMA Inductive == IInv /\ [Next]_vars => IInv'
BY TypePartsNext, NumbersStep, FlagsStep, AgesStep, HistoryStep, LimitsStep, NewtonStep,
   FreshStep, SizesStep DEF IInv

LEMMA Invariant == Spec => []IInv
BY InitSound, Inductive, PTL DEF Spec

(* The types. *)
THEOREM StepperTypeCorrect == Spec => []TypeOK
<1>1. IInv => TypeOK
  BY DEF IInv
<1>. QED  BY <1>1, Invariant, PTL

(* However a step is retried, at whatever order, the history array is      *)
(* restored at the order it was predicted at (cvRestore), and adjusted     *)
(* when the order changes: every prediction starts from an intact one.     *)
THEOREM HistoryIsIntact == Spec => []HistoryIntact
<1>1. IInv => HistoryIntact
  BY DEF IInv
<1>. QED  BY <1>1, Invariant, PTL

(* cvSetBDF and cvSetTqBDF only use sizes of steps that cvCompleteStep     *)
(* has kept, after every raise of the order.                               *)
THEOREM StepsAreRemembered == Spec => []StepsRemembered
<1>1. IInv => StepsRemembered
  BY DEF IInv, TypeOK, Sizes, StepsRemembered
<1>. QED  BY <1>1, Invariant, PTL

(* After every failure of the setup or of the iteration the next iteration *)
(* has a factored matrix, and a saved Jacobian is only used where there is *)
(* one.                                                                    *)
THEOREM NewtonIsSound == Spec => []NewtonSound
<1>1. IInv => NewtonSound
  BY DEF IInv, Newton, NewtonSound
<1>. QED  BY <1>1, Invariant, PTL

(* cvChooseEta compares the orders by quantities of this step and the last *)
(* one, and cvIncreaseBDF raises it by the correction of the last step.    *)
THEOREM OrderIsChosenFresh == Spec => OrderChosenFresh
<1>1. IInv /\ [Next]_vars =>
        [/\ pc = "ready" /\ q' > q => acor = 1 /\ \A i \in 2 .. q : tau[i] = i
         /\ pc = "test" /\ pc' = "ready" /\ qprime' # q =>
               tested /\ tau'[2] = 2 /\ (q # QMax => acor = 1)]_vars
  <2>. SUFFICES ASSUME IInv, Next
       PROVE  /\ pc = "ready" /\ q' > q => acor = 1 /\ \A i \in 2 .. q : tau[i] = i
              /\ pc = "test" /\ pc' = "ready" /\ qprime' # q =>
                    tested /\ tau'[2] = 2 /\ (q # QMax => acor = 1)
    OBVIOUS
  <2>. USE DEF IInv, TypeOK, Sizes, Fresh
  <2>1. CASE BeginStep
    BY <2>1 DEF BeginStep
  <2>2. CASE EndStep
    BY <2>2 DEF EndStep, Complete
  <2>3. CASE \E order \in Orders : ChooseOrder(order)
    <3>1. PICK order \in Orders : ChooseOrder(order)
      BY <2>3
    <3>2. tested /\ (q # QMax => acor = 1) /\ nst > 0
      <4>1. pc = "test" /\ qwait = 1
        BY <3>1 DEF ChooseOrder, Complete
      <4>2. tested = (qwait = 1)
        BY <4>1
      <4>3. tested
        BY <4>1, <4>2, Zenon
      <4>. QED  BY <4>1, <4>3
    <3>3. tau'[2] = 2
      BY <3>1, <3>2 DEF ChooseOrder, Complete, Shifted, Older, Lesser
    <3>. QED  BY <3>1, <3>2, <3>3 DEF ChooseOrder, Complete
  <2>4. CASE ReInit
    BY <2>4 DEF ReInit
  <2>5. CASE SetUpAgain \/ (Inside /\ ~EndStep /\ ~\E order \in Orders : ChooseOrder(order))
    <3>1. pc # "ready" /\ ~(pc = "test" /\ pc' = "ready")
      BY <2>5 DEF SetUpAgain, Inside, Predict, PredictionFails, Setup, SetupFails, SetupCalled,
         NoSetup, Solved, TryAgain, NotSolved, ErrorTestFails
    <3>. QED  BY <3>1
  <2>. QED  BY <2>1, <2>2, <2>3, <2>4, <2>5 DEF Next, Inside
<1>. QED  BY <1>1, Invariant, PTL DEF Spec, OrderChosenFresh
=============================================================================
