------------------------------ MODULE CVodeStep ------------------------------
(***************************************************************************)
(* One step of the vendored solver (cvStep) with the variable order BDF    *)
(* method and the Newton iteration: prediction, solution of the nonlinear  *)
(* system with the Newton matrix of cvDenseSetup, error test, retries, and *)
(* the choice of the next size and order.                                  *)
(*                                                                         *)
(* Numbers are abstracted to what the control tells apart.  The history    *)
(* array zn is the order of the polynomial in it and whether a prediction  *)
(* was made; a size is whether the next one is larger; a remembered step   *)
(* or vector is how many steps ago it was the last one.                    *)
(***************************************************************************)
EXTENDS Integers

CONSTANTS
    QMax,            \* qmax, the greatest order
    MaxNcf, MaxNef,  \* convergence and error test failures a step may have
    MaxNef1,         \* MXNEF1: error test failures before the order is lowered
    LongWait,        \* LONG_WAIT
    Msbp, Msbj       \* steps a matrix (MSBP) and a Jacobian (CVD_MSBJ) are kept

ASSUME StepAssumption ==
    /\ QMax \in Nat /\ QMax >= 2
    /\ MaxNcf \in Nat \ {0} /\ MaxNef \in Nat \ {0} /\ MaxNef1 \in Nat
    /\ LongWait \in Nat /\ LongWait >= 2
    /\ Msbp \in Nat \ {0} /\ Msbj \in Nat \ {0}

Orders == 1 .. QMax

(* Longer ago than anything that is used. *)
Old == QMax + 1

VARIABLES
    pc,          \* between steps, about to predict, or in an attempt
    nst,         \* steps since the start; 2 stands for more
    q, qprime,   \* the order, and that of the next step
    qwait,       \* steps until a change of the order is considered
    larger,      \* hprime # h: the next step is to be larger
    etamax,      \* FALSE: etamax = 1, no larger step after a failure
    zn,          \* the order of the polynomial in zn
    predicted,   \* the order at which zn and tn were predicted, 0 if not
    tau,         \* tau[i]: how many steps ago that step was the last one
    acor,        \* how many steps ago the correction in zn[qmax] was the last
    tested,      \* tq[1] and tq[3] were set for this step
    ncf, nef, nflag,
    gamrat,      \* how far gamma is from that of the Newton matrix
    convfail, callSetup,
    jcur,        \* the Jacobian is current
    setups,      \* history: calls of lsetup in this attempt
    nstlp, nstlj,     \* nst - nstlp and nst - nstlj: steps since the last setup,
                      \* and since the last evaluation of the Jacobian
    matrix,      \* the Newton matrix has been factored since the start
    savedJ       \* savedJ is the Jacobian of nstlj

orderVars  == <<q, qprime, qwait, larger, etamax, zn, tau, acor, tested>>
newtonVars == <<gamrat, convfail, callSetup, jcur, setups, nstlp, nstlj, matrix, savedJ>>
failVars   == <<ncf, nef, nflag>>
vars == <<pc, nst, predicted, orderVars, failVars, newtonVars>>

TypeOK ==
    /\ pc \in {"ready", "predict", "system", "newton", "test", "failed"}
    /\ nst \in 0 .. 2
    /\ q \in Orders /\ qprime \in Orders /\ zn \in Orders
    /\ qwait \in 1 .. QMax + 1 + LongWait
    /\ larger \in BOOLEAN /\ etamax \in BOOLEAN /\ tested \in BOOLEAN
    /\ predicted \in 0 .. QMax
    /\ tau \in [Orders -> 1 .. Old] /\ acor \in 1 .. Old
    /\ ncf \in 0 .. MaxNcf /\ nef \in 0 .. MaxNef
    /\ nflag \in {"FIRST_CALL", "PREV_CONV_FAIL", "PREV_ERR_FAIL"}
    /\ gamrat \in {"same", "near", "off", "far"}
    /\ convfail \in {"CV_NO_FAILURES", "CV_FAIL_BAD_J", "CV_FAIL_OTHER"}
    /\ callSetup \in BOOLEAN /\ jcur \in BOOLEAN /\ matrix \in BOOLEAN /\ savedJ \in BOOLEAN
    /\ setups \in 0 .. 3
    /\ nstlp \in 0 .. Msbp /\ nstlj \in 0 .. Msbj + 1

(* CVodeInit, and the first call of CVode, which fills zn[1]. *)
Init ==
    /\ pc = "ready" /\ nst = 0 /\ predicted = 0
    /\ q = 1 /\ qprime = 1 /\ qwait = 2 /\ larger = FALSE /\ etamax = TRUE
    /\ zn = 1 /\ tau = [i \in Orders |-> Old] /\ acor = Old /\ tested = FALSE
    /\ ncf = 0 /\ nef = 0 /\ nflag = "FIRST_CALL"
    /\ gamrat = "same" /\ convfail = "CV_NO_FAILURES" /\ callSetup = FALSE
    /\ jcur = FALSE /\ setups = 0 /\ nstlp = 0 /\ nstlj = 0
    /\ matrix = FALSE /\ savedJ = FALSE

Greater(a, b) == IF a > b THEN a ELSE b
Lesser(a, b)  == IF a < b THEN a ELSE b

(* CVodeReInit and the first call after it (linit forgets the Jacobian).   *)
(* The next order, the saved correction and the steps are those before.    *)
ReInit ==
    /\ pc = "ready"
    /\ nst' = 0 /\ q' = 1 /\ qwait' = 2 /\ etamax' = TRUE
    /\ larger' = FALSE
    /\ zn' = 1
    /\ tau' = [i \in Orders |-> Old] /\ acor' = Old
    /\ nstlp' = 0 /\ nstlj' = 0 /\ matrix' = FALSE /\ savedJ' = FALSE
    /\ UNCHANGED <<pc, predicted, qprime, tested, failVars, gamrat, convfail, callSetup, jcur, setups>>

----------------------------------------------------------------------------
(* A step begins.                                                          *)

(* Mutant of Adjusted: the polynomial is not adjusted to a lower order. *)
AdjustedUpwards(order, to) == IF to > order THEN to ELSE order

(* cvAdjustOrder: zn at another order.  At order 2, zn[2] is dropped.      *)
Adjusted(order, to) == to

(* cvAdjustParams, when the size is to change. *)
BeginStep ==
    /\ pc = "ready"
    /\ ncf' = 0 /\ nef' = 0 /\ nflag' = "FIRST_CALL"
    /\ IF nst > 0 /\ larger
       THEN /\ larger' = FALSE
            /\ q' = qprime
            /\ qwait' = IF qprime # q THEN qprime + 1 ELSE qwait
            /\ zn' = IF qprime # q THEN Adjusted(zn, qprime) ELSE zn
       ELSE UNCHANGED <<larger, q, qwait, zn>>
    /\ pc' = "predict"
    /\ UNCHANGED <<nst, predicted, qprime, etamax, tau, acor, tested, newtonVars>>

(* Mutant of NeedsSetup: a convergence failure asks for none. *)
NeedsSetupUnlessFailed(gam) == nflag = "PREV_ERR_FAIL" \/ nst = 0 \/ nstlp >= Msbp \/ gam = "far"

(* Does the system need a new Newton matrix? *)
NeedsSetup(gam) ==
    \/ nflag \in {"PREV_CONV_FAIL", "PREV_ERR_FAIL"}
    \/ nst = 0 \/ nstlp >= Msbp \/ gam = "far"

(* cvPredict, cvSet, and the decisions at the beginning of cvNlsNewton.    *)
Predict ==
    /\ pc = "predict"
    /\ predicted' = q
    /\ tested' = (qwait = 1)
    /\ gamrat' \in (IF nst = 0 THEN {"same"} ELSE {"same", "near", "off", "far"})
    /\ callSetup' = NeedsSetup(gamrat')
    /\ convfail' = IF nflag = "PREV_CONV_FAIL" THEN "CV_FAIL_OTHER" ELSE "CV_NO_FAILURES"
    /\ setups' = 0
    /\ pc' = "system"
    /\ UNCHANGED <<nst, q, qprime, qwait, larger, etamax, zn, tau, acor, failVars,
                   jcur, nstlp, nstlj, matrix, savedJ>>

(* cvRestore undoes the prediction, at the present order. *)
Restored == IF predicted = q THEN 0 ELSE predicted

Fail ==
    /\ predicted' = Restored
    /\ pc' = "failed"
    /\ UNCHANGED <<nst, orderVars>>

----------------------------------------------------------------------------
(* The nonlinear system.                                                   *)

(* Mutant of Retries: without end. *)
RetriesAlways == TRUE

Retries == ncf + 1 < MaxNcf

(* cvHandleNFlag: the system is not solved, though nothing failed for      *)
(* good.  The step is retried with a smaller size.                         *)
Unsolved ==
    /\ ncf' = Lesser(ncf + 1, MaxNcf)
    /\ etamax' = FALSE
    /\ predicted' = Restored
    /\ IF Retries
       THEN nflag' = "PREV_CONV_FAIL" /\ pc' = "predict"
       ELSE UNCHANGED nflag /\ pc' = "failed"
    /\ UNCHANGED <<nst, q, qprime, qwait, larger, zn, tau, acor, tested, nef>>

(* The right-hand side cannot be evaluated. *)
PredictionFails ==
    /\ pc = "system"
    /\ \/ Unsolved
       \/ Fail /\ UNCHANGED failVars
    /\ UNCHANGED newtonVars

(* Mutant of Evaluated: a bad Jacobian is kept unless it is old.           *)
EvaluatedIfOld == nst = 0 \/ nstlj > Msbj \/ convfail = "CV_FAIL_OTHER"

(* cvDenseSetup: is the Jacobian evaluated, or the saved one used? *)
Evaluated ==
    \/ nst = 0 \/ nstlj > Msbj
    \/ convfail = "CV_FAIL_BAD_J" /\ gamrat \in {"same", "near"}
    \/ convfail = "CV_FAIL_OTHER"

(* lsetup was called. *)
SetupCalled ==
    /\ pc = "system" /\ callSetup
    /\ callSetup' = FALSE
    /\ gamrat' = "same" /\ nstlp' = 0
    /\ setups' = Lesser(setups + 1, 4)
    /\ jcur' = Evaluated
    /\ nstlj' = IF Evaluated THEN 0 ELSE nstlj
    /\ UNCHANGED convfail

Setup ==
    /\ SetupCalled
    /\ matrix' = TRUE
    /\ savedJ' = (savedJ \/ Evaluated)
    /\ pc' = "newton"
    /\ UNCHANGED <<nst, predicted, orderVars, failVars>>

(* The Jacobian cannot be evaluated, and the saved one is older than       *)
(* nstlj says; or the matrix is singular.                                  *)
SetupFails ==
    /\ SetupCalled
    /\ matrix' = FALSE
    /\ \/ Evaluated /\ savedJ' = FALSE /\ (Unsolved \/ (Fail /\ UNCHANGED failVars))
       \/ savedJ' = (savedJ \/ Evaluated) /\ Unsolved

NoSetup ==
    /\ pc = "system" /\ ~callSetup
    /\ pc' = "newton"
    /\ UNCHANGED <<nst, predicted, orderVars, failVars, newtonVars>>

Solved ==
    /\ pc = "newton"
    /\ jcur' = FALSE
    /\ pc' = "test"
    /\ UNCHANGED <<nst, predicted, orderVars, failVars, gamrat, convfail, callSetup,
                   setups, nstlp, nstlj, matrix, savedJ>>

(* No convergence, with a Jacobian that is not current: another setup. *)
TryAgain ==
    /\ pc = "newton" /\ ~jcur
    /\ callSetup' = TRUE /\ convfail' = "CV_FAIL_BAD_J"
    /\ pc' = "system"
    /\ UNCHANGED <<nst, predicted, orderVars, failVars, gamrat, jcur, setups, nstlp,
                   nstlj, matrix, savedJ>>

(* No convergence with a current one, or a failure for good. *)
NotSolved ==
    /\ pc = "newton"
    /\ \/ jcur /\ Unsolved
       \/ Fail /\ UNCHANGED failVars
    /\ UNCHANGED newtonVars

----------------------------------------------------------------------------
(* The error test.                                                         *)

Lowered == q' = q - 1 /\ zn' = Adjusted(zn, q - 1) /\ qwait' = q

(* cvDoErrorTest: the step is retried with a smaller size; after some      *)
(* failures at a lower order, at order 1 from the derivative, which may    *)
(* not be had.                                                             *)
ErrorTestFails ==
    /\ pc = "test"
    /\ nef' = nef + 1 /\ nflag' = "PREV_ERR_FAIL"
    /\ predicted' = Restored
    /\ \/ nef + 1 = MaxNef /\ pc' = "failed" /\ UNCHANGED <<q, qwait, zn, etamax>>
       \/ /\ nef + 1 # MaxNef /\ etamax' = FALSE
          /\ \/ nef + 1 <= MaxNef1 /\ pc' = "predict" /\ UNCHANGED <<q, qwait, zn>>
             \/ nef + 1 > MaxNef1 /\ q > 1 /\ pc' = "predict" /\ Lowered
             \/ /\ nef + 1 > MaxNef1 /\ q = 1
                /\ qwait' = LongWait
                /\ pc' \in {"predict", "failed"}
                /\ UNCHANGED <<q, zn>>
    /\ UNCHANGED <<nst, qprime, larger, tau, acor, tested, ncf, newtonVars>>

(* Mutant of Shifted: the steps are shifted only below the order. *)
ShiftedBelow(i) == i \in 2 .. q - 1 \/ (i = 2 /\ q = 1 /\ nst > 0)

(* cvCompleteStep remembers the sizes of the last steps. *)
Shifted(i) == i \in 2 .. q \/ (i = 2 /\ q = 1 /\ nst > 0)

Older(age) == Lesser(age + 1, Old)

ConsiderAgain == 2

(* Mutant of KeepsCorrection: only where it is used for the test. *)
KeepsCorrectionBefore(order) == FALSE

(* cvChooseEta saves the correction an increase is made from. *)
KeepsCorrection(order) == order > q

MayGrow == etamax

(* cvCompleteStep, and cvPrepareNextStep without a change of the order:    *)
(* after failures the change is put off.                                   *)
Complete ==
    /\ pc = "test"
    /\ nst' = Lesser(nst + 1, 2)
    /\ tau' = [i \in Orders |-> IF i = 1 THEN 1 ELSE Older(tau[IF Shifted(i) THEN i - 1 ELSE i])]
    /\ nstlp' = Lesser(nstlp + 1, Msbp) /\ nstlj' = Lesser(nstlj + 1, Msbj + 1)
    /\ predicted' = 0
    /\ pc' = "ready" /\ etamax' = TRUE
    /\ UNCHANGED <<q, zn, tested, failVars, gamrat, convfail, callSetup, jcur, setups, matrix, savedJ>>

(* At qwait = 1 the correction is kept in zn[qmax]. *)
KeptAcor == IF qwait - 1 = 1 /\ q # QMax THEN 1 ELSE Older(acor)

EndStep ==
    /\ Complete
    /\ acor' = KeptAcor
    /\ qprime' = q
    /\ \/ ~MayGrow /\ qwait' = Greater(qwait - 1, 2) /\ larger' = FALSE
       \/ MayGrow /\ qwait > 1 /\ qwait' = qwait - 1 /\ larger' \in BOOLEAN

(* cvPrepareNextStep and cvChooseEta, when a change of order is considered. *)
ChooseOrder(order) ==
    /\ Complete
    /\ MayGrow /\ qwait = 1
    /\ qwait' = ConsiderAgain
    /\ order \in {q - 1, q, q + 1}
    /\ qprime' = order
    /\ larger' \in (IF order = q THEN BOOLEAN ELSE {TRUE})
    /\ acor' = IF KeepsCorrection(order) THEN 1 ELSE KeptAcor

----------------------------------------------------------------------------
(* The instance failed, and is set up again. *)
SetUpAgain ==
    /\ pc = "failed"
    /\ pc' = "ready" /\ nst' = 0 /\ predicted' = 0
    /\ q' = 1 /\ qprime' = 1 /\ qwait' = 2 /\ larger' = FALSE /\ etamax' = TRUE
    /\ zn' = 1 /\ tau' = [i \in Orders |-> Old] /\ acor' = Old /\ tested' = FALSE
    /\ ncf' = 0 /\ nef' = 0 /\ nflag' = "FIRST_CALL"
    /\ gamrat' = "same" /\ convfail' = "CV_NO_FAILURES" /\ callSetup' = FALSE
    /\ jcur' = FALSE /\ setups' = 0 /\ nstlp' = 0 /\ nstlj' = 0
    /\ matrix' = FALSE /\ savedJ' = FALSE

(* What cvStep does once called. *)
Inside ==
    \/ Predict \/ PredictionFails \/ Setup \/ SetupFails \/ NoSetup
    \/ Solved \/ TryAgain \/ NotSolved
    \/ ErrorTestFails \/ EndStep \/ \E order \in Orders : ChooseOrder(order)

Next == BeginStep \/ Inside \/ ReInit \/ SetUpAgain

Spec == Init /\ [][Next]_vars

(* cvStep is one function: once called it goes on, as far as the equations *)
(* and the linear solver it calls return.                                  *)
FairSpec == Spec /\ WF_vars(Inside)

----------------------------------------------------------------------------
(* Properties.                                                             *)

(* Between attempts the history array is as it was before the prediction,  *)
(* at the order the next prediction is made at, and so it is when the step *)
(* failed and CVode returns the state it holds.                            *)
HistoryIntact ==
    /\ pc \in {"ready", "predict", "failed"} => predicted = 0 /\ zn = q
    /\ pc \in {"system", "newton", "test"} => predicted = q /\ zn = q

(* The coefficients of the method are made of the sizes of as many last    *)
(* steps as the order has, whatever the order was before.                  *)
StepsRemembered ==
    pc = "system" => \A i \in 1 .. q : i < q \/ qwait = 1 => tau[i] = i

(* An order is chosen with test quantities set for this step, and compared *)
(* with the correction and the size of the step before.  The step after it *)
(* raises the order with the correction of the last step, and the last     *)
(* steps known: what comes between leaves no choice that is out of date.   *)
OrderChosenFresh ==
    [][/\ pc = "ready" /\ q' > q => acor = 1 /\ \A i \in 2 .. q : tau[i] = i
       /\ pc = "test" /\ pc' = "ready" /\ qprime' # q =>
             tested /\ tau'[2] = 2 /\ (q # QMax => acor = 1)]_vars

(* The iteration has a matrix that was factored, and the saved Jacobian is *)
(* used only as the one last evaluated.                                    *)
NewtonSound ==
    /\ pc = "newton" => matrix
    /\ pc = "system" /\ callSetup /\ ~Evaluated => savedJ

(* A step is completed or fails: each attempt has few setups, and the      *)
(* retries are limited.                                                    *)
StepEnds == pc = "predict" ~> pc \in {"ready", "failed"}
=============================================================================
