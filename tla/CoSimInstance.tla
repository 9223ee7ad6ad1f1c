--------------------------- MODULE CoSimInstance ---------------------------
(***************************************************************************)
(* One co-simulation instance of the FMU and the master that calls it: the *)
(* entry points fmi2Instantiate ... fmi2FreeInstance in any order a master *)
(* may call them, each an action that does all its function does.          *)
(*                                                                         *)
(* fmi2DoStep is split at its integration loop: DoStep is everything up to *)
(* the loop, then come any number of solver steps and events, and StepDone *)
(* leaves the loop.  Time is abstracted: whether the loop goes on, meets   *)
(* an event or ends is the environment's choice.                           *)
(*                                                                         *)
(* An assertion that fails, and the use of solver memory that is gone, end *)
(* the behaviour (comp.aborted): nothing happens after them.               *)
(***************************************************************************)
EXTENDS FmuComponent

CONSTANTS
    StringParameters,  \* the model has string parameters that can be set
    SnapshotModes      \* the modes in which the master saves the FMU state

ASSUME StringParametersAssumption == StringParameters \in BOOLEAN
ASSUME SnapshotModesAssumption == SnapshotModes \subseteq Modes

VARIABLES
    comp,      \* the instance
    saved,     \* the FMU state the master holds, or NoState
    status,    \* what the last call returned
    phase      \* "idle", "stepping" inside fmi2DoStep, or "freed"

vars == <<comp, saved, status, phase>>

(* No FMU state is held; a record, to be comparable with one that is. *)
NoState == [held |-> FALSE]
HeldState(c) == [held |-> TRUE, comp |-> c]
States == {NoState} \cup [held : {TRUE}, comp : Components]

(* The sections the value references of variables ask for (their top bits). *)
Demands == Start .. Variable

(* FMI 2 statuses as far as this runtime produces them, and the values of  *)
(* phase.                                                                  *)
Phases == {"idle", "stepping", "freed"}

TypeOK ==
    /\ comp \in Components
    /\ saved \in States
    /\ status \in FMIStatuses
    /\ phase \in Phases

(* A new instance: nothing is computed, nothing is set up. *)
NewInstance ==
    [mStatus |-> "Instantiated", icall |-> Start, valWasSet |-> FALSE,
     fmi2ComputeInit |-> FALSE, reinitCvode |-> FALSE,
     terminationByModel |-> FALSE, QiErr |-> "ok", iData |-> FALSE,
     newParameters |-> TRUE, aborted |-> FALSE,
     fresh |-> Start, solved |-> FALSE, synced |-> FALSE,
     changed |-> FALSE, terminals |-> 0]

Init ==
    /\ comp = NewInstance
    /\ saved = NoState
    /\ status = "OK"
    /\ phase = "idle"

(* The master may call the instance. *)
Callable == phase = "idle" /\ ~comp.aborted

(* The call in progress ends with one of the results S. *)
Finish(S) ==
    /\ \E x \in S : comp' = x.comp /\ status' = x.status
    /\ phase' = "idle"
    /\ UNCHANGED saved

----------------------------------------------------------------------------
(* Initialisation.                                                         *)

(* fmi2SetupExperiment, called before initialisation: sets the start time. *)
SetupExperiment ==
    /\ Callable
    /\ comp.mStatus = "Instantiated"
    /\ Finish({Return("OK", [comp EXCEPT !.icall = Start, !.fresh = Start,
                                         !.solved = FALSE, !.synced = FALSE])})

(* fmi2EnterInitializationMode only notes that initialisation is to come. *)
EnterInitializationMode ==
    /\ Callable
    /\ Finish(IF comp.mStatus # "Instantiated" THEN UtilError(comp)
              ELSE {Return("OK", [comp EXCEPT !.fmi2ComputeInit = TRUE,
                                              !.mStatus = "InitializationMode"])})

(* What fmi2ExitInitializationMode does with its evaluation. *)
InitialisationDone(x) ==
    IF x.err # "ok" THEN UtilError(x.comp)
    ELSE {Return("OK", [x.comp EXCEPT !.mStatus = "ContinuousTimeMode"])}

(* Mutant of ExitInitializationMode: only the outputs are evaluated. *)
ExitInitializationModeUnsolved ==
    /\ Callable
    /\ Finish(IF comp.mStatus # "InitializationMode" THEN UtilError(comp)
              ELSE UNION {InitialisationDone(x) : x \in RefreshCache(comp, Output)})

(* The initial equations once more, now with their event iteration. *)
ExitInitializationMode ==
    /\ Callable
    /\ Finish(IF comp.mStatus # "InitializationMode" THEN UtilError(comp)
              ELSE UNION {InitialisationDone(x) : x \in RefreshCache(comp, Start)})

----------------------------------------------------------------------------
(* Getting and setting values.                                             *)

(* When a getter evaluates the model: in initialisation mode only after a  *)
(* value was set, else when the cache does not hold the demanded section.  *)
NeedsRefresh(c, demand) ==
    \/ c.mStatus # "InitializationMode" /\ c.icall < demand
    \/ c.mStatus = "InitializationMode" /\ c.valWasSet
    \/ c.fmi2ComputeInit

(* What is left of a getter once its evaluation is done: looking up the    *)
(* references, of which one may be unknown.                                *)
LookUp(c) == {Return("OK", c)} \cup UtilError(c)

(* What a getter does with its evaluation x. *)
AfterRefresh(x, discards) ==
    IF x.err = "ok" THEN LookUp(x.comp)
    ELSE IF x.err = "recoverable" /\ discards THEN {Return("Discard", x.comp)}
    ELSE UtilError(x.comp)

(* fmi2GetReal, and fmi2GetInteger and fmi2GetBoolean, which never discard. *)
Get(demand, real) ==
    /\ Callable
    /\ Finish(IF comp.mStatus = "Instantiated" THEN UtilError(comp)
              ELSE IF comp.mStatus = "Terminated" \/ ~NeedsRefresh(comp, demand)
                  THEN LookUp(comp)
              ELSE UNION {AfterRefresh(x, real) : x \in RefreshCache(comp, demand)})

(* fmi2GetString evaluates a terminated model too. *)
GetString ==
    /\ Callable
    /\ StringParameters
    /\ Finish(IF comp.mStatus = "Instantiated" THEN UtilError(comp)
              ELSE IF ~NeedsRefresh(comp, Start) THEN LookUp(comp)
              ELSE UNION {AfterRefresh(x, FALSE) : x \in RefreshCache(comp, Start)})

(* fmi2GetRealOutputDerivatives always evaluates the outputs. *)
GetRealOutputDerivatives ==
    /\ Callable
    /\ Finish(IF comp.mStatus = "Instantiated" THEN UtilError(comp)
              ELSE UNION {AfterRefresh(x, FALSE) : x \in RefreshCache(comp, Output)})

(* A value (of a parameter or not) is other than before.  Until the run    *)
(* starts it is a start value the initial equations depend on.             *)
WithValueSet(c, parameter) ==
    [c EXCEPT !.fresh = Start,
              !.changed = TRUE,
              !.synced = FALSE,
              !.solved = c.solved /\ c.mStatus \notin {"Instantiated", "InitializationMode"},
              !.newParameters = c.newParameters \/ parameter]

(* fmi2SetReal, fmi2SetInteger and fmi2SetBoolean with a value that        *)
(* differs from the present one (with the present one nothing happens).    *)
(* When a later reference of the list cannot be set, what precedes it is   *)
(* set but not noted.                                                      *)
Set(parameter) ==
    /\ Callable
    /\ Finish({Return("OK", [WithValueSet(comp, parameter) EXCEPT
                               !.icall = Start,
                               !.valWasSet = TRUE,
                               !.reinitCvode = TRUE])}
                \cup UtilError(comp)
                \cup UtilError(WithValueSet(comp, parameter)))

(* fmi2SetString counts the parameter change and notes nothing else. *)
SetString ==
    /\ Callable
    /\ StringParameters
    /\ Finish({Return("OK", WithValueSet(comp, TRUE))})

----------------------------------------------------------------------------
(* FMU states.                                                             *)

(* fmi2GetFMUstate: copyVariables copies all but the last error code, and  *)
(* integration_get_state whether there is a solver.                        *)
GetFMUstate ==
    /\ Callable
    /\ comp.mStatus \in SnapshotModes
    /\ saved' = HeldState([comp EXCEPT !.QiErr = "ok"])
    /\ status' = "OK"
    /\ UNCHANGED <<comp, phase>>

(* Mutants of Restored: the solver is not restarted; the solver is taken   *)
(* over as it was saved; the cache is taken for that of the instance; that *)
(* the model had stopped by itself is not copied.                          *)
RestoredStale(c, s) ==
    LET v == [s EXCEPT !.QiErr = c.QiErr, !.iData = c.iData \/ s.iData, !.synced = c.synced]
    IN  IF v.iData THEN v ELSE IntegrationSetup(v)

RestoredWithoutSolver(c, s) == [s EXCEPT !.QiErr = c.QiErr, !.iData = c.iData]

RestoredKeepingCache(c, s) ==
    LET v == [s EXCEPT !.QiErr = c.QiErr, !.iData = c.iData \/ s.iData, !.icall = c.icall]
    IN  IntegrationReinit(IF v.iData THEN v ELSE IntegrationSetup(v))

RestoredUnstopped(c, s) ==
    LET v == [s EXCEPT !.QiErr = c.QiErr, !.iData = c.iData \/ s.iData,
                       !.terminationByModel = c.terminationByModel]
    IN  IntegrationReinit(IF v.iData THEN v ELSE IntegrationSetup(v))

(* fmi2SetFMUstate: the solver is cloned, kept, or set up from scratch, so *)
(* that one is there afterwards, and is restarted in any case.             *)
Restored(c, s) ==
    LET v == [s EXCEPT !.QiErr = c.QiErr, !.iData = c.iData \/ s.iData]
    IN  IntegrationReinit(IF v.iData THEN v ELSE IntegrationSetup(v))

SetFMUstate ==
    /\ Callable
    /\ saved.held
    /\ Finish({Return("OK", Restored(comp, saved.comp))})

FreeFMUstate ==
    /\ Callable
    /\ saved.held
    /\ saved' = NoState
    /\ status' = "OK"
    /\ UNCHANGED <<comp, phase>>

----------------------------------------------------------------------------
(* fmi2DoStep.                                                             *)

(* Mutant of Prepared: the event may pass without a restart of the solver. *)
PreparedMinor(c) ==
    IF c.valWasSet THEN {[h EXCEPT !.comp.valWasSet = FALSE] : h \in HandleEvent(c, FALSE)}
    ELSE {Return("OK", IF c.reinitCvode THEN IntegrationReinit(c) ELSE c)}

(* Before the loop: events for values set from outside, or else a restart  *)
(* of the solver if one is due, and derivatives to start from.             *)
Prepared(c) ==
    LET s == IF c.reinitCvode THEN IntegrationReinit(c) ELSE c
    IN  IF c.valWasSet THEN {[h EXCEPT !.comp.valWasSet = FALSE] : h \in HandleEvent(c, TRUE)}
        ELSE IF s.icall >= Derivative THEN {Return("OK", s)}
        ELSE UNION {CASE x.err = "ok"          -> {Return("OK", x.comp)}
                      [] x.err = "recoverable" -> {Return("Discard", x.comp)}
                      [] OTHER                 -> UtilError(x.comp) :
                      x \in RefreshCache(s, Derivative)}

(* Mutant of MayStep: a model that stopped by itself is stepped on. *)
MayStepOn(c) == c.mStatus = "ContinuousTimeMode"

MayStep(c) == c.mStatus = "ContinuousTimeMode" /\ ~c.terminationByModel

(* The loop is entered unless a preparation fails; assert(comp->iData !=   *)
(* NULL) is the last thing before it.                                      *)
DoStep ==
    /\ Callable
    /\ MayStep(comp)
    /\ \/ \E x \in Prepared(comp) :
             /\ x.status = "OK"
             /\ comp' = [x.comp EXCEPT !.aborted = ~x.comp.iData]
             /\ phase' = "stepping"
             /\ UNCHANGED <<saved, status>>
       \/ Finish({x \in Prepared(comp) : x.status # "OK"})

(* The calls that step nothing: before the run, after it, past its end. *)
DoStepRefused ==
    /\ Callable
    /\ Finish(IF MayStep(comp) THEN {Return("Warning", comp)} ELSE UtilError(comp))

Stepping == phase = "stepping" /\ ~comp.aborted

(* fmiSetTime_ at a new time: nothing in the cache holds any more. *)
AtNewTime(c) == [c EXCEPT !.icall = Start, !.fresh = Start]

(* CVode reached the time asked for.  Its callbacks evaluated the model,   *)
(* and the first of these evaluations also took note of new parameters.    *)
Integrate ==
    /\ Stepping
    /\ comp' = [AtNewTime(comp) EXCEPT !.valWasSet = FALSE,
                                       !.changed = comp.changed /\ ~comp.newParameters,
                                       !.newParameters = FALSE,
                                       !.QiErr = "ok"]
    /\ UNCHANGED <<saved, status, phase>>

(* A state, step or time event is met and handled. *)
StepEvent ==
    /\ Stepping
    /\ LET S == HandleEvent(AtNewTime(comp), FALSE)
       IN  \/ \E x \in S : x.status = "OK" /\ comp' = x.comp /\ UNCHANGED <<saved, status, phase>>
           \/ Finish({x \in S : x.status # "OK"})

(* CVode gives up; its callbacks last met a recoverable error or none. *)
SolverFails ==
    /\ Stepping
    /\ \E err \in {"ok"} \cup (Faults \ {"failed"}) :
          Finish(UtilError([AtNewTime(comp) EXCEPT !.QiErr = err, !.newParameters = FALSE]))

(* A callback of CVode meets any other error: fmiGetDerivatives_ and       *)
(* fmiGetEventIndicators_ call util_error, which frees the solver that is  *)
(* running.  Whether CVode then crashes or reports an error is undefined.  *)
CallbackFails ==
    /\ Stepping
    /\ \E err \in Faults \ {"recoverable"}, n \in Sections, crash \in BOOLEAN :
          LET c == [AtNewTime(comp) EXCEPT !.QiErr = err, !.icall = n, !.newParameters = FALSE]
          IN  Finish({[x EXCEPT !.comp.aborted = crash] : x \in UtilError(c)})

(* The loop ends at the communication point. *)
StepDone ==
    /\ Stepping
    /\ Finish({Return("OK", comp)})

----------------------------------------------------------------------------
(* The end of a run and of the instance.                                   *)

Terminate ==
    /\ Callable
    /\ Finish(TerminateSlave(comp))

(* Start values are put back; everything but the values is left alone. *)
WithStartValues(c) ==
    [c EXCEPT !.mStatus = "Instantiated", !.fresh = Start, !.solved = FALSE,
              !.synced = FALSE, !.changed = FALSE, !.terminals = 0]

(* fmi2Reset: a live run is terminated first. *)
Reset ==
    /\ Callable
    /\ Finish(CASE comp.mStatus = "Instantiated" -> {Return("OK", comp)}
                [] comp.mStatus = "Terminated" -> {Return("OK", WithStartValues(comp))}
                [] OTHER -> {IF x.status = "Error" THEN x
                             ELSE Return("OK", WithStartValues(x.comp)) :
                               x \in TerminateSlave(comp)})

FreeInstance ==
    /\ Callable
    /\ ~saved.held
    /\ phase' = "freed"
    /\ UNCHANGED <<comp, saved, status>>

----------------------------------------------------------------------------
(* fmi2GetReal, fmi2GetInteger, fmi2GetBoolean and fmi2GetString, *)
(* fmi2SetReal, fmi2SetInteger, fmi2SetBoolean and fmi2SetString. *)
GetValues ==
    /\ Callable
    /\ (\E demand \in Demands, real \in BOOLEAN : Get(demand, real)) \/ GetString

SetValues ==
    /\ Callable
    /\ (\E parameter \in BOOLEAN : Set(parameter)) \/ SetString

Next ==
    \/ SetupExperiment \/ EnterInitializationMode \/ ExitInitializationMode
    \/ GetValues \/ GetRealOutputDerivatives \/ SetValues
    \/ GetFMUstate \/ SetFMUstate \/ FreeFMUstate
    \/ DoStep \/ DoStepRefused
    \/ Integrate \/ StepEvent \/ SolverFails \/ CallbackFails \/ StepDone
    \/ Terminate \/ Reset \/ FreeInstance

Spec == Init /\ [][Next]_vars

----------------------------------------------------------------------------
(* Properties.                                                             *)

Running == comp.mStatus = "ContinuousTimeMode" /\ ~comp.aborted

(* While a run is on, the cache answers honestly: every section a getter   *)
(* would take from it was computed from the present time, states, inputs   *)
(* and parameters (FMI_GET and util_refresh_cache, together with every     *)
(* function that changes one of those).                                    *)
CacheHonest == Running => comp.icall <= comp.fresh

(* A run in progress has a solver: what fmiDoStep_ asserts before its loop *)
(* ("integration should have been setup by now") and what its restarts of  *)
(* the solver rely on without asking.                                      *)
SolverReady == Running => comp.iData

(* The solver steps from where the instance is: whenever fmiDoStep_ calls  *)
(* it, it was given the present states after the last thing that moved     *)
(* them or changed what they depend on.                                    *)
StepStartsSynced == Stepping => comp.synced

(* A run starts only from solved initial equations, although they are      *)
(* solved as late as the first evaluation asks for them.                   *)
RunningIsInitialised == Running => comp.solved /\ ~comp.fmi2ComputeInit

(* The terminal section of the model runs at most once per run, whichever  *)
(* of fmi2Terminate, fmi2Reset and the error paths end it, also when they  *)
(* follow or call one another.                                             *)
TerminalOnce == comp.terminals <= 1

(* Reporting an error ends the instance: it is terminated, without solver, *)
(* and so no later call steps it (util_error's contract).                  *)
ErrorEndsInstance ==
    status = "Error" /\ ~Stepping /\ ~comp.aborted => comp.mStatus = "Terminated"

(* The terminal section has run only in a terminated instance, and once.   *)
Accounted(c) ==
    /\ c \in Components
    /\ c.mStatus # "Terminated" => c.terminals = 0
    /\ c.terminals <= 1

(* An instance in initialisation mode has its initialisation before it or  *)
(* its solver set up; a running one is initialised and has its solver.     *)
Sound(c) ==
    /\ Accounted(c)
    /\ c.mStatus = "InitializationMode" => c.aborted \/ c.iData \/ c.fmi2ComputeInit
    /\ c.mStatus = "ContinuousTimeMode" =>
          c.aborted \/ (c.iData /\ c.solved /\ ~c.fmi2ComputeInit)

SavedSound == saved.held => Sound(saved.comp) /\ ~saved.comp.aborted

(* Why SolverReady, RunningIsInitialised, TerminalOnce and                 *)
(* ErrorEndsInstance hold: the instance and its saved state are sound      *)
(* between any two calls, and only a running one steps.                    *)
InstanceSound ==
    /\ Sound(comp)
    /\ SavedSound
    /\ Stepping => Running
    /\ ErrorEndsInstance

(* fmiDoStep_ handles events for "any values changed externally" before    *)
(* the solver moves on.                                                    *)
ChangesHandled == Stepping => ~comp.changed

(* integration_setup's assert(comp->iData == NULL) and fmiDoStep_'s        *)
(* assert(comp->iData != NULL) hold.                                       *)
AssertionsHold == ~comp.aborted

----------------------------------------------------------------------------
(* The life of the instance, as its master sees it.                        *)

StageOf(c) ==
    IF c.aborted THEN "aborted"
    ELSE CASE c.mStatus = "Instantiated" -> "instantiated"
           [] c.mStatus = "InitializationMode" -> "initialising"
           [] c.mStatus = "Terminated" -> "terminated"
           [] OTHER -> IF c.terminationByModel THEN "stopped" ELSE "running"

Life == INSTANCE FmiLifecycle WITH
    stage <- IF comp.aborted \/ phase = "idle" THEN StageOf(comp) ELSE phase,
    kept <- IF saved.held THEN StageOf(saved.comp) ELSE "none",
    answer <- status

(* The entry points keep the promises of FmiLifecycle. *)
KeepsLifecycle == Life!LifeSpec
=============================================================================
