---------------------------- MODULE FmuComponent ----------------------------
(***************************************************************************)
(* The instance record `Component` of the exported FMU runtime and the     *)
(* internal functions every entry point of the co-simulation interface is  *)
(* built from: the evaluation of the model equations (dsblock_did), the    *)
(* evaluation cache in front of it (util_refresh_cache), deferred          *)
(* initialisation, event handling, termination and error handling.         *)
(*                                                                         *)
(* A function is an operator that returns the set of instances (or of      *)
(* results) it may leave behind: what the model equations compute, and     *)
(* whether they fail, is not this runtime's to decide.  An entry point is  *)
(* the composition of the calls its source makes.                          *)
(*                                                                         *)
(* Numbers are abstracted to what the runtime's own decisions need: the    *)
(* fields of Component that hold values are replaced by history fields     *)
(* that say which values are consistent with which (see Components).       *)
(* Memory allocation always succeeds; the user hooks are the empty ones of *)
(* userfunc.c; the model has no inline integration (mInlineIntegration 0). *)
(***************************************************************************)
EXTENDS Integers

CONSTANTS
    Faults,        \* ways the model equations may fail, see FaultsAssumption
    Disturbances   \* event iterations outside fmi2DoStep that may move states

(***************************************************************************)
(* "recoverable" is QiErr = 1, the code fmi2GetReal, the solver callbacks  *)
(* and fmi2DoStep turn into a discard; "failed" is any other error code.   *)
(***************************************************************************)
ASSUME FaultsAssumption == Faults \subseteq {"recoverable", "failed"}

(***************************************************************************)
(* A model with reinit() moves its states in event iterations.  Those      *)
(* fmi2DoStep makes always may; "initialisation" is the one that ends the  *)
(* initialisation, "parameters" the one any evaluation makes after a       *)
(* parameter changed.                                                      *)
(***************************************************************************)
ASSUME DisturbancesAssumption ==
    Disturbances \subseteq {"initialisation", "parameters"}

(* IDemandLevel: how far an evaluation must compute. *)
Start         == 0
Output        == 1
Derivative    == 2
Variable      == 3
Crossing      == 4
EventHandling == 5
Terminal      == 7

(* The sections of the equations a getter can demand, and the values of    *)
(* icall, "how much of the cache holds".                                   *)
Sections == Start .. Crossing
Levels   == Sections \cup {EventHandling, Terminal}

Modes == {"Instantiated", "InitializationMode", "ContinuousTimeMode",
          "Terminated"}

(* What an evaluation may end with: "minor" is -995 (an event that changed *)
(* nothing the solver sees), "stop" -999 (terminate() called by the model, *)
(* which computes on).                                                     *)
Errors == {"ok", "minor", "stop"} \cup Faults

(***************************************************************************)
(* The instance.  The first ten fields are fields of Component (iData      *)
(* stands for "iData != NULL", newParameters for "the parameter counter    *)
(* differs from the one the equations saw last").  The others are history: *)
(*   fresh     the highest section whose cached values were computed from  *)
(*             the present time, states, inputs and parameters             *)
(*   solved    the initial equations have been solved for the present      *)
(*             start values, inputs and parameters                         *)
(*   synced    the solver would start from the present states and inputs   *)
(*   changed   a value was set from outside and no event iteration has     *)
(*             looked at it yet                                            *)
(*   terminals how often the terminal section ran since initialisation     *)
(***************************************************************************)
Components ==
    [mStatus : Modes, icall : Levels, valWasSet : BOOLEAN,
     fmi2ComputeInit : BOOLEAN, reinitCvode : BOOLEAN,
     terminationByModel : BOOLEAN, QiErr : Errors, iData : BOOLEAN,
     newParameters : BOOLEAN, aborted : BOOLEAN,
     fresh : Levels, solved : BOOLEAN, synced : BOOLEAN,
     changed : BOOLEAN, terminals : 0 .. 2]

FMIStatuses == {"OK", "Warning", "Discard", "Error"}

(* An entry point returns a status and leaves an instance. *)
Return(status, c) == [status |-> status, comp |-> c]
Results == [status : FMIStatuses, comp : Components]

----------------------------------------------------------------------------
(* Evaluation of the model equations.                                      *)

(* DYNEvent: every section is run, whatever the cache holds. *)
IsEvent(c, demand) ==
    demand \in {Start, EventHandling, Terminal} \/ c.newParameters

(* How an evaluation that does not fail ends: only event iterations see    *)
(* terminate(), only those of an event minor ones.                         *)
Completions(c, demand) ==
    {"ok"} \cup (IF IsEvent(c, demand) THEN {"stop"} ELSE {})
           \cup (IF demand = EventHandling THEN {"minor"} ELSE {})

(* The sections that are run: those the cache lacks, at an event all.      *)
(* (Only the solver's root function demands Crossing, see CallbackFails.)  *)
SectionsRun(c, demand) ==
    {n \in Sections : IsEvent(c, demand) \/ (c.icall < n /\ n <= demand)}

(* The evaluation can leave the states other than the solver knows them.   *)
MovesStates(c, demand, err) ==
    \/ demand = EventHandling /\ err # "minor"
    \/ demand = Start /\ (~c.solved \/ "initialisation" \in Disturbances)
    \/ demand # Start /\ c.newParameters /\ "parameters" \in Disturbances

(* An evaluation that completes: icall becomes the demand (also when the   *)
(* cache held more; but see LeavesAt), and what was run is fresh if what   *)
(* it builds on was.                                                       *)
Evaluated(c, demand, err) ==
    [c EXCEPT
        !.icall = demand,
        !.newParameters = FALSE,
        !.fresh = IF IsEvent(c, demand) THEN Terminal
                  ELSE IF demand > c.icall /\ c.fresh >= c.icall THEN demand
                  ELSE c.fresh,
        !.solved = c.solved \/ demand = Start,
        !.synced = c.synced /\ ~MovesStates(c, demand, err),
        !.changed = c.changed /\ ~IsEvent(c, demand),
        !.QiErr = err]

(* An evaluation that fails in section n: that section has already raised  *)
(* icall, and its values are unusable.                                     *)
Interrupted(c, demand, err, n) ==
    [c EXCEPT
        !.icall = n,
        !.newParameters = FALSE,
        !.fresh = IF n = Start THEN Start
                  ELSE IF IsEvent(c, demand) \/ c.fresh >= c.icall THEN n - 1
                  ELSE c.fresh,
        !.solved = c.solved /\ demand # Start,
        !.synced = c.synced /\ ~MovesStates(c, demand, err),
        !.QiErr = err]

(* What icall is when an evaluation completes: the demand, unless an event *)
(* iteration is left early, because terminate() cut it short after the     *)
(* last section or because it is left to the next call to go on (which     *)
(* evaluations in initialisation mode do).                                 *)
LeavesAt(c, demand, err) ==
    {demand}
        \cup (IF err = "stop" THEN {Crossing} ELSE {})
        \cup (IF c.mStatus = "InitializationMode" /\ IsEvent(c, demand) /\ demand # Terminal
              THEN {Start} ELSE {})

(* dsblock_did. *)
Dsblock(c, demand) ==
    (UNION {{[Evaluated(c, demand, err) EXCEPT !.icall = n] : n \in LeavesAt(c, demand, err)} :
              err \in Completions(c, demand)})
        \cup {Interrupted(c, demand, err, n) :
                 err \in Faults, n \in SectionsRun(c, demand)}

(* What util_refresh_cache leaves of an evaluation e.  A minor event is no *)
(* error to its callers.                                                   *)
Cached(e) ==
    [e EXCEPT !.valWasSet = FALSE, !.QiErr = IF @ = "minor" THEN "ok" ELSE @]

----------------------------------------------------------------------------
(* Termination and errors.                                                 *)

(* integration_teardown frees the solver data, if there is any. *)
Teardown(c) == [c EXCEPT !.iData = FALSE, !.synced = FALSE]

(* The terminal section, run outside the cache. *)
RunTerminal(c) ==
    {[e EXCEPT !.terminals = IF @ < 2 THEN @ + 1 ELSE 2,
               !.QiErr = IF @ = "minor" THEN "ok" ELSE @] : e \in Dsblock(c, Terminal)}

(* Mutants of TerminateSlave: an instance that has ended is not recognised; *)
(* a terminal section that fails leaves the instance as it is.             *)
TerminateSlaveAgain(c) ==
    LET ended == IF c.QiErr = "ok" /\ ~c.terminationByModel THEN RunTerminal(c) ELSE {c}
    IN  {Return("OK", [Teardown(t) EXCEPT !.mStatus = "Terminated"]) : t \in ended}

TerminateSlaveGivesUp(c) ==
    LET ended == IF c.QiErr = "ok" /\ ~c.terminationByModel THEN RunTerminal(c) ELSE {c}
    IN  IF c.mStatus = "Terminated" THEN {Return("Warning", c)}
        ELSE {IF t.QiErr \in Faults THEN Return("Error", t)
              ELSE Return("OK", [Teardown(t) EXCEPT !.mStatus = "Terminated"]) : t \in ended}

(* fmiTerminateSlave_: the terminal section runs unless the last           *)
(* evaluation failed or the model had stopped by itself.                   *)
TerminateSlave(c) ==
    LET runs == c.QiErr = "ok" /\ ~c.terminationByModel
        ended == IF runs THEN RunTerminal(c) ELSE {c}
    IN  IF c.mStatus = "Terminated" THEN {Return("Warning", c)}
        ELSE {Return(IF runs /\ t.QiErr \in Faults THEN "Error" ELSE "OK",
                     [Teardown(t) EXCEPT !.mStatus = "Terminated"]) : t \in ended}

(* util_error: the instance ends terminated, its solver torn down. *)
UtilError(c) ==
    CASE c.mStatus = "Instantiated" ->
            {Return("Error", [c EXCEPT !.mStatus = "Terminated"])}
      [] c.mStatus = "Terminated" ->
            {Return("Error", c)}
      [] OTHER ->
            {Return("Error", x.comp) : x \in TerminateSlave(c)}

----------------------------------------------------------------------------
(* Deferred initialisation and the cache.                                  *)

(* integration_setup allocates the solver and gives it the present states; *)
(* assert(comp->iData == NULL) stops the process when there is one already. *)
IntegrationSetup(c) ==
    IF c.iData THEN [c EXCEPT !.aborted = TRUE]
    ELSE [c EXCEPT !.iData = TRUE, !.synced = TRUE]

(* integration_reinit restarts the solver from the present states. *)
IntegrationReinit(c) == [c EXCEPT !.reinitCvode = FALSE, !.synced = TRUE]

(* util_initialize_model: the initial equations are solved from nothing. *)
InitializeModel(c) ==
    {Cached(e) : e \in Dsblock([c EXCEPT !.terminationByModel = FALSE,
                                         !.icall = Start,
                                         !.newParameters = TRUE,
                                         !.terminals = 0], Start)}

(* fmiEnterSlaveInitializationMode_, called by the first evaluation after  *)
(* fmi2EnterInitializationMode.                                            *)
InitializeSlave(c) ==
    UNION {IF m.QiErr = "ok" THEN {Return("OK", IntegrationSetup(m))}
           ELSE UtilError(m) : m \in InitializeModel(c)}

(* util_refresh_cache.  A pending initialisation comes first; icall is put *)
(* back after it and the demand evaluated on top.  The second field is the *)
(* error code; that of a failed initialisation is a status, FMIError.      *)
Refreshed(c, demand) ==
    {[err |-> Cached(e).QiErr, comp |-> Cached(e)] : e \in Dsblock(c, demand)}

RefreshCache(c, demand) ==
    IF ~c.fmi2ComputeInit THEN Refreshed(c, demand)
    ELSE UNION {IF i.status # "OK" THEN {[err |-> "failed", comp |-> i.comp]}
                ELSE IF i.comp.aborted THEN {[err |-> "ok", comp |-> i.comp]}
                ELSE Refreshed([i.comp EXCEPT !.icall = c.icall], demand) :
                  i \in InitializeSlave([c EXCEPT !.fmi2ComputeInit = FALSE])}

----------------------------------------------------------------------------
(* Events.                                                                 *)

(* The model called terminate(): fmi2DoStep discards the step. *)
StoppedByModel(c) == Return("Discard", [c EXCEPT !.terminationByModel = TRUE])

(* What util_event_update does with an evaluation that did not go well. *)
EventFails(c) ==
    IF c.QiErr = "stop" THEN {StoppedByModel(c)} ELSE UtilError(c)

(* The event iteration, from an empty cache, and then a restart of the     *)
(* solver unless the event was minor and the caller does not insist.       *)
IterateEvent(c, force) ==
    UNION {IF Cached(e).QiErr # "ok" THEN EventFails(Cached(e))
           ELSE {Return("OK", IF e.QiErr = "minor" /\ ~force THEN Cached(e)
                              ELSE IntegrationReinit(Cached(e)))} :
             e \in Dsblock([c EXCEPT !.icall = Start], EventHandling)}

(* handleEvent: auxiliary variables first, then the event iteration. *)
HandleEvent(c, force) ==
    UNION {IF v.err = "ok" THEN IterateEvent(v.comp, force) ELSE EventFails(v.comp) :
             v \in RefreshCache(c, Variable)}

=============================================================================
