------------------------ MODULE CoSimInstance_proofs ------------------------
(***************************************************************************)
(* Theorems about CoSimInstance: for every value of its constants, what    *)
(* makes an instance sound; and, each for the models it needs, that the    *)
(* cache answers honestly and that the solver steps from where the         *)
(* instance is.                                                            *)
(***************************************************************************)
EXTENDS CoSimInstance, TLAPS

(* e is a later version of c in the same mode. *)
SameMode(c, e) ==
    /\ e.mStatus = c.mStatus
    /\ e.iData = c.iData
    /\ e.fmi2ComputeInit = c.fmi2ComputeInit
    /\ e.aborted = c.aborted
    /\ e.terminals = c.terminals
    /\ e.terminationByModel = c.terminationByModel

----------------------------------------------------------------------------
(* The operators of FmuComponent stay within their types.                  *)

(* The sections and levels are the numbers they abbreviate. *)
LEMMA LevelsAre ==
    /\ Sections = 0 .. 4
    /\ Levels = {0, 1, 2, 3, 4, 5, 7}
    /\ Sections \subseteq Levels
    /\ Demands = 0 .. 3
BY DEF Sections, Levels, Demands, Start, Output, Variable, Crossing, EventHandling, Terminal

(* An evaluation that completes, and one that fails in section n, leave an *)
(* instance in the same mode.                                              *)
LEMMA EvaluatedKeeps ==
    ASSUME NEW c \in Components, NEW demand \in Levels, NEW err \in Errors,
           NEW e, e = Evaluated(c, demand, err)
    PROVE  /\ e \in Components
           /\ SameMode(c, e)
           /\ e.QiErr = err
           /\ e.solved = (c.solved \/ demand = Start)
<1> DEFINE fresh == IF IsEvent(c, demand) THEN Terminal
                    ELSE IF demand > c.icall /\ c.fresh >= c.icall THEN demand
                    ELSE c.fresh
           solved == c.solved \/ demand = Start
           synced == c.synced /\ ~MovesStates(c, demand, err)
           changed == c.changed /\ ~IsEvent(c, demand)
<1>1. fresh \in Levels
  BY LevelsAre DEF Components, Terminal
<1>2. solved \in BOOLEAN /\ synced \in BOOLEAN /\ changed \in BOOLEAN
  OBVIOUS
<1>3. e = [c EXCEPT !.icall = demand, !.newParameters = FALSE, !.fresh = fresh,
                    !.solved = solved, !.synced = synced, !.changed = changed,
                    !.QiErr = err]
  BY DEF Evaluated
<1>4. solved = (c.solved \/ demand = Start)
  OBVIOUS
<1> HIDE DEF fresh, solved, synced, changed
<1>5. e \in Components
  <2> DEFINE ran == [c EXCEPT !.icall = demand, !.newParameters = FALSE, !.fresh = fresh]
  <2>1. ran \in Components
    BY <1>1 DEF Components
  <2>2. e = [ran EXCEPT !.solved = solved, !.synced = synced, !.changed = changed, !.QiErr = err]
    BY <1>3 DEF Components
  <2> HIDE DEF ran
  <2> QED
    BY <2>1, <2>2, <1>2 DEF Components
<1>6. SameMode(c, e) /\ e.QiErr = err /\ e.solved = solved
  BY <1>3 DEF Components, SameMode
<1> QED
  BY <1>4, <1>5, <1>6

LEMMA InterruptedKeeps ==
    ASSUME NEW c \in Components, NEW demand \in Levels, NEW err \in Errors,
           NEW n \in Sections, NEW e, e = Interrupted(c, demand, err, n)
    PROVE  /\ e \in Components
           /\ SameMode(c, e)
           /\ e.QiErr = err
           /\ e.solved = (c.solved /\ demand # Start)
<1> DEFINE fresh == IF n = Start THEN Start
                    ELSE IF IsEvent(c, demand) \/ c.fresh >= c.icall THEN n - 1
                    ELSE c.fresh
           solved == c.solved /\ demand # Start
           synced == c.synced /\ ~MovesStates(c, demand, err)
<1>1. fresh \in Levels /\ n \in Levels
  BY LevelsAre DEF Components, Start
<1>2. solved \in BOOLEAN /\ synced \in BOOLEAN
  OBVIOUS
<1>3. e = [c EXCEPT !.icall = n, !.newParameters = FALSE, !.fresh = fresh,
                    !.solved = solved, !.synced = synced, !.QiErr = err]
  BY DEF Interrupted
<1>4. solved = (c.solved /\ demand # Start)
  OBVIOUS
<1> HIDE DEF fresh, solved, synced
<1>5. e \in Components
  BY <1>1, <1>2, <1>3 DEF Components
<1>6. SameMode(c, e) /\ e.QiErr = err /\ e.solved = solved
  BY <1>3 DEF Components, SameMode
<1> QED
  BY <1>4, <1>5, <1>6

(* An evaluation keeps the mode; it solves the initial equations if it is  *)
(* the one that does and none fails, and no other unsolves them.           *)
LEMMA DsblockKeeps ==
    ASSUME NEW c \in Components, NEW demand \in Levels, NEW e \in Dsblock(c, demand)
    PROVE  /\ e \in Components
           /\ SameMode(c, e)
           /\ e.QiErr \in Errors
           /\ demand # Start => e.solved = c.solved
           /\ demand = Start /\ e.QiErr \notin Faults => e.solved
<1>0. c.solved \in BOOLEAN
  BY DEF Components
<1>1. CASE \E err \in Completions(c, demand) : \E n \in LeavesAt(c, demand, err) :
              e = [Evaluated(c, demand, err) EXCEPT !.icall = n]
  <2>1. PICK err \in Completions(c, demand) : \E n \in LeavesAt(c, demand, err) :
              e = [Evaluated(c, demand, err) EXCEPT !.icall = n]
    BY <1>1
  <2>2. PICK n \in LeavesAt(c, demand, err) :
              e = [Evaluated(c, demand, err) EXCEPT !.icall = n]
    BY <2>1
  <2> DEFINE d == Evaluated(c, demand, err)
  <2>3. err \in Errors /\ n \in Levels
    BY LevelsAre DEF Completions, Errors, LeavesAt, Crossing, Start
  <2>4. /\ d \in Components
        /\ SameMode(c, d)
        /\ d.QiErr = err
        /\ d.solved = (c.solved \/ demand = Start)
    BY <2>3, EvaluatedKeeps
  <2>5. e = [d EXCEPT !.icall = n]
    BY <2>2
  <2> HIDE DEF d
  <2>6. e \in Components /\ SameMode(d, e) /\ e.QiErr = d.QiErr /\ e.solved = d.solved
    BY <2>3, <2>4, <2>5 DEF Components, SameMode
  <2>7. e \in Components /\ SameMode(c, e) /\ e.QiErr \in Errors
    BY <2>3, <2>4, <2>6 DEF SameMode
  <2>8. e.solved = (c.solved \/ demand = Start)
    BY <2>4, <2>6
  <2>9. demand # Start => e.solved = c.solved
    BY <1>0, <2>8
  <2>10. demand = Start => e.solved
    BY <2>8
  <2> QED
    BY <2>7, <2>9, <2>10
<1>2. CASE \E err \in Faults, n \in SectionsRun(c, demand) :
              e = Interrupted(c, demand, err, n)
  <2>1. PICK err \in Faults, n \in Sections : e = Interrupted(c, demand, err, n)
    BY <1>2 DEF SectionsRun
  <2>2. err \in Errors
    BY DEF Errors
  <2>3. e \in Components /\ SameMode(c, e) /\ e.QiErr = err
    BY <2>1, <2>2, InterruptedKeeps
  <2>4. e.solved = (c.solved /\ demand # Start)
    BY <2>1, <2>2, InterruptedKeeps
  <2> QED
    BY <1>0, <2>2, <2>3, <2>4
<1> QED
  BY <1>1, <1>2 DEF Dsblock

LEMMA CachedKeeps ==
    ASSUME NEW e \in Components
    PROVE  /\ Cached(e) \in Components
           /\ SameMode(e, Cached(e))
           /\ Cached(e).solved = e.solved
           /\ Cached(e).QiErr = "ok" <=> e.QiErr \in {"ok", "minor"}
           /\ Cached(e).QiErr \in Errors
BY DEF Cached, Components, SameMode, Errors

(* fmiTerminateSlave_ leaves a terminated instance whose terminal section  *)
(* ran at most once.                                                       *)
LEMMA TerminateSlaveEnds ==
    ASSUME NEW c, Accounted(c), NEW x \in TerminateSlave(c)
    PROVE  /\ x.status \in {"OK", "Warning", "Error"}
           /\ Accounted(x.comp)
           /\ x.comp.mStatus = "Terminated"
           /\ x.comp.aborted = c.aborted
<1> DEFINE runs == c.QiErr = "ok" /\ ~c.terminationByModel
           ended == IF runs THEN RunTerminal(c) ELSE {c}
<1>1. CASE c.mStatus = "Terminated"
  BY <1>1 DEF TerminateSlave, Accounted, Return
<1>2. CASE c.mStatus # "Terminated"
  <2>1. PICK t \in ended :
           x = Return(IF runs /\ t.QiErr \in Faults THEN "Error" ELSE "OK",
                      [Teardown(t) EXCEPT !.mStatus = "Terminated"])
    BY <1>2 DEF TerminateSlave
  <2>2. t \in Components /\ t.terminals \in {0, 1} /\ t.aborted = c.aborted
    <3>1. CASE t = c
      BY <3>1, <1>2 DEF Accounted
    <3>2. CASE t \in RunTerminal(c)
      <4>1. PICK e \in Dsblock(c, Terminal) :
               t = [e EXCEPT !.terminals = IF @ < 2 THEN @ + 1 ELSE 2,
                             !.QiErr = IF @ = "minor" THEN "ok" ELSE @]
        BY <3>2 DEF RunTerminal
      <4>2. e \in Components /\ SameMode(c, e)
        BY DsblockKeeps, LevelsAre DEF Accounted, Terminal
      <4>3. e.terminals = 0
        BY <4>2, <1>2 DEF Accounted, SameMode
      <4> DEFINE err == IF e.QiErr = "minor" THEN "ok" ELSE e.QiErr
      <4>4. err \in Errors
        BY <4>2 DEF Components, Errors
      <4>5. t = [e EXCEPT !.terminals = 1, !.QiErr = err]
        BY <4>1, <4>2, <4>3 DEF Components
      <4> HIDE DEF err
      <4>6. t \in Components
        <5>1. 1 \in 0 .. 2
          OBVIOUS
        <5> QED
          BY <4>2, <4>4, <4>5, <5>1 DEF Components
      <4>7. t.terminals = 1 /\ t.aborted = e.aborted
        BY <4>2, <4>5 DEF Components
      <4> QED
        BY <4>2, <4>6, <4>7 DEF SameMode
    <3> QED
      BY <3>1, <3>2
  <2> HIDE DEF ended, runs
  <2> DEFINE u == [Teardown(t) EXCEPT !.mStatus = "Terminated"]
  <2>3. u = [t EXCEPT !.iData = FALSE, !.synced = FALSE, !.mStatus = "Terminated"]
    BY DEF Teardown
  <2>4. x.comp = u /\ x.status \in {"OK", "Warning", "Error"}
    BY <2>1 DEF Return
  <2> HIDE DEF u
  <2>5. u \in Components /\ u.mStatus = "Terminated" /\ u.terminals = t.terminals /\ u.aborted = t.aborted
    BY <2>2, <2>3 DEF Components, Modes
  <2> QED
    BY <2>2, <2>4, <2>5 DEF Accounted
<1> QED
  BY <1>1, <1>2

(* util_error terminates the instance, from wherever it is called. *)
LEMMA UtilErrorEnds ==
    ASSUME NEW c, Accounted(c), NEW x \in UtilError(c)
    PROVE  /\ x.status = "Error"
           /\ Accounted(x.comp)
           /\ x.comp.mStatus = "Terminated"
           /\ x.comp.aborted = c.aborted
<1>1. CASE c.mStatus = "Instantiated"
  <2>1. x = Return("Error", [c EXCEPT !.mStatus = "Terminated"])
    BY <1>1 DEF UtilError
  <2> QED
    BY <2>1, <1>1 DEF Return, Accounted, Components, Modes
<1>2. CASE c.mStatus = "Terminated"
  BY <1>2 DEF UtilError, Return, Accounted
<1>3. CASE c.mStatus \notin {"Instantiated", "Terminated"}
  <2>1. PICK y \in TerminateSlave(c) : x = Return("Error", y.comp)
    BY <1>3 DEF UtilError
  <2> QED
    BY <2>1, TerminateSlaveEnds DEF Return
<1> QED
  BY <1>1, <1>2, <1>3

----------------------------------------------------------------------------
(* Initialisation, the cache and events keep an instance accounted for.    *)

(* e is an accounted version of c in the same mode, initialised, and has   *)
(* its solver if c had it or was to get it.                                *)
Ready(c, e) ==
    /\ Accounted(e)
    /\ e.mStatus = c.mStatus
    /\ ~e.fmi2ComputeInit
    /\ c.iData \/ c.fmi2ComputeInit => e.iData

(* util_initialize_model keeps the mode, forgets earlier terminal sections *)
(* and, when it does not fail, has solved the initial equations.           *)
LEMMA InitializeModelKeeps ==
    ASSUME NEW c \in Components, NEW m \in InitializeModel(c)
    PROVE  /\ Accounted(m)
           /\ m.mStatus = c.mStatus
           /\ m.iData = c.iData
           /\ m.fmi2ComputeInit = c.fmi2ComputeInit
           /\ m.aborted = c.aborted
           /\ ~m.terminationByModel
           /\ m.QiErr = "ok" => m.solved
<1> DEFINE b == [c EXCEPT !.terminationByModel = FALSE, !.icall = Start,
                          !.newParameters = TRUE, !.terminals = 0]
<1>1. PICK e \in Dsblock(b, Start) : m = Cached(e)
  BY DEF InitializeModel
<1>2. Start \in Levels /\ 0 \in 0 .. 2
  BY LevelsAre DEF Start
<1>3. b \in Components
  BY <1>2 DEF Components
<1>4. /\ b.mStatus = c.mStatus /\ b.iData = c.iData /\ b.aborted = c.aborted
      /\ b.fmi2ComputeInit = c.fmi2ComputeInit /\ b.terminals = 0
      /\ ~b.terminationByModel
  BY DEF Components
<1> HIDE DEF b
<1>5. /\ e \in Components
      /\ SameMode(b, e)
      /\ e.QiErr \notin Faults => e.solved
  BY <1>2, <1>3, DsblockKeeps
<1>6. /\ m \in Components
      /\ SameMode(e, m)
      /\ m.solved = e.solved
      /\ m.QiErr = "ok" => e.QiErr \in {"ok", "minor"}
  BY <1>1, <1>5, CachedKeeps
<1>7. m.QiErr = "ok" => e.QiErr \notin Faults
  BY <1>6, FaultsAssumption
<1> QED
  BY <1>4, <1>5, <1>6, <1>7 DEF SameMode, Accounted

(* integration_setup leaves a solver, or an assertion has failed. *)
LEMMA IntegrationSetupKeeps ==
    ASSUME NEW c, Accounted(c)
    PROVE  LET e == IntegrationSetup(c)
           IN  /\ Accounted(e)
               /\ e.iData
               /\ e.mStatus = c.mStatus
               /\ e.fmi2ComputeInit = c.fmi2ComputeInit
               /\ e.solved = c.solved
               /\ e.terminationByModel = c.terminationByModel
               /\ ~c.iData => e.aborted = c.aborted
<1>1. CASE c.iData
  BY <1>1 DEF IntegrationSetup, Accounted, Components
<1>2. CASE ~c.iData
  BY <1>2 DEF IntegrationSetup, Accounted, Components
<1> QED
  BY <1>1, <1>2

(* integration_reinit changes nothing but the solver. *)
LEMMA IntegrationReinitKeeps ==
    ASSUME NEW c, Accounted(c)
    PROVE  LET e == IntegrationReinit(c)
           IN  Accounted(e) /\ SameMode(c, e) /\ e.solved = c.solved /\ e.icall = c.icall
BY DEF IntegrationReinit, Accounted, Components, SameMode

(* fmiEnterSlaveInitializationMode_ solves the initial equations and sets  *)
(* the solver up, or it ends the instance.                                 *)
LEMMA InitializeSlaveKeeps ==
    ASSUME NEW c \in Components, NEW i \in InitializeSlave(c)
    PROVE  /\ Accounted(i.comp)
           /\ i.status = "OK" =>
                 /\ i.comp.mStatus = c.mStatus
                 /\ i.comp.fmi2ComputeInit = c.fmi2ComputeInit
                 /\ i.comp.iData
                 /\ i.comp.solved
                 /\ ~i.comp.terminationByModel
           /\ i.status # "OK" => i.comp.mStatus = "Terminated"
<1>1. PICK m \in InitializeModel(c) :
         i \in IF m.QiErr = "ok" THEN {Return("OK", IntegrationSetup(m))} ELSE UtilError(m)
  BY DEF InitializeSlave
<1>2. /\ Accounted(m) /\ m.mStatus = c.mStatus
      /\ m.fmi2ComputeInit = c.fmi2ComputeInit
      /\ ~m.terminationByModel
      /\ m.QiErr = "ok" => m.solved
  BY InitializeModelKeeps
<1>3. CASE m.QiErr = "ok"
  <2>1. i.status = "OK" /\ i.comp = IntegrationSetup(m)
    BY <1>1, <1>3 DEF Return
  <2> QED
    BY <2>1, <1>2, <1>3, IntegrationSetupKeeps
<1>4. CASE m.QiErr # "ok"
  <2>1. i \in UtilError(m)
    BY <1>1, <1>4
  <2> QED
    BY <2>1, <1>2, UtilErrorEnds
<1> QED
  BY <1>3, <1>4

(* An evaluation without a pending initialisation. *)
LEMMA RefreshedKeeps ==
    ASSUME NEW c, Accounted(c), NEW demand \in Levels, NEW x \in Refreshed(c, demand)
    PROVE  /\ Accounted(x.comp)
           /\ SameMode(c, x.comp)
           /\ x.err = x.comp.QiErr
           /\ demand # Start => x.comp.solved = c.solved
           /\ demand = Start /\ x.err = "ok" => x.comp.solved
<1>1. PICK e \in Dsblock(c, demand) : x = [err |-> Cached(e).QiErr, comp |-> Cached(e)]
  BY DEF Refreshed
<1>2. /\ e \in Components
      /\ SameMode(c, e)
      /\ demand # Start => e.solved = c.solved
      /\ demand = Start /\ e.QiErr \notin Faults => e.solved
  BY DsblockKeeps DEF Accounted
<1>3. /\ Cached(e) \in Components
      /\ SameMode(e, Cached(e))
      /\ Cached(e).solved = e.solved
      /\ Cached(e).QiErr = "ok" => e.QiErr \in {"ok", "minor"}
  BY <1>2, CachedKeeps
<1>4. Cached(e).QiErr = "ok" => e.QiErr \notin Faults
  BY <1>3, FaultsAssumption
<1>5. x.comp = Cached(e) /\ x.err = Cached(e).QiErr
  BY <1>1
<1> QED
  BY <1>2, <1>3, <1>4, <1>5 DEF Accounted, SameMode

(* util_refresh_cache leaves the instance ready in its mode, or ended by   *)
(* an initialisation that failed.                                          *)
LEMMA RefreshCacheKeeps ==
    ASSUME NEW c, Accounted(c), NEW demand \in Levels, NEW x \in RefreshCache(c, demand)
    PROVE  /\ Accounted(x.comp)
           /\ x.comp.aborted \/ Ready(c, x.comp) \/ x.comp.mStatus = "Terminated"
           /\ x.comp.aborted \/ x.comp.mStatus \in {c.mStatus, "Terminated"}
           /\ x.err # "failed" => x.comp.mStatus = c.mStatus
           /\ x.err = "ok" /\ demand = Start => x.comp.aborted \/ x.comp.solved
           /\ ~c.fmi2ComputeInit =>
                 /\ SameMode(c, x.comp)
                 /\ demand # Start => x.comp.solved = c.solved
           /\ c.fmi2ComputeInit =>
                 ~x.comp.terminationByModel \/ x.comp.mStatus = "Terminated"
<1>0. c \in Components /\ c.fmi2ComputeInit \in BOOLEAN
  BY DEF Accounted, Components
<1>1. CASE ~c.fmi2ComputeInit
  <2>1. x \in Refreshed(c, demand)
    BY <1>1 DEF RefreshCache
  <2>2. /\ Accounted(x.comp)
        /\ SameMode(c, x.comp)
        /\ demand # Start => x.comp.solved = c.solved
        /\ demand = Start /\ x.err = "ok" => x.comp.solved
    BY <2>1, RefreshedKeeps
  <2> QED
    BY <1>1, <2>2 DEF Ready, SameMode
<1>2. CASE c.fmi2ComputeInit
  <2> DEFINE b == [c EXCEPT !.fmi2ComputeInit = FALSE]
  <2>1. b \in Components /\ b.mStatus = c.mStatus /\ ~b.fmi2ComputeInit
    BY <1>0 DEF Components
  <2>2. PICK i \in InitializeSlave(b) :
           x \in IF i.status # "OK" THEN {[err |-> "failed", comp |-> i.comp]}
                 ELSE IF i.comp.aborted THEN {[err |-> "ok", comp |-> i.comp]}
                 ELSE Refreshed([i.comp EXCEPT !.icall = c.icall], demand)
    BY <1>2 DEF RefreshCache
  <2> HIDE DEF b
  <2>3. /\ Accounted(i.comp)
        /\ i.status = "OK" =>
              /\ i.comp.mStatus = c.mStatus
              /\ ~i.comp.fmi2ComputeInit
              /\ i.comp.iData
              /\ i.comp.solved
              /\ ~i.comp.terminationByModel
        /\ i.status # "OK" => i.comp.mStatus = "Terminated"
    BY <2>1, InitializeSlaveKeeps
  <2>4. CASE i.status # "OK"
    <3>1. x.err = "failed" /\ x.comp = i.comp
      BY <2>2, <2>4
    <3> QED
      BY <3>1, <2>3, <2>4, <1>2
  <2>5. CASE i.status = "OK" /\ i.comp.aborted
    <3>1. x.err = "ok" /\ x.comp = i.comp
      BY <2>2, <2>5
    <3> QED
      BY <3>1, <2>3, <2>5, <1>2
  <2>6. CASE i.status = "OK" /\ ~i.comp.aborted
    <3> DEFINE j == [i.comp EXCEPT !.icall = c.icall]
    <3>1. x \in Refreshed(j, demand)
      BY <2>2, <2>6
    <3>2. /\ Accounted(j)
          /\ j.mStatus = c.mStatus /\ ~j.fmi2ComputeInit /\ j.iData /\ j.solved
          /\ ~j.terminationByModel
      BY <1>0, <2>3, <2>6 DEF Accounted, Components
    <3> HIDE DEF j
    <3>3. /\ Accounted(x.comp)
          /\ SameMode(j, x.comp)
          /\ demand # Start => x.comp.solved = j.solved
          /\ demand = Start /\ x.err = "ok" => x.comp.solved
      BY <3>1, <3>2, RefreshedKeeps
    <3> QED
      BY <1>2, <3>2, <3>3 DEF Ready, SameMode
  <2> QED
    BY <2>4, <2>5, <2>6
<1> QED
  BY <1>0, <1>1, <1>2

----------------------------------------------------------------------------
(* What an entry point may leave and answer.                               *)

(* The instance is sound, and if the answer is an error it has ended. *)
Answers(x) ==
    /\ x.status \in FMIStatuses
    /\ Sound(x.comp)
    /\ x.status = "Error" => x.comp.mStatus = "Terminated"

(* An ended instance is sound, so an error is a sound answer. *)
LEMMA UtilErrorAnswers ==
    ASSUME NEW c, Accounted(c), NEW x \in UtilError(c)
    PROVE  Answers(x) /\ x.status = "Error"
<1>1. x.status = "Error" /\ Accounted(x.comp) /\ x.comp.mStatus = "Terminated"
  BY UtilErrorEnds
<1> QED
  BY <1>1 DEF Answers, Sound, FMIStatuses

(* An evaluation that does not solve the initial equations of a run anew   *)
(* keeps an instance sound.                                                *)
LEMMA RefreshCacheSound ==
    ASSUME NEW c, Sound(c), ~c.aborted, NEW demand \in Levels,
           c.mStatus = "ContinuousTimeMode" => demand # Start,
           NEW x \in RefreshCache(c, demand)
    PROVE  Sound(x.comp)
<1>0. Accounted(c)
  BY DEF Sound
<1>1. /\ Accounted(x.comp)
      /\ x.comp.aborted \/ Ready(c, x.comp) \/ x.comp.mStatus = "Terminated"
      /\ ~c.fmi2ComputeInit =>
                 /\ SameMode(c, x.comp)
                 /\ demand # Start => x.comp.solved = c.solved
  BY <1>0, RefreshCacheKeeps
<1>2. CASE x.comp.aborted
  BY <1>1, <1>2 DEF Sound
<1>3. CASE x.comp.mStatus = "Terminated"
  BY <1>1, <1>3 DEF Sound
<1>4. CASE Ready(c, x.comp)
  BY <1>1, <1>4 DEF Sound, Ready, SameMode
<1> QED
  BY <1>1, <1>2, <1>3, <1>4

(* The event iterations of a run leave it running, or end it. *)
LEMMA EventFailsAnswers ==
    ASSUME NEW c, Sound(c), NEW x \in EventFails(c)
    PROVE  Answers(x)
<1>1. CASE c.QiErr = "stop"
  <2>1. x = Return("Discard", [c EXCEPT !.terminationByModel = TRUE])
    BY <1>1 DEF EventFails, StoppedByModel
  <2> QED
    BY <2>1 DEF Answers, Return, FMIStatuses, Sound, Accounted, Components
<1>2. CASE c.QiErr # "stop"
  BY <1>2, UtilErrorAnswers DEF EventFails, Sound
<1> QED
  BY <1>1, <1>2

(* A running instance, initialised and with a solver, its run not over. *)
Live(c) == Sound(c) /\ c.mStatus = "ContinuousTimeMode" /\ ~c.aborted

(* What an evaluation keeps of a live instance keeps it live. *)
LEMMA LiveKept ==
    ASSUME NEW c, Live(c), NEW e \in Components, SameMode(c, e), e.solved = c.solved
    PROVE  Live(e)
BY DEF Live, Sound, Accounted, SameMode

(* util_event_update. *)
LEMMA IterateEventAnswers ==
    ASSUME NEW c, Live(c), NEW force \in BOOLEAN, NEW x \in IterateEvent(c, force)
    PROVE  Answers(x) /\ (x.status = "OK" => Live(x.comp))
<1> DEFINE b == [c EXCEPT !.icall = Start]
<1>1. c \in Components /\ EventHandling \in Levels /\ EventHandling # Start /\ Start \in Levels
  BY LevelsAre DEF Live, Sound, Accounted, EventHandling, Start
<1>2. b \in Components /\ SameMode(c, b) /\ b.solved = c.solved
  BY <1>1 DEF Components, SameMode
<1>3. PICK e \in Dsblock(b, EventHandling) :
         x \in IF Cached(e).QiErr # "ok" THEN EventFails(Cached(e))
               ELSE {Return("OK", IF e.QiErr = "minor" /\ ~force THEN Cached(e)
                                  ELSE IntegrationReinit(Cached(e)))}
  BY DEF IterateEvent
<1> HIDE DEF b
<1>4. e \in Components /\ SameMode(b, e) /\ e.solved = b.solved
  BY <1>1, <1>2, DsblockKeeps
<1> DEFINE k == Cached(e)
<1>5. k \in Components /\ SameMode(e, k) /\ k.solved = e.solved
  BY <1>4, CachedKeeps
<1>6. Live(k)
  BY <1>2, <1>4, <1>5, LiveKept
<1>7. CASE k.QiErr # "ok"
  <2>1. x \in EventFails(k)
    BY <1>3, <1>7
  <2>2. Answers(x)
    BY <2>1, <1>6, EventFailsAnswers DEF Live
  <2>3. x.status # "OK"
    <3>1. CASE k.QiErr = "stop"
      BY <2>1, <3>1 DEF EventFails, StoppedByModel, Return
    <3>2. CASE k.QiErr # "stop"
      BY <2>1, <3>2, <1>6, UtilErrorAnswers DEF EventFails, Live, Sound
    <3> QED
      BY <3>1, <3>2
  <2> QED
    BY <2>2, <2>3
<1>8. CASE k.QiErr = "ok"
  <2>1. x.status = "OK" /\ x.comp \in {k, IntegrationReinit(k)}
    BY <1>3, <1>8 DEF Return
  <2>2. Live(IntegrationReinit(k))
    BY <1>6, LiveKept, IntegrationReinitKeeps DEF Live, Sound, Accounted
  <2> QED
    BY <2>1, <2>2, <1>6 DEF Answers, FMIStatuses, Live
<1> QED
  BY <1>7, <1>8

(* handleEvent. *)
LEMMA HandleEventAnswers ==
    ASSUME NEW c, Live(c), NEW force \in BOOLEAN, NEW x \in HandleEvent(c, force)
    PROVE  Answers(x) /\ (x.status = "OK" => Live(x.comp))
<1>1. PICK v \in RefreshCache(c, Variable) :
         x \in IF v.err = "ok" THEN IterateEvent(v.comp, force) ELSE EventFails(v.comp)
  BY DEF HandleEvent
<1>2. Variable \in Levels /\ Variable # Start
  BY LevelsAre DEF Variable, Start
<1>3. Accounted(c) /\ ~c.fmi2ComputeInit
  BY DEF Live, Sound
<1>4. Accounted(v.comp) /\ SameMode(c, v.comp) /\ v.comp.solved = c.solved
  BY <1>2, <1>3, RefreshCacheKeeps
<1>5. Live(v.comp)
  BY <1>4, LiveKept DEF Accounted
<1>6. CASE v.err = "ok"
  BY <1>1, <1>5, <1>6, IterateEventAnswers
<1>7. CASE v.err # "ok"
  <2>1. x \in EventFails(v.comp)
    BY <1>1, <1>7
  <2>2. Answers(x)
    BY <2>1, <1>5, EventFailsAnswers DEF Live
  <2>3. x.status # "OK"
    <3>1. CASE v.comp.QiErr = "stop"
      BY <2>1, <3>1 DEF EventFails, StoppedByModel, Return
    <3>2. CASE v.comp.QiErr # "stop"
      BY <2>1, <3>2, <1>4, UtilErrorAnswers DEF EventFails
    <3> QED
      BY <3>1, <3>2
  <2> QED
    BY <2>2, <2>3
<1> QED
  BY <1>6, <1>7

(* The preparation of fmiDoStep_'s loop, of an instance that may step. *)
LEMMA PreparedAnswers ==
    ASSUME NEW c, Live(c), NEW x \in Prepared(c)
    PROVE  Answers(x) /\ (x.status = "OK" => Live(x.comp))
<1> DEFINE s == IF c.reinitCvode THEN IntegrationReinit(c) ELSE c
<1>1. Live(s)
  BY LiveKept, IntegrationReinitKeeps DEF Live, Sound, Accounted
<1>2. CASE c.valWasSet
  <2>1. PICK h \in HandleEvent(c, TRUE) : x = [h EXCEPT !.comp.valWasSet = FALSE]
    BY <1>2 DEF Prepared
  <2>2. Answers(h) /\ (h.status = "OK" => Live(h.comp))
    BY HandleEventAnswers
  <2>3. h.comp \in Components
    BY <2>2 DEF Answers, Sound, Accounted
  <2> DEFINE d == [h.comp EXCEPT !.valWasSet = FALSE]
  <2>4. x.status = h.status /\ x.comp = d
    BY <2>1
  <2>5. /\ d \in Components /\ SameMode(h.comp, d) /\ d.solved = h.comp.solved
    BY <2>3 DEF Components, SameMode
  <2> HIDE DEF d
  <2>6. Sound(d) /\ (h.status = "OK" => Live(d))
    BY <2>2, <2>5, LiveKept DEF Answers, Sound, Accounted, SameMode
  <2> QED
    BY <2>2, <2>4, <2>5, <2>6 DEF Answers, SameMode
<1>3. CASE ~c.valWasSet /\ s.icall >= Derivative
  <2>1. x = Return("OK", s)
    BY <1>3 DEF Prepared
  <2> QED
    BY <2>1, <1>1 DEF Return, Answers, FMIStatuses, Live
<1>4. CASE ~c.valWasSet /\ ~(s.icall >= Derivative)
  <2>1. PICK v \in RefreshCache(s, Derivative) :
           x \in CASE v.err = "ok"          -> {Return("OK", v.comp)}
                   [] v.err = "recoverable" -> {Return("Discard", v.comp)}
                   [] OTHER                 -> UtilError(v.comp)
    BY <1>4 DEF Prepared
  <2> HIDE DEF s
  <2>2. Derivative \in Levels /\ Derivative # Start
    BY LevelsAre DEF Derivative, Start
  <2>3. Accounted(s) /\ ~s.fmi2ComputeInit
    BY <1>1 DEF Live, Sound
  <2>4. Accounted(v.comp) /\ SameMode(s, v.comp) /\ v.comp.solved = s.solved
    BY <2>2, <2>3, RefreshCacheKeeps
  <2>5. Live(v.comp)
    BY <1>1, <2>4, LiveKept DEF Accounted
  <2>6. CASE v.err = "ok"
    <3>1. x = Return("OK", v.comp)
      BY <2>1, <2>6
    <3> QED
      BY <3>1, <2>5 DEF Return, Answers, FMIStatuses, Live
  <2>7. CASE v.err = "recoverable"
    <3>1. x = Return("Discard", v.comp)
      BY <2>1, <2>7
    <3> QED
      BY <3>1, <2>5 DEF Return, Answers, FMIStatuses, Live
  <2>8. CASE v.err \notin {"ok", "recoverable"}
    <3>1. x \in UtilError(v.comp)
      BY <2>1, <2>8
    <3> QED
      BY <3>1, <2>4, UtilErrorAnswers
  <2> QED
    BY <2>6, <2>7, <2>8
<1> QED
  BY <1>2, <1>3, <1>4

----------------------------------------------------------------------------
(* The inductive invariant: InstanceSound, of states of the right type. *)

IInv == TypeOK /\ InstanceSound

(* A call that ends with sound answers keeps the invariant. *)
LEMMA FinishKeeps ==
    ASSUME IInv, NEW S, Finish(S), \A x \in S : Answers(x)
    PROVE  IInv'
<1>1. PICK x \in S : comp' = x.comp /\ status' = x.status
  BY DEF Finish
<1>2. Answers(x) /\ phase' = "idle" /\ saved' = saved
  BY <1>1 DEF Finish
<1>3. Sound(comp') /\ status' \in FMIStatuses /\ ~Stepping'
  BY <1>1, <1>2 DEF Answers, Stepping
<1>4. comp' \in Components
  BY <1>3 DEF Sound, Accounted
<1>5. ErrorEndsInstance'
  BY <1>1, <1>2 DEF Answers, ErrorEndsInstance
<1>6. SavedSound'
  BY <1>2 DEF IInv, InstanceSound, SavedSound
<1>7. TypeOK'
  BY <1>2, <1>3, <1>4 DEF IInv, TypeOK, Phases
<1> QED
  BY <1>3, <1>5, <1>6, <1>7 DEF IInv, InstanceSound

(* A getter's evaluation of a sound instance ends with a sound answer. *)
LEMMA GetterAnswers ==
    ASSUME NEW c, Sound(c), ~c.aborted, NEW demand \in Levels,
           c.mStatus = "ContinuousTimeMode" => demand # Start,
           NEW discards \in BOOLEAN,
           NEW x \in UNION {AfterRefresh(y, discards) : y \in RefreshCache(c, demand)}
    PROVE  Answers(x)
<1>1. PICK y \in RefreshCache(c, demand) : x \in AfterRefresh(y, discards)
  OBVIOUS
<1>2. Sound(y.comp) /\ Accounted(y.comp)
  BY RefreshCacheSound DEF Sound
<1>3. x \in UtilError(y.comp) \/ x = Return("OK", y.comp) \/ x = Return("Discard", y.comp)
  BY <1>1 DEF AfterRefresh, LookUp
<1> QED
  BY <1>2, <1>3, UtilErrorAnswers DEF Answers, Return, FMIStatuses

LEMMA LookUpAnswers ==
    ASSUME NEW c, Sound(c), NEW x \in LookUp(c)
    PROVE  Answers(x)
BY UtilErrorAnswers DEF LookUp, Answers, Return, FMIStatuses, Sound

LEMMA SetupExperimentKeeps == ASSUME IInv, SetupExperiment PROVE IInv'
<1> DEFINE d == [comp EXCEPT !.icall = Start, !.fresh = Start,
                             !.solved = FALSE, !.synced = FALSE]
<1>1. Accounted(comp) /\ comp.mStatus = "Instantiated" /\ Start \in Levels
  BY LevelsAre DEF SetupExperiment, IInv, InstanceSound, Sound, Start
<1>2. d \in Components /\ d.mStatus = "Instantiated" /\ d.terminals = comp.terminals
  BY <1>1 DEF Accounted, Components
<1>3. Finish({Return("OK", d)})
  BY DEF SetupExperiment
<1> HIDE DEF d
<1>4. Answers(Return("OK", d))
  BY <1>1, <1>2 DEF Answers, Return, FMIStatuses, Sound, Accounted
<1> QED
  BY <1>3, <1>4, FinishKeeps

LEMMA EnterInitializationModeKeeps ==
    ASSUME IInv, EnterInitializationMode PROVE IInv'
<1> DEFINE d == [comp EXCEPT !.fmi2ComputeInit = TRUE, !.mStatus = "InitializationMode"]
           S == IF comp.mStatus # "Instantiated" THEN UtilError(comp) ELSE {Return("OK", d)}
<1>1. Accounted(comp)
  BY DEF IInv, InstanceSound, Sound
<1>2. d \in Components /\ d.mStatus = "InitializationMode" /\ d.fmi2ComputeInit
      /\ d.terminals = comp.terminals
  BY <1>1 DEF Accounted, Components, Modes
<1>3. Finish(S)
  BY DEF EnterInitializationMode
<1>4. ASSUME NEW x \in S PROVE Answers(x)
  <2>1. CASE comp.mStatus # "Instantiated"
    BY <1>1, <2>1, UtilErrorAnswers
  <2>2. CASE comp.mStatus = "Instantiated"
    <3>1. x = Return("OK", d)
      BY <2>2
    <3> HIDE DEF d
    <3> QED
      BY <1>1, <1>2, <2>2, <3>1 DEF Answers, Return, FMIStatuses, Sound, Accounted
  <2> QED
    BY <2>1, <2>2
<1> HIDE DEF S
<1> QED
  BY <1>3, <1>4, FinishKeeps

LEMMA ExitInitializationModeKeeps ==
    ASSUME IInv, ExitInitializationMode PROVE IInv'
<1> DEFINE S == IF comp.mStatus # "InitializationMode" THEN UtilError(comp)
                ELSE UNION {InitialisationDone(x) : x \in RefreshCache(comp, Start)}
<1>1. Accounted(comp) /\ Sound(comp) /\ ~comp.aborted
  BY DEF ExitInitializationMode, Callable, IInv, InstanceSound, Sound
<1>2. Finish(S)
  BY DEF ExitInitializationMode
<1>3. ASSUME NEW x \in S PROVE Answers(x)
  <2>1. CASE comp.mStatus # "InitializationMode"
    BY <1>1, <2>1, UtilErrorAnswers
  <2>2. CASE comp.mStatus = "InitializationMode"
    <3>1. PICK y \in RefreshCache(comp, Start) : x \in InitialisationDone(y)
      BY <2>2
    <3>2. Start \in Levels
      BY LevelsAre DEF Start
    <3>3. /\ Accounted(y.comp)
          /\ y.comp.aborted \/ Ready(comp, y.comp) \/ y.comp.mStatus = "Terminated"
          /\ y.err = "ok" => y.comp.mStatus = comp.mStatus
          /\ y.err = "ok" => y.comp.aborted \/ y.comp.solved
      BY <1>1, <3>2, RefreshCacheKeeps
    <3>4. CASE y.err # "ok"
      BY <3>1, <3>3, <3>4, UtilErrorAnswers DEF InitialisationDone
    <3>5. CASE y.err = "ok"
      <4> DEFINE d == [y.comp EXCEPT !.mStatus = "ContinuousTimeMode"]
      <4>1. x = Return("OK", d)
        BY <3>1, <3>5 DEF InitialisationDone
      <4>2. /\ d \in Components /\ d.mStatus = "ContinuousTimeMode"
            /\ d.aborted = y.comp.aborted /\ d.iData = y.comp.iData
            /\ d.solved = y.comp.solved /\ d.terminals = y.comp.terminals
            /\ d.fmi2ComputeInit = y.comp.fmi2ComputeInit
        BY <3>3 DEF Accounted, Components, Modes
      <4> HIDE DEF d
      <4>3. y.comp.aborted \/ (y.comp.iData /\ y.comp.solved /\ ~y.comp.fmi2ComputeInit)
        BY <1>1, <2>2, <3>3, <3>5 DEF Ready, Sound
      <4>4. y.comp.terminals = 0
        BY <2>2, <3>3, <3>5 DEF Accounted
      <4>5. Accounted(d)
        BY <4>2, <4>4 DEF Accounted
      <4>6. Sound(d)
        BY <4>2, <4>3, <4>5 DEF Sound
      <4> QED
        BY <4>1, <4>6 DEF Answers, Return, FMIStatuses
    <3> QED
      BY <3>4, <3>5
  <2> QED
    BY <2>1, <2>2
<1> HIDE DEF S
<1> QED
  BY <1>2, <1>3, FinishKeeps

(* A getter never solves the initial equations of a running instance anew: *)
(* section 0 is always in the cache.                                       *)
LEMMA NoStartDemanded ==
    ASSUME NEW c, Sound(c), ~c.aborted, NEW demand \in Levels, NeedsRefresh(c, demand)
    PROVE  c.mStatus = "ContinuousTimeMode" => demand # Start
<1>1. Start = 0 /\ c.icall \in {0, 1, 2, 3, 4, 5, 7}
  BY LevelsAre DEF Sound, Accounted, Components, Start
<1>2. c.mStatus = "ContinuousTimeMode" => c.icall < demand
  BY DEF NeedsRefresh, Sound
<1> QED
  BY <1>1, <1>2

LEMMA GetKeeps ==
    ASSUME IInv, NEW demand \in Demands, NEW real \in BOOLEAN, Get(demand, real)
    PROVE  IInv'
<1> DEFINE S == IF comp.mStatus = "Instantiated" THEN UtilError(comp)
                ELSE IF comp.mStatus = "Terminated" \/ ~NeedsRefresh(comp, demand)
                    THEN LookUp(comp)
                ELSE UNION {AfterRefresh(x, real) : x \in RefreshCache(comp, demand)}
<1>1. Sound(comp) /\ Accounted(comp) /\ ~comp.aborted /\ demand \in Levels
  BY LevelsAre DEF Get, Callable, IInv, InstanceSound, Sound
<1>2. Finish(S)
  BY DEF Get
<1>3. ASSUME NEW x \in S PROVE Answers(x)
  <2>1. x \in UtilError(comp) => Answers(x)
    BY <1>1, UtilErrorAnswers
  <2>2. x \in LookUp(comp) => Answers(x)
    BY <1>1, LookUpAnswers
  <2>3. CASE comp.mStatus # "Instantiated" /\ NeedsRefresh(comp, demand) /\ x \notin LookUp(comp)
    <3>1. comp.mStatus = "ContinuousTimeMode" => demand # Start
      BY <1>1, <2>3, NoStartDemanded
    <3> QED
      BY <1>1, <2>3, <3>1, GetterAnswers
  <2> QED
    BY <2>1, <2>2, <2>3
<1> HIDE DEF S
<1> QED
  BY <1>2, <1>3, FinishKeeps

LEMMA GetStringKeeps == ASSUME IInv, GetString PROVE IInv'
<1> DEFINE S == IF comp.mStatus = "Instantiated" THEN UtilError(comp)
                ELSE IF ~NeedsRefresh(comp, Start) THEN LookUp(comp)
                ELSE UNION {AfterRefresh(x, FALSE) : x \in RefreshCache(comp, Start)}
<1>1. Sound(comp) /\ Accounted(comp) /\ ~comp.aborted /\ Start \in Levels
  BY LevelsAre DEF GetString, Callable, IInv, InstanceSound, Sound, Start
<1>2. Finish(S)
  BY DEF GetString
<1>3. ASSUME NEW x \in S PROVE Answers(x)
  <2>1. x \in UtilError(comp) => Answers(x)
    BY <1>1, UtilErrorAnswers
  <2>2. x \in LookUp(comp) => Answers(x)
    BY <1>1, LookUpAnswers
  <2>3. CASE comp.mStatus # "Instantiated" /\ NeedsRefresh(comp, Start)
    <3>1. comp.mStatus = "ContinuousTimeMode" => Start # Start
      BY <1>1, <2>3, NoStartDemanded
    <3> QED
      BY <1>1, <2>3, <3>1, GetterAnswers
  <2> QED
    BY <2>1, <2>2, <2>3
<1> HIDE DEF S
<1> QED
  BY <1>2, <1>3, FinishKeeps

LEMMA GetRealOutputDerivativesKeeps ==
    ASSUME IInv, GetRealOutputDerivatives PROVE IInv'
<1> DEFINE S == IF comp.mStatus = "Instantiated" THEN UtilError(comp)
                ELSE UNION {AfterRefresh(x, FALSE) : x \in RefreshCache(comp, Output)}
<1>1. Sound(comp) /\ Accounted(comp) /\ ~comp.aborted /\ Output \in Levels /\ Output # Start
  BY LevelsAre
  DEF GetRealOutputDerivatives, Callable, IInv, InstanceSound, Sound, Output, Start
<1>2. Finish(S)
  BY DEF GetRealOutputDerivatives
<1>3. ASSUME NEW x \in S PROVE Answers(x)
  BY <1>1, UtilErrorAnswers, GetterAnswers
<1> HIDE DEF S
<1> QED
  BY <1>2, <1>3, FinishKeeps

(* A value set from outside leaves an instance sound. *)
LEMMA WithValueSetSound ==
    ASSUME NEW c, Sound(c), NEW parameter \in BOOLEAN
    PROVE  LET e == WithValueSet(c, parameter)
           IN  Sound(e) /\ e.mStatus = c.mStatus /\ e.aborted = c.aborted
<1> DEFINE e == WithValueSet(c, parameter)
           solved == c.solved /\ c.mStatus \notin {"Instantiated", "InitializationMode"}
           new == c.newParameters \/ parameter
<1>1. c \in Components /\ Start \in Levels
  BY LevelsAre DEF Sound, Accounted, Start
<1>2. solved \in BOOLEAN /\ new \in BOOLEAN
  BY <1>1 DEF Components
<1>3. e = [c EXCEPT !.fresh = Start, !.changed = TRUE, !.synced = FALSE,
                    !.solved = solved, !.newParameters = new]
  BY DEF WithValueSet
<1>4. c.mStatus = "ContinuousTimeMode" => solved = c.solved
  BY <1>1 DEF Components
<1> HIDE DEF solved, new, e
<1>5. e \in Components
  BY <1>1, <1>2, <1>3 DEF Components
<1>6. SameMode(c, e) /\ e.solved = solved
  BY <1>1, <1>3 DEF Components, SameMode
<1>7. Sound(e) /\ e.mStatus = c.mStatus /\ e.aborted = c.aborted
  BY <1>4, <1>5, <1>6 DEF Sound, Accounted, SameMode
<1> QED
  BY <1>7 DEF e

LEMMA SetKeeps ==
    ASSUME IInv, NEW parameter \in BOOLEAN, Set(parameter) PROVE IInv'
<1> DEFINE w == WithValueSet(comp, parameter)
           d == [w EXCEPT !.icall = Start, !.valWasSet = TRUE, !.reinitCvode = TRUE]
           S == {Return("OK", d)} \cup UtilError(comp) \cup UtilError(w)
<1>1. Sound(comp) /\ Start \in Levels
  BY LevelsAre DEF IInv, InstanceSound, Start
<1>2. Sound(w)
  BY <1>1, WithValueSetSound
<1>3. Finish(S)
  BY DEF Set
<1> HIDE DEF w
<1>4. d \in Components /\ SameMode(w, d) /\ d.solved = w.solved
  BY <1>1, <1>2 DEF Sound, Accounted, Components, SameMode
<1> HIDE DEF d
<1>5. Sound(d)
  BY <1>2, <1>4 DEF Sound, Accounted, SameMode
<1>6. ASSUME NEW x \in S PROVE Answers(x)
  BY <1>1, <1>2, <1>5, UtilErrorAnswers DEF Sound, Answers, Return, FMIStatuses
<1> HIDE DEF S
<1> QED
  BY <1>3, <1>6, FinishKeeps

LEMMA SetStringKeeps == ASSUME IInv, SetString PROVE IInv'
<1>1. Sound(WithValueSet(comp, TRUE))
  BY WithValueSetSound DEF IInv, InstanceSound
<1>2. Answers(Return("OK", WithValueSet(comp, TRUE)))
  BY <1>1 DEF Answers, Return, FMIStatuses
<1>3. Finish({Return("OK", WithValueSet(comp, TRUE))})
  BY DEF SetString
<1> QED
  BY <1>2, <1>3, FinishKeeps

LEMMA GetFMUstateKeeps == ASSUME IInv, GetFMUstate PROVE IInv'
<1> DEFINE d == [comp EXCEPT !.QiErr = "ok"]
<1>1. saved' = [held |-> TRUE, comp |-> d] /\ status' = "OK" /\ comp' = comp /\ phase' = phase
  BY DEF GetFMUstate, HeldState
<1>2. Sound(comp) /\ comp \in Components /\ ~comp.aborted /\ phase = "idle"
  BY DEF GetFMUstate, Callable, IInv, InstanceSound, Sound, Accounted
<1>3. d \in Components /\ SameMode(comp, d) /\ d.solved = comp.solved
  BY <1>2 DEF Components, Errors, SameMode
<1> HIDE DEF d
<1>4. Sound(d) /\ ~d.aborted
  BY <1>2, <1>3 DEF Sound, Accounted, SameMode
<1>5. SavedSound' /\ saved' \in States
  BY <1>1, <1>3, <1>4 DEF SavedSound, States
<1>6. TypeOK' /\ ErrorEndsInstance' /\ ~Stepping'
  BY <1>1, <1>2, <1>5 DEF IInv, TypeOK, ErrorEndsInstance, FMIStatuses, Stepping
<1> QED
  BY <1>1, <1>2, <1>5, <1>6 DEF IInv, InstanceSound

(* A restored instance is as sound as the one saved, and has a solver. *)
LEMMA RestoredSound ==
    ASSUME NEW c \in Components, NEW s, Sound(s), ~s.aborted
    PROVE  Sound(Restored(c, s))
<1> DEFINE iData == c.iData \/ s.iData
           v == [s EXCEPT !.QiErr = c.QiErr, !.iData = iData]
           w == IF v.iData THEN v ELSE IntegrationSetup(v)
<1>1. s \in Components /\ iData \in BOOLEAN /\ (s.iData => iData)
  BY DEF Sound, Accounted, Components
<1> HIDE DEF iData
<1>2. v \in Components
  BY <1>1 DEF Components
<1>3. /\ v.mStatus = s.mStatus /\ v.fmi2ComputeInit = s.fmi2ComputeInit
      /\ v.aborted = s.aborted /\ v.terminals = s.terminals /\ v.solved = s.solved
      /\ s.iData => v.iData
  BY <1>1 DEF Components
<1> HIDE DEF v
<1>4. Sound(v) /\ Accounted(v) /\ ~v.aborted
  BY <1>2, <1>3 DEF Sound, Accounted
<1>5. Accounted(w) /\ w.iData /\ w.mStatus = v.mStatus
      /\ w.fmi2ComputeInit = v.fmi2ComputeInit /\ w.solved = v.solved
  BY <1>2, <1>4, IntegrationSetupKeeps DEF Components
<1>6. Sound(w)
  BY <1>4, <1>5 DEF Sound
<1>7. Restored(c, s) = IntegrationReinit(w)
  BY DEF Restored, v, iData
<1> HIDE DEF w
<1>8. Accounted(IntegrationReinit(w)) /\ SameMode(w, IntegrationReinit(w))
      /\ IntegrationReinit(w).solved = w.solved
  BY <1>5, IntegrationReinitKeeps
<1> QED
  BY <1>6, <1>7, <1>8 DEF Sound, SameMode

LEMMA SetFMUstateKeeps == ASSUME IInv, SetFMUstate PROVE IInv'
<1> DEFINE d == Restored(comp, saved.comp)
<1>1. Finish({Return("OK", d)})
  BY DEF SetFMUstate
<1>2. Sound(d)
  BY RestoredSound DEF SetFMUstate, IInv, InstanceSound, SavedSound, TypeOK
<1> HIDE DEF d
<1>3. Answers(Return("OK", d))
  BY <1>2 DEF Answers, Return, FMIStatuses
<1> QED
  BY <1>1, <1>3, FinishKeeps

LEMMA FreeFMUstateKeeps == ASSUME IInv, FreeFMUstate PROVE IInv'
<1>1. saved' = NoState /\ status' = "OK" /\ comp' = comp /\ phase' = phase /\ phase = "idle"
  BY DEF FreeFMUstate, Callable
<1>2. SavedSound' /\ saved' \in States
  BY <1>1 DEF SavedSound, States, NoState
<1>3. TypeOK' /\ ErrorEndsInstance' /\ ~Stepping'
  BY <1>1, <1>2 DEF IInv, TypeOK, ErrorEndsInstance, FMIStatuses, Stepping
<1> QED
  BY <1>1, <1>2, <1>3 DEF IInv, InstanceSound

(* An instance that may step is live. *)
LEMMA MayStepLive == ASSUME IInv, Callable, MayStep(comp) PROVE Live(comp)
BY DEF IInv, InstanceSound, Callable, MayStep, Live

LEMMA DoStepKeeps == ASSUME IInv, DoStep PROVE IInv'
<1>1. Live(comp)
  BY MayStepLive DEF DoStep
<1>2. \A x \in Prepared(comp) : Answers(x) /\ (x.status = "OK" => Live(x.comp))
  BY <1>1, PreparedAnswers
<1>3. CASE Finish({x \in Prepared(comp) : x.status # "OK"})
  BY <1>2, <1>3, FinishKeeps
<1>4. CASE \E x \in Prepared(comp) :
             /\ x.status = "OK"
             /\ comp' = [x.comp EXCEPT !.aborted = ~x.comp.iData]
             /\ phase' = "stepping"
             /\ UNCHANGED <<saved, status>>
  <2>1. PICK x \in Prepared(comp) :
             /\ x.status = "OK"
             /\ comp' = [x.comp EXCEPT !.aborted = ~x.comp.iData]
             /\ phase' = "stepping"
             /\ UNCHANGED <<saved, status>>
    BY <1>4
  <2>2. Live(x.comp)
    BY <1>2, <2>1
  <2>3. x.comp \in Components /\ x.comp.iData /\ ~x.comp.aborted
    BY <2>2 DEF Live, Sound, Accounted
  <2>4. comp' = [x.comp EXCEPT !.aborted = FALSE]
    BY <2>1, <2>3
  <2>5. comp' = x.comp
    BY <2>3, <2>4 DEF Components
  <2>6. Running' /\ Stepping' /\ Sound(comp') /\ comp' \in Components
    BY <2>1, <2>2, <2>3, <2>5 DEF Running, Stepping, Live
  <2>7. TypeOK' /\ SavedSound' /\ ErrorEndsInstance'
    BY <2>1, <2>6 DEF IInv, InstanceSound, TypeOK, Phases, SavedSound, ErrorEndsInstance
  <2> QED
    BY <2>6, <2>7 DEF IInv, InstanceSound
<1> QED
  BY <1>3, <1>4 DEF DoStep

LEMMA DoStepRefusedKeeps == ASSUME IInv, DoStepRefused PROVE IInv'
<1> DEFINE S == IF MayStep(comp) THEN {Return("Warning", comp)} ELSE UtilError(comp)
<1>1. Sound(comp)
  BY DEF IInv, InstanceSound
<1>2. Finish(S)
  BY DEF DoStepRefused
<1>3. ASSUME NEW x \in S PROVE Answers(x)
  BY <1>1, UtilErrorAnswers DEF Sound, Answers, Return, FMIStatuses
<1> HIDE DEF S
<1> QED
  BY <1>2, <1>3, FinishKeeps

(* In the loop of fmiDoStep_ the instance is live; a new time keeps it so. *)
LEMMA AtNewTimeLive ==
    ASSUME IInv, Stepping
    PROVE  LET c == AtNewTime(comp)
           IN  Live(comp) /\ Live(c) /\ SameMode(comp, c) /\ c.solved = comp.solved
<1>1. Live(comp) /\ comp \in Components /\ Start \in Levels
  BY LevelsAre DEF IInv, TypeOK, InstanceSound, Running, Stepping, Live, Start
<1> DEFINE c == AtNewTime(comp)
<1>2. c \in Components /\ SameMode(comp, c) /\ c.solved = comp.solved
  BY <1>1 DEF AtNewTime, Components, SameMode
<1> QED
  BY <1>1, <1>2, LiveKept

(* A step inside the loop that goes on. *)
LEMMA LoopGoesOn ==
    ASSUME IInv, Stepping, Live(comp'), UNCHANGED <<saved, status, phase>>
    PROVE  IInv'
<1>1. Running' /\ Stepping' /\ Sound(comp') /\ comp' \in Components
  BY DEF Running, Stepping, Live, Sound, Accounted
<1>2. TypeOK' /\ SavedSound' /\ ErrorEndsInstance'
  BY <1>1 DEF IInv, InstanceSound, TypeOK, SavedSound, ErrorEndsInstance
<1> QED
  BY <1>1, <1>2 DEF IInv, InstanceSound

LEMMA IntegrateKeeps == ASSUME IInv, Integrate PROVE IInv'
<1> DEFINE c == AtNewTime(comp)
           changed == comp.changed /\ ~comp.newParameters
           d == [c EXCEPT !.valWasSet = FALSE, !.changed = changed,
                          !.newParameters = FALSE, !.QiErr = "ok"]
<1>1. Stepping /\ comp' = d /\ UNCHANGED <<saved, status, phase>>
  BY DEF Integrate
<1>2. Live(c) /\ c \in Components
  BY <1>1, AtNewTimeLive DEF Live, Sound, Accounted
<1>3. changed \in BOOLEAN /\ "ok" \in Errors
  BY DEF Errors
<1> HIDE DEF c, changed
<1>4. d \in Components /\ SameMode(c, d) /\ d.solved = c.solved
  BY <1>2, <1>3 DEF Components, SameMode
<1> HIDE DEF d
<1> QED
  BY <1>1, <1>2, <1>4, LiveKept, LoopGoesOn

LEMMA StepEventKeeps == ASSUME IInv, StepEvent PROVE IInv'
<1> DEFINE S == HandleEvent(AtNewTime(comp), FALSE)
<1>1. Stepping /\ Live(AtNewTime(comp))
  BY AtNewTimeLive DEF StepEvent
<1>2. \A x \in S : Answers(x) /\ (x.status = "OK" => Live(x.comp))
  BY <1>1, HandleEventAnswers
<1>3. \/ \E x \in S : x.status = "OK" /\ comp' = x.comp /\ UNCHANGED <<saved, status, phase>>
      \/ Finish({x \in S : x.status # "OK"})
  BY DEF StepEvent
<1> HIDE DEF S
<1>4. CASE \E x \in S : x.status = "OK" /\ comp' = x.comp /\ UNCHANGED <<saved, status, phase>>
  BY <1>1, <1>2, <1>4, LoopGoesOn
<1>5. CASE Finish({x \in S : x.status # "OK"})
  BY <1>2, <1>5, FinishKeeps
<1> QED
  BY <1>3, <1>4, <1>5

LEMMA SolverFailsKeeps == ASSUME IInv, SolverFails PROVE IInv'
<1> DEFINE c == AtNewTime(comp)
<1>1. PICK err \in {"ok"} \cup (Faults \ {"failed"}) :
         Finish(UtilError([c EXCEPT !.QiErr = err, !.newParameters = FALSE]))
  BY DEF SolverFails
<1> DEFINE d == [c EXCEPT !.QiErr = err, !.newParameters = FALSE]
<1>2. Live(c) /\ c \in Components /\ err \in Errors
  BY AtNewTimeLive DEF SolverFails, Live, Sound, Accounted, Errors
<1> HIDE DEF c
<1>3. d \in Components /\ SameMode(c, d)
  BY <1>2 DEF Components, SameMode
<1>4. Accounted(d)
  BY <1>2, <1>3 DEF Live, Sound, Accounted, SameMode
<1> HIDE DEF d
<1>5. \A x \in UtilError(d) : Answers(x)
  BY <1>4, UtilErrorAnswers
<1>6. Finish(UtilError(d))
  BY <1>1 DEF d
<1> QED
  BY <1>5, <1>6, FinishKeeps

(* A callback that fails ends the instance, whether CVode survives it or   *)
(* not.                                                                    *)
LEMMA CallbackFailsEnds ==
    ASSUME IInv, CallbackFails
    PROVE  \E S : /\ Finish(S)
                  /\ \A y \in S : /\ y.status = "Error"
                                  /\ Accounted(y.comp)
                                  /\ y.comp.mStatus = "Terminated"
<1> DEFINE c == AtNewTime(comp)
<1>1. PICK err \in Faults \ {"recoverable"}, n \in Sections, crash \in BOOLEAN :
         Finish({[x EXCEPT !.comp.aborted = crash] :
                    x \in UtilError([c EXCEPT !.QiErr = err, !.icall = n,
                                              !.newParameters = FALSE])})
  BY DEF CallbackFails
<1> DEFINE d == [c EXCEPT !.QiErr = err, !.icall = n, !.newParameters = FALSE]
           S == {[x EXCEPT !.comp.aborted = crash] : x \in UtilError(d)}
<1>2. Live(c) /\ c \in Components /\ err \in Errors /\ n \in Levels
  BY AtNewTimeLive, LevelsAre DEF CallbackFails, Live, Sound, Accounted, Errors
<1> HIDE DEF c
<1>3. d \in Components /\ SameMode(c, d)
  BY <1>2 DEF Components, SameMode
<1>4. Accounted(d)
  BY <1>2, <1>3 DEF Live, Sound, Accounted, SameMode
<1>5. Finish(S)
  BY <1>1
<1> HIDE DEF d
<1>6. ASSUME NEW y \in S
      PROVE  y.status = "Error" /\ Accounted(y.comp) /\ y.comp.mStatus = "Terminated"
  <2>1. PICK x \in UtilError(d) : y = [x EXCEPT !.comp.aborted = crash]
    OBVIOUS
  <2>2. x.status = "Error" /\ Accounted(x.comp) /\ x.comp.mStatus = "Terminated"
    BY <1>4, UtilErrorEnds
  <2> DEFINE e == [x.comp EXCEPT !.aborted = crash]
  <2>3. y.status = "Error" /\ y.comp = e
    <3>1. DOMAIN x = {"status", "comp"}
      <4>1. \E z : x = Return("Error", z)
        BY <1>4 DEF UtilError
      <4> QED
        BY <4>1 DEF Return
    <3> QED
      BY <2>1, <2>2, <3>1
  <2>4. Accounted(e) /\ e.mStatus = "Terminated"
    BY <2>2 DEF Accounted, Components
  <2> QED
    BY <2>3, <2>4
<1> HIDE DEF S
<1> QED
  BY <1>5, <1>6

LEMMA CallbackFailsKeeps == ASSUME IInv, CallbackFails PROVE IInv'
<1>1. PICK S : /\ Finish(S)
               /\ \A y \in S : /\ y.status = "Error"
                               /\ Accounted(y.comp)
                               /\ y.comp.mStatus = "Terminated"
  BY CallbackFailsEnds
<1>2. \A y \in S : Answers(y)
  BY <1>1 DEF Answers, Sound, FMIStatuses
<1> QED
  BY <1>1, <1>2, FinishKeeps

LEMMA StepDoneKeeps == ASSUME IInv, StepDone PROVE IInv'
<1>1. Sound(comp) /\ Finish({Return("OK", comp)})
  BY DEF StepDone, IInv, InstanceSound
<1>2. Answers(Return("OK", comp))
  BY <1>1 DEF Answers, Return, FMIStatuses
<1> QED
  BY <1>1, <1>2, FinishKeeps

LEMMA TerminateKeeps == ASSUME IInv, Terminate PROVE IInv'
<1>1. Accounted(comp) /\ Finish(TerminateSlave(comp))
  BY DEF Terminate, IInv, InstanceSound, Sound
<1>2. \A x \in TerminateSlave(comp) : Answers(x)
  BY <1>1, TerminateSlaveEnds DEF Answers, Sound, FMIStatuses
<1> QED
  BY <1>1, <1>2, FinishKeeps

(* A reset instance is sound. *)
LEMMA WithStartValuesSound ==
    ASSUME NEW c, Accounted(c)
    PROVE  Sound(WithStartValues(c))
<1> DEFINE d == WithStartValues(c)
<1>1. Start \in Levels /\ 0 \in 0 .. 2
  BY LevelsAre DEF Start
<1>2. d \in Components /\ d.mStatus = "Instantiated" /\ d.terminals = 0
  BY <1>1 DEF WithStartValues, Accounted, Components, Modes
<1> HIDE DEF d
<1>3. Sound(d)
  BY <1>2 DEF Sound, Accounted
<1> QED
  BY <1>3 DEF d

LEMMA ResetKeeps == ASSUME IInv, Reset PROVE IInv'
<1> DEFINE S == CASE comp.mStatus = "Instantiated" -> {Return("OK", comp)}
                  [] comp.mStatus = "Terminated" -> {Return("OK", WithStartValues(comp))}
                  [] OTHER -> {IF x.status = "Error" THEN x
                               ELSE Return("OK", WithStartValues(x.comp)) :
                                 x \in TerminateSlave(comp)}
<1>1. Sound(comp) /\ Accounted(comp)
  BY DEF IInv, InstanceSound, Sound
<1>2. Finish(S)
  BY DEF Reset
<1>3. ASSUME NEW y \in S PROVE Answers(y)
  <2>1. CASE comp.mStatus = "Instantiated"
    BY <1>1, <2>1 DEF Answers, Return, FMIStatuses
  <2>2. CASE comp.mStatus = "Terminated"
    BY <1>1, <2>2, WithStartValuesSound DEF Answers, Return, FMIStatuses
  <2>3. CASE comp.mStatus \notin {"Instantiated", "Terminated"}
    <3>1. PICK x \in TerminateSlave(comp) :
             y = IF x.status = "Error" THEN x ELSE Return("OK", WithStartValues(x.comp))
      BY <2>3
    <3>2. Accounted(x.comp) /\ x.comp.mStatus = "Terminated"
      BY <1>1, TerminateSlaveEnds
    <3>3. Sound(x.comp) /\ Sound(WithStartValues(x.comp))
      BY <3>2, WithStartValuesSound DEF Sound
    <3> QED
      BY <3>1, <3>2, <3>3 DEF Answers, Return, FMIStatuses
  <2> QED
    BY <2>1, <2>2, <2>3
<1> HIDE DEF S
<1> QED
  BY <1>2, <1>3, FinishKeeps

LEMMA FreeInstanceKeeps == ASSUME IInv, FreeInstance PROVE IInv'
<1>1. phase' = "freed" /\ phase = "idle" /\ UNCHANGED <<comp, saved, status>>
  BY DEF FreeInstance, Callable
<1>2. TypeOK' /\ SavedSound' /\ ErrorEndsInstance' /\ ~Stepping'
  BY <1>1 DEF IInv, InstanceSound, TypeOK, Phases, SavedSound, ErrorEndsInstance, Stepping
<1> QED
  BY <1>1, <1>2 DEF IInv, InstanceSound

----------------------------------------------------------------------------
(* The theorems.                                                           *)

(* A new instance satisfies the invariant. *)
LEMMA InitSound == Init => IInv
<1> SUFFICES ASSUME Init PROVE IInv
  OBVIOUS
<1>1. Start \in Levels /\ 0 \in 0 .. 2
  BY LevelsAre DEF Start
<1>2. comp = NewInstance /\ saved = NoState /\ status = "OK" /\ phase = "idle"
  BY DEF Init
<1>3. comp \in Components /\ comp.mStatus = "Instantiated" /\ comp.terminals = 0
  BY <1>1, <1>2 DEF NewInstance, Components, Modes, Errors
<1>4. Sound(comp)
  BY <1>3 DEF Sound, Accounted
<1>5. TypeOK
  BY <1>2, <1>3 DEF TypeOK, States, FMIStatuses, Phases
<1>6. SavedSound /\ ErrorEndsInstance /\ ~Stepping
  BY <1>2 DEF SavedSound, NoState, ErrorEndsInstance, Stepping
<1> QED
  BY <1>4, <1>5, <1>6 DEF IInv, InstanceSound

(* Every entry point, and every step inside fmi2DoStep, keeps it. *)
LEMMA NextSound == IInv /\ [Next]_vars => IInv'
<1> SUFFICES ASSUME IInv, [Next]_vars PROVE IInv'
  OBVIOUS
<1>1. CASE SetupExperiment
  BY <1>1, SetupExperimentKeeps
<1>2. CASE EnterInitializationMode
  BY <1>2, EnterInitializationModeKeeps
<1>3. CASE ExitInitializationMode
  BY <1>3, ExitInitializationModeKeeps
<1>4. CASE \E demand \in Demands, real \in BOOLEAN : Get(demand, real)
  BY <1>4, GetKeeps
<1>5. CASE GetString
  BY <1>5, GetStringKeeps
<1>6. CASE GetRealOutputDerivatives
  BY <1>6, GetRealOutputDerivativesKeeps
<1>7. CASE \E parameter \in BOOLEAN : Set(parameter)
  BY <1>7, SetKeeps
<1>8. CASE SetString
  BY <1>8, SetStringKeeps
<1>9. CASE GetFMUstate
  BY <1>9, GetFMUstateKeeps
<1>10. CASE SetFMUstate
  BY <1>10, SetFMUstateKeeps
<1>11. CASE FreeFMUstate
  BY <1>11, FreeFMUstateKeeps
<1>12. CASE DoStep
  BY <1>12, DoStepKeeps
<1>13. CASE DoStepRefused
  BY <1>13, DoStepRefusedKeeps
<1>14. CASE Integrate
  BY <1>14, IntegrateKeeps
<1>15. CASE StepEvent
  BY <1>15, StepEventKeeps
<1>16. CASE SolverFails
  BY <1>16, SolverFailsKeeps
<1>17. CASE CallbackFails
  BY <1>17, CallbackFailsKeeps
<1>18. CASE StepDone
  BY <1>18, StepDoneKeeps
<1>19. CASE Terminate
  BY <1>19, TerminateKeeps
<1>20. CASE Reset
  BY <1>20, ResetKeeps
<1>21. CASE FreeInstance
  BY <1>21, FreeInstanceKeeps
<1>22. CASE UNCHANGED vars
  <2>1. comp' = comp /\ saved' = saved /\ status' = status /\ phase' = phase
    BY <1>22 DEF vars
  <2> QED
    BY <2>1 DEF IInv, TypeOK, InstanceSound, SavedSound, Stepping, Running, ErrorEndsInstance
<1> QED
  BY <1>1, <1>2, <1>3, <1>4, <1>5, <1>6, <1>7, <1>8, <1>9, <1>10, <1>11,
     <1>12, <1>13, <1>14, <1>15, <1>16, <1>17, <1>18, <1>19, <1>20, <1>21, <1>22
  DEF Next, GetValues, SetValues

LEMMA Invariance == Spec => []IInv
BY InitSound, NextSound, PTL DEF Spec

(* Every reachable state has the declared type: in particular no entry     *)
(* point leaves the instance in a mode, or with a level of its cache, that *)
(* the others do not know.                                                 *)
THEOREM TypeCorrect == Spec => []TypeOK
<1>1. IInv => TypeOK
  BY DEF IInv
<1> QED
  BY <1>1, Invariance, PTL

(* The instance and any FMU state the master may restore are sound between *)
(* any two calls and in the loop of fmi2DoStep.                            *)
THEOREM AlwaysSound == Spec => []InstanceSound
<1>1. IInv => InstanceSound
  BY DEF IInv
<1> QED
  BY <1>1, Invariance, PTL

(* Whatever the master calls, and whatever fails in the model, a run in    *)
(* progress has its solver: fmiDoStep_'s assert(comp->iData != NULL) holds *)
(* and no restart of the solver meets a null pointer.                      *)
THEOREM RunHasSolver == Spec => []SolverReady
<1>1. IInv => SolverReady
  BY DEF IInv, InstanceSound, Sound, SolverReady, Running
<1> QED
  BY <1>1, Invariance, PTL

(* A run never starts, or is restored, before its initial equations have   *)
(* been solved, although util_refresh_cache solves them lazily.            *)
THEOREM RunIsInitialised == Spec => []RunningIsInitialised
<1>1. IInv => RunningIsInitialised
  BY DEF IInv, InstanceSound, Sound, RunningIsInitialised, Running
<1> QED
  BY <1>1, Invariance, PTL

(* fmi2Terminate, fmi2Reset and util_error, in any order and called by one *)
(* another, run the terminal section of a run at most once.                *)
THEOREM TerminalRunsOnce == Spec => []TerminalOnce
<1>1. IInv => TerminalOnce
  BY DEF IInv, InstanceSound, Sound, Accounted, TerminalOnce
<1> QED
  BY <1>1, Invariance, PTL

(* An answer of fmi2Error means the instance is terminated, whichever of   *)
(* the paths to util_error was taken.                                      *)
THEOREM ErrorTerminates == Spec => []ErrorEndsInstance
<1>1. IInv => ErrorEndsInstance
  BY DEF IInv, InstanceSound
<1> QED
  BY <1>1, Invariance, PTL

----------------------------------------------------------------------------
(***************************************************************************)
(* CacheHonest, for every value of the constants with which it holds: the  *)
(* equations of the model fail for good or not at all, and no string       *)
(* parameter is set.  It is inductive together with InstanceSound, of the  *)
(* instance and of the state saved of it.                                  *)
(***************************************************************************)

(* What CacheHonest needs: a getter that is discarded leaves icall raised, *)
(* and fmi2SetString does not lower it.                                    *)
NoDiscards == Faults \subseteq {"failed"} /\ StringParameters = FALSE

Honest(c) == c.icall <= c.fresh

(* What CacheHonest asks of one instance. *)
HonestRun(c) == c.mStatus = "ContinuousTimeMode" => c.aborted \/ Honest(c)

----------------------------------------------------------------------------
(* The evaluation: from an honest cache, or at an event from any, it       *)
(* leaves an honest one unless it fails.                                   *)
LEMMA DsblockHonest ==
    ASSUME NEW c \in Components, NEW demand \in Levels, NEW e \in Dsblock(c, demand),
           Honest(c) \/ IsEvent(c, demand)
    PROVE  e.QiErr \in Faults \/ Honest(e)
<1>1. CASE \E err \in Completions(c, demand) : \E n \in LeavesAt(c, demand, err) :
              e = [Evaluated(c, demand, err) EXCEPT !.icall = n]
  <2>1. PICK err \in Completions(c, demand) : \E n \in LeavesAt(c, demand, err) :
              e = [Evaluated(c, demand, err) EXCEPT !.icall = n]
    BY <1>1
  <2>2. PICK n \in LeavesAt(c, demand, err) :
              e = [Evaluated(c, demand, err) EXCEPT !.icall = n]
    BY <2>1
  <2> DEFINE fresh == IF IsEvent(c, demand) THEN Terminal
                      ELSE IF demand > c.icall /\ c.fresh >= c.icall THEN demand
                      ELSE c.fresh
             solved == c.solved \/ demand = Start
             synced == c.synced /\ ~MovesStates(c, demand, err)
             changed == c.changed /\ ~IsEvent(c, demand)
  <2>3. e = [c EXCEPT !.icall = n, !.newParameters = FALSE, !.fresh = fresh,
                      !.solved = solved, !.synced = synced, !.changed = changed,
                      !.QiErr = err]
    BY <2>2 DEF Evaluated
  <2> HIDE DEF solved, synced, changed
  <2>4. c.icall \in 0 .. 7 /\ c.fresh \in 0 .. 7 /\ demand \in 0 .. 7
    BY LevelsAre DEF Components
  <2>5. CASE IsEvent(c, demand)
    <3>1. fresh = 7 /\ n \in 0 .. 7
      BY <2>4, <2>5 DEF Terminal, LeavesAt, Crossing, Start
    <3> HIDE DEF fresh
    <3>2. e.icall = n /\ e.fresh = fresh
      BY <2>3 DEF Components
    <3> QED
      BY <3>1, <3>2 DEF Honest
  <2>6. CASE ~IsEvent(c, demand)
    <3>1. n = demand
      BY <2>6 DEF Completions, LeavesAt, IsEvent
    <3>2. fresh >= demand
      BY <2>4, <2>6 DEF Honest
    <3>3. fresh \in 0 .. 7
      BY <2>4, <2>6
    <3> HIDE DEF fresh
    <3>4. e.icall = n /\ e.fresh = fresh
      BY <2>3 DEF Components
    <3> QED
      BY <2>4, <3>1, <3>2, <3>3, <3>4 DEF Honest
  <2> QED
    BY <2>5, <2>6
<1>2. CASE \E err \in Faults, n \in SectionsRun(c, demand) :
              e = Interrupted(c, demand, err, n)
  <2>1. PICK err \in Faults, n \in Sections : e = Interrupted(c, demand, err, n)
    BY <1>2 DEF SectionsRun
  <2>2. err \in Errors
    BY DEF Errors
  <2>3. e.QiErr = err
    BY <2>1, <2>2, InterruptedKeeps
  <2> QED
    BY <2>3
<1> QED
  BY <1>1, <1>2 DEF Dsblock

(* The same of what util_refresh_cache makes of it. *)
LEMMA RefreshedHonest ==
    ASSUME NEW c \in Components, NEW demand \in Levels, NEW x \in Refreshed(c, demand),
           Honest(c) \/ IsEvent(c, demand)
    PROVE  x.err \in Faults \/ Honest(x.comp)
<1>1. PICK e \in Dsblock(c, demand) : x = [err |-> Cached(e).QiErr, comp |-> Cached(e)]
  BY DEF Refreshed
<1>2. e \in Components /\ (e.QiErr \in Faults \/ Honest(e))
  BY DsblockKeeps, DsblockHonest
<1>3. Cached(e).icall = e.icall /\ Cached(e).fresh = e.fresh
  BY <1>2 DEF Cached, Components
<1>4. e.QiErr \in Faults => Cached(e).QiErr \in Faults
  BY <1>2, FaultsAssumption DEF Cached, Components
<1> QED
  BY <1>1, <1>2, <1>3, <1>4 DEF Honest

(* util_refresh_cache of a run. *)
LEMMA RunRefreshHonest ==
    ASSUME NEW c, Live(c), Honest(c), NEW demand \in Levels,
           NEW x \in RefreshCache(c, demand)
    PROVE  /\ x.err \in Faults \/ Honest(x.comp)
           /\ x.comp.QiErr = x.err
           /\ Accounted(x.comp)
<1>1. x \in Refreshed(c, demand) /\ Accounted(c)
  BY DEF RefreshCache, Live, Sound
<1>2. c \in Components
  BY <1>1 DEF Accounted
<1> QED
  BY <1>1, <1>2, RefreshedHonest, RefreshedKeeps

(* util_refresh_cache at the end of the initialisation. *)
LEMMA StartRefreshHonest ==
    ASSUME NEW c, Accounted(c), NEW x \in RefreshCache(c, Start), x.err = "ok"
    PROVE  x.comp.aborted \/ Honest(x.comp)
<1>0. Start \in Levels /\ "ok" \notin Faults /\ c \in Components
  BY LevelsAre, FaultsAssumption DEF Start, Accounted
<1>1. CASE ~c.fmi2ComputeInit
  <2>1. x \in Refreshed(c, Start) /\ IsEvent(c, Start)
    BY <1>1 DEF RefreshCache, IsEvent
  <2> QED
    BY <1>0, <2>1, RefreshedHonest
<1>2. CASE c.fmi2ComputeInit
  <2> DEFINE b == [c EXCEPT !.fmi2ComputeInit = FALSE]
  <2>1. b \in Components
    BY <1>0 DEF Components
  <2>2. PICK i \in InitializeSlave(b) :
           x \in IF i.status # "OK" THEN {[err |-> "failed", comp |-> i.comp]}
                 ELSE IF i.comp.aborted THEN {[err |-> "ok", comp |-> i.comp]}
                 ELSE Refreshed([i.comp EXCEPT !.icall = c.icall], Start)
    BY <1>2 DEF RefreshCache
  <2> HIDE DEF b
  <2>3. i.comp \in Components
    BY <2>1, InitializeSlaveKeeps DEF Accounted
  <2> DEFINE j == [i.comp EXCEPT !.icall = c.icall]
  <2>4. i.status = "OK"
    BY <2>2
  <2>5. CASE i.comp.aborted
    BY <2>2, <2>4, <2>5
  <2>6. CASE ~i.comp.aborted
    <3>1. x \in Refreshed(j, Start)
      BY <2>2, <2>4, <2>6
    <3>2. j \in Components /\ IsEvent(j, Start)
      BY <1>0, <2>3 DEF Components, IsEvent
    <3> HIDE DEF j
    <3> QED
      BY <1>0, <3>1, <3>2, RefreshedHonest
  <2> QED
    BY <2>5, <2>6
<1> QED
  BY <1>0, <1>1, <1>2 DEF Components

----------------------------------------------------------------------------
(* Events and the preparation of a step.                                   *)

LEMMA UtilErrorHonest ==
    ASSUME NEW c, Accounted(c), NEW x \in UtilError(c)
    PROVE  HonestRun(x.comp)
BY UtilErrorEnds DEF HonestRun

(* What becomes of an evaluation of an event that did not go well. *)
LEMMA EventFailsHonest ==
    ASSUME NEW c, Accounted(c), Honest(c) \/ c.QiErr # "stop", NEW x \in EventFails(c)
    PROVE  HonestRun(x.comp)
<1>1. CASE c.QiErr = "stop"
  <2> DEFINE d == [c EXCEPT !.terminationByModel = TRUE]
  <2>1. x = Return("Discard", d)
    BY <1>1 DEF EventFails, StoppedByModel
  <2>2. d.icall = c.icall /\ d.fresh = c.fresh
    BY DEF Accounted, Components
  <2> HIDE DEF d
  <2> QED
    BY <1>1, <2>1, <2>2 DEF Return, HonestRun, Honest
<1>2. CASE c.QiErr # "stop"
  BY <1>2, UtilErrorHonest DEF EventFails
<1> QED
  BY <1>1, <1>2

LEMMA ReinitHonest ==
    ASSUME NEW c \in Components, Honest(c)
    PROVE  Honest(IntegrationReinit(c))
BY DEF IntegrationReinit, Honest, Components

LEMMA IterateEventHonest ==
    ASSUME NEW c, Live(c), NEW force \in BOOLEAN, NEW x \in IterateEvent(c, force)
    PROVE  HonestRun(x.comp)
<1> DEFINE b == [c EXCEPT !.icall = Start]
<1>1. c \in Components /\ EventHandling \in Levels /\ Start \in Levels
  BY LevelsAre DEF Live, Sound, Accounted, EventHandling, Start
<1>2. b \in Components /\ IsEvent(b, EventHandling) /\ SameMode(c, b) /\ b.solved = c.solved
  BY <1>1 DEF Components, IsEvent, SameMode
<1>3. PICK e \in Dsblock(b, EventHandling) :
         x \in IF Cached(e).QiErr # "ok" THEN EventFails(Cached(e))
               ELSE {Return("OK", IF e.QiErr = "minor" /\ ~force THEN Cached(e)
                                  ELSE IntegrationReinit(Cached(e)))}
  BY DEF IterateEvent
<1> HIDE DEF b
<1>4. e \in Components /\ (e.QiErr \in Faults \/ Honest(e)) /\ SameMode(b, e)
  BY <1>1, <1>2, DsblockKeeps, DsblockHonest
<1> DEFINE k == Cached(e)
<1>5. k \in Components /\ k.icall = e.icall /\ k.fresh = e.fresh /\ SameMode(e, k)
  <2>1. k \in Components /\ SameMode(e, k)
    BY <1>4, CachedKeeps
  <2>2. k.icall = e.icall /\ k.fresh = e.fresh
    BY <1>4 DEF Cached, Components
  <2> QED
    BY <2>1, <2>2
<1>6. e.QiErr \in Faults => k.QiErr \notin {"ok", "stop"}
  BY <1>4, FaultsAssumption DEF Cached, Components
<1>7. Accounted(k)
  BY <1>2, <1>4, <1>5 DEF Live, Sound, Accounted, SameMode
<1>8. Honest(k) \/ k.QiErr \notin {"ok", "stop"}
  BY <1>4, <1>5, <1>6 DEF Honest
<1> HIDE DEF k
<1>9. CASE k.QiErr # "ok"
  <2>1. x \in EventFails(k)
    BY <1>3, <1>9 DEF k
  <2> QED
    BY <2>1, <1>7, <1>8, EventFailsHonest
<1>10. CASE k.QiErr = "ok"
  <2>1. x.comp \in {k, IntegrationReinit(k)}
    BY <1>3, <1>10 DEF k, Return
  <2> QED
    BY <2>1, <1>5, <1>8, <1>10, ReinitHonest DEF HonestRun
<1> QED
  BY <1>9, <1>10

LEMMA HandleEventHonest ==
    ASSUME NEW c, Live(c), Honest(c), NEW force \in BOOLEAN, NEW x \in HandleEvent(c, force)
    PROVE  HonestRun(x.comp)
<1>1. PICK v \in RefreshCache(c, Variable) :
         x \in IF v.err = "ok" THEN IterateEvent(v.comp, force) ELSE EventFails(v.comp)
  BY DEF HandleEvent
<1>2. Variable \in Levels /\ Variable # Start
  BY LevelsAre DEF Variable, Start
<1>3. v.err \in Faults \/ Honest(v.comp)
  BY <1>2, RunRefreshHonest
<1>4. v.comp.QiErr = v.err /\ Accounted(v.comp)
  BY <1>2, RunRefreshHonest
<1>5. Accounted(c) /\ ~c.fmi2ComputeInit
  BY DEF Live, Sound
<1>6. SameMode(c, v.comp) /\ v.comp.solved = c.solved
  BY <1>2, <1>5, RefreshCacheKeeps
<1>7. Live(v.comp)
  BY <1>4, <1>6, LiveKept DEF Accounted
<1>8. CASE v.err = "ok"
  BY <1>1, <1>7, <1>8, IterateEventHonest
<1>9. CASE v.err # "ok"
  BY <1>1, <1>3, <1>4, <1>9, EventFailsHonest, FaultsAssumption
<1> QED
  BY <1>8, <1>9

LEMMA PreparedHonest ==
    ASSUME NoDiscards, NEW c, Live(c), Honest(c), NEW x \in Prepared(c)
    PROVE  HonestRun(x.comp)
<1> DEFINE s == IF c.reinitCvode THEN IntegrationReinit(c) ELSE c
<1>1. c \in Components
  BY DEF Live, Sound, Accounted
<1>2. Live(s) /\ Honest(s)
  BY <1>1, LiveKept, IntegrationReinitKeeps, ReinitHonest DEF Live, Sound, Accounted
<1>3. CASE c.valWasSet
  <2>1. PICK h \in HandleEvent(c, TRUE) : x = [h EXCEPT !.comp.valWasSet = FALSE]
    BY <1>3 DEF Prepared
  <2>2. HonestRun(h.comp) /\ Answers(h)
    BY HandleEventHonest, HandleEventAnswers
  <2> DEFINE d == [h.comp EXCEPT !.valWasSet = FALSE]
  <2>3. x.comp = d
    BY <2>1, <2>2
  <2>4. d.icall = h.comp.icall /\ d.fresh = h.comp.fresh
        /\ d.mStatus = h.comp.mStatus /\ d.aborted = h.comp.aborted
    BY <2>2 DEF Answers, Sound, Accounted, Components
  <2> HIDE DEF d
  <2> QED
    BY <2>2, <2>3, <2>4 DEF HonestRun, Honest
<1>4. CASE ~c.valWasSet /\ s.icall >= Derivative
  <2>1. x = Return("OK", s)
    BY <1>4 DEF Prepared
  <2> QED
    BY <2>1, <1>2 DEF Return, HonestRun
<1>5. CASE ~c.valWasSet /\ ~(s.icall >= Derivative)
  <2>1. PICK v \in RefreshCache(s, Derivative) :
           x \in CASE v.err = "ok"          -> {Return("OK", v.comp)}
                   [] v.err = "recoverable" -> {Return("Discard", v.comp)}
                   [] OTHER                 -> UtilError(v.comp)
    BY <1>5 DEF Prepared
  <2> HIDE DEF s
  <2>2. Derivative \in Levels
    BY LevelsAre DEF Derivative
  <2>3. (v.err \in Faults \/ Honest(v.comp)) /\ Accounted(v.comp)
    BY <1>2, <2>2, RunRefreshHonest
  <2>4. x \in UtilError(v.comp) \/ (x.comp = v.comp /\ v.err \in {"ok", "recoverable"})
    BY <2>1 DEF Return
  <2>5. "ok" \notin Faults /\ "recoverable" \notin Faults
    BY DEF NoDiscards
  <2> QED
    BY <2>3, <2>4, <2>5, UtilErrorHonest DEF HonestRun
<1> QED
  BY <1>3, <1>4, <1>5

----------------------------------------------------------------------------
(* The inductive invariant.                                                *)

HInv == IInv /\ HonestRun(comp) /\ (saved.held => HonestRun(saved.comp))

LEMMA FinishHonest ==
    ASSUME HInv, NEW S, Finish(S), \A x \in S : HonestRun(x.comp)
    PROVE  HonestRun(comp') /\ saved' = saved
BY DEF Finish

(* A getter's evaluation. *)
LEMMA GetterHonest ==
    ASSUME NoDiscards, NEW c, Sound(c), ~c.aborted, HonestRun(c), NEW demand \in Levels,
           NEW discards \in BOOLEAN,
           NEW x \in UNION {AfterRefresh(y, discards) : y \in RefreshCache(c, demand)}
    PROVE  HonestRun(x.comp)
<1>1. PICK y \in RefreshCache(c, demand) : x \in AfterRefresh(y, discards)
  OBVIOUS
<1>2. /\ Accounted(y.comp)
      /\ y.comp.aborted \/ y.comp.mStatus \in {c.mStatus, "Terminated"}
  BY RefreshCacheKeeps DEF Sound
<1>3. \/ x \in UtilError(y.comp)
      \/ x.comp = y.comp /\ (y.err = "ok" \/ y.err = "recoverable")
  BY <1>1 DEF AfterRefresh, LookUp, Return
<1>4. CASE x \in UtilError(y.comp)
  BY <1>2, <1>4, UtilErrorHonest
<1>5. CASE x.comp = y.comp /\ c.mStatus # "ContinuousTimeMode"
  BY <1>2, <1>5 DEF HonestRun
<1>6. CASE x.comp = y.comp /\ c.mStatus = "ContinuousTimeMode" /\ y.err \in {"ok", "recoverable"}
  <2>1. Live(c) /\ Honest(c)
    BY <1>6 DEF Live, HonestRun
  <2>2. y.err \in Faults \/ Honest(y.comp)
    BY <2>1, RunRefreshHonest
  <2>3. y.err \notin Faults
    BY <1>6 DEF NoDiscards
  <2> QED
    BY <1>6, <2>2, <2>3 DEF HonestRun
<1> QED
  BY <1>3, <1>4, <1>5, <1>6

LEMMA LookUpHonest ==
    ASSUME NEW c, Accounted(c), HonestRun(c), NEW x \in LookUp(c)
    PROVE  HonestRun(x.comp)
BY UtilErrorHonest DEF LookUp, Return

LEMMA ExitInitializationModeHonest ==
    ASSUME HInv, ExitInitializationMode PROVE HonestRun(comp') /\ saved' = saved
<1> DEFINE S == IF comp.mStatus # "InitializationMode" THEN UtilError(comp)
                ELSE UNION {InitialisationDone(x) : x \in RefreshCache(comp, Start)}
<1>1. Accounted(comp)
  BY DEF HInv, IInv, InstanceSound, Sound
<1>2. Finish(S)
  BY DEF ExitInitializationMode
<1>3. ASSUME NEW x \in S PROVE HonestRun(x.comp)
  <2>1. CASE x \in UtilError(comp)
    BY <1>1, <2>1, UtilErrorHonest
  <2>2. CASE x \notin UtilError(comp)
    <3>1. PICK y \in RefreshCache(comp, Start) : x \in InitialisationDone(y)
      BY <2>2
    <3>2. Start \in Levels
      BY LevelsAre DEF Start
    <3>3. Accounted(y.comp)
      BY <1>1, <3>2, RefreshCacheKeeps
    <3>4. CASE y.err # "ok"
      BY <3>1, <3>3, <3>4, UtilErrorHonest DEF InitialisationDone
    <3>5. CASE y.err = "ok"
      <4> DEFINE d == [y.comp EXCEPT !.mStatus = "ContinuousTimeMode"]
      <4>1. x = Return("OK", d)
        BY <3>1, <3>5 DEF InitialisationDone
      <4>2. y.comp.aborted \/ Honest(y.comp)
        BY <1>1, <3>5, StartRefreshHonest
      <4>3. d.icall = y.comp.icall /\ d.fresh = y.comp.fresh /\ d.aborted = y.comp.aborted
        BY <3>3 DEF Accounted, Components
      <4> HIDE DEF d
      <4> QED
        BY <4>1, <4>2, <4>3 DEF Return, HonestRun, Honest
    <3> QED
      BY <3>4, <3>5
  <2> QED
    BY <2>1, <2>2
<1> HIDE DEF S
<1> QED
  BY <1>2, <1>3, FinishHonest

LEMMA GetHonest ==
    ASSUME NoDiscards, HInv, NEW demand \in Demands, NEW real \in BOOLEAN, Get(demand, real)
    PROVE  HonestRun(comp') /\ saved' = saved
<1> DEFINE S == IF comp.mStatus = "Instantiated" THEN UtilError(comp)
                ELSE IF comp.mStatus = "Terminated" \/ ~NeedsRefresh(comp, demand)
                    THEN LookUp(comp)
                ELSE UNION {AfterRefresh(x, real) : x \in RefreshCache(comp, demand)}
<1>1. Sound(comp) /\ Accounted(comp) /\ ~comp.aborted /\ demand \in Levels /\ HonestRun(comp)
  BY LevelsAre DEF Get, Callable, HInv, IInv, InstanceSound, Sound
<1>2. Finish(S)
  BY DEF Get
<1>3. ASSUME NEW x \in S PROVE HonestRun(x.comp)
  BY <1>1, UtilErrorHonest, LookUpHonest, GetterHonest
<1> HIDE DEF S
<1> QED
  BY <1>2, <1>3, FinishHonest

LEMMA GetRealOutputDerivativesHonest ==
    ASSUME NoDiscards, HInv, GetRealOutputDerivatives
    PROVE  HonestRun(comp') /\ saved' = saved
<1> DEFINE S == IF comp.mStatus = "Instantiated" THEN UtilError(comp)
                ELSE UNION {AfterRefresh(x, FALSE) : x \in RefreshCache(comp, Output)}
<1>1. Sound(comp) /\ Accounted(comp) /\ ~comp.aborted /\ Output \in Levels /\ HonestRun(comp)
  BY LevelsAre
  DEF GetRealOutputDerivatives, Callable, HInv, IInv, InstanceSound, Sound, Output
<1>2. Finish(S)
  BY DEF GetRealOutputDerivatives
<1>3. ASSUME NEW x \in S PROVE HonestRun(x.comp)
  BY <1>1, UtilErrorHonest, GetterHonest
<1> HIDE DEF S
<1> QED
  BY <1>2, <1>3, FinishHonest

LEMMA SetHonest ==
    ASSUME HInv, NEW parameter \in BOOLEAN, Set(parameter)
    PROVE  HonestRun(comp') /\ saved' = saved
<1> DEFINE w == WithValueSet(comp, parameter)
           d == [w EXCEPT !.icall = Start, !.valWasSet = TRUE, !.reinitCvode = TRUE]
           S == {Return("OK", d)} \cup UtilError(comp) \cup UtilError(w)
<1>1. Sound(comp) /\ Accounted(comp)
  BY DEF HInv, IInv, InstanceSound, Sound
<1>2. Sound(w) /\ Accounted(w)
  BY <1>1, WithValueSetSound DEF Sound
<1>3. Finish(S)
  BY DEF Set
<1>4. w.fresh = Start
  BY <1>1 DEF WithValueSet, Accounted, Components
<1> HIDE DEF w
<1>5. d.icall = Start /\ d.fresh = Start
  BY <1>2, <1>4 DEF Accounted, Components
<1> HIDE DEF d
<1>6. HonestRun(d)
  BY <1>5 DEF HonestRun, Honest, Start
<1>7. ASSUME NEW x \in S PROVE HonestRun(x.comp)
  BY <1>1, <1>2, <1>6, UtilErrorHonest DEF Return
<1> HIDE DEF S
<1> QED
  BY <1>3, <1>7, FinishHonest

(* Calls that leave the instance out of a run, or its cache alone. *)
LEMMA OutOfRunHonest ==
    ASSUME HInv, SetupExperiment \/ EnterInitializationMode
    PROVE  HonestRun(comp') /\ saved' = saved
<1>1. Accounted(comp)
  BY DEF HInv, IInv, InstanceSound, Sound
<1>2. CASE SetupExperiment
  <2> DEFINE d == [comp EXCEPT !.icall = Start, !.fresh = Start,
                               !.solved = FALSE, !.synced = FALSE]
  <2>1. Finish({Return("OK", d)}) /\ comp.mStatus = "Instantiated"
    BY <1>2 DEF SetupExperiment
  <2>2. d.mStatus = "Instantiated"
    BY <1>1, <2>1 DEF Accounted, Components
  <2> HIDE DEF d
  <2>3. HonestRun(Return("OK", d).comp)
    BY <2>2 DEF Return, HonestRun
  <2> QED
    BY <2>1, <2>3, FinishHonest
<1>3. CASE EnterInitializationMode
  <2> DEFINE d == [comp EXCEPT !.fmi2ComputeInit = TRUE, !.mStatus = "InitializationMode"]
             S == IF comp.mStatus # "Instantiated" THEN UtilError(comp) ELSE {Return("OK", d)}
  <2>1. Finish(S)
    BY <1>3 DEF EnterInitializationMode
  <2>2. d.mStatus = "InitializationMode"
    BY <1>1 DEF Accounted, Components
  <2> HIDE DEF d
  <2>3. ASSUME NEW x \in S PROVE HonestRun(x.comp)
    <3>1. x \in UtilError(comp) \/ x = Return("OK", d)
      OBVIOUS
    <3> QED
      BY <1>1, <2>2, <3>1, UtilErrorHonest DEF Return, HonestRun
  <2> HIDE DEF S
  <2> QED
    BY <2>1, <2>3, FinishHonest
<1> QED
  BY <1>2, <1>3

LEMMA SetFMUstateHonest ==
    ASSUME HInv, SetFMUstate PROVE HonestRun(comp') /\ saved' = saved
<1> DEFINE s == saved.comp
           iData == comp.iData \/ s.iData
           v == [s EXCEPT !.QiErr = comp.QiErr, !.iData = iData]
           w == IF v.iData THEN v ELSE IntegrationSetup(v)
           r == IntegrationReinit(w)
<1>1. Finish({Return("OK", r)})
  BY DEF SetFMUstate, Restored
<1>2. s \in Components /\ HonestRun(s) /\ ~s.aborted
  BY DEF SetFMUstate, HInv, IInv, InstanceSound, SavedSound, Sound, Accounted
<1> HIDE DEF s, iData
<1>3. v.icall = s.icall /\ v.fresh = s.fresh /\ v.mStatus = s.mStatus /\ v.aborted = s.aborted
      /\ DOMAIN v = DOMAIN s
  BY <1>2 DEF Components
<1>4. DOMAIN s = {"mStatus", "icall", "valWasSet", "fmi2ComputeInit", "reinitCvode",
                  "terminationByModel", "QiErr", "iData", "newParameters", "aborted",
                  "fresh", "solved", "synced", "changed", "terminals"}
  BY <1>2 DEF Components
<1> HIDE DEF v
<1>5. r.icall = v.icall /\ r.fresh = v.fresh /\ r.mStatus = v.mStatus
  <2>1. w.icall = v.icall /\ w.fresh = v.fresh /\ w.mStatus = v.mStatus /\ DOMAIN w = DOMAIN v
    BY <1>3, <1>4 DEF IntegrationSetup
  <2> HIDE DEF w
  <2> QED
    BY <2>1, <1>3, <1>4 DEF IntegrationReinit
<1> HIDE DEF r
<1>6. HonestRun(Return("OK", r).comp)
  BY <1>2, <1>3, <1>5 DEF Return, HonestRun, Honest
<1> QED
  BY <1>1, <1>6, FinishHonest

LEMMA DoStepHonest ==
    ASSUME NoDiscards, HInv, DoStep PROVE HonestRun(comp') /\ saved' = saved
<1>1. Live(comp)
  BY MayStepLive DEF DoStep, HInv
<1>2. Honest(comp)
  BY <1>1 DEF HInv, HonestRun, Live
<1>3. \A x \in Prepared(comp) : HonestRun(x.comp) /\ Answers(x)
  BY <1>1, <1>2, PreparedHonest, PreparedAnswers
<1>4. CASE Finish({x \in Prepared(comp) : x.status # "OK"})
  BY <1>3, <1>4, FinishHonest
<1>5. CASE \E x \in Prepared(comp) :
             /\ x.status = "OK"
             /\ comp' = [x.comp EXCEPT !.aborted = ~x.comp.iData]
             /\ phase' = "stepping"
             /\ UNCHANGED <<saved, status>>
  <2>1. PICK x \in Prepared(comp) :
             /\ comp' = [x.comp EXCEPT !.aborted = ~x.comp.iData]
             /\ UNCHANGED saved
             /\ x.status = "OK"
    BY <1>5
  <2>2. Live(x.comp) /\ HonestRun(x.comp)
    BY <1>1, <1>3, <2>1, PreparedAnswers
  <2>3. x.comp \in Components /\ Honest(x.comp)
    BY <2>2 DEF Live, Sound, Accounted, HonestRun
  <2>4. comp'.icall = x.comp.icall /\ comp'.fresh = x.comp.fresh
    BY <2>1, <2>3 DEF Components
  <2> QED
    BY <2>1, <2>3, <2>4 DEF HonestRun, Honest
<1> QED
  BY <1>4, <1>5 DEF DoStep

(* At a new time the cache is empty. *)
LEMMA AtNewTimeHonest ==
    ASSUME NEW c \in Components
    PROVE  Honest(AtNewTime(c)) /\ AtNewTime(c).icall = Start /\ AtNewTime(c).fresh = Start
BY DEF AtNewTime, Components, Honest, Start

LEMMA LoopHonest ==
    ASSUME HInv, Integrate \/ StepEvent \/ SolverFails \/ CallbackFails \/ StepDone
    PROVE  HonestRun(comp') /\ saved' = saved
<1> DEFINE c == AtNewTime(comp)
<1>1. IInv /\ Stepping /\ comp \in Components /\ HonestRun(comp)
  BY DEF HInv, IInv, TypeOK, Integrate, StepEvent, SolverFails, CallbackFails, StepDone
<1>2. Live(c) /\ c \in Components
  BY <1>1, AtNewTimeLive DEF Live, Sound, Accounted
<1>3. Honest(c) /\ c.icall = Start /\ c.fresh = Start
  BY <1>1, AtNewTimeHonest
<1>4. CASE Integrate
  <2> DEFINE changed == comp.changed /\ ~comp.newParameters
             d == [c EXCEPT !.valWasSet = FALSE, !.changed = changed,
                            !.newParameters = FALSE, !.QiErr = "ok"]
  <2>1. comp' = d /\ saved' = saved
    BY <1>4 DEF Integrate
  <2> HIDE DEF c, changed
  <2>2. d.icall = c.icall /\ d.fresh = c.fresh
    BY <1>2 DEF Components
  <2> QED
    BY <1>3, <2>1, <2>2 DEF HonestRun, Honest
<1>5. CASE StepEvent
  <2>1. \A x \in HandleEvent(c, FALSE) : HonestRun(x.comp)
    BY <1>2, <1>3, HandleEventHonest
  <2>2. \/ \E x \in HandleEvent(c, FALSE) : comp' = x.comp /\ saved' = saved
        \/ Finish({x \in HandleEvent(c, FALSE) : x.status # "OK"})
    BY <1>5 DEF StepEvent
  <2> QED
    BY <2>1, <2>2, FinishHonest
<1>6. CASE SolverFails \/ CallbackFails
  <2>1. comp'.mStatus = "Terminated" /\ saved' = saved
    <3>1. CASE SolverFails
      <4>1. PICK err \in {"ok"} \cup (Faults \ {"failed"}) :
               Finish(UtilError([c EXCEPT !.QiErr = err, !.newParameters = FALSE]))
        BY <3>1 DEF SolverFails
      <4> DEFINE d == [c EXCEPT !.QiErr = err, !.newParameters = FALSE]
      <4>2. err \in Errors
        BY DEF Errors
      <4> HIDE DEF c
      <4>3. d \in Components /\ SameMode(c, d)
        BY <1>2, <4>2 DEF Components, SameMode
      <4>4. Accounted(d)
        BY <1>2, <4>3 DEF Live, Sound, Accounted, SameMode
      <4>5. Finish(UtilError(d))
        BY <4>1
      <4> HIDE DEF d
      <4> QED
        BY <4>4, <4>5, UtilErrorEnds DEF Finish
    <3>2. CASE CallbackFails
      <4>1. PICK err \in Faults \ {"recoverable"}, n \in Sections, crash \in BOOLEAN :
               Finish({[x EXCEPT !.comp.aborted = crash] :
                  x \in UtilError([c EXCEPT !.QiErr = err, !.icall = n,
                                            !.newParameters = FALSE])})
        BY <3>2 DEF CallbackFails
      <4> DEFINE d == [c EXCEPT !.QiErr = err, !.icall = n, !.newParameters = FALSE]
      <4>2. err \in Errors /\ n \in Levels
        BY LevelsAre DEF Errors
      <4> HIDE DEF c
      <4>3. d \in Components /\ SameMode(c, d)
        BY <1>2, <4>2 DEF Components, SameMode
      <4>4. Accounted(d)
        BY <1>2, <4>3 DEF Live, Sound, Accounted, SameMode
      <4>5. PICK x \in UtilError(d) :
               /\ comp' = [x EXCEPT !.comp.aborted = crash].comp
               /\ status' = [x EXCEPT !.comp.aborted = crash].status
               /\ saved' = saved
        BY <4>1 DEF Finish
      <4> HIDE DEF d
      <4>6. x.status = "Error" /\ Accounted(x.comp) /\ x.comp.mStatus = "Terminated"
        BY <4>4, UtilErrorEnds
      <4>7. DOMAIN x = {"status", "comp"}
        <5>1. \E z : x = Return("Error", z)
          BY <4>4 DEF UtilError
        <5> QED
          BY <5>1 DEF Return
      <4>8. comp' = [x.comp EXCEPT !.aborted = crash] /\ status' = x.status
        BY <4>5, <4>7
      <4>9. [x.comp EXCEPT !.aborted = crash].mStatus = x.comp.mStatus
        BY <4>6 DEF Accounted, Components
      <4> QED
        BY <4>5, <4>6, <4>8, <4>9
    <3> QED
      BY <1>6, <3>1, <3>2
  <2> QED
    BY <2>1 DEF HonestRun
<1>7. CASE StepDone
  <2>1. Finish({Return("OK", comp)})
    BY <1>7 DEF StepDone
  <2> QED
    BY <1>1, <2>1, FinishHonest DEF Return
<1> QED
  BY <1>4, <1>5, <1>6, <1>7

LEMMA EndHonest ==
    ASSUME HInv, DoStepRefused \/ Terminate \/ Reset
    PROVE  HonestRun(comp') /\ saved' = saved
<1>1. Accounted(comp) /\ HonestRun(comp)
  BY DEF HInv, IInv, InstanceSound, Sound
<1>2. \A x \in TerminateSlave(comp) : Accounted(x.comp) /\ HonestRun(x.comp)
  BY <1>1, TerminateSlaveEnds DEF HonestRun
<1>3. \A d : Accounted(d) => HonestRun(WithStartValues(d))
  BY DEF WithStartValues, HonestRun, Accounted, Components
<1>4. CASE DoStepRefused
  <2> DEFINE S == IF MayStep(comp) THEN {Return("Warning", comp)} ELSE UtilError(comp)
  <2>1. Finish(S)
    BY <1>4 DEF DoStepRefused
  <2>2. ASSUME NEW x \in S PROVE HonestRun(x.comp)
    BY <1>1, UtilErrorHonest DEF Return
  <2> HIDE DEF S
  <2> QED
    BY <2>1, <2>2, FinishHonest
<1>5. CASE Terminate
  BY <1>2, <1>5, FinishHonest DEF Terminate
<1>6. CASE Reset
  <2> DEFINE S == CASE comp.mStatus = "Instantiated" -> {Return("OK", comp)}
                    [] comp.mStatus = "Terminated" -> {Return("OK", WithStartValues(comp))}
                    [] OTHER -> {IF x.status = "Error" THEN x
                                 ELSE Return("OK", WithStartValues(x.comp)) :
                                   x \in TerminateSlave(comp)}
  <2>1. Finish(S)
    BY <1>6 DEF Reset
  <2>2. ASSUME NEW y \in S PROVE HonestRun(y.comp)
    BY <1>1, <1>2, <1>3 DEF Return
  <2> HIDE DEF S
  <2> QED
    BY <2>1, <2>2, FinishHonest
<1> QED
  BY <1>4, <1>5, <1>6

LEMMA HInvInit == Init => HInv
<1> SUFFICES ASSUME Init PROVE HInv
  OBVIOUS
<1>1. IInv
  BY InitSound
<1>2. HonestRun(comp) /\ ~saved.held
  BY DEF Init, NewInstance, NoState, HonestRun
<1> QED
  BY <1>1, <1>2 DEF HInv

LEMMA HInvNext == ASSUME NoDiscards PROVE HInv /\ [Next]_vars => HInv'
<1> SUFFICES ASSUME HInv, [Next]_vars PROVE HInv'
  OBVIOUS
<1>1. IInv'
  BY NextSound DEF HInv
<1>2. CASE HonestRun(comp') /\ saved' = saved
  BY <1>1, <1>2 DEF HInv
<1>3. CASE SetupExperiment \/ EnterInitializationMode
  BY <1>2, <1>3, OutOfRunHonest
<1>4. CASE ExitInitializationMode
  BY <1>2, <1>4, ExitInitializationModeHonest
<1>5. CASE \E demand \in Demands, real \in BOOLEAN : Get(demand, real)
  BY <1>2, <1>5, GetHonest
<1>6. CASE GetRealOutputDerivatives
  BY <1>2, <1>6, GetRealOutputDerivativesHonest
<1>7. CASE \E parameter \in BOOLEAN : Set(parameter)
  BY <1>2, <1>7, SetHonest
<1>8. CASE GetString \/ SetString
  BY <1>8 DEF GetString, SetString, NoDiscards
<1>9. CASE GetFMUstate
  <2> DEFINE d == [comp EXCEPT !.QiErr = "ok"]
  <2>1. saved' = [held |-> TRUE, comp |-> d] /\ comp' = comp
    BY <1>9 DEF GetFMUstate, HeldState
  <2>2. d.icall = comp.icall /\ d.fresh = comp.fresh /\ d.mStatus = comp.mStatus
        /\ d.aborted = comp.aborted
    BY DEF HInv, IInv, TypeOK, Components
  <2> HIDE DEF d
  <2>3. HonestRun(d) /\ saved'.comp = d
    BY <2>1, <2>2 DEF HInv, HonestRun, Honest
  <2> QED
    BY <1>1, <2>1, <2>3 DEF HInv
<1>10. CASE SetFMUstate
  BY <1>2, <1>10, SetFMUstateHonest
<1>11. CASE FreeFMUstate
  BY <1>1, <1>11 DEF FreeFMUstate, NoState, HInv
<1>12. CASE DoStep
  BY <1>2, <1>12, DoStepHonest
<1>13. CASE Integrate \/ StepEvent \/ SolverFails \/ CallbackFails \/ StepDone
  BY <1>2, <1>13, LoopHonest
<1>14. CASE DoStepRefused \/ Terminate \/ Reset
  BY <1>2, <1>14, EndHonest
<1>15. CASE FreeInstance \/ UNCHANGED vars
  BY <1>2, <1>15 DEF FreeInstance, vars, HInv
<1> QED
  BY <1>3, <1>4, <1>5, <1>6, <1>7, <1>8, <1>9, <1>10, <1>11, <1>12, <1>13, <1>14, <1>15
  DEF Next, GetValues, SetValues

(* Whatever the master calls and in whatever order, and also after it has  *)
(* restored an earlier state, a running instance answers from its cache    *)
(* only what was computed from its present time, states, inputs and        *)
(* parameters, provided that its equations fail for good or not at all.    *)
THEOREM CacheIsHonest == ASSUME NoDiscards PROVE Spec => []CacheHonest
<1>1. HInv => CacheHonest
  BY DEF HInv, HonestRun, Honest, CacheHonest, Running
<1>2. HInv /\ [Next]_vars => HInv'
  BY HInvNext
<1> QED
  BY <1>1, <1>2, HInvInit, PTL DEF Spec

----------------------------------------------------------------------------
(***************************************************************************)
(* StepStartsSynced, for every value of the constants with which it holds. *)
(* Between two steps the solver may lag behind the instance; what holds    *)
(* then is that its restart is noted, also across an initialisation that   *)
(* is deferred, getters that clear valWasSet, and a restored FMU state.    *)
(***************************************************************************)

(***************************************************************************)
(* What StepStartsSynced needs: evaluations fail for good or not at all,   *)
(* no string parameter is set, the event iteration that ends the           *)
(* initialisation moves no state, and no FMU state is saved in             *)
(* initialisation mode; and if the one after a change of parameters moves  *)
(* states, none is saved at all.                                           *)
(***************************************************************************)
QuietModel ==
    /\ Faults \subseteq {"failed"}
    /\ StringParameters = FALSE
    /\ "initialisation" \notin Disturbances
    /\ "InitializationMode" \notin SnapshotModes
    /\ "parameters" \in Disturbances => SnapshotModes = {}

(* Initialised by an evaluation of initialisation mode, or running. *)
SetUp(c) ==
    /\ ~c.aborted
    /\ \/ c.mStatus = "ContinuousTimeMode"
       \/ c.mStatus = "InitializationMode" /\ ~c.fmi2ComputeInit

(* The solver is where the instance is, or its restart is noted; and so it *)
(* is with what the next evaluation of a run, or of the initial equations, *)
(* will move.                                                              *)
Followed(c) ==
    SetUp(c) =>
        /\ c.synced \/ c.reinitCvode \/ c.terminationByModel
        /\ c.mStatus = "InitializationMode" => c.reinitCvode \/ (c.synced /\ c.solved)
        /\ "parameters" \in Disturbances /\ c.newParameters =>
              c.valWasSet /\ c.reinitCvode

(* Inductive with IInv. *)
SInv ==
    /\ IInv
    /\ Followed(comp)
    /\ Stepping => comp.synced /\ ("parameters" \in Disturbances => ~comp.newParameters)
    /\ saved.held => saved.comp.mStatus \in SnapshotModes

----------------------------------------------------------------------------
(* Evaluations.                                                            *)

(* What an evaluation leaves of what SInv is about. *)
LEMMA DsblockMoves ==
    ASSUME NEW c \in Components, NEW demand \in Levels, NEW e \in Dsblock(c, demand)
    PROVE  /\ e.reinitCvode = c.reinitCvode
           /\ e.terminationByModel = c.terminationByModel
           /\ ~e.newParameters
           /\ c.synced /\ ~MovesStates(c, demand, e.QiErr) => e.synced
<1>1. CASE \E err \in Completions(c, demand) : \E n \in LeavesAt(c, demand, err) :
              e = [Evaluated(c, demand, err) EXCEPT !.icall = n]
  <2>1. PICK err \in Completions(c, demand) : \E n \in LeavesAt(c, demand, err) :
              e = [Evaluated(c, demand, err) EXCEPT !.icall = n]
    BY <1>1
  <2>2. PICK n \in LeavesAt(c, demand, err) :
              e = [Evaluated(c, demand, err) EXCEPT !.icall = n]
    BY <2>1
  <2> DEFINE fresh == IF IsEvent(c, demand) THEN Terminal
                      ELSE IF demand > c.icall /\ c.fresh >= c.icall THEN demand
                      ELSE c.fresh
             solved == c.solved \/ demand = Start
             synced == c.synced /\ ~MovesStates(c, demand, err)
             changed == c.changed /\ ~IsEvent(c, demand)
  <2>3. e = [c EXCEPT !.icall = n, !.newParameters = FALSE, !.fresh = fresh,
                      !.solved = solved, !.synced = synced, !.changed = changed,
                      !.QiErr = err]
    BY <2>2 DEF Evaluated
  <2> HIDE DEF solved, synced, changed, fresh
  <2>4. /\ e.reinitCvode = c.reinitCvode /\ e.terminationByModel = c.terminationByModel
        /\ e.newParameters = FALSE /\ e.synced = synced /\ e.QiErr = err
    BY <2>3 DEF Components
  <2> QED
    BY <2>4 DEF synced
<1>2. CASE \E err \in Faults, n \in SectionsRun(c, demand) :
              e = Interrupted(c, demand, err, n)
  <2>1. PICK err \in Faults, n \in SectionsRun(c, demand) :
              e = Interrupted(c, demand, err, n)
    BY <1>2
  <2> DEFINE fresh == IF n = Start THEN Start
                      ELSE IF IsEvent(c, demand) \/ c.fresh >= c.icall THEN n - 1
                      ELSE c.fresh
             solved == c.solved /\ demand # Start
             synced == c.synced /\ ~MovesStates(c, demand, err)
  <2>3. e = [c EXCEPT !.icall = n, !.newParameters = FALSE, !.fresh = fresh,
                      !.solved = solved, !.synced = synced, !.QiErr = err]
    BY <2>1 DEF Interrupted
  <2> HIDE DEF solved, synced, fresh
  <2>4. /\ e.reinitCvode = c.reinitCvode /\ e.terminationByModel = c.terminationByModel
        /\ e.newParameters = FALSE /\ e.synced = synced /\ e.QiErr = err
    BY <2>3 DEF Components
  <2> QED
    BY <2>4 DEF synced
<1> QED
  BY <1>1, <1>2 DEF Dsblock

(* What the cache adds to it. *)
LEMMA CachedMoves ==
    ASSUME NEW e \in Components
    PROVE  /\ Cached(e).reinitCvode = e.reinitCvode
           /\ Cached(e).terminationByModel = e.terminationByModel
           /\ Cached(e).newParameters = e.newParameters
           /\ Cached(e).synced = e.synced
BY DEF Cached, Components

(* An evaluation of an instance that is set up; in a run none asks for the *)
(* initial equations.                                                      *)
LEMMA RefreshedFollowed ==
    ASSUME QuietModel, NEW c, Sound(c), SetUp(c), Followed(c), ~c.fmi2ComputeInit,
           NEW demand \in Levels, demand # EventHandling, NEW x \in Refreshed(c, demand),
           x.err \notin Faults
    PROVE  /\ Followed(x.comp)
           /\ ~x.comp.newParameters
           /\ x.comp.reinitCvode = c.reinitCvode
           /\ c.mStatus = "ContinuousTimeMode" /\ c.synced =>
                 x.comp.synced \/ ("parameters" \in Disturbances /\ c.newParameters)
<1>1. PICK e \in Dsblock(c, demand) : x = [err |-> Cached(e).QiErr, comp |-> Cached(e)]
  BY DEF Refreshed
<1>2. c \in Components /\ e \in Components
  BY DsblockKeeps DEF Sound, Accounted
<1>3. /\ x.comp.reinitCvode = c.reinitCvode
      /\ x.comp.terminationByModel = c.terminationByModel
      /\ ~x.comp.newParameters
      /\ c.synced /\ ~MovesStates(c, demand, e.QiErr) => x.comp.synced
  BY <1>1, <1>2, DsblockMoves, CachedMoves
<1>4. MovesStates(c, demand, e.QiErr) =>
         \/ demand = Start /\ ~c.solved
         \/ "parameters" \in Disturbances /\ c.newParameters
  BY DEF MovesStates, QuietModel
<1>5. SameMode(c, x.comp)
  BY RefreshedKeeps DEF Sound
<1>6. x.comp.solved \/ ~c.solved
  <2>1. CASE demand = Start
    <3>1. x.err = x.comp.QiErr /\ e.QiErr \notin Faults => e.solved
      BY <1>2, <2>1, RefreshedKeeps, DsblockKeeps DEF Sound
    <3>2. Cached(e).QiErr \notin Faults => e.QiErr \notin Faults
      BY <1>2, FaultsAssumption DEF Cached, Components
    <3> QED
      BY <1>1, <1>2, <3>1, <3>2, CachedKeeps
  <2>2. CASE demand # Start
    <3>1. x.comp.solved = c.solved
      BY <2>2, RefreshedKeeps DEF Sound
    <3> QED
      BY <3>1
  <2> QED
    BY <2>1, <2>2
<1>7. c.mStatus = "ContinuousTimeMode" => c.solved
  BY DEF Sound, SetUp
<1>8. c.mStatus = "ContinuousTimeMode" /\ c.synced =>
         x.comp.synced \/ ("parameters" \in Disturbances /\ c.newParameters)
  BY <1>3, <1>4, <1>7
<1>9. ASSUME SetUp(x.comp)
      PROVE  /\ x.comp.synced \/ x.comp.reinitCvode \/ x.comp.terminationByModel
             /\ x.comp.mStatus = "InitializationMode" =>
                   x.comp.reinitCvode \/ (x.comp.synced /\ x.comp.solved)
  <2>1. c.mStatus = x.comp.mStatus
    BY <1>5 DEF SameMode
  <2>2. CASE c.mStatus = "ContinuousTimeMode"
    BY <1>3, <1>8, <2>1, <2>2 DEF Followed
  <2>3. CASE c.mStatus = "InitializationMode"
    BY <1>3, <1>4, <1>6, <2>1, <2>3 DEF Followed
  <2> QED
    BY <2>2, <2>3 DEF SetUp
<1> QED
  BY <1>3, <1>8, <1>9 DEF Followed

(* The initialisation that was deferred starts the solver where the        *)
(* instance is.                                                            *)
LEMMA InitializeSlaveFollowed ==
    ASSUME NEW c \in Components, NEW i \in InitializeSlave(c), i.status = "OK",
           ~i.comp.aborted
    PROVE  i.comp.synced /\ ~i.comp.newParameters /\ i.comp.solved
<1>1. PICK m \in InitializeModel(c) :
         i \in IF m.QiErr = "ok" THEN {Return("OK", IntegrationSetup(m))} ELSE UtilError(m)
  BY DEF InitializeSlave
<1>2. Accounted(m)
  BY InitializeModelKeeps
<1>3. m.QiErr = "ok" /\ i.comp = IntegrationSetup(m)
  BY <1>1, <1>2, UtilErrorEnds DEF Return
<1> DEFINE b == [c EXCEPT !.terminationByModel = FALSE, !.icall = Start,
                          !.newParameters = TRUE, !.terminals = 0]
<1>4. PICK e \in Dsblock(b, Start) : m = Cached(e)
  BY DEF InitializeModel
<1>5. Start \in Levels /\ 0 \in 0 .. 2
  BY LevelsAre DEF Start
<1>6. b \in Components
  BY <1>5 DEF Components
<1> HIDE DEF b
<1>7. ~m.newParameters
  BY <1>4, <1>5, <1>6, DsblockKeeps, DsblockMoves, CachedMoves
<1>8. CASE m.iData
  <2>1. i.comp = [m EXCEPT !.aborted = TRUE]
    BY <1>3, <1>8 DEF IntegrationSetup
  <2> QED
    BY <1>2, <2>1 DEF Accounted, Components
<1>9. CASE ~m.iData
  <2>1. i.comp = [m EXCEPT !.iData = TRUE, !.synced = TRUE]
    BY <1>3, <1>9 DEF IntegrationSetup
  <2>2. i.comp.synced /\ i.comp.newParameters = m.newParameters
    BY <1>2, <2>1 DEF Accounted, Components
  <2> QED
    BY <1>7, <2>2, InitializeSlaveKeeps
<1> QED
  BY <1>8, <1>9

(* util_refresh_cache. *)
LEMMA RefreshCacheFollowed ==
    ASSUME QuietModel, NEW c, Sound(c), ~c.aborted, Followed(c),
           c.mStatus \in {"InitializationMode", "ContinuousTimeMode"},
           NEW demand \in Levels, demand # EventHandling, NEW x \in RefreshCache(c, demand),
           x.err \notin Faults
    PROVE  Followed(x.comp)
<1>0. c \in Components /\ c.fmi2ComputeInit \in BOOLEAN
  BY DEF Sound, Accounted, Components
<1>1. CASE ~c.fmi2ComputeInit
  BY <1>1, RefreshedFollowed DEF RefreshCache, SetUp
<1>2. CASE c.fmi2ComputeInit
  <2> DEFINE b == [c EXCEPT !.fmi2ComputeInit = FALSE]
  <2>1. b \in Components /\ ~b.fmi2ComputeInit /\ b.mStatus = c.mStatus
    BY <1>0 DEF Components
  <2>2. PICK i \in InitializeSlave(b) :
           x \in IF i.status # "OK" THEN {[err |-> "failed", comp |-> i.comp]}
                 ELSE IF i.comp.aborted THEN {[err |-> "ok", comp |-> i.comp]}
                 ELSE Refreshed([i.comp EXCEPT !.icall = c.icall], demand)
    BY <1>2 DEF RefreshCache
  <2> HIDE DEF b
  <2>3. /\ Accounted(i.comp)
        /\ i.status = "OK" => i.comp.mStatus = c.mStatus /\ ~i.comp.fmi2ComputeInit /\ i.comp.iData
        /\ i.status # "OK" => i.comp.mStatus = "Terminated"
    BY <2>1, InitializeSlaveKeeps
  <2>4. CASE i.status # "OK"
    <3>1. x.comp = i.comp
      BY <2>2, <2>4
    <3> QED
      BY <2>3, <2>4, <3>1 DEF Followed, SetUp
  <2>5. CASE i.status = "OK" /\ i.comp.aborted
    <3>1. x.comp = i.comp
      BY <2>2, <2>5
    <3> QED
      BY <2>5, <3>1 DEF Followed, SetUp
  <2>6. CASE i.status = "OK" /\ ~i.comp.aborted
    <3> DEFINE j == [i.comp EXCEPT !.icall = c.icall]
    <3>1. x \in Refreshed(j, demand)
      BY <2>2, <2>6
    <3>2. i.comp.synced /\ ~i.comp.newParameters /\ i.comp.solved
      BY <2>1, <2>6, InitializeSlaveFollowed
    <3>3. /\ Accounted(j) /\ j.synced /\ ~j.newParameters /\ j.solved /\ ~j.aborted
          /\ ~j.fmi2ComputeInit /\ j.iData /\ j.mStatus = c.mStatus
      BY <1>0, <2>3, <2>6, <3>2 DEF Accounted, Components
    <3> HIDE DEF j
    <3>4. Sound(j) /\ SetUp(j) /\ Followed(j)
      BY <3>3 DEF Sound, SetUp, Followed
    <3> QED
      BY <3>1, <3>3, <3>4, RefreshedFollowed
  <2> QED
    BY <2>4, <2>5, <2>6
<1> QED
  BY <1>0, <1>1, <1>2

----------------------------------------------------------------------------
(* Events and the preparation of a step.                                   *)

(* A restart of the solver follows the instance. *)
LEMMA ReinitFollowed ==
    ASSUME NEW c \in Components
    PROVE  LET r == IntegrationReinit(c)
           IN  r.synced /\ r.newParameters = c.newParameters /\ r.valWasSet = c.valWasSet
BY DEF IntegrationReinit, Components

(* What an event leaves: nothing a later evaluation has yet to move. *)
Settled(c) ==
    SetUp(c) =>
        /\ c.mStatus = "ContinuousTimeMode"
        /\ c.synced \/ c.terminationByModel
        /\ ~c.newParameters

LEMMA SettledFollowed == ASSUME NEW c, Settled(c) PROVE Followed(c)
BY DEF Settled, Followed

LEMMA UtilErrorFollowed ==
    ASSUME NEW c, Accounted(c), NEW x \in UtilError(c)
    PROVE  Settled(x.comp)
BY UtilErrorEnds DEF Settled, SetUp

(* What becomes of an event that did not go well: the instance has ended,  *)
(* or its model has stopped by itself and it is stepped no more.           *)
LEMMA EventFailsFollowed ==
    ASSUME NEW c, Live(c), ~c.newParameters, NEW x \in EventFails(c)
    PROVE  Settled(x.comp) /\ x.status # "OK"
<1>1. Accounted(c)
  BY DEF Live, Sound
<1>2. CASE c.QiErr = "stop"
  <2> DEFINE d == [c EXCEPT !.terminationByModel = TRUE]
  <2>1. x = Return("Discard", d)
    BY <1>2 DEF EventFails, StoppedByModel
  <2>2. d.terminationByModel /\ ~d.newParameters /\ d.mStatus = "ContinuousTimeMode"
    BY <1>1 DEF Live, Accounted, Components
  <2> HIDE DEF d
  <2> QED
    BY <2>1, <2>2 DEF Return, Settled, SetUp
<1>3. CASE c.QiErr # "stop"
  BY <1>1, <1>3, UtilErrorFollowed, UtilErrorEnds DEF EventFails
<1> QED
  BY <1>2, <1>3

(* A minor event moves nothing; any other one ends with a restart. *)
LEMMA IterateEventFollowed ==
    ASSUME QuietModel, NEW c, Live(c), ~c.newParameters, NEW force \in BOOLEAN,
           c.synced \/ force, NEW x \in IterateEvent(c, force)
    PROVE  /\ Settled(x.comp)
           /\ x.status = "OK" => x.comp.synced
<1> DEFINE b == [c EXCEPT !.icall = Start]
<1>1. c \in Components /\ EventHandling \in Levels /\ EventHandling # Start /\ Start \in Levels
  BY LevelsAre DEF Live, Sound, Accounted, EventHandling, Start
<1>2. b \in Components /\ SameMode(c, b) /\ b.solved = c.solved
      /\ b.synced = c.synced /\ ~b.newParameters
  BY <1>1 DEF Components, SameMode
<1>3. PICK e \in Dsblock(b, EventHandling) :
         x \in IF Cached(e).QiErr # "ok" THEN EventFails(Cached(e))
               ELSE {Return("OK", IF e.QiErr = "minor" /\ ~force THEN Cached(e)
                                  ELSE IntegrationReinit(Cached(e)))}
  BY DEF IterateEvent
<1> HIDE DEF b
<1>4. e \in Components /\ SameMode(b, e) /\ e.solved = b.solved
  BY <1>1, <1>2, DsblockKeeps
<1>5. ~e.newParameters /\ (b.synced /\ ~MovesStates(b, EventHandling, e.QiErr) => e.synced)
  BY <1>1, <1>2, DsblockMoves
<1>6. e.QiErr = "minor" => ~MovesStates(b, EventHandling, e.QiErr)
  BY <1>1, <1>2 DEF MovesStates
<1> DEFINE k == Cached(e)
<1>7. k \in Components /\ SameMode(e, k) /\ k.solved = e.solved
      /\ ~k.newParameters /\ k.synced = e.synced
  BY <1>4, <1>5, CachedKeeps, CachedMoves
<1>8. Live(k)
  <2>1. SameMode(c, k) /\ k.solved = c.solved
    BY <1>2, <1>4, <1>7 DEF SameMode
  <2> QED
    BY <1>7, <2>1, LiveKept
<1> HIDE DEF k
<1>9. CASE k.QiErr # "ok"
  <2>1. x \in EventFails(k)
    BY <1>3, <1>9 DEF k
  <2> QED
    BY <1>7, <1>8, <2>1, EventFailsFollowed
<1>10. CASE k.QiErr = "ok" /\ e.QiErr = "minor" /\ ~force
  <2>1. x.comp = k
    BY <1>3, <1>10 DEF k, Return
  <2>2. k.synced
    BY <1>2, <1>5, <1>6, <1>7, <1>10
  <2> QED
    BY <1>7, <1>8, <2>1, <2>2 DEF Settled, Live, SetUp
<1>11. CASE k.QiErr = "ok" /\ ~(e.QiErr = "minor" /\ ~force)
  <2>1. x.comp = IntegrationReinit(k)
    BY <1>3, <1>11 DEF k, Return
  <2>2. x.comp.synced /\ ~x.comp.newParameters
    BY <1>7, <2>1, ReinitFollowed
  <2>3. x.comp.mStatus = "ContinuousTimeMode"
    BY <1>8, <2>1, IntegrationReinitKeeps DEF Live, Sound, SameMode
  <2> QED
    BY <2>2, <2>3 DEF Settled
<1> QED
  BY <1>9, <1>10, <1>11

(* handleEvent, of a solver that follows the instance or is to be started  *)
(* again.                                                                  *)
LEMMA HandleEventFollowed ==
    ASSUME QuietModel, NEW c, Live(c), NEW force \in BOOLEAN,
           \/ force
           \/ c.synced /\ ("parameters" \in Disturbances => ~c.newParameters),
           NEW x \in HandleEvent(c, force)
    PROVE  /\ Settled(x.comp)
           /\ x.status = "OK" => x.comp.synced
<1>1. PICK v \in RefreshCache(c, Variable) :
         x \in IF v.err = "ok" THEN IterateEvent(v.comp, force) ELSE EventFails(v.comp)
  BY DEF HandleEvent
<1>2. Variable \in Levels /\ Variable # Start /\ Variable # EventHandling
  BY LevelsAre DEF Variable, Start, EventHandling
<1>3. Accounted(c) /\ c \in Components /\ ~c.fmi2ComputeInit
  BY DEF Live, Sound, Accounted
<1>4. PICK e \in Dsblock(c, Variable) : v = [err |-> Cached(e).QiErr, comp |-> Cached(e)]
  BY <1>3 DEF RefreshCache, Refreshed
<1>5. e \in Components /\ ~e.newParameters
      /\ (c.synced /\ ~MovesStates(c, Variable, e.QiErr) => e.synced)
  BY <1>2, <1>3, DsblockKeeps, DsblockMoves
<1>6. v.comp.synced = e.synced /\ ~v.comp.newParameters
  BY <1>4, <1>5, CachedMoves
<1>7. SameMode(c, v.comp) /\ v.comp.solved = c.solved /\ v.comp \in Components
  BY <1>2, <1>3, RefreshCacheKeeps DEF Accounted
<1>8. Live(v.comp)
  BY <1>7, LiveKept
<1>9. force \/ v.comp.synced
  BY <1>2, <1>5, <1>6 DEF MovesStates
<1>10. CASE v.err = "ok"
  BY <1>1, <1>6, <1>8, <1>9, <1>10, IterateEventFollowed
<1>11. CASE v.err # "ok"
  BY <1>1, <1>6, <1>8, <1>11, EventFailsFollowed
<1> QED
  BY <1>10, <1>11

(* Before the loop of fmi2DoStep. *)
LEMMA PreparedFollowed ==
    ASSUME QuietModel, NEW c, Live(c), ~c.terminationByModel, Followed(c),
           NEW x \in Prepared(c)
    PROVE  /\ Followed(x.comp)
           /\ x.status = "OK" =>
                 x.comp.synced /\ ("parameters" \in Disturbances => ~x.comp.newParameters)
<1> DEFINE s == IF c.reinitCvode THEN IntegrationReinit(c) ELSE c
<1>1. c \in Components /\ SetUp(c) /\ c.mStatus = "ContinuousTimeMode"
  BY DEF Live, Sound, Accounted, SetUp
<1>2. CASE c.valWasSet
  <2>1. PICK h \in HandleEvent(c, TRUE) : x = [h EXCEPT !.comp.valWasSet = FALSE]
    BY <1>2 DEF Prepared
  <2>2. Settled(h.comp) /\ (h.status = "OK" => h.comp.synced)
    BY HandleEventFollowed
  <2>3. Answers(h) /\ (h.status = "OK" => Live(h.comp))
    BY HandleEventAnswers
  <2> DEFINE d == [h.comp EXCEPT !.valWasSet = FALSE]
  <2>4. x.comp = d /\ x.status = h.status
    BY <2>1, <2>3
  <2>5. /\ d.mStatus = h.comp.mStatus /\ d.aborted = h.comp.aborted
        /\ d.fmi2ComputeInit = h.comp.fmi2ComputeInit /\ d.synced = h.comp.synced
        /\ d.terminationByModel = h.comp.terminationByModel
        /\ d.newParameters = h.comp.newParameters
    BY <2>3 DEF Answers, Sound, Accounted, Components
  <2> HIDE DEF d
  <2>6. Settled(d)
    BY <2>2, <2>5 DEF Settled, SetUp
  <2>7. h.status = "OK" => d.synced /\ ~d.newParameters
    BY <2>2, <2>3, <2>5 DEF Settled, SetUp, Live
  <2> QED
    BY <2>4, <2>6, <2>7, SettledFollowed
<1>3. CASE ~c.valWasSet
  <2>1. Live(s)
    BY <1>1, LiveKept, IntegrationReinitKeeps DEF Live, Sound, Accounted
  <2>2. s.synced /\ ("parameters" \in Disturbances => ~s.newParameters)
    BY <1>1, <1>3, ReinitFollowed DEF Followed
  <2>3. Sound(s) /\ SetUp(s) /\ Followed(s) /\ ~s.fmi2ComputeInit /\ Accounted(s)
        /\ s.mStatus = "ContinuousTimeMode" /\ ~s.aborted
    BY <2>1, <2>2 DEF Live, Sound, SetUp, Followed
  <2> HIDE DEF s
  <2>4. CASE s.icall >= Derivative
    <3>1. x = Return("OK", s)
      BY <1>3, <2>4 DEF Prepared, s
    <3> QED
      BY <3>1, <2>2, <2>3 DEF Return
  <2>5. CASE ~(s.icall >= Derivative)
    <3>1. PICK v \in RefreshCache(s, Derivative) :
             x \in CASE v.err = "ok"          -> {Return("OK", v.comp)}
                     [] v.err = "recoverable" -> {Return("Discard", v.comp)}
                     [] OTHER                 -> UtilError(v.comp)
      BY <1>3, <2>5 DEF Prepared, s
    <3>2. Derivative \in Levels /\ Derivative # EventHandling
      BY LevelsAre DEF Derivative, EventHandling
    <3>3. v \in Refreshed(s, Derivative) /\ Accounted(v.comp)
      BY <2>3, <3>1, <3>2, RefreshCacheKeeps DEF RefreshCache
    <3>4. v.err \notin Faults =>
             Followed(v.comp) /\ v.comp.synced /\ ~v.comp.newParameters
      BY <2>2, <2>3, <3>2, <3>3, RefreshedFollowed
    <3>5. CASE v.err \in {"ok", "recoverable"}
      <4>1. v.err \notin Faults /\ x.comp = v.comp
        BY <3>1, <3>5 DEF QuietModel, Return
      <4> QED
        BY <3>4, <4>1
    <3>6. CASE v.err \notin {"ok", "recoverable"}
      <4>1. x \in UtilError(v.comp)
        BY <3>1, <3>6
      <4> QED
        BY <3>3, <4>1, UtilErrorFollowed, UtilErrorEnds, SettledFollowed
    <3> QED
      BY <3>5, <3>6
  <2> QED
    BY <2>4, <2>5
<1> QED
  BY <1>1, <1>2, <1>3 DEF Components

----------------------------------------------------------------------------
(* The invariant.                                                          *)

LEMMA FinishFollowed ==
    ASSUME SInv, IInv', NEW S, Finish(S), \A x \in S : Followed(x.comp)
    PROVE  SInv'
<1>1. PICK x \in S : comp' = x.comp
  BY DEF Finish
<1>2. Followed(comp)' /\ ~Stepping' /\ saved' = saved
  BY <1>1 DEF Finish, Stepping, Followed, SetUp
<1> QED
  BY <1>2 DEF SInv

(* Every way out of a call that ends with an error. *)
LEMMA LookUpFollowed ==
    ASSUME NEW c, Accounted(c), Followed(c), NEW x \in LookUp(c)
    PROVE  Followed(x.comp)
BY UtilErrorFollowed, SettledFollowed DEF LookUp, Return

(* A getter's evaluation. *)
LEMMA GetterFollowed ==
    ASSUME QuietModel, NEW c, Sound(c), ~c.aborted, Followed(c), c.mStatus # "Instantiated",
           NEW demand \in Levels, demand # EventHandling, NEW discards \in BOOLEAN,
           NEW x \in UNION {AfterRefresh(y, discards) : y \in RefreshCache(c, demand)}
    PROVE  Followed(x.comp)
<1>1. PICK y \in RefreshCache(c, demand) : x \in AfterRefresh(y, discards)
  OBVIOUS
<1>2. Accounted(c) /\ Accounted(y.comp)
  BY RefreshCacheKeeps DEF Sound
<1>3. c.mStatus \in {"InitializationMode", "ContinuousTimeMode", "Terminated"}
  BY <1>2 DEF Accounted, Components, Modes
<1>4. \/ x \in UtilError(y.comp)
      \/ x.comp = y.comp /\ (y.err = "ok" \/ y.err = "recoverable")
  BY <1>1 DEF AfterRefresh, LookUp, Return
<1>5. CASE x \in UtilError(y.comp)
  BY <1>2, <1>5, UtilErrorFollowed, SettledFollowed
<1>6. CASE x.comp = y.comp /\ y.err \in {"ok", "recoverable"}
           /\ c.mStatus # "Terminated"
  <2>1. y.err \notin Faults
    BY <1>6 DEF QuietModel
  <2> QED
    BY <1>3, <1>6, <2>1, RefreshCacheFollowed
<1>7. CASE x.comp = y.comp /\ c.mStatus = "Terminated"
  <2>1. x.comp.aborted \/ x.comp.mStatus = "Terminated"
    BY <1>2, <1>7, RefreshCacheKeeps
  <2> QED
    BY <2>1 DEF Followed, SetUp
<1> QED
  BY <1>4, <1>5, <1>6, <1>7

LEMMA EnterFollowed ==
    ASSUME SInv, IInv', SetupExperiment \/ EnterInitializationMode PROVE SInv'
<1>1. Accounted(comp)
  BY DEF SInv, IInv, InstanceSound, Sound
<1>2. CASE SetupExperiment
  <2> DEFINE d == [comp EXCEPT !.icall = Start, !.fresh = Start,
                               !.solved = FALSE, !.synced = FALSE]
  <2>1. Finish({Return("OK", d)}) /\ comp.mStatus = "Instantiated"
    BY <1>2 DEF SetupExperiment
  <2>2. d.mStatus = "Instantiated"
    BY <1>1, <2>1 DEF Accounted, Components
  <2> HIDE DEF d
  <2>3. Followed(Return("OK", d).comp)
    BY <2>2 DEF Return, Followed, SetUp
  <2> QED
    BY <2>1, <2>3, FinishFollowed
<1>3. CASE EnterInitializationMode
  <2> DEFINE d == [comp EXCEPT !.fmi2ComputeInit = TRUE, !.mStatus = "InitializationMode"]
             S == IF comp.mStatus # "Instantiated" THEN UtilError(comp) ELSE {Return("OK", d)}
  <2>1. Finish(S)
    BY <1>3 DEF EnterInitializationMode
  <2>2. d.mStatus = "InitializationMode" /\ d.fmi2ComputeInit
    BY <1>1 DEF Accounted, Components
  <2> HIDE DEF d
  <2>3. Followed(Return("OK", d).comp)
    BY <2>2 DEF Return, Followed, SetUp
  <2>4. \A x \in S : Followed(x.comp)
    BY <1>1, <2>3, UtilErrorFollowed, SettledFollowed
  <2> HIDE DEF S
  <2> QED
    BY <2>1, <2>4, FinishFollowed
<1> QED
  BY <1>2, <1>3

LEMMA ExitFollowed ==
    ASSUME QuietModel, SInv, IInv', ExitInitializationMode PROVE SInv'
<1> DEFINE S == IF comp.mStatus # "InitializationMode" THEN UtilError(comp)
                ELSE UNION {InitialisationDone(x) : x \in RefreshCache(comp, Start)}
<1>1. Accounted(comp) /\ Sound(comp) /\ ~comp.aborted /\ Followed(comp)
  BY DEF SInv, ExitInitializationMode, Callable, IInv, InstanceSound, Sound
<1>2. Finish(S)
  BY DEF ExitInitializationMode
<1>3. ASSUME NEW x \in S PROVE Followed(x.comp)
  <2>1. CASE x \in UtilError(comp)
    BY <1>1, <2>1, UtilErrorFollowed, SettledFollowed
  <2>2. CASE x \notin UtilError(comp)
    <3>1. PICK y \in RefreshCache(comp, Start) : x \in InitialisationDone(y)
      BY <2>2
    <3>2. Start \in Levels /\ Start # EventHandling /\ comp.mStatus = "InitializationMode"
      BY <2>2, LevelsAre DEF Start, EventHandling
    <3>3. Accounted(y.comp)
      BY <1>1, <3>2, RefreshCacheKeeps
    <3>4. CASE y.err # "ok"
      BY <3>1, <3>3, <3>4, UtilErrorFollowed, SettledFollowed DEF InitialisationDone
    <3>5. CASE y.err = "ok"
      <4> DEFINE d == [y.comp EXCEPT !.mStatus = "ContinuousTimeMode"]
      <4>1. x = Return("OK", d)
        BY <3>1, <3>5 DEF InitialisationDone
      <4>2. y.err \notin Faults
        BY <3>5, FaultsAssumption
      <4>3. Followed(y.comp)
        BY <1>1, <3>2, <4>2, RefreshCacheFollowed
      <4>4. /\ d.aborted = y.comp.aborted /\ d.synced = y.comp.synced
            /\ d.reinitCvode = y.comp.reinitCvode /\ d.valWasSet = y.comp.valWasSet
            /\ d.newParameters = y.comp.newParameters
            /\ d.mStatus = "ContinuousTimeMode"
        BY <3>3 DEF Accounted, Components
      <4>5. y.comp.aborted \/ SetUp(y.comp)
        <5>1. y.comp.mStatus = "InitializationMode"
          BY <1>1, <3>2, <3>5, RefreshCacheKeeps
        <5>2. y.comp.aborted \/ ~y.comp.fmi2ComputeInit
          BY <1>1, <3>2, <5>1, RefreshCacheKeeps DEF Ready
        <5> QED
          BY <5>1, <5>2 DEF SetUp
      <4>6. y.comp.aborted \/ y.comp.mStatus = "InitializationMode"
        BY <1>1, <3>2, <3>5, RefreshCacheKeeps
      <4> HIDE DEF d
      <4>7. Followed(d)
        BY <4>3, <4>4, <4>5, <4>6 DEF Followed, SetUp
      <4> QED
        BY <4>1, <4>7 DEF Return
    <3> QED
      BY <3>4, <3>5
  <2> QED
    BY <2>1, <2>2
<1> HIDE DEF S
<1> QED
  BY <1>2, <1>3, FinishFollowed

LEMMA GetFollowed ==
    ASSUME QuietModel, SInv, IInv', NEW demand \in Demands, NEW real \in BOOLEAN,
           Get(demand, real)
    PROVE  SInv'
<1> DEFINE S == IF comp.mStatus = "Instantiated" THEN UtilError(comp)
                ELSE IF comp.mStatus = "Terminated" \/ ~NeedsRefresh(comp, demand)
                    THEN LookUp(comp)
                ELSE UNION {AfterRefresh(x, real) : x \in RefreshCache(comp, demand)}
<1>1. Sound(comp) /\ Accounted(comp) /\ ~comp.aborted /\ Followed(comp)
      /\ demand \in Levels /\ demand # EventHandling
  BY LevelsAre DEF Get, Callable, SInv, IInv, InstanceSound, Sound, EventHandling
<1>2. Finish(S)
  BY DEF Get
<1>3. ASSUME NEW x \in S PROVE Followed(x.comp)
  BY <1>1, UtilErrorFollowed, SettledFollowed, LookUpFollowed, GetterFollowed
<1> HIDE DEF S
<1> QED
  BY <1>2, <1>3, FinishFollowed

LEMMA GetRealOutputDerivativesFollowed ==
    ASSUME QuietModel, SInv, IInv', GetRealOutputDerivatives PROVE SInv'
<1> DEFINE S == IF comp.mStatus = "Instantiated" THEN UtilError(comp)
                ELSE UNION {AfterRefresh(x, FALSE) : x \in RefreshCache(comp, Output)}
<1>1. Sound(comp) /\ Accounted(comp) /\ ~comp.aborted /\ Followed(comp)
      /\ Output \in Levels /\ Output # EventHandling
  BY LevelsAre
  DEF GetRealOutputDerivatives, Callable, SInv, IInv, InstanceSound, Sound, Output, EventHandling
<1>2. Finish(S)
  BY DEF GetRealOutputDerivatives
<1>3. ASSUME NEW x \in S PROVE Followed(x.comp)
  BY <1>1, UtilErrorFollowed, SettledFollowed, GetterFollowed
<1> HIDE DEF S
<1> QED
  BY <1>2, <1>3, FinishFollowed

(* A value that was set has its restart noted. *)
LEMMA SetFollowed ==
    ASSUME SInv, IInv', NEW parameter \in BOOLEAN, Set(parameter) PROVE SInv'
<1> DEFINE w == WithValueSet(comp, parameter)
           d == [w EXCEPT !.icall = Start, !.valWasSet = TRUE, !.reinitCvode = TRUE]
           S == {Return("OK", d)} \cup UtilError(comp) \cup UtilError(w)
<1>1. Sound(comp) /\ Accounted(comp)
  BY DEF SInv, IInv, InstanceSound, Sound
<1>2. Accounted(w)
  BY <1>1, WithValueSetSound DEF Sound
<1>3. Finish(S)
  BY DEF Set
<1> HIDE DEF w
<1>4. d.valWasSet /\ d.reinitCvode
  BY <1>2 DEF Accounted, Components
<1> HIDE DEF d
<1>5. Followed(Return("OK", d).comp)
  BY <1>4 DEF Followed, Return
<1>6. \A x \in S : Followed(x.comp)
  BY <1>1, <1>2, <1>5, UtilErrorFollowed, SettledFollowed
<1> HIDE DEF S
<1> QED
  BY <1>3, <1>6, FinishFollowed

(* Restoring a state restarts the solver from it. *)
LEMMA SetFMUstateFollowed ==
    ASSUME QuietModel, SInv, IInv', SetFMUstate PROVE SInv'
<1> DEFINE s == saved.comp
           iData == comp.iData \/ s.iData
           v == [s EXCEPT !.QiErr = comp.QiErr, !.iData = iData]
           w == IF v.iData THEN v ELSE IntegrationSetup(v)
           r == IntegrationReinit(w)
<1>1. Finish({Return("OK", r)})
  BY DEF SetFMUstate, Restored
<1>2. s \in Components /\ s.mStatus \in SnapshotModes
  BY DEF SetFMUstate, SInv, IInv, InstanceSound, SavedSound, Sound, Accounted
<1>3. s.mStatus # "InitializationMode" /\ "parameters" \notin Disturbances
  BY <1>2 DEF QuietModel
<1>4. DOMAIN s = {"mStatus", "icall", "valWasSet", "fmi2ComputeInit", "reinitCvode",
                  "terminationByModel", "QiErr", "iData", "newParameters", "aborted",
                  "fresh", "solved", "synced", "changed", "terminals"}
  BY <1>2 DEF Components
<1> HIDE DEF s, iData
<1>5. v.mStatus = s.mStatus /\ DOMAIN v = DOMAIN s
  BY <1>4
<1> HIDE DEF v
<1>6. w.mStatus = s.mStatus /\ DOMAIN w = DOMAIN s
  BY <1>4, <1>5 DEF IntegrationSetup
<1> HIDE DEF w
<1>7. r.synced /\ r.mStatus = s.mStatus
  BY <1>4, <1>6 DEF IntegrationReinit
<1> HIDE DEF r
<1>8. Followed(Return("OK", r).comp)
  BY <1>3, <1>7 DEF Return, Followed, SetUp
<1> QED
  BY <1>1, <1>8, FinishFollowed

LEMMA GetFMUstateFollowed ==
    ASSUME SInv, IInv', GetFMUstate PROVE SInv'
<1> DEFINE d == [comp EXCEPT !.QiErr = "ok"]
<1>1. saved' = [held |-> TRUE, comp |-> d] /\ comp' = comp /\ phase' = phase
      /\ comp.mStatus \in SnapshotModes
  BY DEF GetFMUstate, HeldState
<1>2. d.mStatus = comp.mStatus
  BY DEF SInv, IInv, TypeOK, Components
<1> HIDE DEF d
<1>3. saved'.comp.mStatus \in SnapshotModes
  BY <1>1, <1>2
<1>4. Followed(comp)' /\ (Stepping' <=> Stepping)
  BY <1>1 DEF SInv, Stepping, Followed, SetUp
<1> QED
  BY <1>1, <1>3, <1>4 DEF SInv

LEMMA DoStepFollowed ==
    ASSUME QuietModel, SInv, IInv', DoStep PROVE SInv'
<1>1. Live(comp) /\ ~comp.terminationByModel /\ Followed(comp)
  BY MayStepLive DEF DoStep, SInv, MayStep
<1>2. \A x \in Prepared(comp) :
         /\ Followed(x.comp)
         /\ x.status = "OK" =>
               x.comp.synced /\ ("parameters" \in Disturbances => ~x.comp.newParameters)
  BY <1>1, PreparedFollowed
<1>3. CASE Finish({x \in Prepared(comp) : x.status # "OK"})
  BY <1>2, <1>3, FinishFollowed
<1>4. CASE \E x \in Prepared(comp) :
             /\ x.status = "OK"
             /\ comp' = [x.comp EXCEPT !.aborted = ~x.comp.iData]
             /\ phase' = "stepping"
             /\ UNCHANGED <<saved, status>>
  <2>1. PICK x \in Prepared(comp) :
             /\ comp' = [x.comp EXCEPT !.aborted = ~x.comp.iData]
             /\ UNCHANGED saved
             /\ x.status = "OK"
    BY <1>4
  <2>2. Live(x.comp)
    BY <1>1, <2>1, PreparedAnswers
  <2>3. x.comp \in Components
    BY <2>2 DEF Live, Sound, Accounted
  <2>4. comp'.synced = x.comp.synced /\ comp'.newParameters = x.comp.newParameters
        /\ comp'.mStatus = x.comp.mStatus
    BY <2>1, <2>3 DEF Components
  <2>5. comp'.synced /\ ("parameters" \in Disturbances => ~comp'.newParameters)
        /\ comp'.mStatus = "ContinuousTimeMode"
    BY <1>2, <2>1, <2>2, <2>4 DEF Live
  <2>6. Followed(comp)'
    BY <2>5 DEF Followed, SetUp
  <2> QED
    BY <2>1, <2>5, <2>6 DEF SInv
<1> QED
  BY <1>3, <1>4 DEF DoStep

(* Inside fmi2DoStep the solver is where the instance is. *)
LEMMA LoopFollowed ==
    ASSUME QuietModel, SInv, IInv', Integrate \/ StepEvent PROVE SInv'
<1> DEFINE c == AtNewTime(comp)
<1>1. Stepping /\ comp.synced /\ ("parameters" \in Disturbances => ~comp.newParameters)
  BY DEF SInv, Integrate, StepEvent
<1>2. Live(comp) /\ Live(c) /\ c \in Components
  BY <1>1, AtNewTimeLive DEF SInv, Live, Sound, Accounted
<1>3. comp \in Components
  BY <1>2 DEF Live, Sound, Accounted
<1>4. c.synced = comp.synced /\ c.newParameters = comp.newParameters
      /\ c.mStatus = comp.mStatus
  BY <1>3 DEF AtNewTime, Components
<1>5. CASE Integrate
  <2> DEFINE changed == comp.changed /\ ~comp.newParameters
             d == [c EXCEPT !.valWasSet = FALSE, !.changed = changed,
                            !.newParameters = FALSE, !.QiErr = "ok"]
  <2>1. comp' = d /\ saved' = saved
    BY <1>5 DEF Integrate
  <2> HIDE DEF c, changed
  <2>2. d.synced = c.synced /\ d.newParameters = FALSE /\ d.mStatus = c.mStatus
    BY <1>2 DEF Components
  <2>3. comp'.synced /\ ~comp'.newParameters /\ comp'.mStatus = "ContinuousTimeMode"
    BY <1>1, <1>2, <1>4, <2>1, <2>2 DEF Live
  <2>4. Followed(comp)'
    BY <2>3 DEF Followed, SetUp
  <2> QED
    BY <2>1, <2>3, <2>4 DEF SInv
<1>6. CASE StepEvent
  <2>1. \A x \in HandleEvent(c, FALSE) :
           /\ Followed(x.comp)
           /\ x.status = "OK" => x.comp.synced /\ Settled(x.comp) /\ Live(x.comp)
    BY <1>1, <1>2, <1>4, HandleEventFollowed, HandleEventAnswers, SettledFollowed
  <2>2. CASE Finish({x \in HandleEvent(c, FALSE) : x.status # "OK"})
    BY <2>1, <2>2, FinishFollowed
  <2>3. CASE \E x \in HandleEvent(c, FALSE) :
                x.status = "OK" /\ comp' = x.comp /\ UNCHANGED <<saved, status, phase>>
    <3>1. PICK x \in HandleEvent(c, FALSE) :
                x.status = "OK" /\ comp' = x.comp /\ saved' = saved
      BY <2>3
    <3>2. Followed(x.comp) /\ x.comp.synced /\ Settled(x.comp) /\ Live(x.comp)
      BY <2>1, <3>1
    <3>3. ~x.comp.newParameters
      BY <3>2 DEF Settled, SetUp, Live
    <3>4. Followed(comp)' /\ comp'.synced /\ ~comp'.newParameters
      BY <3>1, <3>2, <3>3 DEF Followed, SetUp
    <3> QED
      BY <3>1, <3>4 DEF SInv
  <2> QED
    BY <1>6, <2>2, <2>3 DEF StepEvent
<1> QED
  BY <1>5, <1>6

(* A solver that fails ends the instance. *)
LEMMA SolverFailsFollowed ==
    ASSUME SInv, IInv', SolverFails \/ CallbackFails PROVE SInv'
<1> DEFINE c == AtNewTime(comp)
<1>1. Stepping
  BY DEF SolverFails, CallbackFails
<1>2. Live(c) /\ c \in Components
  BY <1>1, AtNewTimeLive DEF SInv, Live, Sound, Accounted
<1>3. CASE SolverFails
  <2>1. PICK err \in {"ok"} \cup (Faults \ {"failed"}) :
           Finish(UtilError([c EXCEPT !.QiErr = err, !.newParameters = FALSE]))
    BY <1>3 DEF SolverFails
  <2> DEFINE d == [c EXCEPT !.QiErr = err, !.newParameters = FALSE]
  <2>2. err \in Errors
    BY DEF Errors
  <2>3. Finish(UtilError(d))
    BY <2>1
  <2> HIDE DEF c
  <2>4. d \in Components /\ SameMode(c, d)
    BY <1>2, <2>2 DEF Components, SameMode
  <2>5. Accounted(d)
    BY <1>2, <2>4 DEF Live, Sound, Accounted, SameMode
  <2> HIDE DEF d
  <2> QED
    BY <2>3, <2>5, UtilErrorFollowed, SettledFollowed, FinishFollowed
<1>4. CASE CallbackFails
  <2>1. PICK err \in Faults \ {"recoverable"}, n \in Sections, crash \in BOOLEAN :
           Finish({[x EXCEPT !.comp.aborted = crash] :
              x \in UtilError([c EXCEPT !.QiErr = err, !.icall = n, !.newParameters = FALSE])})
    BY <1>4 DEF CallbackFails
  <2> DEFINE d == [c EXCEPT !.QiErr = err, !.icall = n, !.newParameters = FALSE]
             S == {[x EXCEPT !.comp.aborted = crash] : x \in UtilError(d)}
  <2>2. err \in Errors /\ n \in Levels
    BY LevelsAre DEF Errors
  <2>3. Finish(S)
    BY <2>1
  <2> HIDE DEF c
  <2>4. d \in Components /\ SameMode(c, d)
    BY <1>2, <2>2 DEF Components, SameMode
  <2>5. Accounted(d)
    BY <1>2, <2>4 DEF Live, Sound, Accounted, SameMode
  <2> HIDE DEF d
  <2>6. ASSUME NEW y \in S PROVE Followed(y.comp)
    <3>1. PICK x \in UtilError(d) : y = [x EXCEPT !.comp.aborted = crash]
      BY <2>6
    <3>2. Accounted(x.comp) /\ x.comp.mStatus = "Terminated"
      BY <2>5, UtilErrorEnds
    <3>3. DOMAIN x = {"status", "comp"}
      <4>1. \E z : x = Return("Error", z)
        BY <2>5 DEF UtilError
      <4> QED
        BY <4>1 DEF Return
    <3>4. y.comp = [x.comp EXCEPT !.aborted = crash]
      BY <3>1, <3>3
    <3>5. y.comp.mStatus = "Terminated"
      BY <3>2, <3>4 DEF Accounted, Components
    <3> QED
      BY <3>5 DEF Followed, SetUp
  <2> HIDE DEF S
  <2> QED
    BY <2>3, <2>6, FinishFollowed
<1> QED
  BY <1>3, <1>4

(* Calls that end a step, a run or nothing. *)
LEMMA EndFollowed ==
    ASSUME SInv, IInv', StepDone \/ DoStepRefused \/ Terminate \/ Reset PROVE SInv'
<1>1. Accounted(comp) /\ Followed(comp)
  BY DEF SInv, IInv, InstanceSound, Sound
<1>2. \A x \in TerminateSlave(comp) : Accounted(x.comp) /\ Followed(x.comp)
  BY <1>1, TerminateSlaveEnds DEF Followed, SetUp
<1>3. \A d : Accounted(d) => Followed(WithStartValues(d))
  BY DEF WithStartValues, Followed, SetUp, Accounted, Components
<1>4. CASE StepDone
  <2>1. Finish({Return("OK", comp)})
    BY <1>4 DEF StepDone
  <2> QED
    BY <1>1, <2>1, FinishFollowed DEF Return
<1>5. CASE DoStepRefused
  <2> DEFINE S == IF MayStep(comp) THEN {Return("Warning", comp)} ELSE UtilError(comp)
  <2>1. Finish(S)
    BY <1>5 DEF DoStepRefused
  <2>2. \A x \in S : Followed(x.comp)
    BY <1>1, UtilErrorFollowed, SettledFollowed DEF Return
  <2> HIDE DEF S
  <2> QED
    BY <2>1, <2>2, FinishFollowed
<1>6. CASE Terminate
  BY <1>2, <1>6, FinishFollowed DEF Terminate
<1>7. CASE Reset
  <2> DEFINE S == CASE comp.mStatus = "Instantiated" -> {Return("OK", comp)}
                    [] comp.mStatus = "Terminated" -> {Return("OK", WithStartValues(comp))}
                    [] OTHER -> {IF x.status = "Error" THEN x
                                 ELSE Return("OK", WithStartValues(x.comp)) :
                                   x \in TerminateSlave(comp)}
  <2>1. Finish(S)
    BY <1>7 DEF Reset
  <2>2. ASSUME NEW y \in S PROVE Followed(y.comp)
    BY <1>1, <1>2, <1>3 DEF Return
  <2> HIDE DEF S
  <2> QED
    BY <2>1, <2>2, FinishFollowed
<1> QED
  BY <1>4, <1>5, <1>6, <1>7

LEMMA SInvInit == Init => SInv
<1> SUFFICES ASSUME Init PROVE SInv
  OBVIOUS
<1>1. IInv
  BY InitSound
<1>2. Followed(comp) /\ ~saved.held /\ ~Stepping
  BY DEF Init, NewInstance, NoState, Followed, SetUp, Stepping
<1> QED
  BY <1>1, <1>2 DEF SInv

LEMMA SInvNext == ASSUME QuietModel PROVE SInv /\ [Next]_vars => SInv'
<1> SUFFICES ASSUME SInv, [Next]_vars PROVE SInv'
  OBVIOUS
<1>1. IInv'
  BY NextSound DEF SInv
<1>2. CASE SetupExperiment \/ EnterInitializationMode
  BY <1>1, <1>2, EnterFollowed
<1>3. CASE ExitInitializationMode
  BY <1>1, <1>3, ExitFollowed
<1>4. CASE \E demand \in Demands, real \in BOOLEAN : Get(demand, real)
  BY <1>1, <1>4, GetFollowed
<1>5. CASE GetRealOutputDerivatives
  BY <1>1, <1>5, GetRealOutputDerivativesFollowed
<1>6. CASE \E parameter \in BOOLEAN : Set(parameter)
  BY <1>1, <1>6, SetFollowed
<1>7. CASE GetString \/ SetString
  BY <1>7 DEF GetString, SetString, QuietModel
<1>8. CASE GetFMUstate
  BY <1>1, <1>8, GetFMUstateFollowed
<1>9. CASE SetFMUstate
  BY <1>1, <1>9, SetFMUstateFollowed
<1>10. CASE FreeFMUstate \/ FreeInstance \/ UNCHANGED vars
  <2>1. comp' = comp /\ (Stepping' => Stepping) /\ (saved' = saved \/ ~saved'.held)
    BY <1>10 DEF FreeFMUstate, FreeInstance, vars, NoState, Stepping
  <2>2. Followed(comp)'
    BY <2>1 DEF SInv, Followed, SetUp
  <2> QED
    BY <1>1, <2>1, <2>2 DEF SInv
<1>11. CASE DoStep
  BY <1>1, <1>11, DoStepFollowed
<1>12. CASE Integrate \/ StepEvent
  BY <1>1, <1>12, LoopFollowed
<1>13. CASE SolverFails \/ CallbackFails
  BY <1>1, <1>13, SolverFailsFollowed
<1>14. CASE StepDone \/ DoStepRefused \/ Terminate \/ Reset
  BY <1>1, <1>14, EndFollowed
<1> QED
  BY <1>2, <1>3, <1>4, <1>5, <1>6, <1>7, <1>8, <1>9, <1>10, <1>11, <1>12, <1>13, <1>14
  DEF Next, GetValues, SetValues

(* Whatever the master calls between two steps, the solver is given the    *)
(* states the instance has before it is asked for the next step, provided  *)
(* the model is quiet: see QuietModel for what else leaves it behind.      *)
THEOREM StepsStartSynced == ASSUME QuietModel PROVE Spec => []StepStartsSynced
<1>1. SInv => StepStartsSynced
  BY DEF SInv, StepStartsSynced
<1>2. SInv /\ [Next]_vars => SInv'
  BY SInvNext
<1> QED
  BY <1>1, <1>2, SInvInit, PTL DEF Spec
=============================================================================
