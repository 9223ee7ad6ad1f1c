----------------------- MODULE MCEnvironments_proofs -----------------------
(***************************************************************************)
(* What the run of MCEnvironments checks beyond the instance itself: every *)
(* step of CoSimInstance is one FmiLifecycle allows, for every value of    *)
(* the constants; and in the environment in which evaluations fail for     *)
(* good or not at all, the solver steps from where the instance is.        *)
(*                                                                         *)
(* The steps of the refinement need IInv of CoSimInstance_proofs, that an  *)
(* instance that initialises anew is not one its model has stopped, and    *)
(* that no step goes on with one that is.  Each entry point is shown to be *)
(* one step of FmiLifecycle from what its helpers may answer.              *)
(***************************************************************************)
EXTENDS MCEnvironments, CoSimInstance_proofs

(* The values of FmiLifecycle's variables. *)
Stage == IF comp.aborted \/ phase = "idle" THEN StageOf(comp) ELSE phase
Kept  == IF saved.held THEN StageOf(saved.comp) ELSE "none"

(* An instance that initialises anew is not one its model has stopped. *)
Unstopped(c) ==
    c.mStatus = "InitializationMode" /\ ~c.aborted /\ ~c.fmi2ComputeInit =>
        ~c.terminationByModel

(* Inductive: what the steps of FmiLifecycle are taken from. *)
LInv ==
    /\ IInv
    /\ Unstopped(comp)
    /\ saved.held => Unstopped(saved.comp)
    /\ Stepping => ~comp.terminationByModel

(* The stage by the fields of the instance. *)
LEMMA StagesAre ==
    ASSUME NEW c \in Components
    PROVE  /\ c.aborted <=> StageOf(c) = "aborted"
           /\ ~c.aborted =>
                 /\ StageOf(c) \in Life!Resting
                 /\ c.mStatus = "Instantiated" <=> StageOf(c) = "instantiated"
                 /\ c.mStatus = "InitializationMode" <=> StageOf(c) = "initialising"
                 /\ c.mStatus = "Terminated" <=> StageOf(c) = "terminated"
                 /\ c.mStatus = "ContinuousTimeMode" /\ c.terminationByModel
                       <=> StageOf(c) = "stopped"
                 /\ c.mStatus = "ContinuousTimeMode" /\ ~c.terminationByModel
                       <=> StageOf(c) = "running"
<1>1. /\ c.mStatus \in {"Instantiated", "InitializationMode", "ContinuousTimeMode", "Terminated"}
      /\ c.aborted \in BOOLEAN
  BY DEF Components, Modes
<1>2. CASE c.aborted
  BY <1>2 DEF StageOf
<1>3. CASE ~c.aborted /\ c.mStatus = "Instantiated"
  BY <1>3 DEF StageOf, Life!Resting
<1>4. CASE ~c.aborted /\ c.mStatus = "InitializationMode"
  BY <1>4 DEF StageOf, Life!Resting
<1>5. CASE ~c.aborted /\ c.mStatus = "Terminated"
  BY <1>5 DEF StageOf, Life!Resting
<1>6. CASE ~c.aborted /\ c.mStatus = "ContinuousTimeMode"
  BY <1>6 DEF StageOf, Life!Resting
<1> QED
  BY <1>1, <1>2, <1>3, <1>4, <1>5, <1>6

(* Between calls the stage is that of the instance, in a step it is that.  *)
LEMMA StageWhen ==
    ASSUME IInv
    PROVE  /\ comp \in Components
           /\ Callable => Stage = StageOf(comp) /\ Stage \in Life!Resting
           /\ Stepping => Stage = "stepping"
           /\ saved.held => Kept = StageOf(saved.comp) /\ Kept \in Life!Resting
           /\ ~saved.held => Kept = "none"
<1>1. comp \in Components
  BY DEF IInv, TypeOK
<1>2. saved.held => saved.comp \in Components /\ ~saved.comp.aborted
  BY DEF IInv, InstanceSound, SavedSound, Sound, Accounted
<1> QED
  BY <1>1, <1>2, StagesAre DEF Stage, Kept, Callable, Stepping

(* When a call has ended with the result x. *)
LEMMA StageAfter ==
    ASSUME NEW x, comp' = x.comp, phase' = "idle", UNCHANGED saved
    PROVE  Stage' = StageOf(x.comp) /\ Kept' = Kept
<1>1. Stage' = StageOf(comp')
  BY DEF Stage, StageOf
<1>2. Kept' = Kept
  BY DEF Kept, StageOf
<1> QED
  BY <1>1, <1>2

----------------------------------------------------------------------------
(* The steps of FmiLifecycle.                                              *)

LEMMA LifeUse ==
    ASSUME Stage \in Life!Resting, Stage' = Stage, Kept' = Kept,
           \/ status' \in {"OK", "Warning"}
           \/ status' = "Discard" /\ Stage \in {"initialising", "running", "stopped"}
    PROVE  Life!LifeNext
BY DEF Stage, Kept, Life!LifeNext, Life!Use

LEMMA LifeFail ==
    ASSUME Stage \in Life!Resting \cup {"stepping"}, Kept' = Kept,
           Stage' = "aborted" \/ (Stage' = "terminated" /\ status' = "Error")
    PROVE  Life!LifeNext
BY DEF Stage, Kept, Life!LifeNext, Life!Fail, Life!Abort

LEMMA LifeMoves ==
    ASSUME Kept' = Kept, NEW from, NEW to, NEW answer, Stage = from, Stage' = to, status' = answer,
           <<from, to, answer>> \in {<<"instantiated", "initialising", "OK">>,
                                     <<"initialising", "running", "OK">>,
                                     <<"stepping", "running", "OK">>,
                                     <<"stepping", "stopped", "Discard">>,
                                     <<"running", "stopped", "Discard">>}
    PROVE  Life!LifeNext
BY DEF Stage, Kept, Life!LifeNext, Life!Initialise, Life!EndStep, Life!Moves

----------------------------------------------------------------------------
(* What the calls may answer.                                              *)

(* An error that ended the instance, or a failed assertion. *)
Ended(x) == x.comp.aborted \/ (x.status = "Error" /\ x.comp.mStatus = "Terminated")

(* x is an answer of a call of c that moves nothing. *)
Uses(c, x) ==
    /\ x.comp \in Components
    /\ Unstopped(x.comp)
    /\ \/ Ended(x)
       \/ /\ StageOf(x.comp) = StageOf(c)
          /\ \/ x.status \in {"OK", "Warning"}
             \/ x.status = "Discard" /\ c.mStatus \in {"InitializationMode", "ContinuousTimeMode"}

LEMMA EndedLives ==
    ASSUME IInv, Callable \/ Stepping, NEW S, Finish(S), NEW x \in S,
           comp' = x.comp, status' = x.status, x.comp \in Components, Ended(x)
    PROVE  Life!LifeNext
<1>1. phase' = "idle" /\ UNCHANGED saved
  BY DEF Finish
<1>2. Stage' = StageOf(x.comp) /\ Kept' = Kept
  BY <1>1, StageAfter
<1>3. Stage \in Life!Resting \cup {"stepping"}
  BY StageWhen
<1>4. Stage' = "aborted" \/ (Stage' = "terminated" /\ status' = "Error")
  BY <1>2, StagesAre DEF Ended
<1> QED
  BY <1>2, <1>3, <1>4, LifeFail

LEMMA UsesLive ==
    ASSUME IInv, Callable, NEW S, Finish(S), \A x \in S : Uses(comp, x)
    PROVE  Life!LifeNext /\ Unstopped(comp')
<1>1. PICK x \in S : comp' = x.comp /\ status' = x.status
  BY DEF Finish
<1>2. Uses(comp, x) /\ phase' = "idle" /\ UNCHANGED saved
  BY <1>1 DEF Finish
<1>3. CASE Ended(x)
  BY <1>1, <1>2, <1>3, EndedLives DEF Uses
<1>4. CASE ~Ended(x)
  <2>1. Stage' = StageOf(x.comp) /\ Kept' = Kept
    BY <1>1, <1>2, StageAfter
  <2>2. comp \in Components /\ Stage = StageOf(comp) /\ Stage \in Life!Resting
    BY StageWhen
  <2>3. comp.mStatus \in {"InitializationMode", "ContinuousTimeMode"} =>
           Stage \in {"initialising", "running", "stopped"}
    BY <2>2, StagesAre DEF Callable, Components
  <2>4. Stage' = Stage
    BY <1>2, <1>4, <2>1, <2>2 DEF Uses
  <2>5. Life!LifeNext
    BY <1>1, <1>2, <1>4, <2>1, <2>2, <2>3, <2>4, LifeUse DEF Uses
  <2> QED
    BY <1>1, <1>2, <2>5 DEF Uses
<1> QED
  BY <1>1, <1>2, <1>3, <1>4 DEF Uses

LEMMA UtilErrorUses ==
    ASSUME NEW c, Accounted(c), NEW x \in UtilError(c), NEW d
    PROVE  Uses(d, x) /\ Ended(x)
<1>1. x.status = "Error" /\ Accounted(x.comp) /\ x.comp.mStatus = "Terminated"
  BY UtilErrorEnds
<1> QED
  BY <1>1 DEF Uses, Ended, Unstopped, Accounted

(* An evaluation leaves the stage, or the instance has ended in it. *)
LEMMA RefreshCacheStage ==
    ASSUME NEW c, Sound(c), ~c.aborted, Unstopped(c),
           NEW demand \in Levels, NEW x \in RefreshCache(c, demand)
    PROVE  /\ Accounted(x.comp)
           /\ Unstopped(x.comp)
           /\ x.err # "failed" => x.comp.aborted \/ StageOf(x.comp) = StageOf(c)
           /\ x.err # "failed" /\ c.mStatus = "InitializationMode" =>
                 x.comp.aborted \/ ~x.comp.terminationByModel
<1>0. Accounted(c) /\ c \in Components
  BY DEF Sound, Accounted
<1>1. /\ Accounted(x.comp)
      /\ x.comp.aborted \/ Ready(c, x.comp) \/ x.comp.mStatus = "Terminated"
      /\ x.comp.aborted \/ x.comp.mStatus \in {c.mStatus, "Terminated"}
      /\ x.err # "failed" => x.comp.mStatus = c.mStatus
      /\ ~c.fmi2ComputeInit => SameMode(c, x.comp)
      /\ c.fmi2ComputeInit => ~x.comp.terminationByModel \/ x.comp.mStatus = "Terminated"
  BY <1>0, RefreshCacheKeeps
<1>2. Unstopped(x.comp)
  BY <1>1 DEF Unstopped, Ready, SameMode
<1>3. ASSUME x.err # "failed", c.mStatus = "InitializationMode"
      PROVE  x.comp.aborted \/ ~x.comp.terminationByModel
  BY <1>1, <1>3 DEF Unstopped, SameMode
<1>4. ASSUME x.err # "failed", ~x.comp.aborted
      PROVE  StageOf(x.comp) = StageOf(c)
  <2>1. x.comp \in Components /\ x.comp.mStatus = c.mStatus
    BY <1>1, <1>4 DEF Accounted
  <2>2. c.mStatus = "ContinuousTimeMode" => x.comp.terminationByModel = c.terminationByModel
    BY <1>1 DEF Sound, SameMode
  <2>3. /\ c.mStatus \in {"Instantiated", "InitializationMode", "ContinuousTimeMode", "Terminated"}
        /\ c.terminationByModel \in BOOLEAN
    BY <1>0 DEF Components, Modes
  <2>4. CASE c.mStatus # "ContinuousTimeMode"
    BY <1>0, <1>4, <2>1, <2>3, <2>4, StagesAre
  <2>5. CASE c.mStatus = "ContinuousTimeMode"
    BY <1>0, <1>4, <2>1, <2>2, <2>3, <2>5, StagesAre
  <2> QED
    BY <2>4, <2>5
<1> QED
  BY <1>1, <1>2, <1>3, <1>4

LEMMA LookUpUses ==
    ASSUME NEW c, Accounted(c), Unstopped(c), NEW d, c.aborted \/ StageOf(c) = StageOf(d),
           NEW x \in LookUp(c)
    PROVE  Uses(d, x)
<1>1. CASE x = Return("OK", c)
  BY <1>1 DEF Return, Uses, Ended, Accounted
<1>2. CASE x \in UtilError(c)
  BY <1>2, UtilErrorUses
<1> QED
  BY <1>1, <1>2 DEF LookUp

(* A getter's evaluation. *)
LEMMA GetterUses ==
    ASSUME NEW c, Sound(c), ~c.aborted, Unstopped(c), NEW demand \in Levels,
           NEW discards \in BOOLEAN,
           discards => c.mStatus \in {"InitializationMode", "ContinuousTimeMode"},
           NEW x \in UNION {AfterRefresh(y, discards) : y \in RefreshCache(c, demand)}
    PROVE  Uses(c, x)
<1>1. PICK y \in RefreshCache(c, demand) : x \in AfterRefresh(y, discards)
  OBVIOUS
<1>2. /\ Accounted(y.comp)
      /\ Unstopped(y.comp)
      /\ y.err # "failed" => y.comp.aborted \/ StageOf(y.comp) = StageOf(c)
  BY RefreshCacheStage
<1>3. CASE y.err = "ok"
  <2>1. x \in LookUp(y.comp)
    BY <1>1, <1>3 DEF AfterRefresh
  <2> QED
    BY <1>2, <1>3, <2>1, LookUpUses
<1>4. CASE y.err = "recoverable" /\ discards
  <2>1. x = Return("Discard", y.comp)
    BY <1>1, <1>4 DEF AfterRefresh
  <2> QED
    BY <1>2, <1>4, <2>1 DEF Uses, Ended, Return, Accounted
<1>5. CASE y.err # "ok" /\ ~(y.err = "recoverable" /\ discards)
  <2>1. x \in UtilError(y.comp)
    BY <1>1, <1>5 DEF AfterRefresh
  <2> QED
    BY <1>2, <2>1, UtilErrorUses
<1> QED
  BY <1>3, <1>4, <1>5

----------------------------------------------------------------------------
(* The calls.                                                              *)

(* What a call finds. *)
LEMMA CallFinds ==
    ASSUME LInv, Callable
    PROVE  /\ IInv
           /\ Sound(comp) /\ Accounted(comp) /\ comp \in Components /\ ~comp.aborted
           /\ Unstopped(comp)
BY DEF LInv, IInv, TypeOK, InstanceSound, Sound, Callable

(* A changed instance in the same stage. *)
LEMMA SameStage ==
    ASSUME NEW c \in Components, NEW d \in Components, Unstopped(c),
           d.mStatus = c.mStatus, d.aborted = c.aborted,
           d.terminationByModel = c.terminationByModel,
           d.fmi2ComputeInit = c.fmi2ComputeInit
    PROVE  Unstopped(d) /\ StageOf(d) = StageOf(c)
<1>1. Unstopped(d)
  BY DEF Unstopped
<1>2. /\ c.mStatus \in {"Instantiated", "InitializationMode", "ContinuousTimeMode", "Terminated"}
      /\ c.terminationByModel \in BOOLEAN /\ c.aborted \in BOOLEAN
  BY DEF Components, Modes
<1>3. StageOf(d) = StageOf(c)
  BY <1>2, StagesAre DEF StageOf
<1> QED
  BY <1>1, <1>3

LEMMA SetupExperimentLives ==
    ASSUME LInv, SetupExperiment PROVE Life!LifeNext /\ Unstopped(comp')
<1> DEFINE d == [comp EXCEPT !.icall = Start, !.fresh = Start, !.solved = FALSE, !.synced = FALSE]
<1>1. /\ IInv /\ Callable /\ comp \in Components /\ Unstopped(comp)
      /\ Finish({Return("OK", d)})
  BY CallFinds DEF SetupExperiment
<1>2. Start \in Levels
  BY LevelsAre DEF Start
<1>3. /\ d \in Components /\ d.mStatus = comp.mStatus /\ d.aborted = comp.aborted
      /\ d.terminationByModel = comp.terminationByModel
      /\ d.fmi2ComputeInit = comp.fmi2ComputeInit
  BY <1>1, <1>2 DEF Components
<1> HIDE DEF d
<1>4. Unstopped(d) /\ StageOf(d) = StageOf(comp)
  BY <1>1, <1>3, SameStage
<1>5. Uses(comp, Return("OK", d))
  BY <1>3, <1>4 DEF Uses, Return
<1> QED
  BY <1>1, <1>5, UsesLive

LEMMA EnterInitializationModeLives ==
    ASSUME LInv, EnterInitializationMode PROVE Life!LifeNext /\ Unstopped(comp')
<1> DEFINE d == [comp EXCEPT !.fmi2ComputeInit = TRUE, !.mStatus = "InitializationMode"]
<1>1. /\ IInv /\ Callable /\ comp \in Components /\ ~comp.aborted /\ Accounted(comp)
      /\ Finish(IF comp.mStatus # "Instantiated" THEN UtilError(comp) ELSE {Return("OK", d)})
  BY CallFinds DEF EnterInitializationMode
<1>2. CASE comp.mStatus # "Instantiated"
  <2>1. Finish(UtilError(comp))
    BY <1>1, <1>2
  <2>2. \A x \in UtilError(comp) : Uses(comp, x)
    BY <1>1, UtilErrorUses
  <2> QED
    BY <1>1, <2>1, <2>2, UsesLive
<1>3. CASE comp.mStatus = "Instantiated"
  <2>1. comp' = d /\ status' = "OK" /\ phase' = "idle" /\ UNCHANGED saved
    BY <1>1, <1>3 DEF Finish, Return
  <2>2. d \in Components /\ d.mStatus = "InitializationMode" /\ ~d.aborted /\ d.fmi2ComputeInit
    BY <1>1 DEF Components, Modes
  <2> HIDE DEF d
  <2>3. Stage' = StageOf(d) /\ Kept' = Kept
    <3>1. Return("OK", d).comp = d
      BY DEF Return
    <3> QED
      BY <2>1, <3>1, StageAfter
  <2>4. Stage = "instantiated" /\ StageOf(d) = "initialising"
    BY <1>1, <1>3, <2>2, StageWhen, StagesAre
  <2>5. Life!LifeNext
    BY <2>1, <2>3, <2>4, LifeMoves
  <2> QED
    BY <2>1, <2>2, <2>5 DEF Unstopped
<1> QED
  BY <1>2, <1>3

LEMMA ExitInitializationModeLives ==
    ASSUME LInv, ExitInitializationMode PROVE Life!LifeNext /\ Unstopped(comp')
<1> DEFINE S == IF comp.mStatus # "InitializationMode" THEN UtilError(comp)
                ELSE UNION {InitialisationDone(x) : x \in RefreshCache(comp, Start)}
<1>1. /\ IInv /\ Callable /\ comp \in Components /\ ~comp.aborted /\ Accounted(comp)
      /\ Sound(comp) /\ Unstopped(comp)
      /\ Finish(S)
  BY CallFinds DEF ExitInitializationMode
<1>2. PICK y \in S : comp' = y.comp /\ status' = y.status /\ phase' = "idle" /\ UNCHANGED saved
  BY <1>1 DEF Finish
<1>3. ASSUME y \in UtilError(comp) PROVE Life!LifeNext /\ Unstopped(comp')
  BY <1>1, <1>2, <1>3, UtilErrorUses, EndedLives DEF Uses
<1>4. CASE comp.mStatus = "InitializationMode"
  <2>1. PICK x \in RefreshCache(comp, Start) : y \in InitialisationDone(x)
    BY <1>2, <1>4
  <2>2. Start \in Levels
    BY LevelsAre DEF Start
  <2>3. /\ Accounted(x.comp)
        /\ x.err # "failed" => x.comp.aborted \/ ~x.comp.terminationByModel
    BY <1>1, <1>4, <2>2, RefreshCacheStage
  <2>4. CASE x.err # "ok"
    <3>1. y \in UtilError(x.comp)
      BY <2>1, <2>4 DEF InitialisationDone
    <3>2. Uses(comp, y) /\ Ended(y)
      BY <2>3, <3>1, UtilErrorUses
    <3>3. Life!LifeNext
      BY <1>1, <1>2, <3>2, EndedLives DEF Uses
    <3> QED
      BY <1>2, <3>2, <3>3 DEF Uses
  <2>5. CASE x.err = "ok"
    <3> DEFINE d == [x.comp EXCEPT !.mStatus = "ContinuousTimeMode"]
    <3>1. y = Return("OK", d)
      BY <2>1, <2>5 DEF InitialisationDone
    <3>2. y.comp = d /\ y.status = "OK"
      BY <3>1 DEF Return
    <3>3. /\ d \in Components /\ d.mStatus = "ContinuousTimeMode"
          /\ d.aborted \/ ~d.terminationByModel
      BY <2>3, <2>5 DEF Accounted, Components, Modes
    <3> HIDE DEF d
    <3>4. Stage' = StageOf(d) /\ Kept' = Kept
      BY <1>2, <3>2, StageAfter
    <3>5. Stage = "initialising"
      BY <1>1, <1>4, StageWhen, StagesAre
    <3>6. CASE d.aborted
      BY <1>1, <1>2, <3>2, <3>3, <3>6, EndedLives DEF Ended, Unstopped
    <3>7. CASE ~d.aborted
      <4>1. Stage' = "running"
        BY <3>3, <3>4, <3>7, StagesAre
      <4>2. Life!LifeNext
        BY <1>2, <3>2, <3>4, <3>5, <4>1, LifeMoves
      <4> QED
        BY <1>2, <3>2, <3>3, <4>2 DEF Unstopped
    <3> QED
      BY <3>6, <3>7
  <2> QED
    BY <2>4, <2>5
<1> QED
  BY <1>2, <1>3, <1>4

(* Getting and setting values moves nothing. *)
LEMMA GetLives ==
    ASSUME LInv, NEW demand \in Demands, NEW real \in BOOLEAN, Get(demand, real)
    PROVE  Life!LifeNext /\ Unstopped(comp')
<1> DEFINE S == IF comp.mStatus = "Instantiated" THEN UtilError(comp)
                ELSE IF comp.mStatus = "Terminated" \/ ~NeedsRefresh(comp, demand)
                    THEN LookUp(comp)
                ELSE UNION {AfterRefresh(x, real) : x \in RefreshCache(comp, demand)}
<1>1. /\ IInv /\ Callable /\ comp \in Components /\ ~comp.aborted /\ Accounted(comp)
      /\ Sound(comp) /\ Unstopped(comp)
      /\ Finish(S)
  BY CallFinds DEF Get
<1>2. demand \in Levels
  BY LevelsAre
<1>3. comp.mStatus \notin {"Instantiated", "Terminated"} =>
         comp.mStatus \in {"InitializationMode", "ContinuousTimeMode"}
  BY <1>1 DEF Components, Modes
<1>4. \A x \in UtilError(comp) : Uses(comp, x)
  BY <1>1, UtilErrorUses
<1>5. \A x \in LookUp(comp) : Uses(comp, x)
  BY <1>1, LookUpUses
<1>6. comp.mStatus \notin {"Instantiated", "Terminated"} =>
         \A x \in UNION {AfterRefresh(y, real) : y \in RefreshCache(comp, demand)} : Uses(comp, x)
  BY <1>1, <1>2, <1>3, GetterUses
<1>7. \A x \in S : Uses(comp, x)
  BY <1>4, <1>5, <1>6
<1> HIDE DEF S
<1> QED
  BY <1>1, <1>7, UsesLive

LEMMA GetStringLives == ASSUME LInv, GetString PROVE Life!LifeNext /\ Unstopped(comp')
<1> DEFINE S == IF comp.mStatus = "Instantiated" THEN UtilError(comp)
                ELSE IF ~NeedsRefresh(comp, Start) THEN LookUp(comp)
                ELSE UNION {AfterRefresh(x, FALSE) : x \in RefreshCache(comp, Start)}
<1>1. /\ IInv /\ Callable /\ ~comp.aborted /\ Accounted(comp)
      /\ Sound(comp) /\ Unstopped(comp)
      /\ Finish(S)
  BY CallFinds DEF GetString
<1>2. Start \in Levels
  BY LevelsAre DEF Start
<1>3. \A x \in UtilError(comp) : Uses(comp, x)
  BY <1>1, UtilErrorUses
<1>4. \A x \in LookUp(comp) : Uses(comp, x)
  BY <1>1, LookUpUses
<1>5. \A x \in UNION {AfterRefresh(y, FALSE) : y \in RefreshCache(comp, Start)} : Uses(comp, x)
  BY <1>1, <1>2, GetterUses
<1>6. \A x \in S : Uses(comp, x)
  BY <1>3, <1>4, <1>5
<1> HIDE DEF S
<1> QED
  BY <1>1, <1>6, UsesLive

LEMMA GetRealOutputDerivativesLives ==
    ASSUME LInv, GetRealOutputDerivatives PROVE Life!LifeNext /\ Unstopped(comp')
<1> DEFINE S == IF comp.mStatus = "Instantiated" THEN UtilError(comp)
                ELSE UNION {AfterRefresh(x, FALSE) : x \in RefreshCache(comp, Output)}
<1>1. /\ IInv /\ Callable /\ ~comp.aborted /\ Accounted(comp)
      /\ Sound(comp) /\ Unstopped(comp)
      /\ Finish(S)
  BY CallFinds DEF GetRealOutputDerivatives
<1>2. Output \in Levels
  BY LevelsAre DEF Output
<1>3. \A x \in UtilError(comp) : Uses(comp, x)
  BY <1>1, UtilErrorUses
<1>4. \A x \in UNION {AfterRefresh(y, FALSE) : y \in RefreshCache(comp, Output)} : Uses(comp, x)
  BY <1>1, <1>2, GetterUses
<1>5. \A x \in S : Uses(comp, x)
  BY <1>3, <1>4
<1> HIDE DEF S
<1> QED
  BY <1>1, <1>5, UsesLive

LEMMA SetLives ==
    ASSUME LInv, NEW parameter \in BOOLEAN, Set(parameter)
    PROVE  Life!LifeNext /\ Unstopped(comp')
<1> DEFINE w == WithValueSet(comp, parameter)
           d == [w EXCEPT !.icall = Start, !.valWasSet = TRUE, !.reinitCvode = TRUE]
<1>1. /\ IInv /\ Callable /\ comp \in Components /\ Accounted(comp)
      /\ Sound(comp) /\ Unstopped(comp)
      /\ Finish({Return("OK", d)} \cup UtilError(comp) \cup UtilError(w))
  BY CallFinds DEF Set
<1>2. Sound(w) /\ w.mStatus = comp.mStatus
  BY <1>1, WithValueSetSound
<1>3. /\ w \in Components /\ Accounted(w) /\ w.aborted = comp.aborted
      /\ w.terminationByModel = comp.terminationByModel
      /\ w.fmi2ComputeInit = comp.fmi2ComputeInit
  BY <1>1, <1>2 DEF Sound, Accounted, WithValueSet, Components
<1>4. Start \in Levels
  BY LevelsAre DEF Start
<1> HIDE DEF w
<1>5. /\ d \in Components /\ d.mStatus = comp.mStatus /\ d.aborted = comp.aborted
      /\ d.terminationByModel = comp.terminationByModel
      /\ d.fmi2ComputeInit = comp.fmi2ComputeInit
  BY <1>2, <1>3, <1>4 DEF Components
<1> HIDE DEF d
<1>6. Unstopped(d) /\ StageOf(d) = StageOf(comp)
  BY <1>1, <1>5, SameStage
<1>7. Uses(comp, Return("OK", d))
  BY <1>5, <1>6 DEF Uses, Return
<1>8. \A x \in UtilError(comp) \cup UtilError(w) : Uses(comp, x)
  BY <1>1, <1>3, UtilErrorUses
<1> QED
  BY <1>1, <1>7, <1>8, UsesLive

LEMMA SetStringLives == ASSUME LInv, SetString PROVE Life!LifeNext /\ Unstopped(comp')
<1> DEFINE w == WithValueSet(comp, TRUE)
<1>1. /\ IInv /\ Callable /\ comp \in Components /\ Accounted(comp)
      /\ Sound(comp) /\ Unstopped(comp)
      /\ Finish({Return("OK", w)})
  BY CallFinds DEF SetString
<1>2. Sound(w) /\ w.mStatus = comp.mStatus
  BY <1>1, WithValueSetSound
<1>3. /\ w \in Components /\ w.aborted = comp.aborted
      /\ w.terminationByModel = comp.terminationByModel
      /\ w.fmi2ComputeInit = comp.fmi2ComputeInit
  BY <1>1, <1>2 DEF Sound, Accounted, WithValueSet, Components
<1> HIDE DEF w
<1>4. Unstopped(w) /\ StageOf(w) = StageOf(comp)
  BY <1>1, <1>2, <1>3, SameStage
<1>5. Uses(comp, Return("OK", w))
  BY <1>3, <1>4 DEF Uses, Return
<1> QED
  BY <1>1, <1>5, UsesLive

(* The saved state is at the stage of the instance. *)
LEMMA GetFMUstateLives ==
    ASSUME LInv, GetFMUstate
    PROVE  Life!LifeNext /\ Unstopped(comp') /\ Unstopped(saved'.comp)
<1> DEFINE d == [comp EXCEPT !.QiErr = "ok"]
<1>1. /\ IInv /\ Callable /\ comp \in Components /\ Unstopped(comp)
      /\ saved' = [held |-> TRUE, comp |-> d] /\ status' = "OK"
      /\ comp' = comp /\ phase' = phase
  BY CallFinds DEF GetFMUstate, HeldState
<1>2. "ok" \in Errors
  BY DEF Errors
<1>3. /\ d \in Components /\ d.mStatus = comp.mStatus /\ d.aborted = comp.aborted
      /\ d.terminationByModel = comp.terminationByModel
      /\ d.fmi2ComputeInit = comp.fmi2ComputeInit
  BY <1>1, <1>2 DEF Components
<1> HIDE DEF d
<1>4. Unstopped(d) /\ StageOf(d) = StageOf(comp)
  BY <1>1, <1>3, SameStage
<1>5. saved'.held /\ saved'.comp = d
  BY <1>1
<1>6. Kept' = StageOf(d) /\ Stage' = Stage
  BY <1>1, <1>5 DEF Kept, Stage, StageOf
<1>7. Stage \in Life!Resting /\ Stage = StageOf(comp)
  BY <1>1, StageWhen
<1>8. Life!LifeNext
  BY <1>1, <1>4, <1>6, <1>7 DEF Stage, Kept, Life!LifeNext, Life!Save
<1> QED
  BY <1>1, <1>4, <1>5, <1>8

LEMMA FreeFMUstateLives ==
    ASSUME LInv, FreeFMUstate
    PROVE  Life!LifeNext /\ comp' = comp /\ ~saved'.held
<1>1. /\ IInv /\ Callable /\ saved.held
      /\ saved' = NoState /\ status' = "OK" /\ comp' = comp /\ phase' = phase
  BY CallFinds DEF FreeFMUstate
<1>2. ~saved'.held
  BY <1>1 DEF NoState
<1>3. Kept' = "none" /\ Stage' = Stage
  BY <1>1, <1>2 DEF Kept, Stage, StageOf
<1>4. Kept \in Life!Resting
  BY <1>1, StageWhen
<1>5. Kept # "none"
  BY <1>4 DEF Life!Resting
<1>6. Life!LifeNext
  BY <1>1, <1>3, <1>5 DEF Stage, Kept, Life!LifeNext, Life!Discard
<1> QED
  BY <1>1, <1>2, <1>6

(* A restored state is the saved one, with a solver. *)
LEMMA RestoredStage ==
    ASSUME NEW c \in Components, NEW s \in Components, ~s.aborted, Unstopped(s)
    PROVE  LET d == Restored(c, s)
           IN  d \in Components /\ Unstopped(d) /\ StageOf(d) = StageOf(s)
<1> DEFINE iData == c.iData \/ s.iData
           v == [s EXCEPT !.QiErr = c.QiErr, !.iData = iData]
           w == IF v.iData THEN v ELSE IntegrationSetup(v)
<1>1. Restored(c, s) = IntegrationReinit(w)
  BY DEF Restored
<1>2. c.QiErr \in Errors /\ iData \in BOOLEAN
  BY DEF Components
<1> HIDE DEF iData
<1>3. /\ v \in Components /\ v.mStatus = s.mStatus /\ v.aborted = s.aborted
      /\ v.terminationByModel = s.terminationByModel
      /\ v.fmi2ComputeInit = s.fmi2ComputeInit
  BY <1>2 DEF Components
<1> HIDE DEF v
<1>4. /\ w \in Components /\ w.mStatus = s.mStatus /\ w.aborted = s.aborted
      /\ w.terminationByModel = s.terminationByModel
      /\ w.fmi2ComputeInit = s.fmi2ComputeInit
  <2>1. CASE v.iData
    BY <1>3, <2>1
  <2>2. CASE ~v.iData
    <3> DEFINE e == IntegrationSetup(v)
    <3>1. /\ e \in Components /\ e.mStatus = v.mStatus /\ e.aborted = v.aborted
          /\ e.terminationByModel = v.terminationByModel
          /\ e.fmi2ComputeInit = v.fmi2ComputeInit
      <4>1. e = [v EXCEPT !.iData = TRUE, !.synced = TRUE]
        BY <2>2 DEF IntegrationSetup
      <4> HIDE DEF e
      <4> QED
        BY <1>3, <4>1 DEF Components
    <3>2. w = e
      BY <2>2
    <3> HIDE DEF w, e
    <3> QED
      BY <1>3, <3>1, <3>2
  <2> QED
    BY <2>1, <2>2
<1> HIDE DEF w
<1> DEFINE d == IntegrationReinit(w)
<1>5. /\ d \in Components /\ d.mStatus = s.mStatus /\ d.aborted = s.aborted
      /\ d.terminationByModel = s.terminationByModel
      /\ d.fmi2ComputeInit = s.fmi2ComputeInit
  BY <1>4 DEF IntegrationReinit, Components
<1> HIDE DEF d
<1>6. Unstopped(d) /\ StageOf(d) = StageOf(s)
  BY <1>5, SameStage
<1> QED
  BY <1>1, <1>5, <1>6 DEF d

LEMMA SetFMUstateLives ==
    ASSUME LInv, SetFMUstate PROVE Life!LifeNext /\ Unstopped(comp')
<1> DEFINE d == Restored(comp, saved.comp)
<1>1. /\ IInv /\ Callable /\ comp \in Components /\ saved.held
      /\ Finish({Return("OK", d)})
  BY CallFinds DEF SetFMUstate
<1>2. saved.comp \in Components /\ ~saved.comp.aborted /\ Unstopped(saved.comp)
  BY <1>1 DEF LInv, IInv, InstanceSound, SavedSound, Sound, Accounted
<1>3. d \in Components /\ Unstopped(d) /\ StageOf(d) = StageOf(saved.comp)
  BY <1>1, <1>2, RestoredStage
<1> HIDE DEF d
<1>4. /\ comp' = d /\ status' = "OK" /\ phase' = "idle" /\ UNCHANGED saved
      /\ Return("OK", d).comp = d
  BY <1>1 DEF Finish, Return
<1>5. Stage' = StageOf(d) /\ Kept' = Kept
  BY <1>4, StageAfter
<1>6. Stage \in Life!Resting /\ Kept = StageOf(saved.comp) /\ Kept \in Life!Resting
  BY <1>1, StageWhen
<1>7. Kept # "none"
  BY <1>6 DEF Life!Resting
<1>8. Life!LifeNext
  BY <1>3, <1>4, <1>5, <1>6, <1>7 DEF Stage, Kept, Life!LifeNext, Life!Restore
<1> QED
  BY <1>3, <1>4, <1>8

----------------------------------------------------------------------------
(* Steps.                                                                  *)

(* x goes on with a run, has ended it because the model stopped, or has    *)
(* ended the instance.                                                     *)
Steps(x) ==
    /\ x.comp \in Components
    /\ \/ x.status = "OK" /\ Live(x.comp) /\ ~x.comp.terminationByModel
       \/ x.status = "Discard" /\ StageOf(x.comp) = "stopped"
       \/ x.status = "Error" /\ x.comp.mStatus = "Terminated"

LEMMA EventFailsSteps ==
    ASSUME NEW c, Live(c), NEW x \in EventFails(c)
    PROVE  Steps(x) /\ x.status # "OK"
<1>1. c \in Components /\ Accounted(c) /\ c.mStatus = "ContinuousTimeMode" /\ ~c.aborted
  BY DEF Live, Sound, Accounted
<1>2. CASE c.QiErr = "stop"
  <2> DEFINE d == [c EXCEPT !.terminationByModel = TRUE]
  <2>1. x.status = "Discard" /\ x.comp = d
    BY <1>2 DEF EventFails, StoppedByModel, Return
  <2>2. /\ d \in Components /\ d.mStatus = "ContinuousTimeMode" /\ ~d.aborted
        /\ d.terminationByModel
    BY <1>1 DEF Components
  <2> HIDE DEF d
  <2>3. StageOf(d) = "stopped"
    BY <2>2, StagesAre
  <2> QED
    BY <2>1, <2>2, <2>3 DEF Steps
<1>3. CASE c.QiErr # "stop"
  <2>1. x \in UtilError(c)
    BY <1>3 DEF EventFails
  <2>2. x.status = "Error" /\ Accounted(x.comp) /\ x.comp.mStatus = "Terminated"
    BY <1>1, <2>1, UtilErrorEnds
  <2> QED
    BY <2>2 DEF Steps, Accounted
<1> QED
  BY <1>2, <1>3

LEMMA IterateEventSteps ==
    ASSUME NEW c, Live(c), ~c.terminationByModel, NEW force \in BOOLEAN,
           NEW x \in IterateEvent(c, force)
    PROVE  Steps(x)
<1> DEFINE b == [c EXCEPT !.icall = Start]
<1>1. c \in Components /\ EventHandling \in Levels /\ EventHandling # Start /\ Start \in Levels
  BY LevelsAre DEF Live, Sound, Accounted, EventHandling, Start
<1>2. b \in Components /\ SameMode(c, b) /\ b.solved = c.solved
  BY <1>1 DEF Components, SameMode
<1>3. PICK e \in Dsblock(b, EventHandling) :
         x \in IF Cached(e).QiErr # "ok" THEN EventFails(Cached(e))
               ELSE {Return("OK", IF e.QiErr = "minor" /\ ~force THEN Cached(e)
                                  ELSE IntegrationReinit(Cached(e)))}
  BY DEF IterateEvent
<1> HIDE DEF b
<1>4. e \in Components /\ SameMode(b, e) /\ e.solved = b.solved
  BY <1>1, <1>2, DsblockKeeps
<1> DEFINE k == Cached(e)
<1>5. k \in Components /\ SameMode(e, k) /\ k.solved = e.solved
  BY <1>4, CachedKeeps
<1>6. Live(k) /\ ~k.terminationByModel
  BY <1>2, <1>4, <1>5, LiveKept DEF SameMode
<1>7. CASE k.QiErr # "ok"
  BY <1>3, <1>6, <1>7, EventFailsSteps
<1>8. CASE k.QiErr = "ok"
  <2>1. x.status = "OK" /\ x.comp \in {k, IntegrationReinit(k)}
    BY <1>3, <1>8 DEF Return
  <2> HIDE DEF k
  <2> DEFINE r == IntegrationReinit(k)
  <2>2. Accounted(k)
    BY <1>6 DEF Live, Sound
  <2>3. Accounted(r) /\ SameMode(k, r) /\ r.solved = k.solved
    BY <2>2, IntegrationReinitKeeps
  <2> HIDE DEF r
  <2>4. Live(r) /\ ~r.terminationByModel /\ r \in Components
    BY <1>6, <2>3, LiveKept DEF SameMode, Accounted
  <2> QED
    BY <1>5, <1>6, <2>1, <2>4 DEF Steps, r
<1> QED
  BY <1>7, <1>8

LEMMA HandleEventSteps ==
    ASSUME NEW c, Live(c), ~c.terminationByModel, NEW force \in BOOLEAN,
           NEW x \in HandleEvent(c, force)
    PROVE  Steps(x)
<1>1. PICK v \in RefreshCache(c, Variable) :
         x \in IF v.err = "ok" THEN IterateEvent(v.comp, force) ELSE EventFails(v.comp)
  BY DEF HandleEvent
<1>2. Variable \in Levels /\ Variable # Start
  BY LevelsAre DEF Variable, Start
<1>3. Accounted(c) /\ ~c.fmi2ComputeInit
  BY DEF Live, Sound
<1>4. Accounted(v.comp) /\ SameMode(c, v.comp) /\ v.comp.solved = c.solved
  BY <1>2, <1>3, RefreshCacheKeeps
<1>5. Live(v.comp) /\ ~v.comp.terminationByModel
  BY <1>4, LiveKept DEF Accounted, SameMode
<1> QED
  BY <1>1, <1>5, IterateEventSteps, EventFailsSteps

(* The preparation may also be discarded without a change of the stage. *)
LEMMA PreparedSteps ==
    ASSUME NEW c, Live(c), ~c.terminationByModel, NEW x \in Prepared(c)
    PROVE  \/ Steps(x)
           \/ x.status = "Discard" /\ x.comp \in Components /\ StageOf(x.comp) = "running"
<1> DEFINE s == IF c.reinitCvode THEN IntegrationReinit(c) ELSE c
<1>1. Live(s) /\ ~s.terminationByModel
  <2>1. Accounted(c)
    BY DEF Live, Sound
  <2> DEFINE r == IntegrationReinit(c)
  <2>2. Accounted(r) /\ SameMode(c, r) /\ r.solved = c.solved
    BY <2>1, IntegrationReinitKeeps
  <2> HIDE DEF r
  <2>3. Live(r) /\ ~r.terminationByModel
    BY <2>2, LiveKept DEF SameMode, Accounted
  <2> QED
    BY <2>3 DEF r
<1>2. CASE c.valWasSet
  <2>1. PICK h \in HandleEvent(c, TRUE) : x = [h EXCEPT !.comp.valWasSet = FALSE]
    BY <1>2 DEF Prepared
  <2>2. Steps(h)
    BY HandleEventSteps
  <2> DEFINE d == [h.comp EXCEPT !.valWasSet = FALSE]
  <2>3. x.status = h.status /\ x.comp = d
    BY <2>1
  <2>4. h.comp \in Components
    BY <2>2 DEF Steps
  <2>5. /\ d \in Components /\ SameMode(h.comp, d) /\ d.solved = h.comp.solved
    BY <2>4 DEF Components, SameMode
  <2> HIDE DEF d
  <2>6. Live(h.comp) => Live(d)
    BY <2>5, LiveKept
  <2>7. StageOf(h.comp) = "stopped" => StageOf(d) = "stopped"
    BY <2>4, <2>5 DEF SameMode, StageOf
  <2> QED
    BY <2>2, <2>3, <2>5, <2>6, <2>7 DEF Steps, SameMode
<1>3. CASE ~c.valWasSet /\ s.icall >= Derivative
  <2>1. x = Return("OK", s)
    BY <1>3 DEF Prepared
  <2> QED
    BY <2>1, <1>1 DEF Return, Steps, Live, Sound, Accounted
<1>4. CASE ~c.valWasSet /\ ~(s.icall >= Derivative)
  <2>1. PICK v \in RefreshCache(s, Derivative) :
           x \in CASE v.err = "ok"          -> {Return("OK", v.comp)}
                   [] v.err = "recoverable" -> {Return("Discard", v.comp)}
                   [] OTHER                 -> UtilError(v.comp)
    BY <1>4 DEF Prepared
  <2> HIDE DEF s
  <2>2. Derivative \in Levels /\ Derivative # Start
    BY LevelsAre DEF Derivative, Start
  <2>3. Accounted(s) /\ ~s.fmi2ComputeInit
    BY <1>1 DEF Live, Sound
  <2>4. Accounted(v.comp) /\ SameMode(s, v.comp) /\ v.comp.solved = s.solved
    BY <2>2, <2>3, RefreshCacheKeeps
  <2>5. Live(v.comp) /\ ~v.comp.terminationByModel /\ v.comp \in Components
    BY <1>1, <2>4, LiveKept DEF Accounted, SameMode
  <2>6. CASE v.err = "ok"
    <3>1. x = Return("OK", v.comp)
      BY <2>1, <2>6
    <3> QED
      BY <3>1, <2>5 DEF Return, Steps
  <2>7. CASE v.err = "recoverable"
    <3>1. x = Return("Discard", v.comp)
      BY <2>1, <2>7
    <3>2. StageOf(v.comp) = "running"
      BY <2>5, StagesAre DEF Live
    <3> QED
      BY <3>1, <3>2, <2>5 DEF Return
  <2>8. CASE v.err \notin {"ok", "recoverable"}
    <3>1. x \in UtilError(v.comp)
      BY <2>1, <2>8
    <3>2. x.status = "Error" /\ Accounted(x.comp) /\ x.comp.mStatus = "Terminated"
      BY <2>4, <3>1, UtilErrorEnds
    <3> QED
      BY <3>2 DEF Steps, Accounted
  <2> QED
    BY <2>6, <2>7, <2>8
<1> QED
  BY <1>2, <1>3, <1>4

(* A step that does not go on. *)
LEMMA StepsLive ==
    ASSUME IInv, Callable \/ Stepping, Stage \in {"running", "stepping"},
           NEW S, Finish(S), NEW x \in S, comp' = x.comp, status' = x.status,
           Steps(x), x.status # "OK"
    PROVE  Life!LifeNext /\ Unstopped(comp')
<1>1. phase' = "idle" /\ UNCHANGED saved
  BY DEF Finish
<1>2. Stage' = StageOf(x.comp) /\ Kept' = Kept
  BY <1>1, StageAfter
<1>3. x.comp \in Components
  BY DEF Steps
<1>4. CASE x.status = "Error" /\ x.comp.mStatus = "Terminated"
  BY <1>3, <1>4, EndedLives DEF Ended, Unstopped
<1>5. CASE x.status = "Discard" /\ StageOf(x.comp) = "stopped"
  <2>1. Life!LifeNext
    BY <1>2, <1>5, LifeMoves
  <2>2. x.comp.mStatus = "ContinuousTimeMode"
    BY <1>3, <1>5, StagesAre
  <2> QED
    BY <2>1, <2>2 DEF Unstopped
<1> QED
  BY <1>4, <1>5 DEF Steps

LEMMA DoStepLives ==
    ASSUME LInv, DoStep
    PROVE  /\ Life!LifeNext
           /\ Unstopped(comp')
           /\ UNCHANGED saved
           /\ Stepping' => ~comp'.terminationByModel
<1>1. /\ IInv /\ Callable /\ comp \in Components /\ ~comp.aborted
      /\ Live(comp) /\ ~comp.terminationByModel
  BY CallFinds, MayStepLive DEF DoStep, MayStep
<1>2. Stage = "running"
  BY <1>1, StageWhen, StagesAre DEF Live
<1>3. CASE Finish({x \in Prepared(comp) : x.status # "OK"})
  <2>1. PICK x \in Prepared(comp) : x.status # "OK" /\ comp' = x.comp /\ status' = x.status
    BY <1>3 DEF Finish
  <2>2. phase' = "idle" /\ UNCHANGED saved
    BY <1>3 DEF Finish
  <2>3. CASE Steps(x)
    <3>1. Life!LifeNext /\ Unstopped(comp')
      BY <1>1, <1>2, <1>3, <2>1, <2>3, StepsLive
    <3> QED
      BY <2>2, <3>1 DEF Stepping
  <2>4. CASE x.status = "Discard" /\ x.comp \in Components /\ StageOf(x.comp) = "running"
    <3>1. Stage' = StageOf(x.comp) /\ Kept' = Kept
      BY <2>1, <2>2, StageAfter
    <3>2. Stage \in Life!Resting
      BY <1>1, StageWhen
    <3>3. Life!LifeNext
      BY <1>2, <2>1, <2>4, <3>1, <3>2, LifeUse
    <3>4. x.comp.mStatus = "ContinuousTimeMode"
      BY <2>4, StagesAre
    <3> QED
      BY <2>1, <2>2, <3>3, <3>4 DEF Unstopped, Stepping
  <2> QED
    BY <1>1, <2>1, <2>3, <2>4, PreparedSteps
<1>4. CASE \E x \in Prepared(comp) :
             /\ x.status = "OK"
             /\ comp' = [x.comp EXCEPT !.aborted = ~x.comp.iData]
             /\ phase' = "stepping"
             /\ UNCHANGED <<saved, status>>
  <2>1. PICK x \in Prepared(comp) :
             /\ x.status = "OK"
             /\ comp' = [x.comp EXCEPT !.aborted = ~x.comp.iData]
             /\ phase' = "stepping"
             /\ UNCHANGED <<saved, status>>
    BY <1>4
  <2>2. Steps(x)
    BY <1>1, <2>1, PreparedSteps
  <2>3. Live(x.comp) /\ ~x.comp.terminationByModel /\ x.comp \in Components /\ x.comp.iData
    BY <2>1, <2>2 DEF Steps, Live, Sound
  <2>4. comp'.mStatus = "ContinuousTimeMode" /\ ~comp'.aborted /\ ~comp'.terminationByModel
    BY <2>1, <2>3 DEF Live, Components
  <2>5. Stage' = "stepping" /\ Kept' = Kept
    BY <2>1, <2>4 DEF Stage, Kept, StageOf
  <2>6. Life!LifeNext
    BY <1>2, <2>1, <2>5 DEF Stage, Kept, Life!LifeNext, Life!BeginStep, Life!Moves
  <2> QED
    BY <2>1, <2>4, <2>6 DEF Unstopped
<1> QED
  BY <1>3, <1>4 DEF DoStep

LEMMA DoStepRefusedLives ==
    ASSUME LInv, DoStepRefused PROVE Life!LifeNext /\ Unstopped(comp')
<1> DEFINE S == IF MayStep(comp) THEN {Return("Warning", comp)} ELSE UtilError(comp)
<1>1. /\ IInv /\ Callable /\ comp \in Components /\ Accounted(comp) /\ Unstopped(comp)
      /\ Finish(S)
  BY CallFinds DEF DoStepRefused
<1>2. Uses(comp, Return("Warning", comp))
  BY <1>1 DEF Uses, Return
<1>3. \A x \in UtilError(comp) : Uses(comp, x)
  BY <1>1, UtilErrorUses
<1>4. \A x \in S : Uses(comp, x)
  BY <1>2, <1>3
<1> HIDE DEF S
<1> QED
  BY <1>1, <1>4, UsesLive

(* Inside the loop the stage is that of a step. *)
LEMMA LoopFinds ==
    ASSUME LInv, Stepping
    PROVE  /\ IInv /\ Stage = "stepping" /\ comp \in Components
           /\ Live(comp) /\ ~comp.terminationByModel
           /\ Live(AtNewTime(comp)) /\ ~AtNewTime(comp).terminationByModel
<1>1. IInv /\ Stage = "stepping" /\ comp \in Components /\ ~comp.terminationByModel
  BY StageWhen DEF LInv
<1>2. Live(comp) /\ Live(AtNewTime(comp)) /\ SameMode(comp, AtNewTime(comp))
  BY <1>1, AtNewTimeLive
<1> QED
  BY <1>1, <1>2 DEF SameMode

LEMMA LoopStutters ==
    ASSUME Stepping, Live(comp'), UNCHANGED <<saved, status, phase>>
    PROVE  UNCHANGED Life!lifeVars /\ Unstopped(comp')
<1>1. Stage = phase /\ Stage' = phase' /\ Kept' = Kept
  BY DEF Stepping, Live, Stage, Kept, StageOf
<1>2. UNCHANGED Life!lifeVars
  BY <1>1 DEF Life!lifeVars, Stage, Kept
<1> QED
  BY <1>2 DEF Live, Unstopped

LEMMA IntegrateLives ==
    ASSUME LInv, Integrate
    PROVE  UNCHANGED Life!lifeVars /\ Unstopped(comp') /\ ~comp'.terminationByModel
<1> DEFINE c == AtNewTime(comp)
<1>1. Stepping /\ UNCHANGED <<saved, status, phase>> /\ Live(c) /\ ~c.terminationByModel
  BY LoopFinds DEF Integrate
<1>2. comp' = [c EXCEPT !.valWasSet = FALSE, !.changed = comp.changed /\ ~comp.newParameters,
                        !.newParameters = FALSE, !.QiErr = "ok"]
  BY DEF Integrate
<1>3. Live(comp')
  <2>1. IInv'
    BY IntegrateKeeps DEF LInv
  <2>2. Stepping'
    <3>1. c \in Components /\ ~c.aborted
      BY <1>1 DEF Live, Sound, Accounted
    <3> HIDE DEF c
    <3> QED
      BY <1>1, <1>2, <3>1 DEF Stepping, Components
  <2> QED
    BY <2>1, <2>2 DEF IInv, InstanceSound, Running, Live
<1>4. ~comp'.terminationByModel
  <2>1. c \in Components
    BY <1>1 DEF Live, Sound, Accounted
  <2> HIDE DEF c
  <2> QED
    BY <1>1, <1>2, <2>1 DEF Components
<1> QED
  BY <1>1, <1>3, <1>4, LoopStutters

LEMMA StepEventLives ==
    ASSUME LInv, StepEvent
    PROVE  /\ Life!LifeNext \/ UNCHANGED Life!lifeVars
           /\ Unstopped(comp')
           /\ UNCHANGED saved
           /\ Stepping' => ~comp'.terminationByModel
<1> DEFINE S == HandleEvent(AtNewTime(comp), FALSE)
<1>1. /\ IInv /\ Stepping /\ Stage = "stepping"
      /\ \A x \in S : Steps(x)
  BY LoopFinds, HandleEventSteps DEF StepEvent
<1>2. CASE \E x \in S : x.status = "OK" /\ comp' = x.comp /\ UNCHANGED <<saved, status, phase>>
  <2>1. Live(comp') /\ ~comp'.terminationByModel /\ UNCHANGED <<saved, status, phase>>
    BY <1>1, <1>2 DEF Steps
  <2> QED
    BY <1>1, <2>1, LoopStutters
<1>3. CASE Finish({x \in S : x.status # "OK"})
  <2>1. PICK x \in {y \in S : y.status # "OK"} : comp' = x.comp /\ status' = x.status
    BY <1>3 DEF Finish
  <2>2. Steps(x) /\ x.status # "OK"
    BY <1>1, <2>1
  <2> HIDE DEF S
  <2>3. Life!LifeNext /\ Unstopped(comp')
    BY <1>1, <1>3, <2>1, <2>2, StepsLive
  <2> QED
    BY <1>3, <2>3 DEF Finish, Stepping
<1> QED
  BY <1>2, <1>3 DEF StepEvent

LEMMA SolverFailsLives == ASSUME LInv, SolverFails PROVE Life!LifeNext /\ Unstopped(comp')
<1> DEFINE c == AtNewTime(comp)
<1>1. /\ IInv /\ Stepping /\ Accounted(c)
  BY LoopFinds DEF SolverFails, Live, Sound
<1>2. PICK err \in {"ok"} \cup (Faults \ {"failed"}) :
         Finish(UtilError([c EXCEPT !.QiErr = err, !.newParameters = FALSE]))
  BY DEF SolverFails
<1> DEFINE d == [c EXCEPT !.QiErr = err, !.newParameters = FALSE]
<1>3. err \in Errors
  BY DEF Errors
<1> HIDE DEF c
<1>4. Accounted(d)
  BY <1>1, <1>3 DEF Accounted, Components
<1>5. Finish(UtilError(d))
  BY <1>2
<1> HIDE DEF d
<1>6. PICK x \in UtilError(d) : comp' = x.comp /\ status' = x.status
  BY <1>5 DEF Finish
<1>7. Uses(d, x) /\ Ended(x)
  BY <1>4, UtilErrorUses
<1> QED
  BY <1>1, <1>5, <1>6, <1>7, EndedLives DEF Uses

LEMMA CallbackFailsLives == ASSUME LInv, CallbackFails PROVE Life!LifeNext /\ Unstopped(comp')
<1>1. IInv /\ Stepping
  BY DEF LInv, CallbackFails
<1>2. PICK S : /\ Finish(S)
               /\ \A y \in S : /\ y.status = "Error"
                               /\ Accounted(y.comp)
                               /\ y.comp.mStatus = "Terminated"
  BY <1>1, CallbackFailsEnds
<1>3. PICK y \in S : comp' = y.comp /\ status' = y.status
  BY <1>2 DEF Finish
<1>4. y.comp \in Components /\ Ended(y)
  BY <1>2 DEF Ended, Accounted
<1>5. Life!LifeNext
  BY <1>1, <1>2, <1>3, <1>4, EndedLives
<1> QED
  BY <1>2, <1>3, <1>5 DEF Unstopped

LEMMA StepDoneLives == ASSUME LInv, StepDone PROVE Life!LifeNext /\ Unstopped(comp')
<1>1. /\ Stage = "stepping" /\ comp \in Components /\ Live(comp) /\ ~comp.terminationByModel
      /\ Finish({Return("OK", comp)})
  BY LoopFinds DEF StepDone
<1>2. /\ comp' = comp /\ status' = "OK" /\ phase' = "idle" /\ UNCHANGED saved
      /\ Return("OK", comp).comp = comp
  BY <1>1 DEF Finish, Return
<1>3. Stage' = StageOf(comp) /\ Kept' = Kept
  BY <1>2, StageAfter
<1>4. StageOf(comp) = "running"
  BY <1>1, StagesAre DEF Live
<1>5. Life!LifeNext
  BY <1>1, <1>2, <1>3, <1>4, LifeMoves
<1> QED
  BY <1>1, <1>2, <1>5 DEF Live, Unstopped

----------------------------------------------------------------------------
(* The end.                                                                *)

(* fmiTerminateSlave_ warns of a terminated instance, and else ends it.    *)
LEMMA TerminateSlaveAnswers ==
    ASSUME NEW c, Accounted(c), NEW x \in TerminateSlave(c)
    PROVE  /\ c.mStatus = "Terminated" => x.status = "Warning" /\ x.comp = c
           /\ c.mStatus # "Terminated" => x.status \in {"OK", "Error"}
BY DEF TerminateSlave, Return

LEMMA TerminateLives == ASSUME LInv, Terminate PROVE Life!LifeNext /\ Unstopped(comp')
<1>1. /\ IInv /\ Callable /\ comp \in Components /\ ~comp.aborted /\ Accounted(comp)
      /\ Finish(TerminateSlave(comp))
  BY CallFinds DEF Terminate
<1>2. PICK x \in TerminateSlave(comp) : comp' = x.comp /\ status' = x.status
  BY <1>1 DEF Finish
<1>3. phase' = "idle" /\ UNCHANGED saved
  BY <1>1 DEF Finish
<1>4. /\ Accounted(x.comp) /\ x.comp.mStatus = "Terminated" /\ ~x.comp.aborted
      /\ comp.mStatus = "Terminated" => x.status = "Warning"
      /\ comp.mStatus # "Terminated" => x.status \in {"OK", "Error"}
  BY <1>1, TerminateSlaveEnds, TerminateSlaveAnswers
<1>5. Stage' = "terminated" /\ Kept' = Kept
  BY <1>2, <1>3, <1>4, StageAfter, StagesAre DEF Accounted
<1>6. Stage \in Life!Resting /\ (Stage = "terminated" <=> comp.mStatus = "Terminated")
  BY <1>1, StageWhen, StagesAre
<1>7. Unstopped(comp')
  BY <1>2, <1>4 DEF Unstopped
<1>8. CASE status' = "Error"
  BY <1>5, <1>6, <1>7, <1>8, LifeFail
<1>9. CASE status' # "Error"
  <2>1. status' = IF Stage = "terminated" THEN "Warning" ELSE "OK"
    BY <1>2, <1>4, <1>6, <1>9
  <2>2. Life!LifeNext
    BY <1>5, <1>6, <2>1 DEF Stage, Kept, Life!LifeNext, Life!End
  <2> QED
    BY <1>7, <2>2
<1> QED
  BY <1>8, <1>9

LEMMA ResetLives == ASSUME LInv, Reset PROVE Life!LifeNext /\ Unstopped(comp')
<1> DEFINE S == CASE comp.mStatus = "Instantiated" -> {Return("OK", comp)}
                  [] comp.mStatus = "Terminated" -> {Return("OK", WithStartValues(comp))}
                  [] OTHER -> {IF x.status = "Error" THEN x
                               ELSE Return("OK", WithStartValues(x.comp)) :
                                 x \in TerminateSlave(comp)}
<1>1. /\ IInv /\ Callable /\ comp \in Components /\ ~comp.aborted /\ Accounted(comp)
      /\ Unstopped(comp) /\ Finish(S)
  BY CallFinds DEF Reset
<1>2. PICK y \in S : comp' = y.comp /\ status' = y.status
  BY <1>1 DEF Finish
<1>3. phase' = "idle" /\ UNCHANGED saved
  BY <1>1 DEF Finish
<1>4. Stage' = StageOf(y.comp) /\ Kept' = Kept
  BY <1>2, <1>3, StageAfter
<1>5. Stage \in Life!Resting
  BY <1>1, StageWhen
<1>6. ASSUME y.status = "OK", y.comp \in Components, y.comp.mStatus = "Instantiated",
             ~y.comp.aborted
      PROVE  Life!LifeNext /\ Unstopped(comp')
  <2>1. Stage' = "instantiated" /\ status' = "OK"
    BY <1>2, <1>4, <1>6, StagesAre
  <2>2. Life!LifeNext
    BY <1>4, <1>5, <2>1 DEF Stage, Kept, Life!LifeNext, Life!Reset
  <2> QED
    BY <1>2, <1>6, <2>2 DEF Unstopped
<1>7. CASE comp.mStatus = "Instantiated"
  <2>1. y = Return("OK", comp)
    BY <1>2, <1>7
  <2> QED
    BY <1>1, <1>6, <1>7, <2>1 DEF Return
<1>8. ASSUME NEW c, Accounted(c), ~c.aborted, y = Return("OK", WithStartValues(c))
      PROVE  Life!LifeNext /\ Unstopped(comp')
  <2> DEFINE d == WithStartValues(c)
  <2>1. Sound(d)
    BY <1>8, WithStartValuesSound
  <2>2. d \in Components /\ d.mStatus = "Instantiated" /\ ~d.aborted
    BY <1>8, <2>1 DEF Sound, Accounted, WithStartValues, Components
  <2> HIDE DEF d
  <2>3. y.status = "OK" /\ y.comp = d
    BY <1>8 DEF Return, d
  <2> QED
    BY <1>6, <2>2, <2>3
<1>9. CASE comp.mStatus = "Terminated"
  <2>1. y = Return("OK", WithStartValues(comp))
    BY <1>2, <1>9
  <2> QED
    BY <1>1, <1>8, <2>1
<1>10. CASE comp.mStatus \notin {"Instantiated", "Terminated"}
  <2>1. PICK x \in TerminateSlave(comp) :
           y = IF x.status = "Error" THEN x ELSE Return("OK", WithStartValues(x.comp))
    BY <1>2, <1>10
  <2>2. Accounted(x.comp) /\ x.comp.mStatus = "Terminated" /\ ~x.comp.aborted
    BY <1>1, TerminateSlaveEnds
  <2>3. CASE x.status = "Error"
    <3>1. y.comp \in Components /\ Ended(y)
      BY <2>1, <2>2, <2>3 DEF Accounted, Ended
    <3>2. Life!LifeNext
      <4> HIDE DEF S
      <4> QED
        BY <1>1, <1>2, <3>1, EndedLives
    <3> QED
      BY <1>2, <2>1, <2>2, <2>3, <3>2 DEF Unstopped
  <2>4. CASE x.status # "Error"
    BY <1>8, <2>1, <2>2, <2>4
  <2> QED
    BY <2>3, <2>4
<1> QED
  BY <1>7, <1>9, <1>10

LEMMA FreeInstanceLives == ASSUME LInv, FreeInstance PROVE Life!LifeNext /\ Unstopped(comp')
<1>1. /\ IInv /\ Callable /\ ~comp.aborted /\ Unstopped(comp)
      /\ ~saved.held /\ phase' = "freed" /\ UNCHANGED <<comp, saved, status>>
  BY CallFinds DEF FreeInstance
<1>2. Stage \in Life!Resting /\ Kept = "none"
  BY <1>1, StageWhen
<1>3. Stage' = "freed" /\ Kept' = Kept
  BY <1>1 DEF Stage, Kept, StageOf
<1>4. Life!LifeNext
  BY <1>1, <1>2, <1>3 DEF Stage, Kept, Life!LifeNext, Life!Free, Life!Moves
<1> QED
  BY <1>1, <1>4 DEF Unstopped

----------------------------------------------------------------------------
(* The refinement.                                                         *)

LEMMA InitLives == Init => LInv /\ Life!LifeInit
<1> SUFFICES ASSUME Init PROVE LInv /\ Life!LifeInit
  OBVIOUS
<1>1. IInv
  BY InitSound
<1>2. /\ comp.mStatus = "Instantiated" /\ ~comp.aborted /\ ~saved.held
      /\ phase = "idle" /\ status = "OK"
  BY DEF Init, NewInstance, NoState
<1>3. Stage = "instantiated" /\ Kept = "none"
  BY <1>2 DEF Stage, Kept, StageOf
<1> QED
  BY <1>1, <1>2, <1>3 DEF LInv, Unstopped, Stepping, Stage, Kept, Life!LifeInit

(* A call that has ended leaves the saved state, and no step goes on. *)
LEMMA FinishCourse ==
    ASSUME LInv, NEW S, Finish(S)
    PROVE  (saved'.held => Unstopped(saved'.comp)) /\ ~Stepping'
BY DEF Finish, LInv, Stepping

(* Every step of the instance is one of FmiLifecycle, or does not show.    *)
LEMMA NextLives ==
    LInv /\ [Next]_vars => LInv' /\ [Life!LifeNext]_Life!lifeVars
<1> SUFFICES ASSUME LInv, [Next]_vars
             PROVE  LInv' /\ (Life!LifeNext \/ UNCHANGED Life!lifeVars)
  OBVIOUS
<1>0. IInv'
  BY NextSound DEF LInv
<1>1. ASSUME NEW S, Finish(S), Life!LifeNext, Unstopped(comp')
      PROVE  LInv' /\ (Life!LifeNext \/ UNCHANGED Life!lifeVars)
  BY <1>0, <1>1, FinishCourse DEF LInv, Unstopped
<1>2. CASE SetupExperiment
  BY <1>1, <1>2, SetupExperimentLives DEF SetupExperiment
<1>3. CASE EnterInitializationMode
  BY <1>1, <1>3, EnterInitializationModeLives DEF EnterInitializationMode
<1>4. CASE ExitInitializationMode
  BY <1>1, <1>4, ExitInitializationModeLives DEF ExitInitializationMode
<1>5. CASE GetValues
  <2>1. ASSUME NEW demand \in Demands, NEW real \in BOOLEAN, Get(demand, real)
        PROVE  LInv' /\ (Life!LifeNext \/ UNCHANGED Life!lifeVars)
    BY <1>1, <2>1, GetLives DEF Get
  <2>2. CASE GetString
    BY <1>1, <2>2, GetStringLives DEF GetString
  <2> QED
    BY <1>5, <2>1, <2>2 DEF GetValues
<1>6. CASE GetRealOutputDerivatives
  BY <1>1, <1>6, GetRealOutputDerivativesLives DEF GetRealOutputDerivatives
<1>7. CASE SetValues
  <2>1. ASSUME NEW parameter \in BOOLEAN, Set(parameter)
        PROVE  LInv' /\ (Life!LifeNext \/ UNCHANGED Life!lifeVars)
    BY <1>1, <2>1, SetLives DEF Set
  <2>2. CASE SetString
    BY <1>1, <2>2, SetStringLives DEF SetString
  <2> QED
    BY <1>7, <2>1, <2>2 DEF SetValues
<1>8. CASE GetFMUstate
  <2>1. Life!LifeNext /\ Unstopped(comp') /\ Unstopped(saved'.comp)
    BY <1>8, GetFMUstateLives
  <2>2. ~Stepping'
    BY <1>8 DEF GetFMUstate, Callable, Stepping
  <2> QED
    BY <1>0, <2>1, <2>2 DEF LInv, Unstopped
<1>9. CASE SetFMUstate
  BY <1>1, <1>9, SetFMUstateLives DEF SetFMUstate
<1>10. CASE FreeFMUstate
  <2>1. Life!LifeNext /\ comp' = comp /\ ~saved'.held
    BY <1>10, FreeFMUstateLives
  <2>2. ~Stepping'
    BY <1>10 DEF FreeFMUstate, Callable, Stepping
  <2> QED
    BY <1>0, <2>1, <2>2 DEF LInv, Unstopped
<1>11. CASE DoStep
  BY <1>0, <1>11, DoStepLives DEF LInv, Unstopped
<1>12. CASE DoStepRefused
  BY <1>1, <1>12, DoStepRefusedLives DEF DoStepRefused
<1>13. CASE Integrate
  BY <1>0, <1>13, IntegrateLives DEF LInv, Unstopped, Integrate
<1>14. CASE StepEvent
  BY <1>0, <1>14, StepEventLives DEF LInv, Unstopped
<1>15. CASE SolverFails
  BY <1>1, <1>15, SolverFailsLives DEF SolverFails
<1>16. CASE CallbackFails
  BY <1>1, <1>16, CallbackFailsLives DEF CallbackFails
<1>17. CASE StepDone
  BY <1>1, <1>17, StepDoneLives DEF StepDone
<1>18. CASE Terminate
  BY <1>1, <1>18, TerminateLives DEF Terminate
<1>19. CASE Reset
  BY <1>1, <1>19, ResetLives DEF Reset
<1>20. CASE FreeInstance
  <2>1. Life!LifeNext /\ Unstopped(comp')
    BY <1>20, FreeInstanceLives
  <2>2. ~Stepping' /\ UNCHANGED saved
    BY <1>20 DEF FreeInstance, Stepping
  <2> QED
    BY <1>0, <2>1, <2>2 DEF LInv, Unstopped
<1>21. CASE UNCHANGED vars
  <2>1. UNCHANGED Life!lifeVars
    BY <1>21 DEF vars, Life!lifeVars, StageOf
  <2> QED
    BY <1>0, <1>21, <2>1 DEF vars, LInv, Unstopped, Stepping
<1> QED
  BY <1>2, <1>3, <1>4, <1>5, <1>6, <1>7, <1>8, <1>9, <1>10, <1>11, <1>12, <1>13, <1>14,
     <1>15, <1>16, <1>17, <1>18, <1>19, <1>20, <1>21 DEF Next

(* The entry points keep the promises FmiLifecycle makes to the master: an *)
(* error ends the instance, only an initialisation answered with OK leads  *)
(* to a run, a step is answered once, and what has ended comes back only   *)
(* by a reset or a restored state, at the stage that was saved.            *)
THEOREM LifecycleIsKept == Spec => KeepsLifecycle
<1>1. Init => LInv /\ Life!LifeInit
  BY InitLives
<1>2. LInv /\ [Next]_vars => LInv' /\ [Life!LifeNext]_Life!lifeVars
  BY NextLives
<1> QED
  BY <1>1, <1>2, PTL DEF Spec, KeepsLifecycle, Life!LifeSpec

----------------------------------------------------------------------------
(* The environments.                                                       *)

(* What makes StepStartsSynced inductive, where the environment is its.    *)
FatalInv == environment = "fatal" => Fatal!SInv

LEMMA FatalInvInit == EnvironmentInit => FatalInv
<1>1. Init => Fatal!Init
  BY DEF Init, Fatal!Init, NewInstance, Fatal!NewInstance, NoState, Fatal!NoState,
         Start, Fatal!Start
<1> QED
  BY <1>1, Fatal!SInvInit DEF EnvironmentInit, FatalInv

LEMMA FatalInvNext == FatalInv /\ [EnvironmentNext]_<<environment, vars>> => FatalInv'
<1>1. Fatal!QuietModel
  BY DEF Fatal!QuietModel
<1>2. Fatal!SInv /\ [Fatal!Next]_vars => Fatal!SInv'
  BY <1>1, Fatal!SInvNext DEF vars, Fatal!vars
<1> QED
  BY <1>2 DEF EnvironmentNext, FatalInv

(* With evaluations that fail for good or not at all, and parameters whose *)
(* events move the states, fmi2DoStep gives the solver the states that the *)
(* instance has, whatever was called since the step before.                *)
THEOREM FatalStepsSynced == EnvironmentSpec => []SyncedUnlessDiscarded
<1>1. FatalInv => SyncedUnlessDiscarded
  BY DEF FatalInv, SyncedUnlessDiscarded, Fatal!SInv, Fatal!StepStartsSynced
<1> QED
  BY <1>1, FatalInvInit, FatalInvNext, PTL DEF EnvironmentSpec
=============================================================================
