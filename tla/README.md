# Verification of the exported FMU runtime

This directory holds TLA+ specifications of the program in this repository that has
control flow worth checking: the C runtime of the FMU that Dymola exported from the
OpenIPSL example `SCRX`, in `src/DymolaWorkspace/~FMUOutput/sources` (called
`sources/` below). The specifications are checked with TLC on small instances and,
where it says so, proved with TLAPS for every value of their constants.

The build that is modelled is the one the FMU description names: FMI 2, co-simulation
and model exchange, the CVode solver (`FMU_SOURCE_CODE_EXPORT`, `FMI_VERSION == FMI_2`),
with FMU states (`canGetAndSetFMUstate`), without inline integration. Parts of the
runtime that the exported model happens not to call (delays, samplers, tables) are
modelled for any model that would.

Contents: 1 the system · 2 the modules · 3 the runs and their properties · 4 what does
not hold · 5 what is proved · 6 what is not modelled · 7 what was done and what is left.

## 1. The system and its parts

A *master* (the simulation environment) drives one *instance* of the FMU through the
C functions of the FMI 2 standard. Inside an instance the calls pass through four
layers that share one record, `Component`:

    master -- fmi2Functions.c                    logging wrappers
                 |
              fmiCoSimFunctions_int.c            co-simulation: life cycle, fmi2DoStep
              fmiCommonFunctions_int.c           get/set, FMU states, derivatives
              fmiMEFunctions_int.c               model exchange; time, states, callbacks
                 |
              util.c                             cache, deferred initialisation,
                 |                               events, termination on error
       integration.c, jac.c, cvode*              solver and its callbacks
                 |
              dsblock*.c, moutil.c               the model equations
              delay.c, dymtable.c                what they keep over time

| part | state it keeps | operations | what makes it correct |
|---|---|---|---|
| Evaluation of the equations (`dsblock1`–`6.c`, `moutil.c`) | `icall` (how many sections of the equations the cached values cover), error code `QiErr`, parameter counter; of an event `Iter`, `AnyEvent_`, when clauses armed; samplers and the next time event | run the sections a caller demands that the cache lacks; run all of them at an event; iterate events; terminal section | a section is never skipped although what it depends on changed; an event leaves nothing over; no instant is passed by |
| Cache, initialisation, events, errors (`util.c`) | `valWasSet`, `fmi2ComputeInit`, `mStatus` | `util_refresh_cache`, `util_initialize_model`/`_slave`, `util_event_update`, `util_error` | initialisation happens exactly when due, an error terminates the instance once and for all |
| Co-simulation interface (`fmiCoSimFunctions_int.c`, `fmi2Functions.c`) | `mStatus`, `reinitCvode`, `terminationByModel`, step state; input derivatives | instantiate, set up, enter/exit initialisation, step, terminate, reset, free, status queries | a step begins at the present states with a live solver; no step before initialisation or after an end; inputs follow what the master said |
| Values and FMU states (`fmiCommonFunctions_int.c`) | the saved states handed to the master; columns of directional derivatives | typed getters and setters; save, restore, free, serialise; directional derivatives | a getter answers with values of the present; a restored instance behaves as the saved one; a question changes nothing |
| Solver (`integration.c`) | `iData`: CVode memory and its own copy of the states; input extrapolation | set up, step, step to an event, restart, tear down, save/restore | allocated exactly while needed; restarted after anything moved the states |
| CVode (`cvode.c`, `cvode_dense.c`, vendored) | history array, order, step sizes, Newton matrix; bracket of the root search | a call, a step, the root search | every crossing is reported; the method uses only the history it has |
| Model exchange (`fmiMEFunctions_int.c`) | event-iteration state over three modes | event mode, new discrete states, continuous-time mode | an event iterated call by call ends where one evaluation would |
| Jacobian callback (`jac.c`) | increments, sparse column groups | evaluate, retry with smaller increments | retries end; perturbed states are put back; what is reported as computed is |
| Delay buffers (`delay.c`) | rings of past values, the position of the last search | write, read, decimate, reset | a read returns the history's value at the delayed time |
| Tables over time (`dymtable.c`) | the interval of the last event, its period | initialise, move on at events, interpolate | between events the time is in that interval |
| Result files, run-time libraries, MAT files | – | – | third-party or pure I/O |
| OpenIPSL library, CI scripts | – | – | declarative or scripts around external tools |

How they interact: all calls are synchronous. The instance never starts a thread. What
makes it hard is not parallelism but *protocol*:

* **Deferred work.** `fmi2EnterInitializationMode` does nothing but set
  `fmi2ComputeInit`; the initial equations are solved by whatever evaluates first. A
  setter only raises `valWasSet`/`reinitCvode` and lowers `icall`; the solver is told
  in the next `fmi2DoStep`. Any legal call may come between.
* **Callbacks.** CVode calls back into the model-exchange functions, whose error path
  (`util_error`) frees the solver that is calling them. The callbacks move time, states
  and inputs of the instance and have to put them back.
* **Partial failure.** An evaluation that fails has already raised `icall` to the
  section it failed in. `util_error` runs the terminal section, which may fail too. A
  difference that is half made when an evaluation fails leaves increments in the values.
* **Time travel.** `fmi2SetFMUstate` puts a state saved in one mode over an instance
  in any other, including terminated and reset ones. The solver goes back inside a step
  as well: rejected steps, located events.
* **Three ways to end.** `fmi2Terminate`, `fmi2Reset` and every error path end a run,
  and follow or call one another.
* **Positions kept from the last time.** The root search, the delays, the tables and the
  samplers all go on from where they ended, and rely on what happened since.

`PROJECT.json` lists these as hazards at the line where each bites, with the properties
that would catch it.

## 2. The modules

| module | models | of |
|---|---|---|
| `FmuComponent` | `Component` and the internal functions: `dsblock_did`, `util_refresh_cache`, `util_initialize_model`/`_slave`, `handleEvent`/`util_event_update`, `fmiTerminateSlave_`, `util_error`, `integration_setup`/`_reinit`/`_teardown` | `dsblock*.c`, `util.c`, `integration.c` |
| `CoSimInstance` | every entry point of the co-simulation interface from instantiation to `fmi2FreeInstance`, one action each; `fmi2DoStep` split at its integration loop | `fmiCoSimFunctions_int.c`, `fmiCommonFunctions_int.c`, `fmiMEFunctions_int.c` |
| `FmiLifecycle` | *abstract*: what an instance promises its master about its life | implemented by `CoSimInstance` |
| `StepLoop` | the loops inside `fmi2DoStep`, with time: that of `fmiDoStep_` from event to event, and that of `integration_step`, one action for each way CVode returns | `fmiCoSimFunctions_int.c`, `integration.c` |
| `EventSchedule` | *abstract*: what a step promises about simulated time and time events | implemented by `StepLoop` |
| `CVodeDriver` | a call of CVode: step loop, returns, and the search for roots (`cvRcheck1` to `3`, `cvRootfind`) | `cvode.c` |
| `SolverContract` | *abstract*: what `integration_step` expects of a call of CVode | implemented by `CVodeDriver` |
| `CVodeStep` | one step of CVode: prediction, Newton iteration and its matrix, error test, retries, choice of order and size | `cvode.c`, `cvode_dense.c` |
| `Jacobian` | the Jacobian callbacks, dense and sparse | `jac.c`, `integration.c` |
| `DirectionalDerivative` | `fmi2GetDirectionalDerivative` by differences, with the setters, getters and FMU states that act on what it keeps | `fmiCommonFunctions_int.c` |
| `InputSignals` | inputs with derivatives: over steps, callbacks, resets and FMU states | `fmiCoSimFunctions_int.c`, `integration.c` |
| `EventMode` | model exchange's event mode and the evaluation of the equations in it | `fmiMEFunctions_int.c`, `dsblock*.c` |
| `DelayRing` | the ring both delays are kept in | `delay.c` |
| `DelayBuffer` | the delay of a continuous signal (`delayWrite2`, `delayRead2`) | `delay.c`, `moutil.c` |
| `DiscreteDelay` | the delay of a discrete signal (`delayDWrite2`, `delayDnext2`, `delayDCFunction2`) | `delay.c` |
| `TimeEvents` | samplers (`sampleFunctionM`, `sampleFunctionM3`) and the merging of time events (`registerTimeEventNew`) | `dsblock4.c`, `dsblock5.c` |
| `TimeTable` | tables over time (`dymTableTimeIni2`, `dymTableTimeIpo2`) | `dymtable.c` |
| `MCCoSimInstance`, `MCStepLoop` | instantiations for TLC | |
| `MCEnvironments` | `CoSimInstance` in two environments at once | |
| `MCPerturbation` | `Jacobian`, `DirectionalDerivative` or `InputSignals`, one at a time | |
| `MCTimed` | a continuous or a discrete delay, samplers or a table, one at a time | |
| `CoSimInstance_proofs`, `MCEnvironments_proofs`, `StepLoop_proofs`, `CVodeDriver_proofs`, `CVodeStep_proofs`, `EventMode_proofs`, `MCPerturbation_proofs`, `MCTimed_proofs` | theorems about the module each is named for, and what it instantiates; section 5 | |

Which composes which: `CoSimInstance` EXTENDS `FmuComponent`. `StepLoop` opens what
`CoSimInstance` passes over as `Integrate`, `StepEvent`, `SolverFails` and `StepDone`;
`CVodeDriver` opens what `StepLoop` passes over as a call of CVode, and the two meet in
`SolverContract`; `CVodeStep` opens the `Step` of `CVodeDriver`; `Jacobian` is what
`CVodeStep` calls to evaluate a Jacobian. `InputSignals` is the same `fmi2DoStep` seen
from the inputs. The remaining modules are kept apart because the code keeps them
apart: they share no field but the next time event.

### The instance (`FmuComponent`, `CoSimInstance`)

*An internal function is an operator that returns the set of what it may leave.*
What the equations compute and whether they fail is the model's (SCRX's or another's)
affair; the runtime must cope with every outcome. So `Dsblock(c, demand)` is a set of
instances, `RefreshCache` a set of error/instance pairs, `UtilError`, `TerminateSlave`,
`HandleEvent` sets of status/instance pairs, and an entry point is the composition of
the calls its source makes, in the same order, with the same early returns. No
function is split into steps that the code does not interleave. The one entry point
that is split, `fmi2DoStep`, is split so that its loop is explicit: `DoStep` (up to the
loop), any number of `Integrate` and `StepEvent`, then `StepDone`, `SolverFails` or
`CallbackFails`. No other call is possible in between.

*State.* `comp` is the `Component`, `saved` the one FMU state the master holds, `status`
what the last call returned, `phase` whether the instance is idle, inside
`fmi2DoStep`, or freed. Of `Component` ten fields are taken over (`mStatus`, `icall`,
`valWasSet`, `fmi2ComputeInit`, `reinitCvode`, `terminationByModel`, `QiErr`, `iData`
as a Boolean, `newParameters` for a parameter counter the equations have not seen,
`aborted` for a failed assertion or the use of freed solver memory).

*Values are abstracted to history.* The arrays of times, states, inputs, parameters and
variables are replaced by the facts about them that the runtime's own decisions can
get wrong:

* `fresh` – the highest section whose cached values were computed from the present
  time, states, inputs and parameters. It is lowered by everything that changes one
  of these, and raised only by an evaluation that really ran the sections, from
  sections that were fresh. The code has no such field; `icall` is what it *believes*.
* `solved` – the initial equations have been solved for the present start values.
* `synced` – CVode would start from the present states and inputs.
* `changed` – a value was set and no event iteration looked at it since.
* `terminals` – how often the terminal section ran (saturating at 2, one more than
  allowed).

None of them is read by an action's guard or decides what the code does, with one
exception: `solved` tells `MovesStates` whether solving the initial equations again
can move the states.

*Other abstractions.* Simulated time is abstracted in `CoSimInstance`: whether a loop
iteration reaches the communication point or an event is free choice, and so is whether
a call comes past the stop time. Allocation succeeds. The user hooks are the empty ones
of `userfunc.c`. A setter with the value that is there already is the stuttering step
it is in the code. The list arguments of getters and setters are modelled as one
reference plus the outcome that a later one is unknown.

Constants: they describe the *model* that is run and the *master*, never the runtime.

* `Faults ⊆ {"recoverable", "failed"}` – how the equations may fail: `QiErr = 1`, which
  `fmi2GetReal`, `fmi2DoStep` and the callbacks treat as a discard, or any other code.
* `Disturbances ⊆ {"initialisation", "parameters"}` – which event iterations outside
  the ones `fmi2DoStep` itself makes may move the states (`reinit()` in the model).
* `StringParameters` – whether the model has string parameters that can be set.
* `SnapshotModes ⊆ Modes` – the modes in which the master saves the FMU state.

### The loops of `fmi2DoStep` (`StepLoop`)

Its variables are those of the two functions (`endStepTime`, `finalTimeEventCalled`;
`tout`, `mNextTimeEventIn`, the two step counters), the time, the next time event, and
of CVode that it was restarted and given an initial step size. `taken`, `exhausted` and
`turn` are histories that no guard reads. `pc` says where `fmi2DoStep` is. Each action is
one pass from one such place to the next.

Time is a natural number: the instants at which something happens, in their order.
The tolerance of the stop time is counted in instants. Comparisons of `double`s are
those of the code, exact; what rounding does to a sum is not modelled. A root CVode
returns lies strictly after its last return: `CVodeDriver` shows when that is so
(`RootAdvances` names the exceptions). Time events are what the equations register,
always later than the time they are registered at; `TimeEvents` shows that of samplers
and `TimeTable` of tables. Results are not stored (`storeResult` is false from
instantiation on), so `nextResultSampleTime` keeps its 1e100 and plays no part.

`StopTime`, `StopTolerance`, and `Deviations`, by how much the communication point a
master names may differ from the time the instance is at, are the master's; the three
numbers of steps are those of the code. `Horizon` is the only bound.

### The solver (`CVodeDriver`, `CVodeStep`)

`CVodeDriver` is `CVode` as `integration.c` uses it: `CV_NORMAL`, forward in time, no stop
time, all directions of crossing. Time is a grid whose unit is the tolerance of a root
(`ttol`), the same as the roundoff `troundoff` and `tfuzz` of a time. Event indicators are
their signs over the grid: the interpolant is taken to be the solution, and the solution
is chosen at a start of the solver (`Solutions`, `StartingAt`). What CVode is given back
at a restart is any indicator that begins anew. A step is one action of any length in
`StepSizes` (0 for a step below the roundoff, which CVode only warns about). The first step is
attempted with a size of `FirstSizes` (`h0u`), no longer than the way to `tout` (`cvHin`), and may
become shorter (`cvStep`). When an indicator is zero at a start, `cvRcheck1` looks where it
goes at `LookAt`: a tenth of that size later, or `ttol` if that is more (`cvode.c:3736`). `Tenth` is 10
in the code and 2 in the run, so that a look ahead is longer than `ttol` within its horizon.
`cvRootfind`
narrows its bracket to any inner instant: where the Illinois method places it is not
modelled. `told` (the sign the caller last learned of), `looked` (the instant at which the sign
the search compares with was taken), `stepEvent` and `advanced` are histories.

In `CVodeStep` numbers are abstracted to what the control tells apart: the history array is
the order of the polynomial in it and whether a prediction was made, remembered step
sizes and corrections are *how many steps ago* they were the last ones, `gamrat` is
whether it is near 1, farther away, or beyond the limits `cvDenseSetup` and
`cvNlsNewton` compare with. Outcomes of the Newton iteration, the error test and the
estimates are free.

### What displaces values and puts them back

`Jacobian`: the pattern of dependencies, the grouping of columns (`QJacobianCG_`) and every
failing evaluation are chosen by the environment; an entry is `right` if it is the
difference that it should be. Five attempts as in the code. `DirectionalDerivative`: a value
is which of the master's values it is and how far it is displaced; a result is which one
it is and what values it was evaluated with. `InputSignals`: integers; the reference is
`signal`, the line of each input as the master stated it.

### Events of model exchange (`EventMode`)

The equations are those any model is translated to, in small: a state, a discrete
variable that depends on its `pre` and on a relation of the state, one when clause with a
reinit. All such equations are explored (`Models`). The reference (`AtOnce`) is the same
event iterated inside one evaluation, as a co-simulation instance does it. The importer
calls getters and sets inputs between the calls and does not set states in event mode.

### What is kept over time

`DelayBuffer` keeps beside the ring `hist`, the whole signal as far as it counts: evaluations
go forward, stand still, and go back when a step is rejected or an event is located, to
where the step began at most (`reached`), and a step covers no more than `Span`. That
bound is the solver's: an error test that fails, a Newton iteration that does not
converge and a root all lie in the step under way. The properties need it (section 4).
`DiscreteDelay` has events in any order and the crossing functions that stop the solver. The one
that waits for a change has 1e-16 added to it (`delay.c:509`), so that it is still positive at the
instant the change is due (`NotDue`): the solver stops just after it, in the grid an
instant later, and an event it stops at for another reason may come at that instant.
`TimeEvents`: a unit of time is far below a sampler's interval; instants of different
samplers that agree but for rounding are a few units apart. The accuracy is constant,
where the code's grows with the size of the times. Samplers are evaluated, and register their
next instants, in one order, which is that of their numbers (`Merged` is
`registerTimeEventNew` called by one after the other). `TimeEventsAssumption` asks that an
interval is longer than both accuracies together, which are 1e-13 of the size of the
times, and that no instant up to the horizon, nor the one after it, reaches `Never` (1e100).
`TimeTable` (`TableAssumption`: abscissas in order, and a table ends before `Never`): a unit is the tolerance of
`timeLimit`, a millionth of the abscissa, zero at zero; values are the piece they are
interpolated on. Evaluations between events need no actions: `TableInPlace` asks of every
instant up to the next event what an evaluation there would use.

## 3. The runs

| run | module, configuration | environment and bounds | properties | states |
|---|---|---|---|---|
| `environments` | `MCEnvironments`, `Environments.cfg` | no snapshots; all faults, all disturbances and string parameters, and side by side fatal faults with parameter events | `InstanceSound`, `SyncedUnlessDiscarded`, `KeepsLifecycle` | 24 k |
| `snapshots` | `MCCoSimInstance`, `Snapshots.cfg` | fatal faults; states saved in a run, restored anywhere | `CacheHonest`, `StepStartsSynced`, `SolverReady`, `RunningIsInitialised`, `TerminalOnce`, `ErrorEndsInstance`, `KeepsLifecycle` | 378 k |
| `steps` | `MCStepLoop`, `Steps.cfg` | 5 instants, stop time 4, real step budgets; communication points in place or ahead | `TypeOK`, `SolverTarget`, `WithinStopTime`, `BudgetHolds`, `KeepsSchedule`, `Answered` | 368 k |
| `roots` | `CVodeDriver`, `Roots.cfg` | 2 indicators, 2 changes of sign, 4 units of time, steps of 0, 2 and 3, first attempted with 2 or 4 and looked ahead half of, 2 steps a call | `NothingMissed`, `RootReturned`, `InterpolatesInside`, `Answered`, `KeepsContract` | 1.23 M |
| `solver_step` | `CVodeStep`, `Step.cfg` | orders 1–5, 3 convergence and 6 error test failures, matrix kept 2 and Jacobian 3 steps | `HistoryIntact`, `StepsRemembered`, `NewtonSound`, `OrderChosenFresh`, `StepEnds` | 236 k |
| `event_mode` | `EventMode`, `EventMode.cfg` | 64 models, 4 iterations | `TypeOK`, `NothingLeftOver`, `StepwiseAsAtOnce`, `EventModeEnds` | 345 k |
| `perturbation` | `MCPerturbation`, `Perturbation.cfg` | 3 columns, 5 failures; 2 known variables; one input over 2 units of time | `TypeOK`, `LeavesInstance`, `ComputedIsRight`, `DerivativeIsPresent` | 3.9 M |
| `timed` | `MCTimed`, `Timed.cfg` | rings of 10 and 5 entries, steps of 3 units, a discrete delay of 3; 3 samplers of 7 clocks over 30 units; 36 tables started at 0 or 5, over 32 units | `HoldsHistory`, `ReadBrackets`, `AnswersDelayed`, `NothingLeftDue`, `SampledInTime`, `TableInPlace` | 354 k |
| `step_budget` | `MCStepLoop`, `StepBudget.cfg` | communication points in place | `StepsWithinTotal` **violated** | |
| `double_solver` | `MCCoSimInstance`, `DoubleSolver.cfg` | states saved before initialisation | `AssertionsHold` **violated** | |
| `set_get_step` | `MCCoSimInstance`, `SetGetStep.cfg` | nothing fails | `ChangesHandled` **violated** | |
| `knowns_restored` | `DirectionalDerivative`, `KnownsRestored.cfg` | 2 known variables asked for | `KnownsPutBack` **violated** | |

Every run is exhaustive for its constants. Deadlock is not checked where the system
stops: a freed instance, a failed assertion, a crashed solver, an evaluation that failed,
the end of the bounded time.

**Why the bounds are enough.** `CoSimInstance` has none: no counter but `terminals`, which
saturates, and at most one saved state (restoring reads only the state restored, so a
second adds nothing). The full product of its constants is too large only with
`SnapshotModes`, since a saved instance squares the state space; section 5 proves
what the runs leave out. `StepLoop`: five instants give three communication
steps, two events inside a step, one at its end, and a step clipped by the stop time;
nothing in the code looks at more than the next event. `CVodeDriver`: two indicators are the
fewest of which one can be zero while another crosses; the search looks at one step and
at the rest of the step before; a look ahead may reach half of the first step, its end when
that gets shorter, and beyond. `CVodeStep`: order 5 is the real one; `MSBP` (20) and `MSBJ`
(50) are compared with counters that saturate one past them, so that 2 and 3 keep
their order. `MaxIter` of an event is 25 in the code (`dsblock2.c:117`); the small models
converge within three iterations or never. `Jacobian`: three columns are the
fewest of which two share a group and one does not. The rings: ten entries are the fewest of
which a decimation drops several; the discrete one forgets its oldest entry within the
run. Samplers: the spread of instants (5 units, more than twice the accuracy of events)
makes chains of three in which each is close to the next and the ends are not. Tables:
jumps, intervals of no length at both ends and in the middle, negative abscissas, up to five
periods.

### What the properties say

Of the instance:

* `CacheHonest` – during a run every section a getter would take from the cache
  (`icall`) is one that was computed from the present values (`fresh`). It relates the
  setters, time, events, errors and restores, each of which must lower `icall`.
* `StepStartsSynced`, `SyncedUnlessDiscarded` (the same in the second environment of
  `environments`) – whenever `fmi2DoStep` lets CVode go on, CVode was given the
  states and inputs after the last thing that changed them.
* `SolverReady`, `RunningIsInitialised` – although initialisation is deferred, may be
  triggered by any getter, may fail, and may be jumped over by restoring a state, a run
  always has its solver and solved initial equations.
* `TerminalOnce` – the terminal section runs at most once per run, whatever mixture of
  `fmi2Terminate`, `fmi2Reset` and error paths ends it.
* `ErrorEndsInstance` – `fmi2Error` means that the instance is terminated, on every path
  (including an error while handling an error).
* `InstanceSound` – the inductive strengthening the proofs rest on, of the instance and
  of the saved state, checked in the wider environment.
* `KeepsLifecycle` – `CoSimInstance` implements `FmiLifecycle` under the refinement
  mapping at the end of `CoSimInstance`. The abstract specification knows nothing
  of caches, solvers or error codes: only which answer may lead from which stage to
  which, that a step is answered once, that a discarded step is the last one, and
  that a restore brings back exactly the stage saved.

Of the loops of `fmi2DoStep`:

* `KeepsSchedule` – `StepLoop` implements `EventSchedule`: time never runs back, moves
  only in a step, never past a time event nor past the end of the step; a step that
  succeeds has handled every time event up to its end, one at its very end included.
* `SolverTarget` – `integration_step` asserts `*tout > comp->time` when it begins; this
  says what is left of it while events happen on the way: the solver is sent neither
  back, nor past the end of the step, nor past a time event that a state event revealed
  after the target was computed.
* `WithinStopTime` – whatever tolerance a step past the stop time is granted, simulated
  time stays before it.
* `BudgetHolds` – the budgets that CVode is given in a row stay within
  `MAX_STEPS_TOTAL`, none is zero (which CVode takes for its default), and
  `integration_step` gives up only after CVode took the total.
* `Answered` – every call of `fmi2DoStep` returns (below).

Of CVode:

* `NothingMissed` – of a watched indicator no change of sign is passed by without a root
  return that names it. It is made of `StartsNonzero` (the precondition of `cvRootfind`),
  `NoneMissed` (the search goes on from the sign the caller was told, which is that of the
  indicator where the search last looked: where it stands, a roundoff later, or where the look
  ahead of the start was) and
  `SearchedToReturn` (everything before a return was searched, but for the roundoff).
* `RootReturned` – a root return names an indicator that is zero or crosses there
  (`RootIsThere`, but for a first step that ends before the look ahead), and is later than the last return (`RootAdvances`) except in the cases
  the property names.
* `InterpolatesInside` – `CVodeGetDky` is asked only for times within the last step. Its
  result is thrown away everywhere, so that outside it roots would be looked for in the
  vector an earlier call left.
* `KeepsContract` – `CVodeDriver` implements `SolverContract`, what `StepLoop` takes of CVode.
* `HistoryIntact`, `StepsRemembered`, `OrderChosenFresh`, `NewtonSound` – of a step: every
  prediction is undone at the order it was made at; the coefficients are made of the sizes
  of as many last steps as the order has; an order is chosen and raised with quantities of
  the last steps; the Newton iteration has a factored matrix and a saved Jacobian.
* `Answered`, `StepEnds` – calls and steps end.

Of what displaces values:

* `LeavesInstance` – after the Jacobian callback the states are those that were passed
  (`Jacobian!LeavesStates`), after a directional derivative getters answer of the master's
  values (`DirectionalDerivative!GettersPresent`), after callbacks the inputs are those of the
  instance's time (`InputSignals!InputsPutBack`); whatever failed on the way.
* `ComputedIsRight` – a Jacobian reported as computed has the right entries in the right
  places (`DenseIsRight`, `SparseIsRight`), and every evaluation of a step sees the inputs on
  the lines the master stated (`EvaluatedOnSignal`).
* `DerivativeIsPresent` – a directional derivative answered from kept columns is of the
  present values.

Of events and of what is kept over time:

* `StepwiseAsAtOnce` – an event iterated call by call, with values looked at between, ends
  where one evaluation would have: same states, discrete variables, armed when clauses and
  number of reinits; and it is given up only where one evaluation would have used up the
  iterations (together with those of an earlier event that was begun again). `NothingLeftOver` – afterwards nothing waits that a later evaluation
  would do. `EventModeEnds` – with a fixpoint or an error.
* `HoldsHistory` – the ring of a continuous delay is in order and holds nothing but the
  signal as it counts, after decimations, rejected steps and resets. `ReadBrackets` – every
  read is between neighbouring entries around the delayed time, from wherever the last
  search ended, and never before the oldest entry.
* `AnswersDelayed`, `NothingLeftDue` – a discrete delay answers the signal of a Delay ago all the
  while the solver goes on, but for the instant at which a change is due (section 4), and an
  event leaves none due, at its own instant neither, so that the iteration of events ends.
* `SampledInTime` – whatever events come between, a sampler is true once for each of its
  instants, the merged event passes none by for more than the accuracy, and time gets on
  from every event.
* `TableInPlace` – from an event to the one it registers, the table is on the piece its
  time is in, and that event is ahead.

Each property of a passing run has a mutant in `PROJECT.json`, a plausible mistake in a
mapped definition that makes TLC find the property violated. The mutated forms stand
before the definitions they are of.

**Fairness.** `CoSimInstance` assumes none and claims no liveness: no call is owed to an
instance. `StepLoop`, `CVodeDriver` and `CVodeStep` assume `WF_vars(Inside)` (`FairSpec`): a
call that was made runs on, for it is a plain function call, and the equations, the
linear solver and the user's functions are assumed to return. The calls themselves are
under no fairness. `Answered` of `StepLoop` is not obvious: a restart of the solver repeats an
iteration at the same time, CVode refuses to start when the target is where it
stands, and a time event at the end of the step is a reason to go on. `turn` flips in
every action inside a call, so that an iteration that changes nothing else still counts
as one. The assumption that carries it is about the model: events and roots do not
accumulate at one instant. `EventMode` assumes that an importer in event mode goes on
calling `fmi2NewDiscreteStates` until no further call is needed, as the standard asks
of it, and nothing of what it calls between.

## 4. What does not hold, and what the environments hide

Four runs show the code disagreeing with what it says itself:

1. **`double_solver`.** `integration_setup` asserts `comp->iData == NULL`
   (`integration.c:146`). `fmi2GetFMUstate`, `fmi2SetFMUstate` before initialisation
   sets up a solver "from scratch" (`integration.c:872-875`); the initialisation then
   does it again, and the assertion fails.
2. **`set_get_step`.** `fmiDoStep_` means to "handle any values changed externally"
   (`fmiCoSimFunctions_int.c:739`), and tests `valWasSet`; but every evaluation clears
   it (`util.c:264`). Set an input, get a variable, step: the event iteration for the
   changed input does not take place before the step.
3. **`step_budget`.** `MAX_STEPS_TOTAL` is the "maximum number if internal steps for a
   time step" (`integration.c:46`). CVode counts its steps anew in every call, and after
   each state event `integration_step` calls it again without having counted the steps
   it took: with events on the way a time step may take any number of steps.
4. **`knowns_restored`.** `fmiGetDirectionalDerivative_` displaces all known variables along
   the seed and, under "Restore", puts back only the first
   (`fmiCommonFunctions_int.c:2470` passes 1 for their number).

None shows up in the ordinary sequence of a master that sets, steps and gets, which
is why no test meets them.

The environments in which a property is known to fail, and which the passing runs leave
out by a constant, are reproduced by changing the constant in the configuration:

| property | fails with | because |
|---|---|---|
| `StepStartsSynced` | `"initialisation" ∈ Disturbances` | the solver is set up at the first evaluation; `fmi2ExitInitializationMode` iterates events after it and does not restart it (`util.c:566`) |
| `StepStartsSynced` | `"parameters" ∈ Disturbances` with snapshots in a run | a getter's evaluation after the restore moves the states and nothing asks for a restart |
| `StepStartsSynced` | `"recoverable" ∈ Faults` | an evaluation that is discarded may have moved the states already |
| `StepStartsSynced` | `"InitializationMode" ∈ SnapshotModes` | a state saved there after a set has a solver and unsolved equations; restoring it clears `reinitCvode`, and leaving the mode moves the states |
| `CacheHonest` | `"recoverable" ∈ Faults` | a discarded getter leaves `icall` raised by the section that failed; asked again, it answers what is there |
| `CacheHonest` | `StringParameters` | `fmi2SetString` does not lower `icall` (`fmiCommonFunctions_int.c:1285`) |
| `KeepsSchedule` | a negative number in `Deviations` | a step that ends before the present time puts the time back (`fmiCoSimFunctions_int.c:876`) and does not lower `icall`; up to the tolerance without even a warning |
| `LeavesInstance` | `NY = 2` | after a group of columns the saved outputs are put back at `outputs[ind-ind]` (`fmiCommonFunctions_int.c:2191`): the last one in place of the first |
| `LeavesInstance` | `MaxKnowns = 2` | the fourth finding above |
| `LeavesInstance` | `EvaluatesFirst = FALSE` | the baseline that is saved before, and "reset" afterwards, is that of an earlier evaluation, which is then believed to be current |
| `DerivativeIsPresent` | `SavesComputed = TRUE` | the flag that asks for new columns is saved with the FMU state and the columns are not: a state saved right after a derivative brings the cleared flag back over columns of other values |
| `LeavesInstance` | `MayFailTwice = TRUE` | when both evaluations of a difference fail along a seed, nothing is put back; by groups, fmi2OK is answered with 0 |
| `ComputedIsRight` | `NamesSome = TRUE` with two `Inputs` | inputs whose rates are not named keep those of an earlier step, or of a run that `fmi2SetFMUstate` went back from |
| `ComputedIsRight`, `LeavesInstance` | `GoesOnAfterFailure = TRUE` | a set, a step or `fmi2Reset` after a step that failed extrapolates from the lines of before (`useDerivatives` stays set, `fmiCoSimFunctions_int.c:408`) |
| `ReadBrackets` | a ring of 16 entries; evaluations that go on to 24 and back to 4 with `Delays` {0, 20}, within a step (`Span` = 24) or as the next run (`Starts` {0, 4}, `Span` = 1) | a decimation leaves old entries in the positions it frees, and the search that starts at one of them ends between it and one that is void since time went back |
| `ReadBrackets` | `Delay` = 5 = `Changes` (in `Timed.cfg`) | a full ring forgets its oldest change while it is still to be answered: the error the code reports as "Buffersize too small or too many changes" |
| `TableInPlace` | `GoesBack = TRUE` (in `MCTimed`) | tables are global, not part of an FMU state, and the search for the interval never goes back (`dymtable.c:2390`) |
| `TableInPlace` | `Exceptions = TRUE` (in `MCTimed`) | a table of one entry that starts later answers its value at events and 0 between them (`ipoPoint` stays 1, `dymtable.c:2366`); one whose last abscissa is 0, of extrapolation 0 or 1, registers the present time there, and the loop of `fmiDoStep_` does not end |

Cases that properties name as exceptions, because the code has them:

* `NothingMissed` is about watched indicators. One that was zero at a start and a moment
  later is left out (`gactive`); `cvRcheck1` returns before it looks at `gactive` again when
  no indicator is zero at a later start (`cvode.c:3733`), so that it stays out after a
  restart from where it is not zero, although the comment at `cvode.c:3914` says otherwise.
* When some indicator is zero at a start, those that are, and those left out before, get
  their sign from a look ahead by a tenth of the step that is about to be attempted
  (`cvode.c:3736`). `NothingMissed` claims nothing of what such an indicator does before: an even
  number of changes within the first tenth is passed by without a root, and so is the first
  of an odd number, although the indicator is then watched.
* `RootIsThere`: that step may become shorter than the look ahead, or another root may end the
  search before it. The sign taken ahead is then compared with an earlier one, and
  a change that is yet to come is returned as a root. TLC finds it with an indicator that
  was left out since an earlier start, is not zero, and changes its sign within the look ahead.
* `AnswersDelayed`: at the instant at which a change is due the crossing function is still positive
  by 1e-16 (`delay.c:509`), and the value before the change is answered, unless an event at that
  instant moves the delay on.
* `RootAdvances`: a root next to the last one is returned for the time of the last one
  (`CLOSERT` in `cvRcheck2`, the second zero at `cvode.c:1305`); steps below the roundoff of the
  time are only warned about (`cvode.c:1436`); a rest within the roundoff is left unsearched
  until the next call (`cvode.c:1312`).
* `ComputedIsRight` excepts columns none of whose attempts succeeded: the exit `k > 5`
  (`jac.c:152`) is never reached, because the loop ends at `k = 5`; the column is then made of
  the work vector and reported as computed.
* A periodic table with all abscissas equal divides by zero and looks for its period for
  ever (`dymtable.c:2373`); `Init` of `TimeTable` leaves it out.
* `EvaluatedOnSignal` excepts the evaluation of a state event: its time is set and the inputs
  are not moved there. `DerivativeIsPresent` does not claim anything about auxiliary variables, which
  a directional derivative leaves displaced (demand 3).
* `StepwiseAsAtOnce`, `NothingLeftOver`: an input changed after an evaluation leaves the reinit
  that evaluation asked for; changed after convergence, followed by a getter and
  `fmi2EnterContinuousTimeMode`, it makes one later (`disturbed`); a getter that
  fails recoverably between two calls may make a when clause fire twice. `Iter` is not reset when an
  event that has converged is begun again from the same event mode, and `icall` is not lowered
  by `fmi2EnterEventMode`: after more than 25 calls in one event the iteration is said to fail
  although nothing oscillates (`fmiMEFunctions_int.c:810` allows beginning again).

Met while reading, and not modelled: `fmi2GetRealOutputDerivatives` says "returning 0"
when no time has passed and divides by it all the same (`fmiCoSimFunctions_int.c:623`), and after
`fmi2Reset` its previous time is of the earlier run. The serialised FMU state has no
solver, no input derivatives (TODO comments at `fmiCommonFunctions_int.c:2986` and `3050`) and
not the last three members of the record; `sizeRequired` is static and trusted although string
parameters change it. `delayDDFunction2` registers the instant of a change and not of its
delayed answer (`delay.c:472`). `fmi2Reset` does not reset `delayID_`: the next run
goes on with the earlier ring (`DelayBuffer` has it, as `Reset`; its properties hold when all
runs begin at the same time).
Registering an instant, one an accuracy earlier and one two accuracies earlier drops the
middle one from the interval, which only splits the event. A change of input derivatives does
not restart CVode, whose step past the communication point keeps the old line.

## 5. What is proved

The modules `*_proofs` are checked by TLAPS from nothing but the assumptions on the
constants, named in the modules that declare them: the sets the constants are taken
from, and what the code's own constants satisfy (the first budget is within the total;
there is a step to take; orders go up to two at least). The theorems hold for *every* such
choice, thus also for the products TLC cannot exhaust: early snapshots and recoverable
faults, any number of indicators, states, inputs and columns, and any horizon. Some
have a further hypothesis, stated in the theorem and explained here; section 4 shows
what happens without it.

| theorem | says |
|---|---|
| `TypeCorrect`, `AlwaysSound` | `Spec => []TypeOK`, `Spec => []InstanceSound` of `CoSimInstance` |
| `RunHasSolver` | `Spec => []SolverReady`: the assertion before the loop of `fmiDoStep_` never fails |
| `RunIsInitialised`, `TerminalRunsOnce`, `ErrorTerminates` | `Spec => []RunningIsInitialised`, `[]TerminalOnce`, `[]ErrorEndsInstance` |
| `CacheIsHonest` | `NoDiscards` implies `Spec => []CacheHonest` |
| `StepsStartSynced` | `QuietModel` implies `Spec => []StepStartsSynced` |
| `LifecycleIsKept` | `Spec => KeepsLifecycle`: the refinement of `FmiLifecycle`, for all constants |
| `FatalStepsSynced` | `EnvironmentSpec => []SyncedUnlessDiscarded` of `MCEnvironments` |
| `StepTypeCorrect`, `BudgetIsKept` | `Spec => []TypeOK`, `[]BudgetHolds` of `StepLoop`, for all limits and factors |
| `SolverTargetIsKept`, `StopTimeIsKept`, `StepIsSound` | `NoLag` implies `Spec => []SolverTarget`, `[]WithinStopTime`, `[]StepSound` |
| `ScheduleIsKept` | `NoLag` implies `Spec => KeepsSchedule`: the refinement of `EventSchedule` |
| `DriverTypeCorrect`, `NothingIsMissed`, `InterpolationIsInside`, `RootsAreReturned` | `Spec => []TypeOK`, `[]NothingMissed`, `[]InterpolatesInside`, `[]RootReturned` of `CVodeDriver` |
| `ContractIsKept` | `Spec => KeepsContract`: the refinement of `SolverContract` |
| `StepperTypeCorrect`, `HistoryIsIntact`, `StepsAreRemembered`, `NewtonIsSound` | `Spec => []TypeOK`, `[]HistoryIntact`, `[]StepsRemembered`, `[]NewtonSound` of `CVodeStep` |
| `OrderIsChosenFresh` | `Spec => OrderChosenFresh`, an action property |
| `StatesAreLeft`, `JacobianIsRight` | `Spec => []LeavesStates`, `[]ComputedIsRight` of `Jacobian`, of any size, dense and compressed |
| `SignalsAreFollowed` | `Orderly` implies `Spec => [](EvaluatedOnSignal /\ InputsPutBack)` |
| `PerturbationTypes`, `InstanceIsLeft`, `ComputedIsAlwaysRight` | `Environment` implies `Spec => []TypeOK`, `[]LeavesInstance`, `[]ComputedIsRight` of `MCPerturbation` |
| `DerivativeIsOfPresent` | `Environment` implies `Spec => DerivativeIsPresent`, an action property |
| `EventTypes`, `EventIsOver` | `Spec => []TypeOK`, `[]NothingLeftOver` of `EventMode`, for any bound on the iterations |
| `StepwiseIsAtOnce` | `Spec => StepwiseAsAtOnce`, an action property: the event iterated at once is the reference |
| `HistoryIsHeld` | `Spec => []HoldsHistory` of `MCTimed`: both rings, of any size |
| `ReadsAreBracketed` | `StepsFit`, `RunsBeginAlike` and `ChangesFit` imply `Spec => []ReadBrackets` |
| `DelayedIsAnswered`, `NothingStaysDue` | `Spec => []AnswersDelayed`, the instant a change is due excepted, and `Spec => NothingLeftDue`, an action property |
| `SamplersAreInTime` | `Spec => []SampledInTime`: any number of samplers, any clocks, accuracies and horizon |
| `TablesAreInPlace` | `Spec => []TableInPlace`: any tables and starts, over events, saves and restores within an interval |

**The instance.** The invariant is `IInv == TypeOK /\ InstanceSound`. The properties alone
are not inductive. `TerminalOnce` needs that a live instance has *not yet* run its
terminal section (`Accounted`). `SolverReady` needs that an instance in initialisation mode
either has its initialisation still before it or has a solver already, and that a
saved state is as sound as the instance was (`SavedSound`), else restoring it would break
everything. `ErrorEndsInstance` needs that only a running instance steps. Each
internal function has a lemma about everything it may leave (`EvaluatedKeeps`,
`InterruptedKeeps`, ..., up to `UtilError`, `RefreshCache`, `HandleEvent`): same mode, or
terminated and accounted for. An action is then the composition of a few lemmas, and
the step theorem has one case per action of `Next`.

`CacheIsHonest` adds that the instance *and the saved state* are honest (`HInv`): from an
honest cache, or at an event from any cache, an evaluation leaves an honest cache
unless it fails, and a failure without discards ends the run. `NoDiscards` (faults are
fatal, no string parameters) is not for the prover's convenience.

`StepsStartSynced` adds to `IInv` (`SInv`) that the instance is `Followed`: once it is set up,
its solver has the present states, or `reinitCvode` notes that it has not, or the model
has asked to terminate; while it is being initialised that includes the equations the next
evaluation would still solve; and parameters no evaluation has seen have raised
`valWasSet` and `reinitCvode`, so that the next step sees them first. Inside a step the
solver has the states. `QuietModel` is the conjunction of the
conditions section 4 lists for `StepStartsSynced`: fatal faults, no string parameters, no
`"initialisation"` disturbance, no states saved in initialisation mode, and parameter events that
move the states only without snapshots. It covers the runs `snapshots` and the second
environment of `environments`, for which `FatalStepsSynced` states it: the invariant is that of
`CoSimInstance_proofs` under the substitution that makes the faults fatal.

`LifecycleIsKept` needs of an instance more than `IInv`: one that initialises anew is not one its
model has stopped (`Unstopped`), or leaving initialisation would lead from `initialising` to
`stopped`; the same of the saved state; and no step goes on with a stopped one (`LInv`). For
each helper it is shown what it may answer together with what it leaves (`Uses`, `Ended`), and
each entry point is then one step of `FmiLifecycle`, or leaves the stage as it is and
answers what a use may answer. `LInv` assumes nothing: early snapshots, recoverable
faults and all disturbances are included, which TLC can exhaust only separately.

**The loops.** `BudgetInv` adds to `BudgetHolds` that what was granted before the present
budget has been taken (`WithinBudget`); giving up at the total then means having taken
the total. Types depend on it: the next budget is a natural number only because the
total does not shrink below what is accumulated. `ScheduleInv` adds `OnSchedule` to
`SolverTarget` and `WithinStopTime`: an instance that can be called has its next event
*strictly* ahead, `finalTimeEventCalled` is set only at the end of the step and only when
the event there is dealt with before the loop tests again, and `tout` never exceeds the
time event known when `integration_step` began; the last is why comparing with
`mNextTimeEventIn` (`integration.c:526`) loses nothing. `NoLag` says that `Deviations` has no
negative member.

**The solver.** `CVodeDriver`'s invariant has three parts: `Phases` (which variables are of
this call in which place), `Positions` (`tlo`, `thi`, `tout`, `tretlast` relative to the last
step), and `Signs` (`glo` is the sign the caller was told, nonzero where watched). Two parts of
`Signs` say where that sign is from: `Known` that it is the one at `looked`, `Near` or `Ahead` that this
is where the search stands, a roundoff later, or a look ahead of `h0u` (`LookIsInside`: any
size, any `Tenth`). A return in the middle of a step leaves `tlo` behind `tn`, so positions at entry differ for each kind of
last return. `ContractIsKept` needs one more fact, `NoneClose`: a call that ended within the
roundoff left no zero next to the last root that would be returned in place of an
answer to the new call.

`CVodeStep`'s invariant is `Limits` (counters below what ends the step), `Sizes` (which of
the remembered sizes are of the last steps, as a function of the order and `qwait`), `Newton`
(a matrix exists once a setup succeeded, and a saved Jacobian whenever the next setup
would use it) and `Fresh` (between the choice of an order and its use nothing that it was
made of is overwritten). `qwait` carries the argument: it is what keeps the order from growing
faster than sizes are remembered.

**What is displaced.** For `Jacobian` the invariant says how far the computation is: by groups,
the columns of the groups before are right and the present group's rows are disjoint
(`RowsApart`); by columns, those before. That the entry of a column is made of that column alone
follows from the disjointness, which is what a grouping is for. `Sized` is the
assumption on its constants. For `InputSignals` it says which fields of `ipData` are live: with
derivatives, `signal` is the line of `ipData` (`Agree`); without, inputs are constant from
where they were set (`AtStart`). `Orderly` (all rates are named, and a master goes back to a saved
state after a failure) is the complement of the last rows of section 4.

A compressed matrix adds that the rows of a column are the ones between its pointers
(`CompressedColumns`), which is a statement about cardinalities: the places of a column's
entries are counted from what stands before them.

`DirectionalInv` says what is known between calls: what a getter answers is of the
master's values up to the section `icall` names (`AreOf`), columns that are kept
are of the present values unless the flag asks for new ones (`KeptArePresent`), a saved state
brings the flag (`SavesRecompute`). In the middle of a call one value or none is
displaced (`Computing`), and the columns of the groups before are done. `Environment` collects
`OneKnown` (one known variable is asked for at a time, there is at most one output, the derivatives were
evaluated before, no state is saved right after a call, one of the two evaluations of a
difference succeeds) and `Orderly`: each part is the complement of a row of section 4, and
`Perturbation.cfg` satisfies all of them.

**Event mode.** `IInv` adds to `NothingLeftOver` that an event which has ended without a change from
outside was evaluated to its end (`ExitIsEvaluated`), and that `Iter` exceeds the
bound only when the instance has failed (`CountedIter`).

`StepwiseIsAtOnce` compares two executions of the same event. The reference is the sequence of
states the iterations of one evaluation go through (`IsRun`); it is a recursive function, and
that it exists (`RunExists`) and, once it has ended, stays as it is (`RunEnds`) is shown by the
least number for which it would not. `SInv` adds to `IInv` that the instance is where
some number of iterations leads from the state the event began in (`Reached`), or that
nothing but the input was changed since (`Unmoved`). What the instance is there is an
*image* of the reference (`Image`): after a call a reinit that is due is still to be made and a
when clause still to be armed, and `pre` follows in the next call. A
getter between two calls evaluates the same iteration again, and comes to the same
(`SameAgain`, `FirstCallAgain`); the next call makes one iteration more (`OneMore`,
`NextCall`). The calls may take one iteration more than the reference does, which changes
nothing (`NothingMore`). While this was proved the property was tightened:
an event is given up only when the reference takes `MaxIter` iterations, where it had
said `MaxIter - 1`.

**Delays.** The proofs look at a ring as the sequence of entries it holds, from the
oldest to the newest (`At`, `Of`): with those, what dropping, storing and decimating do is
stated once (`DroppedIs`, `PutIs`, `DecimatedIs`), without the arithmetic of positions. That
a decimated sequence is again in order rests on `Slot`, which grows by at most one from entry to
entry, so that the entries moved up are apart (`MoversSpread`) and the oldest is one of them.

`RingInv` is what the ring of a continuous delay holds: entries of the signal, a unit apart or
more, the oldest of them before every instant that will ever be read. `SearchInv` is about
where the next search starts, which is the hard part: `old` is not adjusted when entries are
dropped or moved, so that it may point at what is no entry any more. It says that such a position
still has a value that was once dropped or left behind by a decimation, that those left
behind are in order and that no entry held lies between two neighbours of them (`Remains`). A
search from there then runs through what is left behind into the ring and ends between
neighbours (`SearchEnds`). Three hypotheses are needed, and TLC's configuration
satisfies them; `Gap` is the number of entries a decimation leaves out:

* `StepsFit == Span + Gap <= Buffersize`: a step does not go back over more
  instants than the ring has entries that are written after a decimation. The code has
  20000 entries.
* `RunsBeginAlike`: a decimation leaves one entry behind, or all runs begin at the same time.
  `delayID_` is not reset, so what an earlier run wrote is in the ring of the next. In a
  ring of 20000 entries it leaves thousands behind, so that a reset followed by a
  run from a later start time is a case the code does not handle.
* `ChangesFit == Delay < Changes`: there are fewer changes in a delay than a ring has
  entries, what the code's error message asks for.

The invariant of a discrete delay (`ChangeInv`) relates the ring to *all* changes of the signal
since the oldest one held: each of them has the value of the latest entry before it
(`Tells`), although a change to the value that is there already is not stored and a later
change at the same instant replaces one. And the change that is answered is the
last one that came due, or the next one comes due just now (`Answers`). That is
preserved while the solver goes on because it stops where a crossing function changes sign:
the instant after the change was due, which is why the value before may be answered at the one
at which it is (`NoneDue` against `NotDue`).

**Samplers.** The invariant says of each sampler by itself (`SamplerInv`) that it was true as
often as it has instants before the next one of its clock (a cardinality: `Before`), and of
all together (`SamplersInv`) that the interval of the next time event begins at or before
every instant registered, is no longer than the accuracy, and lies ahead. The counts move by
one or not at all because an event is never later than the first instant registered and
the accuracy (`DueStep`): there is at most one instant of a clock on the way (`OnPhaseBrackets`), and
the sampler is true when it is one of its phase (`PassedIsOnPhase`). The order of
registrations matters to the interval that results, and not to what is claimed of it
(`Together`, `MergedIs`): each registration keeps the interval that short and its beginning
the earliest so far (`RegisteredIs`).
`SamplersAssumption`, which TLC evaluates, is the only hypothesis.

**Tables.** The invariant says of the table, and of a saved state, that it is `Placed`: before its
start, of one entry, or in an interval whose end has not come and that follows one whose
end has (`InInterval`), with an offset that is a whole number of periods, in a period the time
is in but for a unit (`InPeriod`). `OffsetIs` shows that one of the three periods the
code tries (one less and one more than the quotient says) is the right one, `PeriodIs` that the
remainder the reference takes is then the time minus the offset, and `PieceIs` that the
piece that is used is that of the reference for a time at most two units away, up to the
next event. Which intervals have no length, whether tolerances overlap, and
where the event is one that lies beyond the table are its cases. Restoring is
included when it does not leave the interval (`GoesBack = FALSE`, section 4).

Divisions by a period and products with it are nonlinear arithmetic. They stand in a few
lemmas alone (`Products`, `Division`, `Remainder`), of which the rest uses what
they say about order; products are hidden behind names where they are used.

**What the proofs corrected.** `DelayBuffer` first let evaluations go back any distance;
the proof of `SearchEnds` failed for rings with larger gaps, with a search that ends in void
entries, and TLC had not seen it because its ring is smaller. The bound is now where the
solver has it. `StageOf` had a `CASE` with two guards true at once for an instance that failed
an assertion; `Groupings` quantified over a set that was parsed otherwise than meant. Neither
changed what TLC found.

**Only model-checked.** Every safety invariant and every action property of the passing runs is
stated by a theorem. Liveness (`Answered` of `StepLoop` and of `CVodeDriver`, `StepEnds`, `EventModeEnds`) stays with
TLC: fairness needs `ENABLED`, which is out of the prover's reach. The library's
induction theorems are too, so that what a recursive function computes is shown by the least
number for which a claim would fail (`LeastIs`), in `MergedIs` and for the runs of `AtOnce`.
What the four runs of section 4 violate is of course not a theorem.

## 6. What is not modelled, and why

* Wrappers in `fmi2Functions.c` (logging only) and message texts.
* `fmi2CancelStep` and the `fmi2GetStatus` family read at most the time and
  `terminationByModel` and change nothing; `fmi2HybridDoStep` is compiled only with
  `HYBRID_COSIM`. `fmi2GetRealOutputDerivatives` is modelled as an evaluation only, without its
  values. Serialisation copies bytes; what restoring a state without a solver does is
  modelled.
* `mInlineIntegration`, `SAVE_STATE_SUNDIALS`, FMI 1 and FMI 3: not in this build.
* Directional derivatives with an analytic Jacobian or with discrete states
  (`AdvancedDiscreteStates`): the generated code has neither. One known variable with a seed that is
  not 1, in a model with column groups, takes the other branch (`fmiCommonFunctions_int.c:2047`):
  `OtherSeeds` admits it, the theorems hold with it and without, and the run leaves it out
  because the states it multiplies are too many.
* Of CVode: Adams method and functional iteration, `CV_ONE_STEP`, the stop time, stability limit
  detection, the size of the first step (`cvHin`), the sparse linear solver: `integration.c`
  does not use them, or they are numerical without control. The linear algebra.
* Of model exchange: instantiation, reset and result sampling; completed integrator steps.
* Of delays: the variant with time events (`delayDDFunction2`) and the spatial distribution
  (`transportPut2`, `transportGet2`). The exported model has neither; of the second no caller
  is in the repository, so that nothing says in which order it would be called.
* Of the evaluation: homotopy, relations with hysteresis, `CheckForEvents`, and the helper
  functions of `moutil.c` the generated equations call: their meaning is in the equations.
* Of tables over time: interpolation by splines (`ipoType` 1, `dymtable.c:2438`), which uses
  the neighbours of an interval as well; `TimeTable` has the linear one.
* Tables of one and two arguments, table files and MAT files (`ModelicaMatIO.c`,
  `ModelicaStandardTables.c`, most of `dymtable.c`), `matrixop.c`, `tpl.c`, `dymf2c.c`, `Modelica*.c`,
  `csvutil.c`: third-party or generated support code and input/output. These are more
  than half of the lines in `sources/`; what a model could say of them is what a numerical
  library computes. That is why the share of the code that is mapped stays low while
  the code with control flow of its own is covered.
* `OpenIPSL/`, the `SCRX` model and the CI scripts: no program to model.
* Rounding in sums of times: comparisons are exact, tolerances are units of a grid.

## 7. What was done and what is left

Done, in the order of importance: the instance and its promises; the loops of a step; delays,
callbacks and directional derivatives; CVode's driver and step; the environments; event
mode; input derivatives; samplers and tables; and the proofs above.

Left: `TimeEvents` joined with `StepLoop` and a table or a delay, so that the assumption that time
events lie ahead becomes a refinement (`SamplersAreInTime` and `TablesAreInPlace` prove it of each
by itself); the time-event variant of the discrete delay; a
round trip of a serialised state whose solver is set up from the values alone; a module
that joins `StepLoop` to `CoSimInstance`, so that restores and resets move its time.
