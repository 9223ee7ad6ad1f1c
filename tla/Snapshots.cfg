CONSTANTS
    Faults = {"failed"}
    Disturbances = {}
    StringParameters = FALSE
    SnapshotModes = {"ContinuousTimeMode"}
SPECIFICATION Spec
INVARIANTS
    CacheHonest
    StepStartsSynced
    SolverReady
    RunningIsInitialised
    TerminalOnce
    ErrorEndsInstance
PROPERTY
    KeepsLifecycle
\* A freed instance, a failed assertion and a crashed solver end the run.
CHECK_DEADLOCK FALSE
