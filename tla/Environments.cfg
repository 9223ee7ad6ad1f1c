CONSTANTS
    Faults = {"recoverable", "failed"}
    Disturbances = {"initialisation", "parameters"}
    StringParameters = TRUE
    SnapshotModes = {}
SPECIFICATION EnvironmentSpec
INVARIANTS
    InstanceSound
    SyncedUnlessDiscarded
PROPERTY
    KeepsLifecycle
\* A freed instance, a failed assertion and a crashed solver end the run.
CHECK_DEADLOCK FALSE
