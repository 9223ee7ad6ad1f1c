CONSTANTS
    Faults = {}
    Disturbances = {}
    StringParameters = FALSE
    SnapshotModes = {}
SPECIFICATION Spec
INVARIANT
    ChangesHandled
\* A freed instance, a failed assertion and a crashed solver end the run.
CHECK_DEADLOCK FALSE
