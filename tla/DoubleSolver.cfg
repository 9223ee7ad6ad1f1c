CONSTANTS
    Faults = {}
    Disturbances = {}
    StringParameters = FALSE
    SnapshotModes = {"Instantiated"}
SPECIFICATION Spec
INVARIANT
    AssertionsHold
\* A freed instance, a failed assertion and a crashed solver end the run.
CHECK_DEADLOCK FALSE
