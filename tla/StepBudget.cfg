CONSTANTS
    Horizon = 3
    StopTime = 4
    StopTolerance = 1
    Deviations = {0}
    MaxStepsBeforeReinit = 5000
    MaxStepsTotal = 100000
    StepsBeforeReinitFactor = 3
SPECIFICATION Spec
INVARIANT
    StepsWithinTotal
