CONSTANTS
    Horizon = 5
    StopTime = 4
    StopTolerance = 1
    Deviations = {0, 1}
    MaxStepsBeforeReinit = 5000
    MaxStepsTotal = 100000
    StepsBeforeReinitFactor = 3
SPECIFICATION FairSpec
INVARIANTS
    TypeOK
    SolverTarget
    WithinStopTime
    BudgetHolds
PROPERTIES
    KeepsSchedule
    Answered
