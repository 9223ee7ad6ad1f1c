CONSTANTS
    None = None
    N = 3
    Failures = 5
    Knowns = {1, 2}
    Derivatives = {0}
    NY = 1
    MaxKnowns = 1
    OtherSeeds = FALSE
    EvaluatesFirst = TRUE
    SavesComputed = FALSE
    MayFailTwice = FALSE
    Inputs = {1}
    Values = {0, 1}
    Rates = {0, 1}
    StartValue = 0
    Horizon = 2
    NamesSome = FALSE
    GoesOnAfterFailure = FALSE
SPECIFICATION Spec
INVARIANTS
    TypeOK
    LeavesInstance
    ComputedIsRight
PROPERTY
    DerivativeIsPresent
\* A step that failed with input derivatives pending and no FMU state to go
\* back to ends the run.
CHECK_DEADLOCK FALSE
