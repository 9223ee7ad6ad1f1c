CONSTANTS
    None = None
    Buffersize = 10
    Values = {0}
    Starts = {0, 1}
    Horizon = 10
    Forward = 1
    Span = 3
    Delays = {0, 9}
    Reach = 11
    Changes = 5
    Levels = {0, 1}
    EventHorizon = 7
    Delay = 3
    Past = 2
    SamplerCount = 3
    Clocks <- SomeClocks
    Accuracy = 2
    SampleAccuracy = 5
    Iterations = 2
    SampleHorizon = 30
    Tables <- SomeTables
    StartTimes = {0, 5}
    TableHorizon = 32
    Never = 1000
SPECIFICATION Spec
INVARIANTS
    HoldsHistory
    ReadBrackets
    AnswersDelayed
    SampledInTime
    TableInPlace
PROPERTY
    NothingLeftDue
\* A failed evaluation and the end of the bounded time end the run.
CHECK_DEADLOCK FALSE
