SPECIFICATION FairSpec
CONSTANT
    MaxIter = 4
INVARIANTS
    TypeOK
    NothingLeftOver
PROPERTIES
    StepwiseAsAtOnce
    EventModeEnds
\* A terminated instance is at its end.
CHECK_DEADLOCK FALSE
