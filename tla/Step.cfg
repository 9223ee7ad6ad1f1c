SPECIFICATION FairSpec
CONSTANTS
    QMax = 5
    MaxNcf = 3
    MaxNef = 6
    MaxNef1 = 3
    LongWait = 10
    Msbp = 2
    Msbj = 3
INVARIANTS
    HistoryIntact
    StepsRemembered
    NewtonSound
PROPERTIES
    OrderChosenFresh
    StepEnds
