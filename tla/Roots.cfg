SPECIFICATION FairSpec
CONSTANTS
    G = {g1, g2}
    g1 = g1
    g2 = g2
    Horizon = 4
    StepSizes = {0, 2, 3}
    FirstSizes = {2, 4}
    Tenth = 2
    MaxSteps = 2
    MaxChanges = 2
INVARIANTS
    NothingMissed
    
    InterpolatesInside
PROPERTIES
    Answered
    
