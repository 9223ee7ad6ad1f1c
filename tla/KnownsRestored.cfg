CONSTANTS
    Knowns = {1, 2}
    Derivatives = {0}
    NY = 1
    MaxKnowns = 2
    OtherSeeds = FALSE
    EvaluatesFirst = TRUE
    SavesComputed = FALSE
    MayFailTwice = FALSE
SPECIFICATION Spec
INVARIANT
    KnownsPutBack
