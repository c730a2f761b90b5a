SPECIFICATION Spec
CONSTANTS
    Configurations <- SelfRag
    Ample = Ample
    GradeCap = 2
    MapCap = 2
    Sentinels = 0
CHECK_DEADLOCK FALSE
INVARIANTS
    AlwaysAnswers
