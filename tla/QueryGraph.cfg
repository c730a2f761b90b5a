SPECIFICATION Spec
CONSTANTS
    Configurations <- EveryGraph
    Ample = Ample
    GradeCap = 2
    MapCap = 2
    Sentinels = 2
CHECK_DEADLOCK FALSE
INVARIANTS
    TypeOK
    FanOutsReduce
    NetIsANet
    VerdictHeeded
    AcceptedIsJudged
    BudgetAnticipated
    OutageNotCached
PROPERTIES
    LoopsShareBudget
