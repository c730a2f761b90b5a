INIT Init
NEXT Next
CHECK_DEADLOCK FALSE
INVARIANTS
    RankingIsSound
    ChunksAreWhole
    StatementsAreGuarded
    AnswersAreChecked
    EvaluationIsFair
    KnowledgeIsKept
