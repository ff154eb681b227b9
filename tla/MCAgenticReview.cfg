SPECIFICATION Spec
CONSTANTS
    NoFinding = NoFinding
    OtherFinding = OtherFinding
    NoReview = NoReview
    Findings = {1, 2}
    Rank <- Severity
    Manual = {}
    Plans <- SomePlans
    CardLists <- SomeCardLists
    Budgets <- SomeBudgets
INVARIANTS
    BudgetsRespected
    EveryCompletionAudited
    OnlyApprovedIsReported
    GateIsExact
    LatenessEndsTheStage
CHECK_DEADLOCK FALSE
