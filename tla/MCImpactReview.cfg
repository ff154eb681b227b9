SPECIFICATION LiveReviewSpec
CONSTANTS
    n1 = n1
    n2 = n2
    n3 = n3
    n4 = n4
    n5 = n5
    n6 = n6
    text = text
    nothing = nothing
    NoNode = NoNode
    Unknown = Unknown
    Nodes = {n1, n2, n3, n4, n5, n6}
    Start = n1
    EdgeIds = {1, 2, 3, 4, 5, 6}
    Queries <- SomeQueries
    Names <- TheNames
    Called <- CalledSo
    Mentions <- MentionedBy
    LookupLimit = 1
    AsksOf <- MCAsksOf
INVARIANTS EdgesJoinVisitedNodes UntruncatedIsComplete TruncatedLeftSomethingOut LevelsAreDistances NoMissingEvidence FindingsAreTheReach EvidenceIsShortestPath AffectedAreTheLineage ReviewsAreWhole
PROPERTY EveryRequestIsAnswered
CHECK_DEADLOCK FALSE
