SPECIFICATION Spec
CONSTANTS
    None = None
    Snapshots = {1, 2}
    Metadata = {1}
    SqlTerms = {3}
    Cap = 1
    Limits = {1, 2}
    Rank <- MCRank
    Workers = {w1, w2}
    Decisions = {"confirmed"}
INVARIANTS
    DecisionsSurvive
    AggregateIsComplete
    GlossaryIsOfTheSnapshot
SYMMETRY MCSymmetry
