SPECIFICATION LiveSpec
CONSTANTS
    upper = upper
    lower = lower
    other = other
    root = root
    sub = sub
    Names = {upper, lower, other}
    Nameless = Nameless
    Folders = {root, sub}
    PathOf <- OnePath
    Answers <- AllAnswers
    Workers = {w1, w2}
    Nobody = Nobody
INVARIANTS LiveAnswersAreOfTheirTime
PROPERTIES ImplementsFolderCache RequestsEnd
