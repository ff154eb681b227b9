SPECIFICATION LiveSpec
CONSTANTS
    x = x
    y = y
    lower = lower
    q = q
    t = t
    o1 = o1
    o2 = o2
    Names = {lower, q, t, x, y}
    NameOrder <- Order
    Upper <- OneLower
    Begins <- Beginnings
    Options = {o1, o2}
    DefaultOptions = o2
    NoOptions = NoOptions
    NoRequest = NoRequest
    Requests <- SomeRequests
INVARIANTS EveryCallAccounted  RefreshRepeats
CHECK_DEADLOCK FALSE
