SPECIFICATION SerialSpec
CONSTANTS
    s1 = s1
    s2 = s2
    p1 = p1
    None = None
    Marker = Marker
    Keep = Keep
    Settings = {s1, s2}
    Secrets = {p1}
    ProcessEnv <- EmptyEnv
    Workers = {w1, w2}
    PutRequests <- Puts
    EnvStarts <- PlainStarts
INVARIANTS LiveCallsUseTestedBw RestartLoadsSaved
