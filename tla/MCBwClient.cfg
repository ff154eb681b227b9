SPECIFICATION LiveSpec
CONSTANTS
    CookieNames = {sid, other}
    FileCookies = {sid}
    TTL = 1
INVARIANTS
    ReadsAreInSession
    BoundedRequests
    ExpiryIsInvisible
PROPERTIES
    FetchesEnd
