SPECIFICATION ClientFairSpec

CONSTANTS
    Clients = {c1}
    Calls = {x1, x2}
    Stubs = {x1}
    Misfits = {x2}
    NoCall = NoCall
    NoClient = NoClient
    Services = {s1}
    NoService = NoService
    NilResponses = TRUE

INVARIANTS
    OwnResponse
    ResultsReleased

PROPERTIES
    CtxBoundsCall
    CloseEndsCalls
    EveryCallReturns

\* The clients really stop: every call has been made.
CHECK_DEADLOCK FALSE
