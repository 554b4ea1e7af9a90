\* Everybody may stop: all calls made, the server drained or its process dead.
SPECIFICATION SystemFairSpec
CHECK_DEADLOCK FALSE

CONSTANTS
    Conns = {c1}
    Calls = {x1}
    NoCall = NoCall
    NoClient = NoClient
    Stubs = {}
    Misfits = {}
    NilResponses = TRUE
    Caps = {p, q}
    NoCap = NoCap
    RegisterWhileServing = TRUE
    AcceptErrors = FALSE

INVARIANTS
    SystemTypeOK
    RunByLiveService
    LossExplained
    FailuresTraced

PROPERTIES
    CancelEndsCalls
    ImplementsWrapper
