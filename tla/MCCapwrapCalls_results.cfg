SPECIFICATION Spec

CONSTANTS
    Clients = {c1}
    Calls = {x1, x2, x3}
    Stubs = {}
    Misfits = {}
    NoCall = NoCall
    NoClient = NoClient
    Services = {s1}
    NoService = NoService
    NilResponses = TRUE

SYMMETRY Symmetry

INVARIANTS
    TypeOK
    CallsInv
    OwnResponse
    ErrorsExplained

PROPERTIES
    ImplementsUnaryCalls

\* The clients really stop: every call has been made.
CHECK_DEADLOCK FALSE
