SPECIFICATION Spec

CONSTANTS
    Conns = {k1, k2, k3}
    Caps = {c1, c2, c3}
    NoCap = NoCap
    RegisterWhileServing = TRUE
    AcceptErrors = TRUE

SYMMETRY Symmetry

INVARIANTS
    TypeOK
    IInv
    RefsCountOwners
    ShutDownWhenUnheld

PROPERTIES
    ConnEndsOnlyWhenDone

\* The server really stops: every connection has ended and ctx is cancelled.
CHECK_DEADLOCK FALSE
