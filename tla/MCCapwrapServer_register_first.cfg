SPECIFICATION FairSpec

CONSTANTS
    Conns = {k1, k2}
    Caps = {c1, c2}
    NoCap = NoCap
    RegisterWhileServing = FALSE
    AcceptErrors = FALSE

INVARIANTS
    NeverPanics
    IInv

PROPERTIES
    DrainsOnCancel
    AcceptsUntilStopped

\* The server really stops: every connection has ended and ctx is cancelled.
CHECK_DEADLOCK FALSE
