SPECIFICATION FairSpec

CONSTANTS
    Conns = {k1, k2}
    Caps = {c1}
    NoCap = NoCap
    RegisterWhileServing = FALSE
    AcceptErrors = TRUE

PROPERTIES
    AcceptsUntilStopped

\* The server really stops: every connection has ended and ctx is cancelled.
CHECK_DEADLOCK FALSE
