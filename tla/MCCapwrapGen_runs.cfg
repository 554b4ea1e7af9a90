\* One good version, one that only Generate rejects, one that only ToCapnp
\* rejects, so that each is new after two others.
SPECIFICATION Spec

CONSTANTS
    Procs = {p1, p2}
    Versions = {v1, v2, v3}
    Translates = {v1, v2}
    Generates = {v1, v3}
    NoFile = NoFile
    Nothing = Nothing
    Torn = Torn

SYMMETRY Symmetry

INVARIANTS
    TypeOK
    RunsAgree
    RejectedKeepsWrapper
    SomeRunSucceeds
