\* ToCapnp is called once and returns: it stops.
SPECIFICATION Spec
CHECK_DEADLOCK FALSE
CONSTANTS
    Files <- DocFiles
    Names <- MCNames
    Camel <- MCCamel
    LowerFirst <- MCLowerFirst
    MentionsOneof <- MCMentionsOneof
INVARIANTS
    UnsupportedSkipped
