\* The command returns, and after the last build nobody edits: it stops.
SPECIFICATION BuildsSpec
CHECK_DEADLOCK FALSE
CONSTANTS
    Files <- BuildFiles
    Names <- MCNames
    Camel <- MCCamel
    LowerFirst <- MCLowerFirst
    MentionsOneof <- MCMentionsOneof
    Edits <- MCEdits
    MaxBuilds = 1
    Exported <- MCExported
    Ordinals <- MCOrdinals
INVARIANTS
    MethodsNumbered
    PlainMethodsExact
    BuildsTypeOK
    RpcsReachClient
    NeverMisdispatched
